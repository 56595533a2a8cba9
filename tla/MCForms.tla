------------------------------ MODULE MCForms ------------------------------
(***************************************************************************)
(* The two forms of the web interface that become files: DiskPlan and      *)
(* NetConfig.  A behaviour is about one form, and the other was refused.   *)
(***************************************************************************)
EXTENDS MCDiskPlan, MCNetConfig

NoDisk == form = Plain /\ stage = "refused" /\ machine = <<>> /\ names = <<>>
            /\ picked = Nothing /\ touched = {} /\ boots = 0

NoNet == request = R0 /\ outcome = "refused" /\ script = <<>> /\ line = 0 /\ failed = FALSE
           /\ profiles = <<>> /\ active = {} /\ runs = 0 /\ cuts = 0 /\ fixed = FALSE
           /\ former = R0

MCInit == (Init /\ NoNet) \/ (NetInit /\ NoDisk)

MCNext == (Next /\ UNCHANGED netVars) \/ (NetNext /\ UNCHANGED vars)

MCSpec == MCInit /\ [][MCNext]_<<vars, netVars>>
=============================================================================
