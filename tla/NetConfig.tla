------------------------------ MODULE NetConfig ------------------------------
(***************************************************************************)
(* Network configuration: a request is checked (core/schemas.py 184-300,   *)
(* 1632-2263), turned into an nmcli script, a netplan file or ifcfg files  *)
(* (it/netconfig/generator.py), and the script is run on a machine, where  *)
(* connections fail to come up, the session is cut and the script is run   *)
(* again, also after the request was corrected.                            *)
(*                                                                         *)
(* What a configuration sets up is a set of facts <<what, device, value>>. *)
(* An address is told apart by its prefix only; a gateway is the number of *)
(* leading bits that it shares with the address of its device.  NoValue is *)
(* a field that was not filled in.  Host name, on_link and miimon are left *)
(* out.                                                                    *)
(***************************************************************************)
EXTENDS Integers, SequencesExt

CONSTANTS
  Requests,  \* the requests that may be made, family by family
  Fixes,     \* the requests that an operator may come back with
  MaxRuns,   \* how often a script is run
  MaxCuts    \* how often a run is cut short

NoValue == -1

Width == NoValue..32

Route == [to : {"default", "::/0", "net", "net6"}, via : {"", "v4", "v6"}, metric : Int]

\* The fields that the four kinds of device share.
Settings ==
  [mode : {"static", "dhcp", ""}, ip : BOOLEAN, cidr : Width, netmask : Width,
   gateway : Width, ip6 : BOOLEAN, more6 : BOOLEAN, gateway6 : BOOLEAN,
   mode6 : {"static", "dhcp6", "slaac", "disabled"}, dns : BOOLEAN, routes : SUBSET Route]

Interface == [name : STRING, l3 : Settings]
Bond == [name : STRING, ports : Seq(STRING), level : 0..6, primary : STRING, l3 : Settings]
Vlan == [parent : STRING, id : STRING, l3 : Settings]
Bridge == [name : STRING, ports : Seq(STRING), l3 : Settings]

Request ==
  [os : {"ubuntu", "rhel"}, format : {"nmcli", "netplan", "ifcfg"}, interfaces : Seq(Interface),
   bonds : Seq(Bond), vlans : Seq(Vlan), bridges : Seq(Bridge)]

ASSUME NetConfigAssumption ==
  /\ \A i \in DOMAIN Requests : \A q \in Requests[i] : q \in Request
  /\ \A q \in Fixes : q \in Request
  /\ MaxRuns \in Nat /\ MaxCuts \in Nat

When(condition, facts) == IF condition THEN facts ELSE {}

VlanName(v) == v.parent \o "." \o v.id

Vlans(q) == [i \in DOMAIN q.vlans |-> [name |-> VlanName(q.vlans[i]), l3 |-> q.vlans[i].l3]]

Masters(q) == q.bonds \o q.bridges

Ports(q) == UNION {ToSet(Masters(q)[i].ports) : i \in DOMAIN Masters(q)}

NamesOf(devices) == [i \in DOMAIN devices |-> devices[i].name]

\* The names that the request declares, in the order of the check.
Declared(q) ==
  NamesOf(q.interfaces) \o NamesOf(q.bonds) \o NamesOf(q.bridges) \o NamesOf(Vlans(q))

-----------------------------------------------------------------------------
(* The check of a request. *)

IsV6(x) == x \in {"::/0", "net6", "v6"}

RouteOK(r) ==
  /\ r.to \in {"default", "::/0"} => r.via # ""
  /\ r.via # "" => (IsV6(r.to) <=> IsV6(r.via))

\* The prefix that the gateway is checked with.
CheckedPrefix(o) ==
  IF o.netmask # NoValue THEN o.netmask ELSE IF o.cidr # NoValue THEN o.cidr ELSE 24

DhcpAlone(o) ==
  o.mode = "dhcp" => ~o.ip /\ o.gateway = NoValue /\ o.netmask = NoValue /\ o.cidr = NoValue

CheckL3(o, mustHaveAddress) ==
  /\ o.mode6 # "static" => ~o.ip6 /\ ~o.more6 /\ ~o.gateway6
  /\ o.gateway6 => o.ip6
  /\ DhcpAlone(o)
  /\ o.netmask # NoValue /\ o.cidr # NoValue => o.netmask = o.cidr
  /\ o.mode = "static" /\ mustHaveAddress => o.ip \/ o.ip6
  /\ o.ip /\ o.gateway # NoValue => CheckedPrefix(o) <= o.gateway

NamesOnce(q) == IsInjective(Declared(q))

OnePortOneMaster(q) ==
  \A i, k \in DOMAIN Masters(q) :
    /\ Masters(q)[i].name \notin ToSet(Masters(q)[i].ports)
    /\ i # k => ToSet(Masters(q)[i].ports) \cap ToSet(Masters(q)[k].ports) = {}

PrimaryIsPort(q) ==
  \A i \in DOMAIN q.bonds :
    q.bonds[i].primary # "" => q.bonds[i].primary \in ToSet(q.bonds[i].ports)

\* The first device that lists the port.
MasterOf(q, port) ==
  Masters(q)[SelectInSeq(Masters(q), LAMBDA m : port \in ToSet(m.ports))].name

\* Follow the masters from the end of a chain: the whole chain, and whether it closes.
Chain(q, start, seen) ==
  LET follow[chain \in Seq(STRING)] ==
        LET next == MasterOf(q, Last(chain))
        IN IF next \in ToSet(chain) THEN [chain |-> chain, closes |-> TRUE]
           ELSE IF next \notin Ports(q) \/ next \in seen THEN [chain |-> chain, closes |-> FALSE]
           ELSE follow[Append(chain, next)]
  IN follow[<<start>>]

NoCycle(q) ==
  LET Visit(acc, port) ==
        IF port \in acc.seen THEN acc
        ELSE LET found == Chain(q, port, acc.seen)
             IN [seen |-> acc.seen \cup ToSet(found.chain), cycle |-> acc.cycle \/ found.closes]
  IN ~FoldLeft(Visit, [seen |-> {}, cycle |-> FALSE], SetToSeq(Ports(q))).cycle

CheckReferences(q) ==
  NamesOnce(q) /\ OnePortOneMaster(q) /\ PrimaryIsPort(q) /\ NoCycle(q)

Devices(q) == NamesOf(q.interfaces) \o NamesOf(q.bonds) \o NamesOf(Vlans(q)) \o NamesOf(q.bridges)

Accepts(q) ==
  LET l3s(devices) == {devices[i].l3 : i \in DOMAIN devices}
      virtual == UNION {l3s(q.bonds), l3s(q.vlans), l3s(q.bridges)}
  IN /\ \A o \in l3s(q.interfaces) \cup virtual : \A r \in o.routes : RouteOK(r)
     /\ q.format = "netplan" => q.os = "ubuntu"
     /\ q.format = "ifcfg" => q.os = "rhel"
     /\ Devices(q) # <<>>
     /\ CheckReferences(q)
     /\ \A i \in DOMAIN q.interfaces :
          CheckL3(q.interfaces[i].l3, q.interfaces[i].name \notin Ports(q))
     /\ \A o \in virtual : CheckL3(o, TRUE)

-----------------------------------------------------------------------------
(* What all formats share. *)

\* The devices in the order of all three formats.
Ordered(q) ==
  LET named(devices) == [i \in DOMAIN devices |-> [name |-> devices[i].name, l3 |-> devices[i].l3]]
  IN named(q.interfaces) \o named(q.bonds) \o Vlans(q) \o named(q.bridges)

\* The places of those that get settings of their own: an interface that is a port does not.
Own(q) ==
  {i \in DOMAIN Ordered(q) : i \in DOMAIN q.interfaces => Ordered(q)[i].name \notin Ports(q)}

Place(q, n) == SelectInSeq(Ordered(q), LAMBDA d : d.name = n)

HasDefaultRoute(o) == o.mode # "dhcp" /\ o.ip /\ o.gateway # NoValue

Routed(q) == {i \in Own(q) : HasDefaultRoute(Ordered(q)[i].l3)}

\* The metric of the default route of device n: there is one if there are several.
Metric(q, n) ==
  IF Cardinality(Routed(q)) <= 1 \/ Place(q, n) \notin Routed(q) THEN NoValue
  ELSE 100 * Cardinality({i \in Routed(q) : i <= Place(q, n)})

Prefix(o) == IF o.cidr > 0 THEN o.cidr ELSE IF o.netmask # NoValue THEN o.netmask ELSE 24

V6Addrs(o) == When(o.ip6, {1}) \cup When(o.more6, {2})

RoutesOf(n, o) == {<<"route", n, r>> : r \in o.routes}

\* Mutant of Gateway: the metric is written with an IPv6 address only.
GatewayMetricWithV6(n, o, metric) ==
  When(o.gateway # NoValue,
       {<<"gateway", n, o.gateway>>}
         \cup When(metric # NoValue /\ V6Addrs(o) # {}, {<<"metric", n, metric>>}))

Gateway(n, o, metric) ==
  When(o.gateway # NoValue,
       {<<"gateway", n, o.gateway>>} \cup When(metric # NoValue, {<<"metric", n, metric>>}))

Dns(n, o) == When(o.dns, {<<"dns", n, 1>>})

-----------------------------------------------------------------------------
(* The nmcli script. *)

Ipv6Lines(n, o) ==
  IF o.mode6 # "static" THEN {<<"method6", n, o.mode6>>}
  ELSE When(V6Addrs(o) # {},
            {<<"method6", n, "manual">>, <<"addr6", n, V6Addrs(o)>>}
              \cup When(o.gateway6, {<<"gateway6", n, 1>>}))

Ipv4Lines(n, o, metric) ==
  (IF o.ip THEN {<<"method4", n, "manual">>, <<"ip", n, Prefix(o)>>} \cup Gateway(n, o, metric)
   ELSE {<<"method4", n, "auto">>})
    \cup Ipv6Lines(n, o) \cup Dns(n, o) \cup RoutesOf(n, o)

Add(con, facts) == [do |-> "add", con |-> con, facts |-> facts]
Modify(con, facts) == [do |-> "modify", con |-> con, facts |-> facts]
Up(con) == [do |-> "up", con |-> con, facts |-> {}]
UpOrStop(con) == [do |-> "up or stop", con |-> con, facts |-> {}]

OwnLines(q, n, o, kind) ==
  <<Add(n, {<<"type", n, kind[1]>>} \cup kind[2]), Modify(n, Ipv4Lines(n, o, Metric(q, n)))>>

PortLines(master, infix, ports) ==
  FlattenSeq([i \in DOMAIN ports |->
                LET con == master \o infix \o ports[i]
                IN <<Add(con, {<<"master", ports[i], master>>}), UpOrStop(con)>>])

IfaceLines(q, o) == OwnLines(q, o.name, o.l3, <<"ethernet", {}>>) \o <<Up(o.name)>>

BondLines(q, o) ==
  OwnLines(q, o.name, o.l3, <<"bond", {<<"bond", o.name, <<o.level, o.primary>> >>}>>)
    \o PortLines(o.name, "-slave-", o.ports) \o <<Up(o.name)>>

VlanLines(q, o) ==
  OwnLines(q, VlanName(o), o.l3, <<"vlan", {<<"link", VlanName(o), o.parent>>}>>)
    \o <<Up(VlanName(o))>>

BridgeLines(q, o) ==
  OwnLines(q, o.name, o.l3, <<"bridge", {}>>) \o PortLines(o.name, "-port-", o.ports) \o <<Up(o.name)>>

Script(q) ==
  FlattenSeq([i \in DOMAIN q.interfaces |->
                IF q.interfaces[i].name \in Ports(q) THEN <<>> ELSE IfaceLines(q, q.interfaces[i])]
             \o [i \in DOMAIN q.bonds |-> BondLines(q, q.bonds[i])]
             \o [i \in DOMAIN q.vlans |-> VlanLines(q, q.vlans[i])]
             \o [i \in DOMAIN q.bridges |-> BridgeLines(q, q.bridges[i])])

-----------------------------------------------------------------------------
(* The netplan file. *)

VirtualNames(q) == NamesOf(q.bonds) \o NamesOf(Vlans(q)) \o NamesOf(q.bridges)

Parents(q) == {q.vlans[i].parent : i \in DOMAIN q.vlans}

\* Mutant of ImplicitIfaces: the parents of VLANs are forgotten.
ImplicitPorts(q) == Ports(q) \ (ToSet(NamesOf(q.interfaces)) \cup ToSet(VirtualNames(q)))

\* Named as a port or a parent, and not declared: they are added to the file.
ImplicitIfaces(q) ==
  (Ports(q) \cup Parents(q)) \ (ToSet(NamesOf(q.interfaces)) \cup ToSet(VirtualNames(q)))

\* The keys of the file, section after section.
NetplanKeys(q) ==
  NamesOf(q.interfaces) \o SetToSeq(ImplicitIfaces(q)) \o VirtualNames(q)

NetplanAddresses(n, o) ==
  When(o.ip, {<<"method4", n, "manual">>, <<"ip", n, Prefix(o)>>})
    \cup When(V6Addrs(o) # {}, {<<"method6", n, "manual">>, <<"addr6", n, V6Addrs(o)>>})

NetplanRoutes(n, o, metric) ==
  Gateway(n, o, metric) \cup RoutesOf(n, o) \cup When(o.gateway6, {<<"gateway6", n, 1>>})

NetplanV6Mode(n, o) == When(o.mode6 # "static", {<<"method6", n, o.mode6>>})

\* Mutant of NetplanAddrBlock: the branch for DHCP returns early.
NetplanAddrBlockReturns(n, o, dhcpDefault, metric) ==
  IF o.mode = "dhcp" THEN {<<"method4", n, "auto">>}
  ELSE NetplanAddresses(n, o) \cup NetplanV6Mode(n, o) \cup NetplanRoutes(n, o, metric)
         \cup When(~o.ip /\ dhcpDefault, {<<"method4", n, "auto">>})
         \cup When(o.ip \/ dhcpDefault, Dns(n, o))

NetplanAddrBlock(n, o, dhcpDefault, metric) ==
  LET dhcp == o.mode = "dhcp" \/ (~o.ip /\ dhcpDefault)
  IN When(dhcp, {<<"method4", n, "auto">>})
       \cup NetplanAddresses(n, o) \cup NetplanV6Mode(n, o) \cup NetplanRoutes(n, o, metric)
       \cup When(dhcp \/ o.ip, Dns(n, o))

NetplanDevice(q, n, o, kind, dhcpDefault) ==
  {<<"type", n, kind>>} \cup NetplanAddrBlock(n, o, dhcpDefault, Metric(q, n))

NetplanPorts(m) == {<<"master", p, m.name>> : p \in ToSet(m.ports)}

NetplanEthernets(q) ==
  {<<"type", n, "ethernet">> : n \in ImplicitIfaces(q)}
    \cup UNION {IF o.name \in Ports(q) THEN {<<"type", o.name, "ethernet">>}
               ELSE NetplanDevice(q, o.name, o.l3, "ethernet", TRUE) : o \in ToSet(q.interfaces)}

Netplan(q) ==
  UNION {NetplanEthernets(q),
         UNION {NetplanDevice(q, o.name, o.l3, "bond", FALSE) \cup NetplanPorts(o)
                  \cup {<<"bond", o.name, <<o.level, o.primary>> >>} : o \in ToSet(q.bonds)},
         UNION {NetplanDevice(q, VlanName(o), o.l3, "vlan", FALSE)
                  \cup {<<"link", VlanName(o), o.parent>>} : o \in ToSet(q.vlans)},
         UNION {NetplanDevice(q, o.name, o.l3, "bridge", FALSE) \cup NetplanPorts(o) :
                  o \in ToSet(q.bridges)}}

-----------------------------------------------------------------------------
(* The ifcfg files. *)

IpLines(n, o, metric) ==
  (IF o.mode = "dhcp" \/ ~o.ip THEN {<<"method4", n, "auto">>}
   ELSE {<<"method4", n, "manual">>, <<"ip", n, Prefix(o)>>} \cup Gateway(n, o, metric))
    \cup Ipv6Lines(n, o) \cup Dns(n, o)

\* What of its settings a device that is not an interface is written with.
Passed(o) == [o EXCEPT !.more6 = FALSE, !.mode6 = "static"]

IfcfgPort(q, p) == <<p, {<<"type", p, "ethernet">>, <<"master", p, MasterOf(q, p)>>}>>

IfcfgDevice(q, n, o, facts) == <<n, facts \cup IpLines(n, o, Metric(q, n)) \cup RoutesOf(n, o)>>

IfcfgIface(q, o) ==
  IF o.name \in Ports(q) THEN IfcfgPort(q, o.name)
  ELSE IfcfgDevice(q, o.name, o.l3, {<<"type", o.name, "ethernet">>})

IfcfgBond(q, o) ==
  LET level == IF o.level = 0 THEN 1 ELSE o.level
  IN IfcfgDevice(q, o.name, Passed(o.l3),
                 {<<"type", o.name, "bond">>, <<"bond", o.name, <<level, o.primary>> >>})

\* The files in the order in which they are written; the last of a name stays.
IfcfgWrites(q) ==
  [i \in DOMAIN q.interfaces |-> IfcfgIface(q, q.interfaces[i])]
    \o LET implied == SetToSeq(Ports(q) \ ToSet(NamesOf(q.interfaces)))
       IN [i \in DOMAIN implied |-> IfcfgPort(q, implied[i])]
    \o [i \in DOMAIN q.bonds |-> IfcfgBond(q, q.bonds[i])]
    \o [i \in DOMAIN q.vlans |->
          LET v == q.vlans[i]
          IN IfcfgDevice(q, VlanName(v), Passed(v.l3),
                         {<<"type", VlanName(v), "vlan">>, <<"link", VlanName(v), v.parent>>})]
    \o [i \in DOMAIN q.bridges |->
          IfcfgDevice(q, q.bridges[i].name, Passed(q.bridges[i].l3),
                      {<<"type", q.bridges[i].name, "bridge">>})]

Ifcfg(q) ==
  LET writes == IfcfgWrites(q)
  IN UNION {writes[i][2] : i \in {j \in DOMAIN writes :
              \A k \in DOMAIN writes : writes[k][1] = writes[j][1] => k <= j}}

-----------------------------------------------------------------------------
(* The machine. *)

VARIABLES
  request,
  outcome,   \* of the request, and of the last run of its script
  script,    \* the script that was made from it
  line,      \* the next line of the script
  failed,    \* FAILED of the script
  profiles,  \* the connection profiles of NetworkManager, by their name
  active,    \* the connections that came up in this run
  runs, cuts,
  fixed,     \* history: the request was corrected after a run
  former     \* history: the request before it was corrected

netVars == <<request, outcome, script, line, failed, profiles, active, runs, cuts, fixed, former>>

NetTypeOK ==
  /\ outcome \in {"new", "refused", "file", "script", "running", "aborted", "failed", "ok"}
  /\ line \in Nat /\ failed \in BOOLEAN /\ fixed \in BOOLEAN
  /\ active \subseteq DOMAIN profiles
  /\ runs \in 0..MaxRuns /\ cuts \in 0..MaxCuts

NetInit ==
  /\ \E i \in DOMAIN Requests : request \in Requests[i]
  /\ outcome = "new"
  /\ script = <<>> /\ line = 0 /\ failed = FALSE
  /\ profiles = <<>> /\ active = {}
  /\ runs = 0 /\ cuts = 0 /\ fixed = FALSE /\ former = request

Generate ==
  /\ outcome = "new"
  /\ outcome' = IF ~Accepts(request) THEN "refused"
                ELSE IF request.format = "nmcli" THEN "script" ELSE "file"
  /\ script' = IF outcome' = "script" THEN Script(request) ELSE <<>>
  /\ UNCHANGED <<request, line, failed, profiles, active, runs, cuts, fixed, former>>

Run ==
  /\ outcome \in {"script", "aborted", "failed", "ok"} /\ runs < MaxRuns
  /\ outcome' = "running" /\ line' = 1 /\ failed' = FALSE
  /\ active' = {} /\ runs' = runs + 1
  /\ UNCHANGED <<request, script, profiles, cuts, fixed, former>>

AtLine(kind) ==
  /\ outcome = "running" /\ line <= Len(script)
  /\ script[line].do = kind

Here == script[line]

\* nmcli connection show ... || nmcli connection add ...
IdemAdd ==
  /\ AtLine("add")
  /\ profiles' = [c \in DOMAIN profiles \cup {Here.con} |->
                    IF c \in DOMAIN profiles THEN profiles[c] ELSE Here.facts]
  /\ line' = line + 1
  /\ UNCHANGED <<request, outcome, script, failed, active, runs, cuts, fixed, former>>

\* A property that is given replaces its value; routes are added with a plus sign.
Replaces(f, g) == f[1] = g[1] /\ f[1] # "route"

ModifyProfile ==
  /\ AtLine("modify")
  /\ profiles' = [profiles EXCEPT ![Here.con] =
                    {f \in @ : \A g \in Here.facts : ~Replaces(g, f)} \cup Here.facts]
  /\ line' = line + 1
  /\ UNCHANGED <<request, outcome, script, failed, active, runs, cuts, fixed, former>>

ComesUp ==
  /\ AtLine("up") \/ AtLine("up or stop")
  /\ active' = active \cup {Here.con}
  /\ line' = line + 1
  /\ UNCHANGED <<request, outcome, script, failed, profiles, runs, cuts, fixed, former>>

\* Mutant of FailsToComeUp: the failure is not noted.
FailsUnnoticed ==
  /\ AtLine("up")
  /\ line' = line + 1
  /\ UNCHANGED <<request, outcome, script, failed, profiles, active, runs, cuts, fixed, former>>

FailsToComeUp ==
  /\ AtLine("up")
  /\ failed' = TRUE /\ line' = line + 1
  /\ UNCHANGED <<request, outcome, script, profiles, active, runs, cuts, fixed, former>>

\* The line for a port has no "||": set -e ends the script.
PortFailsToComeUp ==
  /\ AtLine("up or stop")
  /\ outcome' = "aborted"
  /\ UNCHANGED <<request, script, line, failed, profiles, active, runs, cuts, fixed, former>>

\* The session over which the script runs is gone, or an add or a modify fails, after
\* which set -e ends the script as well.
Cut ==
  /\ outcome = "running" /\ cuts < MaxCuts
  /\ outcome' = "aborted" /\ cuts' = cuts + 1
  /\ UNCHANGED <<request, script, line, failed, profiles, active, runs, fixed, former>>

End ==
  /\ outcome = "running" /\ line > Len(script)
  /\ outcome' = IF failed THEN "failed" ELSE "ok"
  /\ UNCHANGED <<request, script, line, failed, profiles, active, runs, cuts, fixed, former>>

\* The same devices with other settings, those of a bond included.
SameDevices(p, q) ==
  LET Bare(o) == [o EXCEPT !.l3 = 0]
      bare(devices) == [i \in DOMAIN devices |-> Bare(devices[i])]
      bareBonds(bonds) == [i \in DOMAIN bonds |-> [bonds[i] EXCEPT !.l3 = 0, !.level = 0, !.primary = ""]]
  IN /\ p.format = q.format
     /\ bare(p.interfaces) = bare(q.interfaces) /\ bareBonds(p.bonds) = bareBonds(q.bonds)
     /\ bare(p.vlans) = bare(q.vlans) /\ bare(p.bridges) = bare(q.bridges)

\* After a failure the operator corrects the settings, and runs the new script.
Fix ==
  /\ outcome \in {"aborted", "failed"} /\ ~fixed
  /\ \E q \in Fixes \ {request} :
       SameDevices(q, request) /\ Accepts(q) /\ request' = q /\ script' = Script(q)
  /\ outcome' = "script" /\ fixed' = TRUE /\ former' = request
  /\ UNCHANGED <<line, failed, profiles, active, runs, cuts>>

NetNext ==
  \/ Generate \/ Run \/ IdemAdd \/ ModifyProfile
  \/ ComesUp \/ FailsToComeUp \/ PortFailsToComeUp
  \/ Cut \/ End \/ Fix

NetSpec == NetInit /\ [][NetNext]_netVars

-----------------------------------------------------------------------------
(* Safety. *)

SettingsOf(q, n) == Ordered(q)[Place(q, n)].l3

\* What a device is asked to have.
AskedOf(n, o) ==
  UNION {When(o.ip, {<<"method4", n, "manual">>, <<"ip", n, CheckedPrefix(o)>>}),
         When(o.mode = "dhcp", {<<"method4", n, "auto">>}),
         When(o.ip /\ o.gateway # NoValue, {<<"gateway", n, o.gateway>>}),
         When(o.dns /\ (o.ip \/ o.mode = "dhcp"), {<<"dns", n, 1>>}),
         When(V6Addrs(o) # {}, {<<"method6", n, "manual">>, <<"addr6", n, V6Addrs(o)>>}),
         When(o.gateway6, {<<"gateway6", n, 1>>}),
         When(o.mode6 # "static", {<<"method6", n, o.mode6>>}),
         {<<"route", n, r>> : r \in o.routes}}

Asked(q) ==
  UNION {UNION {AskedOf(Ordered(q)[i].name, Ordered(q)[i].l3) : i \in Own(q)},
         UNION {{<<"master", p, Masters(q)[i].name>> : p \in ToSet(Masters(q)[i].ports)} :
                  i \in DOMAIN Masters(q)},
         {<<"bond", b.name, <<b.level, b.primary>> >> : b \in ToSet(q.bonds)},
         {<<"link", VlanName(v), v.parent>> : v \in ToSet(q.vlans)}}

Given ==
  CASE request.format = "netplan" -> Netplan(request)
    [] request.format = "ifcfg" -> Ifcfg(request)
    [] OTHER -> UNION {profiles[c] : c \in DOMAIN profiles}

\* The configuration is whole: it is a file, or its script has come to its end.
Whole == outcome \in {"file", "failed", "ok"}

\* What ifcfg files leave out: IPv6 modes and further addresses of a device that is not
\* an interface, the master of a port that is itself a bond or a VLAN, bond mode 0.
IfcfgLeavesOut(q, f) ==
  /\ q.format = "ifcfg"
  /\ \/ /\ f[1] \in {"method6", "addr6"} /\ f[2] \notin ToSet(NamesOf(q.interfaces))
        /\ SettingsOf(q, f[2]).more6 \/ SettingsOf(q, f[2]).mode6 # "static"
     \/ f[1] = "master" /\ f[2] \in ToSet(VirtualNames(q))
     \/ f[1] = "bond" /\ f[3][1] = 0

\* The schema reads a prefix of 0 as a prefix, the generators as none.
PrefixZero(q, n) == SettingsOf(q, n).cidr = 0

\* What an nmcli script leaves out, as it takes any connection of a name for the one that
\* it would add (generator.py 342-350): of two connections of one name - that of a port is
\* made of two (402, 429) - one is not made, and the options of a bond are not corrected.
AddSkipped(q, f) ==
  /\ q.format = "nmcli"
  /\ \/ fixed /\ f[1] = "bond"
     \/ \E l, m \in ToSet(Script(q)) :
          l.do = "add" /\ m.do = "add" /\ l.con = m.con /\ f \in l.facts \ m.facts

\* Nothing that an accepted request asks for is dropped on the way (generator.py 285-290,
\* 606-608, 627; schemas.py 203): it is in the file, or in the profiles once the
\* script has come to its end, whichever connection failed, however often the script was
\* cut and run again, and after its settings were corrected.
WhatIsAskedIsSet ==
  Whole => \A f \in Asked(request) :
             \/ f \in Given \/ IfcfgLeavesOut(request, f) \/ AddSkipped(request, f)
             \/ f[1] = "ip" /\ PrefixZero(request, f[2])

\* What q sets up: besides what it asks for, a device without an IPv4 address may get one
\* by DHCP, and a gateway without an address is written by netplan alone.
MayBeSet(q, f) ==
  \/ f \in Asked(q) \/ f[1] \in {"type", "metric"}
  \/ /\ \E i \in Own(q) : f[2] = Ordered(q)[i].name
     /\ LET o == SettingsOf(q, f[2])
        IN \/ f[1] = "method4" /\ f[3] = "auto" /\ ~o.ip
           \/ f[1] = "dns" /\ o.dns
           \/ f[1] = "gateway" /\ ~o.ip /\ q.format = "netplan"
           \/ f[1] = "ip" /\ PrefixZero(q, f[2])
           \/ IfcfgLeavesOut(q, f)
  \/ /\ q.format = "ifcfg" /\ f[1] = "bond" /\ f[3][1] = 1
     /\ <<"bond", f[2], <<0, f[3][2]>> >> \in Asked(q)

\* What a correction leaves of the request before it: routes, bond options, and what the
\* request after it does not set.
LeftBehind(f) ==
  /\ fixed /\ MayBeSet(former, f)
  /\ f[1] \in {"route", "bond"} \/ \A g \in Asked(request) : g[1] = f[1] => g[2] # f[2]

\* What is not asked for is not set up, and what is asked for anew replaces what was
\* there.
NothingElseIsSet == Whole => \A f \in Given : MayBeSet(request, f) \/ LeftBehind(f)

\* A request is set up as it is, in every format.
ExactlyWhatIsAsked == WhatIsAskedIsSet /\ NothingElseIsSet

\* The gateways of devices that have an address are reached from that address, and if
\* there are several, their routes have metrics of their own, in the order of the request
\* and the same in all formats (generator.py 131-141, 301-304; schemas.py 2087-2090).
DefaultRoutesWork ==
  Whole /\ ~fixed =>
    LET gateways == {f \in Given : f[1] = "gateway" /\ SettingsOf(request, f[2]).ip}
        metrics(n) == {f[3] : f \in {g \in Given : g[1] = "metric" /\ g[2] = n}}
    IN /\ \A f \in gateways : \E g \in Given :
            g[1] = "ip" /\ g[2] = f[2] /\ (g[3] <= f[3] \/ PrefixZero(request, f[2]))
       /\ \A f, g \in gateways :
            Place(request, f[2]) < Place(request, g[2]) =>
              \E a \in metrics(f[2]), b \in metrics(g[2]) : a < b /\ metrics(f[2]) = {a}

\* What netplan makes of the file (schemas.py 2150-2172): every name is defined once,
\* ports and parents are defined, a port has one master, and no masters form a ring.
NetplanLoads(q) ==
  LET keys == NetplanKeys(q)
      edges == UNION {{<<p, i>> : p \in ToSet(Masters(q)[i].ports)} : i \in DOMAIN Masters(q)}
  IN /\ IsInjective(keys)
     /\ Ports(q) \cup Parents(q) \subseteq ToSet(keys)
     /\ \A e, f \in edges : e[1] = f[1] => e = f
     /\ \A S \in (SUBSET Ports(q)) \ {{}} :
          \E p \in S : \A e \in edges : e[1] = p => Masters(q)[e[2]].name \notin S

\* The check of references refuses what netplan does not load or what forms a ring, and,
\* but for a primary that is no port, nothing else.
LoadsOrRefused ==
  outcome \in {"refused", "file", "script"} /\ runs = 0 =>
    (CheckReferences(request) <=> NetplanLoads(request) /\ PrimaryIsPort(request))

\* Exit status 0 says that every connection of the script came up in this very run
\* (generator.py 447-450, 482-485).
ExitZeroMeansUp ==
  outcome = "ok" => {script[i].con : i \in DOMAIN script} \subseteq active

\* The comment of generator.py 347, that the modify after a skipped add overwrites the
\* settings: after a correction everything is set as the corrected request asks.
RerunOverwrites == Whole /\ fixed => Asked(request) \subseteq Given
=============================================================================
