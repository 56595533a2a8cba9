--------------------------- MODULE ServicesProofs ---------------------------
(***************************************************************************)
(* Theorems about two services that many share: EnvKeys, for any number of *)
(* processes, values and crashes, and AlertNotify, for any number of       *)
(* alerts, events and persons, any window and any length of time.          *)
(***************************************************************************)
EXTENDS AlertNotify, EnvKeys, FiniteSetTheorems, TLAPS

-----------------------------------------------------------------------------
(* The sum of the counts of some records, which MergedIn folds in some order *)

\* Some set of the sets in T has none of the others in it.
LEMMA LeastSet ==
  ASSUME NEW S, IsFiniteSet(S), NEW T \in SUBSET SUBSET S, T # {}
  PROVE  \E s \in T : \A t \in T : t \subseteq s => t = s
<1> DEFINE R == StrictSubsetOrdering(S)
<1>1. IsWellFoundedOn(R, SUBSET S)
  BY FS_StrictSubsetOrderingWellFounded, FS_FiniteSubsetsOfFinite
<1>2. \A s, t \in SUBSET S : t \subseteq s /\ t # s => <<t, s>> \in R
  BY DEF StrictSubsetOrdering
<1> HIDE DEF R
<1>3. PICK s \in T : \A t \in T : <<t, s>> \notin R
  BY <1>1, WFMin
<1> QED
  BY <1>2, <1>3

\* The element that FoldSet takes first.
Chosen(s) == CHOOSE x \in s : TRUE

\* What MergedIn computes for some function f, set by set.
Sums(f, S, R) ==
  f = [s \in SUBSET S |-> IF s = {} THEN 0 ELSE R[Chosen(s)].merged + f[s \ {Chosen(s)}]]

\* Two that count the same in a set agree on it.
LEMMA SumsAgree ==
  ASSUME NEW S, NEW U, NEW R, NEW Q, NEW f, NEW g, Sums(f, S, R), Sums(g, U, Q),
         NEW t \in SUBSET (S \cap U), IsFiniteSet(t), \A x \in t : R[x].merged = Q[x].merged
  PROVE  f[t] = g[t]
<1> DEFINE T == {s \in SUBSET t : f[s] # g[s]}
<1> SUFFICES ASSUME T # {} PROVE FALSE
  OBVIOUS
<1>1. PICK s \in T : \A r \in T : r \subseteq s => r = s
  <2>1. T \in SUBSET SUBSET t
    OBVIOUS
  <2> HIDE DEF T
  <2> QED
    BY <2>1, LeastSet
<1>2. /\ s \in SUBSET t /\ f[s] # g[s]
      /\ f[s] = IF s = {} THEN 0 ELSE R[Chosen(s)].merged + f[s \ {Chosen(s)}]
      /\ g[s] = IF s = {} THEN 0 ELSE Q[Chosen(s)].merged + g[s \ {Chosen(s)}]
  BY DEF Sums
<1>3. s # {}
  BY <1>2
<1>4. Chosen(s) \in s
  BY <1>3 DEF Chosen
<1>5. s \ {Chosen(s)} \notin T
  BY <1>1, <1>4
<1>6. f[s \ {Chosen(s)}] = g[s \ {Chosen(s)}]
  BY <1>2, <1>5
<1> QED
  BY <1>2, <1>3, <1>4, <1>6

\* There is such a function, so that the recursion in MapThenFoldSet defines something.
LEMMA SumsExist ==
  ASSUME NEW S, IsFiniteSet(S), NEW R
  PROVE  \E f : Sums(f, S, R)
<1> DEFINE T == {s \in SUBSET S : \A f : ~Sums(f, s, R)}
<1> SUFFICES ASSUME T # {} PROVE FALSE
  OBVIOUS
<1>1. PICK s \in T : \A t \in T : t \subseteq s => t = s
  <2>1. T \in SUBSET SUBSET S
    OBVIOUS
  <2> HIDE DEF T
  <2> QED
    BY <2>1, LeastSet
<1>2. s \in SUBSET S /\ \A f : ~Sums(f, s, R)
  OBVIOUS
<1> DEFINE F(t) == CHOOSE f : Sums(f, t, R)
           V(t) == IF t = {} THEN 0 ELSE R[Chosen(t)].merged + F(t \ {Chosen(t)})[t \ {Chosen(t)}]
           g == [t \in SUBSET s |-> V(t)]
<1>3. ASSUME NEW t \in SUBSET s, t # s
      PROVE  Sums(F(t), t, R)
  BY <1>1, <1>2, <1>3
<1> HIDE DEF T, F
<1>4. ASSUME NEW t \in SUBSET s, t # s
      PROVE  F(t)[t] = V(t)
  <2>1. F(t)[t] = IF t = {} THEN 0 ELSE R[Chosen(t)].merged + F(t)[t \ {Chosen(t)}]
    BY <1>3, <1>4 DEF Sums
  <2>2. CASE t = {}
    BY <2>1, <2>2
  <2>3. CASE t # {}
    <3> DEFINE u == t \ {Chosen(t)}
    <3>1. Chosen(t) \in t /\ Chosen(t) \notin u /\ u \in SUBSET s /\ u \in SUBSET t /\ u # s
      BY <2>3 DEF Chosen
    <3>2. IsFiniteSet(u)
      BY <1>2, <3>1, FS_Subset
    <3>3. Sums(F(t), t, R) /\ Sums(F(u), u, R)
      BY <1>3, <1>4, <3>1
    <3>4. F(t)[u] = F(u)[u]
      BY <3>1, <3>2, <3>3, SumsAgree
    <3> QED
      BY <2>1, <2>3, <3>4
  <2> QED
    BY <2>2, <2>3
<1>5. ASSUME NEW t \in SUBSET s
      PROVE  g[t] = IF t = {} THEN 0 ELSE R[Chosen(t)].merged + g[t \ {Chosen(t)}]
  <2>1. CASE t = {}
    BY <2>1
  <2>2. CASE t # {}
    <3> DEFINE u == t \ {Chosen(t)}
    <3>1. u \in SUBSET s /\ u # s
      BY <2>2 DEF Chosen
    <3>2. g[u] = F(u)[u]
      BY <1>4, <3>1
    <3> QED
      BY <2>2, <3>2
  <2> QED
    BY <2>1, <2>2
<1>6. Sums(g, s, R)
  <2>1. g = [t \in SUBSET s |-> g[t]]
    OBVIOUS
  <2> HIDE DEF g
  <2> QED
    BY <1>5, <2>1 DEF Sums
<1> QED
  BY <1>2, <1>6

\* The sum of the counts of the records R in S.
Total(S, R) == FoldSet(LAMBDA i, n : R[i].merged + n, 0, S)

LEMMA TotalIs ==
  ASSUME NEW S, IsFiniteSet(S), NEW R
  PROVE  \E f : Sums(f, S, R) /\ Total(S, R) = f[S]
<1> DEFINE f == CHOOSE g : Sums(g, S, R)
<1>1. Sums(f, S, R)
  BY SumsExist
<1>2. Total(S, R) = f[S]
  BY DEF Total, FoldSet, MapThenFoldSet, Sums, Chosen
<1> QED
  BY <1>1, <1>2

\* In whatever order: any element may be taken first.
LEMMA AnyFirst ==
  ASSUME NEW S, IsFiniteSet(S), NEW R, \A i \in S : R[i].merged \in Nat, NEW f, Sums(f, S, R)
  PROVE  \A s \in SUBSET S : f[s] \in Nat /\ \A i \in s : f[s] = R[i].merged + f[s \ {i}]
<1> DEFINE Good(s) == f[s] \in Nat /\ \A i \in s : f[s] = R[i].merged + f[s \ {i}]
           T == {s \in SUBSET S : ~Good(s)}
<1> SUFFICES ASSUME T # {} PROVE FALSE
  OBVIOUS
<1>1. PICK s \in T : \A t \in T : t \subseteq s => t = s
  <2>1. T \in SUBSET SUBSET S
    OBVIOUS
  <2> HIDE DEF T
  <2> QED
    BY <2>1, LeastSet
<1>2. s \in SUBSET S /\ ~Good(s)
  OBVIOUS
<1>3. \A t \in SUBSET S : t \subseteq s /\ t # s => Good(t)
  BY <1>1
<1> HIDE DEF T
<1>4. \A t \in SUBSET S : f[t] = IF t = {} THEN 0 ELSE R[Chosen(t)].merged + f[t \ {Chosen(t)}]
  BY DEF Sums
<1>5. CASE s = {}
  <2>1. f[s] = 0
    BY <1>2, <1>4, <1>5
  <2> QED
    BY <1>2, <1>5, <2>1
<1>6. CASE s # {}
  <2> PICK c : c = Chosen(s)
    OBVIOUS
  <2>1. c \in s
    BY <1>6 DEF Chosen
  <2>2. f[s] = R[c].merged + f[s \ {c}] /\ R[c].merged \in Nat
    BY <1>2, <1>4, <1>6, <2>1
  <2>3. Good(s \ {c})
    BY <1>2, <1>3, <2>1
  <2>4. ASSUME NEW i \in s
        PROVE  f[s] = R[i].merged + f[s \ {i}]
    <3>1. CASE i = c
      BY <2>2, <3>1
    <3>2. CASE i # c
      <4> DEFINE u == (s \ {c}) \ {i}
      <4>1. u = (s \ {i}) \ {c} /\ i \in s \ {c} /\ c \in s \ {i}
        BY <2>1, <3>2
      <4>2. Good(s \ {i}) /\ Good(u) /\ R[i].merged \in Nat
        BY <1>2, <1>3, <2>1, <3>2
      <4>3. f[s \ {c}] = R[i].merged + f[u]
        BY <2>3, <4>1
      <4>4. f[s \ {i}] = R[c].merged + f[u]
        BY <4>1, <4>2
      <4>5. f[u] \in Nat
        BY <4>2
      <4> HIDE DEF u
      <4> QED
        BY <2>2, <4>2, <4>3, <4>4, <4>5
    <3> QED
      BY <3>1, <3>2
  <2>5. f[s \ {c}] \in Nat
    BY <2>3
  <2>6. f[s] \in Nat
    BY <2>2, <2>5
  <2> QED
    BY <1>2, <2>4, <2>6
<1> QED
  BY <1>5, <1>6

LEMMA TotalOfNone == ASSUME NEW R PROVE Total({}, R) = 0
<1>1. PICK f : Sums(f, {}, R) /\ Total({}, R) = f[{}]
  BY TotalIs, FS_EmptySet
<1> QED
  BY <1>1 DEF Sums

\* Only the counts in S matter.
LEMMA TotalSame ==
  ASSUME NEW S, IsFiniteSet(S), NEW R, NEW Q, \A i \in S : R[i].merged = Q[i].merged
  PROVE  Total(S, R) = Total(S, Q)
<1>1. PICK f : Sums(f, S, R) /\ Total(S, R) = f[S]
  BY TotalIs
<1>2. PICK g : Sums(g, S, Q) /\ Total(S, Q) = g[S]
  BY TotalIs
<1> QED
  BY <1>1, <1>2, SumsAgree

\* One element is taken out.
LEMMA TotalWithout ==
  ASSUME NEW S, IsFiniteSet(S), NEW R, \A j \in S : R[j].merged \in Nat, NEW i \in S
  PROVE  Total(S, R) = R[i].merged + Total(S \ {i}, R) /\ Total(S \ {i}, R) \in Nat
<1>1. PICK f : Sums(f, S, R) /\ Total(S, R) = f[S]
  BY TotalIs
<1>2. IsFiniteSet(S \ {i})
  BY FS_Subset
<1>3. PICK g : Sums(g, S \ {i}, R) /\ Total(S \ {i}, R) = g[S \ {i}]
  BY <1>2, TotalIs
<1>4. f[S \ {i}] = g[S \ {i}]
  BY <1>1, <1>2, <1>3, SumsAgree
<1>5. \A s \in SUBSET S : f[s] \in Nat /\ \A k \in s : f[s] = R[k].merged + f[s \ {k}]
  BY <1>1, AnyFirst
<1>6. S \in SUBSET S /\ S \ {i} \in SUBSET S
  OBVIOUS
<1>7. f[S] = R[i].merged + f[S \ {i}] /\ f[S \ {i}] \in Nat
  BY <1>5, <1>6
<1> QED
  BY <1>1, <1>3, <1>4, <1>7

\* The table's counts, seen as a total.
LEMMA MergedInIs ==
  /\ \A e \in Event : MergedIn(RowsOf(e)) = Total(RowsOf(e), rows)
  /\ \A e \in Event : MergedIn(RowsOf(e))' = Total(RowsOf(e)', rows')
BY DEF MergedIn, Total, FoldSet, MapThenFoldSet

-----------------------------------------------------------------------------
USE AlertAssumption, EnvKeysAssumption

-----------------------------------------------------------------------------
(* EnvKeys: definitions and lemmas *)

LockHeld == {p \in Process : proc[p].at \in Locked} = {lock} \ {NoHolder}

\* A process that moves takes the lock along, and leaves it with the locked part.
LEMMA EnvMoves ==
  ASSUME EnvTypeOK, NEW p \in Process, NEW step \in KeySteps, Move(p, step),
         step.at \in Locked => lock \in {p, NoHolder} /\ lock' = p,
         step.at \notin Locked => lock' = IF lock = p THEN NoHolder ELSE lock
  PROVE  proc' \in [Process -> KeySteps] /\ LockHeld'
<1>1. /\ proc' \in [Process -> KeySteps]
      /\ proc'[p] = step
      /\ \A q \in Process \ {p} : proc'[q] = proc[q]
  BY DEF EnvTypeOK, Move
<1>2. /\ lock \in Process \cup {NoHolder}
      /\ \A q \in Process : proc[q].at \in Locked <=> lock = q
  BY DEF EnvTypeOK
<1>3. /\ lock' \in Process \cup {NoHolder}
      /\ \A q \in Process : proc'[q].at \in Locked <=> lock' = q
  <2>1. CASE step.at \in Locked
    BY <1>1, <1>2, <2>1
  <2>2. CASE step.at \notin Locked
    BY <1>1, <1>2, <2>2
  <2> QED
    BY <2>1, <2>2
<1> QED
  BY <1>1, <1>3 DEF LockHeld

\* The forms in which a process moves on.
LEMMA EnvSteps ==
  ASSUME NEW s \in KeySteps
  PROVE  /\ \A k \in Key, v \in Value : [s EXCEPT !.key = k, !.set = v] \in KeySteps
         /\ \A at \in Locked, l \in [Key -> Value] : [s EXCEPT !.at = at, !.lines = l] \in KeySteps
BY DEF KeySteps

\* A process at rest has nothing to write.
LEMMA EnvResting ==
  ASSUME NEW at \in Rest
  PROVE  AtRest(at) \in KeySteps /\ AtRest(at).at = at /\ at \notin Locked
BY DEF Locked, AtRest, KeySteps, Rest, NoLines, Value, Key, Bad, None

\* The lock excludes, whatever the processes do (_env_lock).
LEMMA EnvTypeInductive ==
  /\ EnvInit => EnvTypeOK
  /\ EnvTypeOK /\ [EnvNext]_envVars => EnvTypeOK'
<1> USE DEF LockHeld
<1>1. EnvInit => EnvTypeOK
  <2> SUFFICES ASSUME EnvInit PROVE EnvTypeOK
    OBVIOUS
  <2>1. \A v \in Value : [NoLines EXCEPT !["credential_key"] = v] \in [Key -> Value]
    <3>1. NoLines \in [Key -> Value]
      BY DEF NoLines, Value, None
    <3> QED
      BY <3>1
  <2>2. None \in Value /\ Bad \in Value /\ NoLines \in [Key -> Value]
    BY DEF None, Bad, Value, NoLines
  <2>3. file \in [Key -> Value] /\ settings \in [Process -> [Key -> Value]]
    BY <2>1, <2>2 DEF EnvInit
  <2>4. proc \in [Process -> KeySteps] /\ LockHeld
    BY EnvResting DEF EnvInit, AtRest, Rest, Locked
  <2>5. /\ fernet \in [Process -> 0..MaxValue] /\ crashes \in 0..MaxCrashes
        /\ made \in 0..MaxValue /\ used \subseteq 1..MaxValue /\ wanted \in 0..MaxValue
    BY DEF EnvInit, None
  <2> QED
    BY <2>3, <2>4, <2>5 DEF EnvTypeOK
<1>2. ASSUME EnvTypeOK, NEW p \in Process, Boot(p) PROVE EnvTypeOK'
  <2>1. lock # p
    BY <1>2 DEF Boot, EnvTypeOK, Locked
  <2> QED
    BY <1>2, <2>1, EnvResting, EnvMoves DEF Boot, EnvTypeOK, Rest
<1>3. ASSUME EnvTypeOK, NEW p \in Process, NEW k \in Key, Ensure(p, k) PROVE EnvTypeOK'
  <2>1. [AtRest("lock") EXCEPT !.key = k] \in KeySteps /\ [AtRest("lock") EXCEPT !.key = k].at = "lock"
    BY DEF AtRest, KeySteps, NoLines, Value, Bad, None
  <2>2. lock # p
    BY <1>3 DEF Ensure, EnvTypeOK, Locked
  <2> QED
    BY <1>3, <2>1, <2>2, EnvMoves DEF Ensure, EnvTypeOK, Locked
<1>4. ASSUME EnvTypeOK, NEW p \in Process, SetToken(p) PROVE EnvTypeOK'
  <2> PICK v \in {None, made + 1} :
        /\ Move(p, [AtRest("lock") EXCEPT !.key = "serve_token", !.set = v])
        /\ made' = IF v = None THEN made ELSE v
    BY <1>4 DEF SetToken
  <2> DEFINE step == [AtRest("lock") EXCEPT !.key = "serve_token", !.set = v]
  <2>1. v \in Value /\ made' \in 0..MaxValue
    BY <1>4 DEF SetToken, EnvTypeOK, Value, None
  <2>2. step \in KeySteps /\ step.at = "lock"
    <3>1. AtRest("lock") \in KeySteps
      BY DEF AtRest, KeySteps, NoLines, Value, Bad, None, Key
    <3> QED
      BY <2>1, <3>1, EnvSteps DEF AtRest, Key
  <2>3. lock # p
    BY <1>4 DEF SetToken, EnvTypeOK, Locked
  <2> QED
    BY <1>4, <2>1, <2>2, <2>3, EnvMoves DEF SetToken, EnvTypeOK, Locked
<1>5. ASSUME EnvTypeOK, NEW p \in Process, Acquire(p) PROVE EnvTypeOK'
  <2> DEFINE step == [proc[p] EXCEPT !.at = IF proc[p].set = Bad THEN "reload" ELSE "read"]
  <2>1. step \in KeySteps /\ step.at \in Locked
    BY <1>5, SMTT(30) DEF EnvTypeOK, KeySteps, Locked
  <2> QED
    BY <1>5, <2>1, EnvMoves DEF Acquire, EnvTypeOK
<1>6. ASSUME EnvTypeOK, NEW p \in Process, Reload(p) PROVE EnvTypeOK'
  <2>1. lock = p
    BY <1>6 DEF Reload, EnvTypeOK, Locked
  <2>2. settings' \in [Process -> [Key -> Value]]
    BY <1>6 DEF EnvTypeOK, Reload, Reloaded
  <2>3. proc' \in [Process -> KeySteps] /\ LockHeld'
    <3> DEFINE step == [proc[p] EXCEPT !.at = "read"]
    <3>1. step \in KeySteps /\ step.at \in Locked
      <4>1. proc[p] \in KeySteps
        BY <1>6 DEF EnvTypeOK
      <4> QED
        BY <4>1 DEF KeySteps, Locked
    <3>2. CASE Move(p, AtRest("up")) /\ lock' = NoHolder
      BY <1>6, <2>1, <3>2, EnvResting, EnvMoves DEF Rest
    <3>3. CASE Move(p, step) /\ UNCHANGED lock
      BY <1>6, <2>1, <3>1, <3>3, EnvMoves
    <3> QED
      BY <1>6, <3>2, <3>3 DEF Reload
  <2> QED
    BY <1>6, <2>2, <2>3 DEF Reload, EnvTypeOK
<1>7. ASSUME EnvTypeOK, NEW p \in Process, Read(p) PROVE EnvTypeOK'
  <2> DEFINE step == [proc[p] EXCEPT !.at = "truncate", !.lines = file]
  <2>1. step \in KeySteps /\ step.at \in Locked
    <3>1. proc[p] \in KeySteps /\ file \in [Key -> Value]
      BY <1>7, SMTT(30) DEF EnvTypeOK
    <3>2. step \in KeySteps
      BY <3>1, EnvSteps DEF Locked
    <3> QED
      BY <3>1, <3>2 DEF KeySteps, Locked
  <2>2. lock = p
    BY <1>7 DEF Read, EnvTypeOK, Locked
  <2> QED
    BY <1>7, <2>1, <2>2, EnvMoves DEF Read, EnvTypeOK
<1>8. ASSUME EnvTypeOK, NEW p \in Process, Truncate(p) PROVE EnvTypeOK'
  <2> DEFINE step == [proc[p] EXCEPT !.at = "write"]
  <2>1. step \in KeySteps /\ step.at \in Locked
    <3>1. proc[p] \in KeySteps
      BY <1>8 DEF EnvTypeOK
    <3> QED
      BY <3>1 DEF KeySteps, Locked
  <2>2. lock = p
    BY <1>8 DEF Truncate, EnvTypeOK, Locked
  <2>3. NoLines \in [Key -> Value]
    BY DEF NoLines, Value, None
  <2> QED
    BY <1>8, <2>1, <2>2, <2>3, EnvMoves DEF Truncate, EnvTypeOK
<1>9. ASSUME EnvTypeOK, NEW p \in Process, Write(p) PROVE EnvTypeOK'
  <2> DEFINE k == proc[p].key
             v == IF proc[p].set = Bad THEN made + 1 ELSE proc[p].set
  <2>1. lock = p
    BY <1>9 DEF Write, EnvTypeOK, Locked
  <2>2. k \in Key /\ proc[p].lines \in [Key -> Value] /\ v \in 0..MaxValue
    <3>1. proc[p] \in KeySteps /\ made \in 0..MaxValue
      BY <1>9 DEF EnvTypeOK
    <3>2. k \in Key /\ proc[p].lines \in [Key -> Value] /\ proc[p].set \in Value
      BY <3>1 DEF KeySteps
    <3>3. proc[p].set = Bad => made < MaxValue
      BY <1>9 DEF Write
    <3> QED
      BY <3>1, <3>2, <3>3 DEF Value, Bad
  <2>3. v \in Value
    BY <2>2 DEF Value
  <2>4. /\ file' = [proc[p].lines EXCEPT ![k] = v]
        /\ settings' = [settings EXCEPT ![p][k] = v]
        /\ made' = IF v > made THEN v ELSE made
        /\ wanted' = IF k = "serve_token" THEN v ELSE wanted
    BY <1>9 DEF Write
  <2>5. file' \in [Key -> Value] /\ settings' \in [Process -> [Key -> Value]]
    BY <1>9, <2>2, <2>3, <2>4 DEF EnvTypeOK
  <2>6. made' \in 0..MaxValue /\ wanted' \in 0..MaxValue
    BY <1>9, <2>2, <2>4 DEF EnvTypeOK
  <2>7. proc' \in [Process -> KeySteps] /\ LockHeld'
    BY <1>9, <2>1, EnvResting, EnvMoves DEF Write, Rest
  <2> QED
    BY <1>9, <2>5, <2>6, <2>7 DEF Write, EnvTypeOK
<1>10. ASSUME EnvTypeOK, NEW p \in Process, UseKey(p) PROVE EnvTypeOK'
  <2> DEFINE key == IF fernet[p] # None THEN fernet[p] ELSE settings[p]["credential_key"]
  <2>1. key \in Value
    BY <1>10 DEF EnvTypeOK, Key, Value
  <2>2. key \notin {None, Bad} /\ fernet' = [fernet EXCEPT ![p] = key] /\ used' = used \cup {key}
    BY <1>10 DEF UseKey
  <2>3. key \in 1..MaxValue
    BY <2>1, <2>2 DEF Value, None, Bad
  <2>4. fernet' \in [Process -> 0..MaxValue] /\ used' \subseteq 1..MaxValue
    <3> HIDE DEF key
    <3> QED
      BY <1>10, <2>2, <2>3 DEF EnvTypeOK
  <2> QED
    BY <1>10, <2>4 DEF UseKey, EnvTypeOK
<1>11. ASSUME EnvTypeOK, NEW p \in Process, Crash(p) PROVE EnvTypeOK'
  <2>1. settings' \in [Process -> [Key -> Value]] /\ fernet' \in [Process -> 0..MaxValue]
    BY <1>11 DEF Crash, EnvTypeOK, NoLines, Value, None
  <2>2. proc' \in [Process -> KeySteps] /\ LockHeld'
    BY <1>11, EnvResting, EnvMoves DEF Crash, Rest
  <2> QED
    BY <1>11, <2>1, <2>2 DEF Crash, EnvTypeOK
<1>12. ASSUME EnvTypeOK, UNCHANGED envVars PROVE EnvTypeOK'
  BY <1>12 DEF envVars, EnvTypeOK
<1> QED
  BY <1>1, <1>2, <1>3, <1>4, <1>5, <1>6, <1>7, <1>8, <1>9, <1>10, <1>11, <1>12 DEF EnvNext

\* The lines that count: of the file, or while it is empty those that the holder of
\* the lock is about to write.
Kept == IF Whole THEN file ELSE proc[lock].lines

Secret == {"credential_key", "secret_key"}

\* A process has read what the file holds when it empties it; it generates a key only
\* where there is none.  A cipher was built of a key that counts as used.
Careful(p) ==
  /\ proc[p].at = "truncate" => proc[p].lines = file
  /\ proc[p].at \notin Rest /\ proc[p].key \in Secret => proc[p].set = Bad
  /\ proc[p].at \in {"read", "truncate", "write"} /\ proc[p].key \in Secret
     => Kept[proc[p].key] = None
  /\ fernet[p] # None => fernet[p] \in used

Agreed ==
  /\ \A p \in Process, k \in Secret : settings[p][k] # None => Kept[k] = settings[p][k]
  /\ \A v \in used : Kept["credential_key"] = v
  /\ Kept["serve_token"] = wanted

EnvInv ==
  /\ EnvTypeOK
  /\ ~Whole => file = NoLines
  /\ \A p \in Process : Careful(p)
  /\ Agreed

\* What counts changes with the file only.
LEMMA EnvKeptStays ==
  ASSUME EnvTypeOK, NEW p \in Process, NEW step \in KeySteps, Move(p, step), file' = file,
         step.at # "write", proc[p].at # "write", lock \in {p, NoHolder} \/ lock' = lock
  PROVE  Whole' = Whole /\ Kept' = Kept
<1>1. /\ proc'[p] = step
      /\ \A q \in Process \ {p} : proc'[q] = proc[q]
  BY DEF EnvTypeOK, Move
<1>2. Whole' <=> Whole
  BY <1>1 DEF Whole
<1>3. ASSUME ~Whole PROVE lock' = lock /\ lock \in Process \ {p}
  BY <1>3 DEF Whole, EnvTypeOK, Locked
<1> QED
  BY <1>1, <1>2, <1>3 DEF Kept, Whole

\* The program starts with what .env holds, and nobody has read it.
LEMMA EnvInvInit == EnvInit => EnvInv
<1> SUFFICES ASSUME EnvInit PROVE EnvInv
  OBVIOUS
<1>1. Whole
  BY DEF EnvInit, Whole, AtRest
<1>2. \A p \in Process : Careful(p)
  BY DEF EnvInit, Careful, AtRest, Rest, None
<1>3. Agreed
  BY <1>1 DEF EnvInit, Agreed, Kept, NoLines, None, Secret, Key
<1> QED
  BY <1>1, <1>2, <1>3, EnvTypeInductive DEF EnvInv

\* A process that moves on with nothing but its own step and settings.
LEMMA EnvPlainMove ==
  ASSUME EnvInv, EnvTypeOK', NEW p \in Process, NEW step \in KeySteps, Move(p, step),
         step.at # "write", proc[p].at # "write", lock \in {p, NoHolder} \/ lock' = lock,
         UNCHANGED <<file, used, wanted>>,
         \A q \in Process : fernet'[q] \in {fernet[q], None},
         \A q \in Process \ {p} : settings'[q] = settings[q],
         \A k \in Secret : settings'[p][k] \in {settings[p][k], file[k], None},
         step.at = "truncate" => step.lines = file,
         step.at \notin Rest /\ step.key \in Secret => step.set = Bad,
         step.at \in {"read", "truncate"} /\ step.key \in Secret => file[step.key] = None
  PROVE  EnvInv'
<1>1. /\ proc'[p] = step
      /\ \A q \in Process \ {p} : proc'[q] = proc[q]
  BY DEF EnvInv, EnvTypeOK, Move
<1>2. Whole' = Whole /\ Kept' = Kept
  BY EnvKeptStays DEF EnvInv
<1>3. step.at \in {"read", "truncate"} => Whole /\ Kept = file
  BY <1>1, <1>2 DEF EnvTypeOK, Locked, Whole, Kept
<1>4. Careful(p)'
  BY <1>1, <1>2, <1>3 DEF EnvInv, Careful
<1>5. ASSUME NEW q \in Process \ {p} PROVE Careful(q)'
  BY <1>1, <1>2 DEF EnvInv, Careful
<1>6. Agreed'
  <2>1. ASSUME NEW k \in Secret, settings'[p][k] # None PROVE Kept[k] = settings'[p][k]
    <3>1. CASE settings'[p][k] = settings[p][k]
      BY <2>1, <3>1 DEF EnvInv, Agreed
    <3>2. CASE settings'[p][k] = file[k] /\ Whole
      BY <3>2 DEF Kept
    <3>3. CASE settings'[p][k] = file[k] /\ ~Whole
      BY <2>1, <3>3 DEF EnvInv, NoLines, Secret, Key
    <3> QED
      BY <2>1, <3>1, <3>2, <3>3
  <2> QED
    BY <1>2, <2>1 DEF EnvInv, Agreed
<1> QED
  BY <1>2, <1>4, <1>5, <1>6 DEF EnvInv

\* Emptying the file loses nothing: the holder has its lines (_write_env_locked).
LEMMA EnvTruncateStep == ASSUME EnvInv, EnvTypeOK', NEW p \in Process, Truncate(p) PROVE EnvInv'
<1>1. /\ proc[p].at = "truncate" /\ proc'[p].at = "write"
      /\ proc'[p].key = proc[p].key /\ proc'[p].set = proc[p].set /\ proc'[p].lines = proc[p].lines
      /\ \A q \in Process \ {p} : proc'[q] = proc[q]
      /\ file' = NoLines /\ UNCHANGED <<lock, settings, fernet, used, wanted>>
  BY DEF EnvInv, EnvTypeOK, KeySteps, Truncate, Move
<1>2. lock = p
  BY <1>1 DEF EnvInv, EnvTypeOK, Locked
<1>3. Whole
  BY <1>1, <1>2 DEF EnvInv, EnvTypeOK, Locked, Whole
<1>4. ~Whole'
  BY <1>1 DEF Whole
<1>5. Kept' = Kept
  BY <1>1, <1>2, <1>3, <1>4 DEF EnvInv, Careful, Kept
<1>6. ASSUME NEW q \in Process \ {p} PROVE proc[q].at \notin Locked
  BY <1>2 DEF EnvInv, EnvTypeOK
<1>7. \A q \in Process : Careful(q)'
  BY <1>1, <1>5, <1>6 DEF EnvInv, Careful, Locked, Rest
<1> QED
  BY <1>1, <1>5, <1>7 DEF EnvInv, Agreed

\* Writing them back replaces one line, which was missing or is the token's.
LEMMA EnvWriteStep == ASSUME EnvInv, EnvTypeOK', NEW p \in Process, Write(p) PROVE EnvInv'
<1> DEFINE k == proc[p].key
           v == IF proc[p].set = Bad THEN made + 1 ELSE proc[p].set
<1>1. /\ proc[p].at = "write" /\ proc'[p].at = "up"
      /\ \A q \in Process \ {p} : proc'[q] = proc[q]
      /\ UNCHANGED <<fernet, used>>
  BY DEF EnvInv, EnvTypeOK, Write, Move, AtRest
<1>2. /\ file' = [proc[p].lines EXCEPT ![k] = v]
      /\ settings' = [settings EXCEPT ![p][k] = v]
      /\ wanted' = IF k = "serve_token" THEN v ELSE wanted
  BY DEF Write
<1>3. /\ settings \in [Process -> [Key -> Value]] /\ proc[p].lines \in [Key -> Value]
      /\ k \in Key /\ used \subseteq 1..MaxValue
  BY DEF EnvInv, EnvTypeOK, KeySteps
<1>4. lock = p /\ ~Whole /\ Kept = proc[p].lines
  BY <1>1 DEF EnvInv, EnvTypeOK, Locked, Whole, Kept
<1>5. ASSUME NEW q \in Process \ {p} PROVE proc[q].at \notin Locked
  BY <1>4 DEF EnvInv, EnvTypeOK
<1>6. Whole' /\ Kept' = file'
  BY <1>1, <1>5 DEF Whole, Kept, Locked
<1>7. \A q \in Process : Careful(q)'
  BY <1>1, <1>5 DEF EnvInv, Careful, Locked, Rest
<1>8. k \in Secret => Kept[k] = None
  BY <1>1 DEF EnvInv, Careful
<1> HIDE DEF k, v
<1>9. ASSUME NEW q \in Process, NEW j \in Secret, settings'[q][j] # None
      PROVE  file'[j] = settings'[q][j]
  <2>0. j \in Key
    BY DEF Secret, Key
  <2>1. CASE j = k
    <3>1. settings[q][k] = None
      BY <1>8, <2>1 DEF EnvInv, Agreed
    <3>2. q = p
      BY <1>2, <1>3, <1>9, <2>1, <3>1
    <3> QED
      BY <1>2, <1>3, <2>1, <3>2
  <2>2. CASE j # k
    <3>1. settings'[q][j] = settings[q][j] /\ file'[j] = Kept[j]
      BY <1>2, <1>3, <1>4, <2>0, <2>2
    <3> QED
      BY <1>9, <3>1 DEF EnvInv, Agreed
  <2> QED
    BY <2>1, <2>2
<1>10. ASSUME NEW u \in used PROVE file'["credential_key"] = u
  <2>1. Kept["credential_key"] = u /\ u # None
    BY <1>3 DEF EnvInv, Agreed, None
  <2> QED
    BY <1>2, <1>3, <1>4, <1>8, <2>1 DEF Secret, Key
<1>11. file'["serve_token"] = wanted'
  BY <1>2, <1>3, <1>4 DEF EnvInv, Agreed, Key
<1>12. Agreed'
  BY <1>1, <1>6, <1>9, <1>10, <1>11 DEF Agreed
<1> QED
  BY <1>6, <1>7, <1>12 DEF EnvInv

\* The key that a cipher is built of is the file's (_get_fernet).
LEMMA EnvUseStep == ASSUME EnvInv, EnvTypeOK', NEW p \in Process, UseKey(p) PROVE EnvInv'
<1> DEFINE key == IF fernet[p] # None THEN fernet[p] ELSE settings[p]["credential_key"]
<1>1. /\ key # None /\ fernet' = [fernet EXCEPT ![p] = key] /\ used' = used \cup {key}
      /\ UNCHANGED <<file, lock, proc, settings, wanted>>
  BY DEF UseKey
<1>2. Kept["credential_key"] = key
  BY <1>1 DEF EnvInv, Careful, Agreed, Secret
<1>3. Whole' = Whole /\ Kept' = Kept
  BY <1>1 DEF Whole, Kept
<1> HIDE DEF key
<1>4. \A q \in Process : fernet'[q] # None => fernet'[q] \in used'
  BY <1>1 DEF EnvInv, EnvTypeOK, Careful
<1>5. \A q \in Process : Careful(q)'
  BY <1>1, <1>3, <1>4 DEF EnvInv, Careful
<1> QED
  BY <1>1, <1>2, <1>3, <1>5 DEF EnvInv, Agreed

\* A process that ends before it has emptied the file leaves what counts as it is.
LEMMA EnvCrashStep ==
  ASSUME EnvInv, EnvTypeOK', NEW p \in Process, Crash(p), proc[p].at # "write"
  PROVE  EnvInv'
<1>1. /\ Move(p, AtRest("down")) /\ UNCHANGED <<file, used, wanted>>
      /\ lock' = IF lock = p THEN NoHolder ELSE lock
      /\ settings' = [settings EXCEPT ![p] = NoLines] /\ fernet' = [fernet EXCEPT ![p] = None]
  BY DEF Crash
<1>2. AtRest("down") \in KeySteps /\ AtRest("down").at = "down"
  BY EnvResting DEF Rest
<1>3. /\ \A q \in Process : fernet'[q] \in {fernet[q], None}
      /\ \A q \in Process \ {p} : settings'[q] = settings[q]
      /\ \A k \in Secret : settings'[p][k] = None
  BY <1>1 DEF EnvInv, EnvTypeOK, NoLines, Secret, Key
<1> QED
  BY <1>1, <1>2, <1>3, EnvPlainMove DEF Rest

\* The one step that can lose a line is the end of a process between the truncation and
\* the write: every other one keeps the invariant, whatever TornWrites is.
LEMMA EnvInvStep ==
  ASSUME EnvInv, EnvNext \/ UNCHANGED envVars,
         ~\E p \in Process : proc[p].at = "write" /\ Crash(p)
  PROVE  EnvInv'
<1>0. EnvTypeOK'
  BY EnvTypeInductive DEF EnvInv
<1>types. /\ proc \in [Process -> KeySteps] /\ file \in [Key -> Value]
          /\ settings \in [Process -> [Key -> Value]] /\ fernet \in [Process -> 0..MaxValue]
  BY DEF EnvInv, EnvTypeOK
<1>1. ASSUME NEW p \in Process, Boot(p) PROVE EnvInv'
  <2>1. AtRest("up") \in KeySteps /\ AtRest("up").at = "up"
    BY EnvResting DEF Rest
  <2> QED
    BY <1>0, <1>1, <1>types, <2>1, EnvPlainMove DEF Boot, Rest
<1>2. ASSUME NEW p \in Process, NEW j \in Key, Ensure(p, j) PROVE EnvInv'
  <2> DEFINE step == [AtRest("lock") EXCEPT !.key = j]
  <2>1. step \in KeySteps /\ step.at = "lock" /\ step.set = Bad
    BY DEF AtRest, KeySteps, NoLines, Value, Bad, None, Key
  <2>2. Move(p, step) /\ proc[p].at = "up" /\ UNCHANGED <<file, lock, settings, fernet, used, wanted>>
    BY <1>2 DEF Ensure
  <2> HIDE DEF step
  <2> QED
    BY <1>0, <1>types, <2>1, <2>2, EnvPlainMove
<1>3. ASSUME NEW p \in Process, SetToken(p) PROVE EnvInv'
  <2> PICK v \in {None, made + 1} : Move(p, [AtRest("lock") EXCEPT !.key = "serve_token", !.set = v])
    BY <1>3 DEF SetToken
  <2> DEFINE step == [AtRest("lock") EXCEPT !.key = "serve_token", !.set = v]
  <2>1. v \in Value
    BY <1>3 DEF SetToken, EnvInv, EnvTypeOK, Value, None
  <2>2. step \in KeySteps
    <3>1. AtRest("lock") \in KeySteps
      BY DEF AtRest, KeySteps, NoLines, Value, Bad, None, Key
    <3> QED
      BY <2>1, <3>1, EnvSteps DEF Key
  <2>3. step.at = "lock" /\ step.key = "serve_token"
    BY DEF AtRest
  <2>4. proc[p].at = "up" /\ UNCHANGED <<file, lock, settings, fernet, used, wanted>>
    BY <1>3 DEF SetToken
  <2>5. Move(p, step)
    OBVIOUS
  <2> HIDE DEF step
  <2> QED
    BY <1>0, <1>types, <2>2, <2>3, <2>4, <2>5, EnvPlainMove DEF Secret
<1>4. ASSUME NEW p \in Process, Acquire(p) PROVE EnvInv'
  <2> DEFINE step == [proc[p] EXCEPT !.at = IF proc[p].set = Bad THEN "reload" ELSE "read"]
  <2>1. /\ step \in KeySteps /\ step.key = proc[p].key /\ step.set = proc[p].set
        /\ step.at \in {"reload", "read"}
        /\ step.at = "read" => proc[p].set # Bad
    <3>1. proc[p] \in KeySteps
      BY <1>types
    <3> QED
      BY <3>1 DEF KeySteps, Locked
  <2>2. /\ Move(p, step) /\ proc[p].at = "lock" /\ lock = NoHolder
        /\ UNCHANGED <<file, settings, fernet, used, wanted>>
    BY <1>4 DEF Acquire
  <2>3. step.key \in Secret => step.set = Bad
    BY <2>1, <2>2 DEF EnvInv, Careful, Rest
  <2> HIDE DEF step
  <2> QED
    BY <1>0, <1>types, <2>1, <2>2, <2>3, EnvPlainMove
<1>5. ASSUME NEW p \in Process, Reload(p) PROVE EnvInv'
  <2>1. lock = p
    BY <1>5 DEF Reload, EnvInv, EnvTypeOK, Locked
  <2>2. /\ \A q \in Process \ {p} : settings'[q] = settings[q]
        /\ \A k \in Secret : settings'[p][k] \in {settings[p][k], file[k], None}
    BY <1>5, <1>types DEF Reload, Reloaded, Secret, Key
  <2>3. UNCHANGED <<file, fernet, used, wanted>> /\ proc[p].at = "reload"
    BY <1>5 DEF Reload
  <2>4. CASE Move(p, AtRest("up"))
    <3>1. AtRest("up") \in KeySteps /\ AtRest("up").at = "up"
      BY EnvResting DEF Rest
    <3> QED
      BY <1>0, <1>types, <2>1, <2>2, <2>3, <2>4, <3>1, EnvPlainMove DEF Rest
  <2>5. CASE Move(p, [proc[p] EXCEPT !.at = "read"]) /\ Reloaded(p)[proc[p].key] = None
    <3> DEFINE step == [proc[p] EXCEPT !.at = "read"]
    <3>1. step \in KeySteps /\ step.at = "read" /\ step.key = proc[p].key /\ step.set = proc[p].set
      <4>1. proc[p] \in KeySteps
        BY <1>types
      <4> QED
        BY <4>1 DEF KeySteps, Locked
    <3>2. step.key \in Secret => step.set = Bad
      BY <2>3, <3>1 DEF EnvInv, Careful, Rest
    <3>3. step.key \in Secret => file[step.key] = None
      BY <2>5, <3>1 DEF Reloaded, Secret, Key
    <3>4. Move(p, step)
      BY <2>5
    <3> HIDE DEF step
    <3> QED
      BY <1>0, <1>types, <2>1, <2>2, <2>3, <3>1, <3>2, <3>3, <3>4, EnvPlainMove
  <2> QED
    BY <1>5, <2>4, <2>5 DEF Reload
<1>6. ASSUME NEW p \in Process, Read(p) PROVE EnvInv'
  <2> DEFINE step == [proc[p] EXCEPT !.at = "truncate", !.lines = file]
  <2>1. /\ step \in KeySteps /\ step.at = "truncate" /\ step.lines = file
        /\ step.key = proc[p].key /\ step.set = proc[p].set
    <3>1. proc[p] \in KeySteps
      BY <1>types
    <3> QED
      BY <1>types, <3>1, EnvSteps, ZenonT(40) DEF KeySteps, Locked
  <2>2. Move(p, step) /\ proc[p].at = "read" /\ UNCHANGED <<file, lock, settings, fernet, used, wanted>>
    BY <1>6 DEF Read
  <2>3. lock = p /\ Whole
    BY <2>2 DEF EnvInv, EnvTypeOK, Locked, Whole
  <2>4. step.key \in Secret => step.set = Bad /\ file[step.key] = None
    BY <2>1, <2>2, <2>3 DEF EnvInv, Careful, Rest, Kept
  <2> HIDE DEF step
  <2> QED
    BY <1>0, <1>types, <2>1, <2>2, <2>3, <2>4, EnvPlainMove
<1>7. ASSUME UNCHANGED envVars PROVE EnvInv'
  BY <1>0, <1>7 DEF envVars, EnvInv, Careful, Agreed, Kept, Whole
<1> QED
  BY <1>0, <1>1, <1>2, <1>3, <1>4, <1>5, <1>6, <1>7, EnvTruncateStep, EnvWriteStep,
     EnvUseStep, EnvCrashStep DEF EnvNext

-----------------------------------------------------------------------------
(* EnvKeys: theorems *)

\* Of all processes one at most is between reading .env and having written it, and it
\* is the one that the kernel gave the lock to, whichever processes end where
\* (_env_lock).
THEOREM OneHolder == EnvSpec => []EnvTypeOK
BY EnvTypeInductive, PTL DEF EnvSpec

\* However many processes need a key first, or write a token, and wherever one ends but
\* between the truncation and the write: nobody's line is lost, all go by one key
\* (_ensure_key, _reload_env_keys, _write_env_locked).
THEOREM KeysAgree == ASSUME TornWrites = FALSE PROVE EnvSpec => []NothingLost
<1>1. EnvInv /\ [EnvNext]_envVars => EnvInv'
  BY EnvInvStep DEF Crash
<1>2. EnvInv => NothingLost
  BY DEF EnvInv, Agreed, NothingLost, Kept, Secret
<1> QED
  BY <1>1, <1>2, EnvInvInit, PTL DEF EnvSpec

-----------------------------------------------------------------------------
(* AlertNotify: definitions *)

Deciding == {"select", "merge", "lookup", "asked"}

\* After the deduplication has found nothing in the window.
Outgoing == {"lookup", "asked", "previous", "send", "record"}

NewestSent(e, i) ==
  /\ i \in RowsOf(e) /\ rows[i].ok
  /\ \A j \in RowsOf(e) : rows[j].ok => j <= i

AlertTypes ==
  /\ now \in Time
  /\ duty \in [0..now -> Person]
  /\ rows \in Seq(Row)
  /\ cache \in [until : 0..MaxTime + TTL, target : Person \cup {Nobody}]
  /\ alert \in [Alert -> Coroutine]
  /\ faults \in 0..MaxFaults
  /\ suppressed \in [Alert -> Outcomes]
  /\ met \subseteq Event

\* The answer that is kept was true at a moment that it does not outlive by more than TTL.
CacheSound ==
  cache.target # Nobody =>
    \E u \in 0..now : u + TTL >= cache.until /\ duty[u] = cache.target

Addressed(a) ==
  /\ alert[a].at \in Deciding => alert[a].target = Nobody
  /\ alert[a].at = "asked" => alert[a].asked <= now
  /\ alert[a].at = "previous" /\ alert[a].target # Nobody
     => \E u \in 0..now : u + TTL > alert[a].asked /\ duty[u] = alert[a].target

Patient(a) ==
  /\ alert[a].at \in Deciding \cup {"previous"} => alert[a].attempts = 0
  /\ alert[a].at = "send" => alert[a].attempts < MaxAttempts

\* Records are in the order of their times.
Written ==
  \A i \in DOMAIN rows :
    /\ rows[i].created <= now
    /\ \A j \in DOMAIN rows : i <= j => rows[i].created <= rows[j].created

\* Alerts of an event that never meet are under way one at a time.
Alone ==
  \A a, b \in Alert :
    Under(a) /\ Under(b) /\ alert[a].event = alert[b].event /\ alert[a].event \notin met => a = b

\* One that goes on alone merges into the newest message there is, or comes more than a
\* window later and reports what was merged into it.
Mine(a) ==
  LET e == alert[a].event
  IN  /\ alert[a].at = "merge" => alert[a].row \in RowsOf(e)
      /\ alert[a].at = "select" /\ alert[a].since > 0 => alert[a].since + Window <= now
      /\ e \notin met =>
           /\ alert[a].at = "merge" => NewestSent(e, alert[a].row)
           /\ \A i \in DOMAIN rows : NewestSent(e, i) =>
                /\ alert[a].at \in Outgoing => rows[i].created + Window < now
                /\ alert[a].at \in {"send", "record"} => alert[a].said = rows[i].merged

\* Every message is the record of one alert.
Counted ==
  /\ \A e \in Event : Cardinality(RowsOf(e)) = Cardinality(Ours("sent", e))
  /\ \A a \in Alert : suppressed[a] # "pending" <=> alert[a].at = "ended"
  /\ Len(rows) = Cardinality({a \in Alert : suppressed[a] = "sent"})

AlertInv ==
  /\ AlertTypes /\ CacheSound /\ Written /\ Alone /\ Counted
  /\ \A a \in Alert : Addressed(a) /\ Patient(a) /\ Mine(a)
  /\ QuietAndComplete

-----------------------------------------------------------------------------
(* AlertNotify: lemmas *)

\* A bounded set of numbers has a greatest one.
LEMMA GreatestOf ==
  ASSUME NEW n \in Nat, NEW S \in SUBSET (1..n), S # {}
  PROVE  \E i \in S : \A j \in S : j <= i
<1> DEFINE T == {n - i : i \in S}
<1>1. T \subseteq Nat /\ T # {}
  <2>1. PICK i \in S : TRUE
    OBVIOUS
  <2>2. n - i \in T
    OBVIOUS
  <2>3. \A j \in S : n - j \in Nat
    OBVIOUS
  <2> QED
    BY <2>2, <2>3
<1>2. PICK x \in T : \A y \in T : ~(<<y, x>> \in OpToRel(<, Nat))
  BY <1>1, NatLessThanWellFounded, WFMin
<1>3. \A y \in T : ~(y < x)
  BY <1>1, <1>2 DEF OpToRel
<1>4. PICK i \in S : x = n - i
  OBVIOUS
<1>5. ASSUME NEW j \in S PROVE j <= i
  <2>1. ~(n - j < n - i)
    BY <1>3, <1>4
  <2>2. i \in 1..n /\ j \in 1..n
    OBVIOUS
  <2> QED
    BY <2>1, <2>2
<1> QED
  BY <1>5

\* Records are numbered from 1 and have the fields of Row.
LEMMA RowsTyped ==
  ASSUME rows \in Seq(Row), NEW j \in DOMAIN rows
  PROVE  /\ j \in Nat \ {0} /\ rows[j] \in Row
         /\ rows[j].created \in Nat /\ rows[j].merged \in Nat /\ rows[j].event \in Event
<1>1. j \in Nat \ {0} /\ rows[j] \in Row
  OBVIOUS
<1> QED
  BY <1>1 DEF Row, Time

\* The newest of some records that counts as sent, as Select and Previous look for it.
LEMMA NewestIs ==
  ASSUME rows \in Seq(Row), NEW e, NEW Rows \in SUBSET (DOMAIN rows)
  PROVE  \/ Newest(e, Rows) = 0 /\ \A i \in Rows : ~(rows[i].event = e /\ rows[i].ok)
         \/ /\ Newest(e, Rows) \in Rows
            /\ rows[Newest(e, Rows)].event = e /\ rows[Newest(e, Rows)].ok
            /\ \A j \in Rows : rows[j].event = e /\ rows[j].ok => j <= Newest(e, Rows)
<1> DEFINE ours == {i \in Rows : rows[i].event = e /\ rows[i].ok}
<1>1. CASE ours = {}
  BY <1>1 DEF Newest
<1>2. CASE ours # {}
  <2>1. Len(rows) \in Nat /\ ours \in SUBSET (1..Len(rows))
    OBVIOUS
  <2>2. \E i \in ours : \A j \in ours : j <= i
    BY <1>2, <2>1, GreatestOf
  <2>3. Newest(e, Rows) = CHOOSE i \in ours : \A j \in ours : j <= i
    BY <1>2 DEF Newest
  <2> QED
    BY <2>2, <2>3
<1> QED
  BY <1>1, <1>2

\* One coroutine goes on, the others stay.
LEMMA AlertBecomes ==
  ASSUME alert \in [Alert -> Coroutine], NEW a \in Alert, NEW c \in Coroutine, Become(a, c)
  PROVE  /\ alert' \in [Alert -> Coroutine] /\ alert'[a] = c
         /\ \A b \in Alert \ {a} : alert'[b] = alert[b]
BY DEF Become

\* A coroutine that begins or has ended has addressed nobody.
LEMMA NewCoroutine ==
  ASSUME NEW at \in Steps, NEW e \in Event, NEW t \in Time
  PROVE  /\ New(at, e, t) \in Coroutine
         /\ New(at, e, t).at = at /\ New(at, e, t).event = e /\ New(at, e, t).since = t
         /\ New(at, e, t).target = Nobody
BY DEF New, Coroutine, Time

\* A coroutine that goes on and touches no record.
LEMMA AlertPlainMove ==
  ASSUME AlertInv, NEW a \in Alert, NEW c \in Coroutine, Become(a, c),
         alert[a].at \notin {"new", "ended"}, c.at \notin {"new", "ended"}, c.event = alert[a].event,
         UNCHANGED <<now, duty, rows, faults, suppressed, met>>,
         cache' \in [until : 0..MaxTime + TTL, target : Person \cup {Nobody}],
         CacheSound', Addressed(a)', Patient(a)', Mine(a)'
  PROVE  AlertInv'
<1>1. /\ alert' \in [Alert -> Coroutine] /\ alert'[a] = c
      /\ \A b \in Alert \ {a} : alert'[b] = alert[b]
  BY AlertBecomes DEF AlertInv, AlertTypes
<1>2. AlertTypes'
  BY <1>1 DEF AlertInv, AlertTypes
<1>3. Alone'
  BY <1>1 DEF AlertInv, Alone, Under
<1>4. Counted'
  <2>1. \A e \in Event : Ours("sent", e)' = Ours("sent", e) /\ RowsOf(e)' = RowsOf(e)
    BY <1>1 DEF Ours, RowsOf
  <2> QED
    BY <1>1, <2>1 DEF AlertInv, Counted
<1>5. ASSUME NEW b \in Alert \ {a} PROVE Addressed(b)' /\ Patient(b)' /\ Mine(b)'
  BY <1>1 DEF AlertInv, Addressed, Patient, Mine, RowsOf, NewestSent
<1>6. Written' /\ QuietAndComplete'
  BY DEF AlertInv, Written, QuietAndComplete, RowsOf
<1> QED
  BY <1>2, <1>3, <1>4, <1>5, <1>6 DEF AlertInv

\* The newest message in the window is the newest message, since records are in order;
\* if there is none in the window the last one is older than it (_suppress_and_merge).
LEMMA SelectStep == ASSUME AlertInv, NEW a \in Alert, Select(a) PROVE AlertInv'
<1> DEFINE e == alert[a].event
           i == Newest(e, Within(alert[a].since))
           c == [alert[a] EXCEPT !.at = IF i = 0 THEN "lookup" ELSE "merge", !.row = i]
<1>1. /\ alert[a] \in Coroutine /\ alert[a].at = "select" /\ rows \in Seq(Row)
      /\ UNCHANGED <<now, duty, rows, cache, faults, suppressed, met>> /\ Become(a, c)
  BY DEF Select, AlertInv, AlertTypes
<1>2. Within(alert[a].since) \in SUBSET (DOMAIN rows)
  BY DEF Within
<1>3. \/ i = 0 /\ \A j \in Within(alert[a].since) : ~(rows[j].event = e /\ rows[j].ok)
      \/ /\ i \in Within(alert[a].since) /\ rows[i].event = e /\ rows[i].ok
         /\ \A j \in Within(alert[a].since) : rows[j].event = e /\ rows[j].ok => j <= i
  BY <1>1, <1>2, NewestIs
<1>4. i \in Nat /\ (i # 0 => i \in DOMAIN rows)
  BY <1>1, <1>2, <1>3
<1> HIDE DEF i
<1>5. /\ c \in Coroutine /\ c.at = IF i = 0 THEN "lookup" ELSE "merge"
      /\ c.row = i /\ c.event = e /\ c.target = alert[a].target /\ c.attempts = alert[a].attempts
  BY <1>1, <1>4 DEF Coroutine, Steps
<1>6. alert'[a] = c
  BY <1>1, <1>5, AlertBecomes DEF AlertInv, AlertTypes
<1>7. alert[a].since \in Nat /\ now \in Nat /\ \A j \in DOMAIN rows : rows[j].created \in Nat
  BY <1>1, RowsTyped DEF AlertInv, AlertTypes, Coroutine, Time
<1> HIDE DEF c
<1>8. CASE i = 0
  <2>1. ASSUME NEW j \in DOMAIN rows, NewestSent(e, j) PROVE rows[j].created + Window < now
    <3>1. j \notin Within(alert[a].since)
      <4>1. i \notin DOMAIN rows
        BY <1>1, <1>8, RowsTyped
      <4> QED
        BY <1>3, <2>1, <4>1 DEF NewestSent, RowsOf, Within
    <3>2. rows[j].created < alert[a].since
      BY <1>7, <3>1 DEF Within
    <3>3. alert[a].since + Window <= now
      BY <1>1, <1>7, <3>2 DEF AlertInv, Mine
    <3> QED
      BY <1>7, <3>2, <3>3
  <2>2. Mine(a)'
    BY <1>1, <1>5, <1>6, <1>8, <2>1 DEF Mine, NewestSent, RowsOf
  <2>3. Addressed(a)' /\ Patient(a)'
    BY <1>1, <1>5, <1>6, <1>8 DEF AlertInv, Addressed, Patient, Deciding
  <2> QED
    BY <1>1, <1>5, <1>8, <2>2, <2>3, AlertPlainMove DEF AlertInv, AlertTypes, CacheSound
<1>9. CASE i # 0
  <2>1. NewestSent(e, i)
    <3>1. i \in RowsOf(e) /\ rows[i].ok /\ rows[i].created >= alert[a].since
      BY <1>3, <1>9 DEF RowsOf, Within
    <3>2. ASSUME NEW j \in RowsOf(e), rows[j].ok PROVE j <= i
      <4>1. j \in DOMAIN rows /\ rows[j].event = e /\ j \in Nat /\ i \in DOMAIN rows
        BY <1>1, <1>4, <1>9, <3>2 DEF RowsOf
      <4>2. CASE i <= j
        <5>1. rows[i].created <= rows[j].created
          BY <4>1, <4>2 DEF AlertInv, Written
        <5>2. j \in Within(alert[a].since)
          BY <1>7, <3>1, <4>1, <5>1 DEF Within
        <5> QED
          BY <1>3, <1>9, <3>2, <4>1, <5>2
      <4> QED
        BY <1>4, <4>1, <4>2
    <3> QED
      BY <3>1, <3>2 DEF NewestSent
  <2>2. Mine(a)'
    BY <1>1, <1>5, <1>6, <1>9, <2>1 DEF Mine, NewestSent, RowsOf, Outgoing
  <2>3. Addressed(a)' /\ Patient(a)'
    BY <1>1, <1>5, <1>6, <1>9 DEF AlertInv, Addressed, Patient, Deciding
  <2> QED
    BY <1>1, <1>5, <1>9, <2>2, <2>3, AlertPlainMove DEF AlertInv, AlertTypes, CacheSound
<1> QED
  BY <1>8, <1>9

\* An answer from the cache is used while it is fresh only (current_oncall).
LEMMA LookupStep == ASSUME AlertInv, NEW a \in Alert, Lookup(a) PROVE AlertInv'
<1>1. /\ alert[a] \in Coroutine /\ alert[a].at = "lookup" /\ now \in Time
      /\ cache.target \in Person \cup {Nobody} /\ cache.until \in Nat
      /\ UNCHANGED <<now, duty, rows, cache, faults, suppressed, met>>
  BY DEF Lookup, AlertInv, AlertTypes
<1>2. CacheSound' /\ cache' \in [until : 0..MaxTime + TTL, target : Person \cup {Nobody}]
  BY <1>1 DEF AlertInv, AlertTypes, CacheSound
<1>3. CASE now < cache.until
  <2> DEFINE c == [alert[a] EXCEPT !.at = "previous", !.target = cache.target, !.asked = now]
  <2>1. /\ c \in Coroutine /\ c.at = "previous" /\ c.target = cache.target /\ c.asked = now
        /\ c.event = alert[a].event /\ c.attempts = alert[a].attempts
    BY <1>1 DEF Coroutine, Steps
  <2>2. Become(a, c)
    BY <1>3 DEF Lookup
  <2> HIDE DEF c
  <2>3. alert'[a] = c
    BY <2>1, <2>2, AlertBecomes DEF AlertInv, AlertTypes
  <2>4. Mine(a)'
    BY <1>1, <2>1, <2>3 DEF AlertInv, Mine, NewestSent, RowsOf, Outgoing
  <2>5. Patient(a)'
    BY <1>1, <2>1, <2>3 DEF AlertInv, Patient, Deciding
  <2>6. ASSUME c.target # Nobody PROVE \E u \in 0..now : u + TTL > now /\ duty[u] = c.target
    <3>1. PICK u \in 0..now : u + TTL >= cache.until /\ duty[u] = cache.target
      BY <2>1, <2>6 DEF AlertInv, CacheSound
    <3>2. u + TTL > now
      BY <1>1, <1>3, <3>1 DEF Time
    <3> QED
      BY <2>1, <3>1, <3>2
  <2>7. Addressed(a)'
    BY <1>1, <2>1, <2>3, <2>6 DEF Addressed, Deciding
  <2> QED
    BY <1>1, <1>2, <2>1, <2>2, <2>4, <2>5, <2>7, AlertPlainMove
<1>4. CASE ~(now < cache.until)
  <2> DEFINE c == [alert[a] EXCEPT !.at = "asked", !.asked = now]
  <2>1. /\ c \in Coroutine /\ c.at = "asked" /\ c.target = alert[a].target /\ c.asked = now
        /\ c.event = alert[a].event /\ c.attempts = alert[a].attempts
    BY <1>1 DEF Coroutine, Steps
  <2>2. Become(a, c)
    BY <1>4 DEF Lookup
  <2> HIDE DEF c
  <2>3. alert'[a] = c
    BY <2>1, <2>2, AlertBecomes DEF AlertInv, AlertTypes
  <2>4. Mine(a)'
    BY <1>1, <2>1, <2>3 DEF AlertInv, Mine, NewestSent, RowsOf, Outgoing
  <2>5. Addressed(a)' /\ Patient(a)'
    BY <1>1, <2>1, <2>3 DEF AlertInv, Addressed, Patient, Deciding, Time
  <2> QED
    BY <1>1, <1>2, <2>1, <2>2, <2>4, <2>5, AlertPlainMove
<1> QED
  BY <1>3, <1>4

\* An answer is true at a moment after the question; it is kept from the question on.
LEMMA AnsweredStep == ASSUME AlertInv, NEW a \in Alert, Answered(a) PROVE AlertInv'
<1>1. /\ alert[a] \in Coroutine /\ alert[a].at = "asked" /\ now \in Time
      /\ duty \in [0..now -> Person]
      /\ UNCHANGED <<now, duty, rows, faults, suppressed, met>>
  BY DEF Answered, AlertInv, AlertTypes
<1> PICK u \in alert[a].asked..now :
      /\ Become(a, [alert[a] EXCEPT !.at = "previous", !.target = duty[u]])
      /\ cache' = [until |-> alert[a].asked + TTL, target |-> duty[u]]
  BY DEF Answered
<1> DEFINE c == [alert[a] EXCEPT !.at = "previous", !.target = duty[u]]
<1>2. alert[a].asked \in Nat /\ alert[a].asked <= now /\ now \in Nat /\ now <= MaxTime
  BY <1>1 DEF AlertInv, Addressed, Coroutine, Time
<1>3. u \in 0..now /\ duty[u] \in Person /\ u >= alert[a].asked
  BY <1>1, <1>2, SMTT(30)
<1>4. /\ c \in Coroutine /\ c.at = "previous" /\ c.target = duty[u] /\ c.asked = alert[a].asked
      /\ c.event = alert[a].event /\ c.attempts = alert[a].attempts
  BY <1>1, <1>3 DEF Coroutine, Steps
<1>5. Become(a, c)
  OBVIOUS
<1> HIDE DEF c
<1>6. alert'[a] = c
  BY <1>4, <1>5, AlertBecomes DEF AlertInv, AlertTypes
<1>7. cache' \in [until : 0..MaxTime + TTL, target : Person \cup {Nobody}]
  BY <1>2, <1>3
<1>8. CacheSound'
  BY <1>1, <1>2, <1>3 DEF CacheSound
<1>9. Mine(a)'
  BY <1>1, <1>4, <1>6 DEF AlertInv, Mine, NewestSent, RowsOf, Outgoing
<1>10. Addressed(a)'
  BY <1>1, <1>2, <1>3, <1>4, <1>6, SMTT(30) DEF Addressed, Deciding
<1>11. Patient(a)'
  BY <1>1, <1>4, <1>6 DEF AlertInv, Patient, Deciding
<1> QED
  BY <1>1, <1>4, <1>5, <1>7, <1>8, <1>9, <1>10, <1>11, AlertPlainMove

\* Without an answer nobody is mentioned.
LEMMA UnansweredStep == ASSUME AlertInv, NEW a \in Alert, Unanswered(a) PROVE AlertInv'
<1> DEFINE c == [alert[a] EXCEPT !.at = "previous"]
<1>1. /\ alert[a] \in Coroutine /\ alert[a].at = "asked" /\ Become(a, c)
      /\ UNCHANGED <<now, duty, rows, cache, faults, suppressed, met>>
  BY DEF Unanswered, AlertInv, AlertTypes
<1>2. /\ c \in Coroutine /\ c.at = "previous" /\ c.target = alert[a].target
      /\ c.event = alert[a].event /\ c.attempts = alert[a].attempts
  BY <1>1 DEF Coroutine, Steps
<1> HIDE DEF c
<1>3. alert'[a] = c
  BY <1>1, <1>2, AlertBecomes DEF AlertInv, AlertTypes
<1>4. Mine(a)'
  BY <1>1, <1>2, <1>3 DEF AlertInv, Mine, NewestSent, RowsOf, Outgoing
<1>5. Addressed(a)' /\ Patient(a)'
  BY <1>1, <1>2, <1>3 DEF AlertInv, Addressed, Patient, Deciding
<1>6. CacheSound' /\ cache' \in [until : 0..MaxTime + TTL, target : Person \cup {Nobody}]
  BY <1>1 DEF AlertInv, AlertTypes, CacheSound
<1> QED
  BY <1>1, <1>2, <1>4, <1>5, <1>6, AlertPlainMove

\* What is reported is the count of the newest message (_previous_merged_count).
LEMMA PreviousStep == ASSUME AlertInv, NEW a \in Alert, Previous(a) PROVE AlertInv'
<1> DEFINE e == alert[a].event
           i == Newest(e, DOMAIN rows)
           said == IF i = 0 THEN 0 ELSE rows[i].merged
           c == [alert[a] EXCEPT !.at = "send", !.asked = 0, !.said = said]
<1>1. /\ alert[a] \in Coroutine /\ alert[a].at = "previous" /\ rows \in Seq(Row)
      /\ UNCHANGED <<now, duty, rows, cache, faults, suppressed, met>> /\ Become(a, c)
  BY DEF Previous, AlertInv, AlertTypes
<1>2. \/ i = 0 /\ \A j \in DOMAIN rows : ~(rows[j].event = e /\ rows[j].ok)
      \/ /\ i \in DOMAIN rows /\ rows[i].event = e /\ rows[i].ok
         /\ \A j \in DOMAIN rows : rows[j].event = e /\ rows[j].ok => j <= i
  BY <1>1, NewestIs
<1>3. \A j \in DOMAIN rows : j \in Nat \ {0} /\ rows[j].merged \in Nat
  BY <1>1, RowsTyped
<1> HIDE DEF i
<1>4. ASSUME NEW j \in DOMAIN rows, NewestSent(e, j) PROVE said = rows[j].merged
  <2>1. i \in DOMAIN rows /\ j <= i /\ i <= j /\ i # 0
    BY <1>2, <1>3, <1>4 DEF NewestSent, RowsOf
  <2> QED
    BY <1>3, <2>1
<1>5. said \in Nat
  BY <1>2, <1>3
<1> HIDE DEF said
<1>6. /\ c \in Coroutine /\ c.at = "send" /\ c.said = said
      /\ c.event = e /\ c.attempts = alert[a].attempts
  <2> 0 \in Time
    BY DEF Time
  <2> QED
    BY <1>1, <1>5 DEF Coroutine, Steps
<1> HIDE DEF c
<1>7. alert'[a] = c
  BY <1>1, <1>6, AlertBecomes DEF AlertInv, AlertTypes
<1>8. Mine(a)'
  BY <1>1, <1>4, <1>6, <1>7 DEF AlertInv, Mine, NewestSent, RowsOf, Outgoing
<1>9. Addressed(a)' /\ Patient(a)'
  BY <1>1, <1>6, <1>7 DEF AlertInv, Addressed, Patient, Deciding
<1>10. CacheSound' /\ cache' \in [until : 0..MaxTime + TTL, target : Person \cup {Nobody}]
  BY <1>1 DEF AlertInv, AlertTypes, CacheSound
<1> QED
  BY <1>1, <1>6, <1>8, <1>9, <1>10, AlertPlainMove

\* An attempt to send changes neither the mention nor the count reported (send_text).
LEMMA AttemptStep == ASSUME AlertInv, NEW a \in Alert, Attempt(a) PROVE AlertInv'
<1>1. /\ alert[a] \in Coroutine /\ alert[a].at = "send" /\ alert[a].attempts < MaxAttempts
      /\ UNCHANGED <<now, duty, rows, cache, faults, suppressed, met>>
  BY DEF Attempt, AlertInv, AlertTypes, Patient
<1> DEFINE tried == [alert[a] EXCEPT !.attempts = @ + 1]
<1>2. tried \in Coroutine /\ tried.event = alert[a].event /\ tried.said = alert[a].said
  BY <1>1 DEF Coroutine
<1>3. PICK c \in {[tried EXCEPT !.at = "record", !.ok = TRUE], tried, [tried EXCEPT !.at = "record"]} :
        Become(a, c) /\ (c = tried => tried.attempts < MaxAttempts)
  <2>1. tried.at = "send"
    BY <1>1 DEF Coroutine
  <2>2. [tried EXCEPT !.at = "record", !.ok = TRUE].at = "record" /\ [tried EXCEPT !.at = "record"].at = "record"
    BY <1>2 DEF Coroutine
  <2> QED
    BY <2>1, <2>2 DEF Attempt
<1>4. /\ c \in Coroutine /\ c.at \in {"send", "record"} /\ c.said = alert[a].said
      /\ c.event = alert[a].event /\ (c.at = "send" => c.attempts < MaxAttempts)
  <2>1. tried.at = "send"
    BY <1>1 DEF Coroutine
  <2> HIDE DEF tried
  <2> QED
    BY <1>2, <1>3, <2>1, ZenonT(40) DEF Coroutine, Steps
<1>5. alert'[a] = c
  BY <1>3, <1>4, AlertBecomes DEF AlertInv, AlertTypes
<1>6. Mine(a)'
  BY <1>1, <1>4, <1>5 DEF AlertInv, Mine, NewestSent, RowsOf, Outgoing
<1>7. Addressed(a)' /\ Patient(a)'
  BY <1>4, <1>5 DEF Addressed, Patient, Deciding
<1>8. CacheSound' /\ cache' \in [until : 0..MaxTime + TTL, target : Person \cup {Nobody}]
  BY <1>1 DEF AlertInv, AlertTypes, CacheSound
<1> QED
  BY <1>1, <1>3, <1>4, <1>6, <1>7, <1>8, AlertPlainMove

\* Alerts that are lost: one that the database threw out, or all with the program.
LEMMA AlertsLost ==
  ASSUME AlertInv, NEW E \in SUBSET Alert, \A a \in E : Under(a),
         alert' = [a \in Alert |-> IF a \in E THEN New("ended", alert[a].event, 0) ELSE alert[a]],
         suppressed' = [a \in Alert |-> IF a \in E THEN "lost" ELSE suppressed[a]],
         UNCHANGED <<now, duty, rows, met>>, faults' \in 0..MaxFaults,
         cache' \in [until : 0..MaxTime + TTL, target : Person \cup {Nobody}], CacheSound'
  PROVE  AlertInv'
<1>1. \A a \in Alert : alert[a] \in Coroutine /\ alert[a].event \in Event
  BY DEF AlertInv, AlertTypes, Coroutine
<1>2. \A a \in E : /\ alert'[a] \in Coroutine /\ alert'[a].at = "ended"
                   /\ alert'[a].event = alert[a].event
  BY <1>1, NewCoroutine DEF Steps, Time
<1>3. \A a \in Alert \ E : alert'[a] = alert[a]
  OBVIOUS
<1>4. \A a \in E : suppressed[a] = "pending" /\ suppressed'[a] = "lost"
  BY DEF Under, AlertInv, Counted
<1>5. \A a \in Alert \ E : suppressed'[a] = suppressed[a]
  OBVIOUS
<1>6. AlertTypes'
  <2>1. alert' \in [Alert -> Coroutine]
    BY <1>1, <1>2, <1>3
  <2>2. suppressed' \in [Alert -> Outcomes]
    BY DEF AlertInv, AlertTypes, Outcomes
  <2> QED
    BY <2>1, <2>2 DEF AlertInv, AlertTypes
<1>7. Alone'
  BY <1>2, <1>3 DEF AlertInv, Alone, Under
<1>8. Counted'
  <2>1. \A e \in Event : Ours("sent", e)' = Ours("sent", e) /\ RowsOf(e)' = RowsOf(e)
    BY <1>2, <1>3, <1>4, <1>5 DEF Ours, RowsOf
  <2>2. {a \in Alert : suppressed'[a] = "sent"} = {a \in Alert : suppressed[a] = "sent"}
    BY <1>4, <1>5
  <2>3. \A a \in Alert : suppressed'[a] # "pending" <=> alert'[a].at = "ended"
    BY <1>2, <1>3, <1>4, <1>5 DEF AlertInv, Counted
  <2> QED
    BY <2>1, <2>2, <2>3 DEF AlertInv, Counted
<1>9. ASSUME NEW b \in Alert PROVE Addressed(b)' /\ Patient(b)' /\ Mine(b)'
  <2>1. CASE b \in E
    BY <1>2, <2>1 DEF Addressed, Patient, Mine, Deciding, Outgoing
  <2>2. CASE b \notin E
    BY <1>3, <2>2 DEF AlertInv, Addressed, Patient, Mine, RowsOf, NewestSent
  <2> QED
    BY <2>1, <2>2
<1>10. Written' /\ QuietAndComplete'
  BY DEF AlertInv, Written, QuietAndComplete, RowsOf
<1> QED
  BY <1>6, <1>7, <1>8, <1>9, <1>10 DEF AlertInv

\* What the database throws ends one alert (notify_alert).
LEMMA SwallowedStep == ASSUME AlertInv, NEW a \in Alert, Swallowed(a) PROVE AlertInv'
<1>1. Under(a) /\ UNCHANGED <<now, duty, rows, cache, met>>
  BY DEF Swallowed, Under
<1>2. alert' = [b \in Alert |-> IF b \in {a} THEN New("ended", alert[b].event, 0) ELSE alert[b]]
  BY DEF Swallowed, End, AlertInv, AlertTypes
<1>3. suppressed' = [b \in Alert |-> IF b \in {a} THEN "lost" ELSE suppressed[b]]
  BY DEF Swallowed, End, AlertInv, AlertTypes
<1>4. faults' \in 0..MaxFaults
  BY DEF Swallowed, AlertInv, AlertTypes
<1>5. CacheSound' /\ cache' \in [until : 0..MaxTime + TTL, target : Person \cup {Nobody}]
  BY <1>1 DEF AlertInv, AlertTypes, CacheSound
<1>6. {a} \in SUBSET Alert /\ \A b \in {a} : Under(b)
  BY <1>1
<1> QED
  BY ONLY AlertInv, <1>1, <1>2, <1>3, <1>4, <1>5, <1>6, AlertsLost

\* A restart ends every alert under way and forgets the answer that was kept.
LEMMA RestartStep == ASSUME AlertInv, Restart PROVE AlertInv'
<1> DEFINE E == {a \in Alert : Under(a)}
<1>1. alert' = [b \in Alert |-> IF b \in E THEN New("ended", alert[b].event, 0) ELSE alert[b]]
  BY DEF Restart
<1>2. suppressed' = [b \in Alert |-> IF b \in E THEN "lost" ELSE suppressed[b]]
  BY DEF Restart
<1>3. faults' \in 0..MaxFaults /\ UNCHANGED <<now, duty, rows, met>>
  BY DEF Restart, AlertInv, AlertTypes
<1>4. CacheSound' /\ cache' \in [until : 0..MaxTime + TTL, target : Person \cup {Nobody}]
  BY DEF Restart, CacheSound
<1>5. E \in SUBSET Alert /\ \A b \in E : Under(b)
  OBVIOUS
<1> HIDE DEF E
<1> QED
  BY ONLY AlertInv, <1>1, <1>2, <1>3, <1>4, <1>5, AlertsLost

\* The end of an alert, in its own books.
LEMMA AlertEnded ==
  ASSUME AlertInv, NEW a \in Alert, NEW outcome \in Outcomes, End(a, outcome)
  PROVE  /\ alert' \in [Alert -> Coroutine] /\ suppressed' \in [Alert -> Outcomes]
         /\ alert'[a].at = "ended" /\ alert'[a].event = alert[a].event /\ suppressed'[a] = outcome
         /\ \A b \in Alert \ {a} : alert'[b] = alert[b] /\ suppressed'[b] = suppressed[b]
<1>1. New("ended", alert[a].event, 0) \in Coroutine
  <2>1. alert[a].event \in Event
    BY DEF AlertInv, AlertTypes, Coroutine
  <2>2. "ended" \in Steps /\ 0 \in Time
    BY DEF Steps, Time
  <2> QED
    BY <2>1, <2>2, NewCoroutine
<1>2. New("ended", alert[a].event, 0).at = "ended" /\ New("ended", alert[a].event, 0).event = alert[a].event
  BY DEF New
<1> QED
  BY <1>1, <1>2 DEF End, AlertInv, AlertTypes

\* A merge counts in a message of its own event, the newest one unless alerts have met.
LEMMA MergeStep == ASSUME AlertInv, NEW a \in Alert, Merge(a) PROVE AlertInv'
<1> DEFINE e == alert[a].event
           r == alert[a].row
<1>1. /\ alert[a].at = "merge" /\ rows \in Seq(Row) /\ End(a, "merged")
      /\ rows' = [rows EXCEPT ![r].merged = @ + 1]
      /\ UNCHANGED <<now, duty, cache, faults, met>>
  BY DEF Merge, AlertInv, AlertTypes
<1>2. /\ alert' \in [Alert -> Coroutine] /\ suppressed' \in [Alert -> Outcomes]
      /\ alert'[a].at = "ended" /\ alert'[a].event = e /\ suppressed'[a] = "merged"
      /\ \A b \in Alert \ {a} : alert'[b] = alert[b] /\ suppressed'[b] = suppressed[b]
  BY <1>1, AlertEnded DEF Outcomes
<1>3. r \in RowsOf(e) /\ (e \notin met => NewestSent(e, r)) /\ e \in Event
  BY <1>1 DEF AlertInv, AlertTypes, Coroutine, Mine
<1>4. r \in DOMAIN rows /\ rows[r] \in Row /\ rows[r].event = e
  BY <1>1, <1>3, RowsTyped DEF RowsOf
<1>5. [rows[r] EXCEPT !.merged = @ + 1] \in Row
  BY <1>4 DEF Row
<1> HIDE DEF r, e
<1>6. /\ rows' \in Seq(Row) /\ DOMAIN rows' = DOMAIN rows /\ Len(rows') = Len(rows)
      /\ rows'[r] = [rows[r] EXCEPT !.merged = @ + 1]
      /\ \A i \in DOMAIN rows \ {r} : rows'[i] = rows[i]
  BY <1>1, <1>4, <1>5
<1>7. \A i \in DOMAIN rows : /\ rows'[i].event = rows[i].event /\ rows'[i].ok = rows[i].ok
                             /\ rows'[i].created = rows[i].created /\ rows'[i].said = rows[i].said
  BY <1>4, <1>6 DEF Row
<1>8. /\ \A f \in Event : RowsOf(f)' = RowsOf(f)
      /\ \A f \in Event, i \in DOMAIN rows : NewestSent(f, i)' <=> NewestSent(f, i)
  BY <1>6, <1>7, ZenonT(40) DEF RowsOf, NewestSent
<1>9. ASSUME NEW f \in Event, NEW i \in RowsOf(f), f # e
      PROVE  i # r /\ rows'[i].merged = rows[i].merged
  BY <1>4, <1>6, <1>9 DEF RowsOf
<1>10. AlertTypes' /\ CacheSound'
  BY <1>1, <1>2, <1>6 DEF AlertInv, AlertTypes, CacheSound
<1>11. Written'
  BY <1>1, <1>6, <1>7 DEF AlertInv, Written
<1>12. Alone'
  BY <1>1, <1>2 DEF AlertInv, Alone, Under
<1>13. Counted'
  <2>1. suppressed[a] = "pending"
    BY <1>1 DEF AlertInv, Counted
  <2>2. \A f \in Event : Ours("sent", f)' = Ours("sent", f)
    BY <1>2, <2>1 DEF Ours, e
  <2>3. {b \in Alert : suppressed'[b] = "sent"} = {b \in Alert : suppressed[b] = "sent"}
    BY <1>2, <2>1
  <2>4. \A b \in Alert : suppressed'[b] # "pending" <=> alert'[b].at = "ended"
    BY <1>2 DEF AlertInv, Counted
  <2> QED
    BY <1>6, <1>8, <2>2, <2>3, <2>4, ZenonT(40) DEF AlertInv, Counted
<1>14. ASSUME NEW b \in Alert \ {a} PROVE Addressed(b)' /\ Patient(b)' /\ Mine(b)'
  <2>1. Addressed(b)' /\ Patient(b)'
    BY <1>1, <1>2, ZenonT(40) DEF AlertInv, Addressed, Patient
  <2>2. alert[b].event \in Event
    BY DEF AlertInv, AlertTypes, Coroutine
  <2>3. ASSUME alert[b].event \notin met, Under(b) PROVE alert[b].event # e
    BY <1>1, <2>3 DEF AlertInv, Alone, Under, e
  <2>4. Mine(b)'
    <3>1. CASE ~Under(b)
      BY <1>2, <3>1 DEF Mine, Under, Outgoing
    <3>2. CASE Under(b) /\ alert[b].event \in met
      BY <1>1, <1>2, <1>8, <2>2, <3>2 DEF AlertInv, Mine
    <3>3. CASE Under(b) /\ alert[b].event \notin met
      <4>1. \A i \in DOMAIN rows : NewestSent(alert[b].event, i) => rows'[i].merged = rows[i].merged
        BY <1>9, <2>2, <2>3, <3>3 DEF NewestSent
      <4> DEFINE f == alert[b].event
      <4>2. /\ alert[b].at = "merge" => alert[b].row \in RowsOf(f) /\ NewestSent(f, alert[b].row)
            /\ alert[b].at = "select" /\ alert[b].since > 0 => alert[b].since + Window <= now
            /\ \A i \in DOMAIN rows : NewestSent(f, i) =>
                 /\ alert[b].at \in Outgoing => rows[i].created + Window < now
                 /\ alert[b].at \in {"send", "record"} => alert[b].said = rows[i].merged
        BY <3>3 DEF AlertInv, Mine
      <4>3. alert[b].at = "merge" => alert[b].row \in DOMAIN rows
        BY <4>2 DEF RowsOf
      <4>4. /\ alert'[b] = alert[b] /\ f \in Event /\ f \notin met
            /\ UNCHANGED <<now, met>> /\ DOMAIN rows' = DOMAIN rows
        BY <1>1, <1>2, <1>6, <2>2, <3>3
      <4> HIDE DEF f
      <4>5. \A i \in DOMAIN rows : NewestSent(f, i)' =>
                 /\ alert[b].at \in Outgoing => rows'[i].created + Window < now
                 /\ alert[b].at \in {"send", "record"} => alert[b].said = rows'[i].merged
        BY <1>7, <1>8, <4>1, <4>2, <4>4 DEF f
      <4> QED
        BY <1>8, <4>2, <4>3, <4>4, <4>5 DEF Mine, f
    <3> QED
      BY <3>1, <3>2, <3>3
  <2> QED
    BY <2>1, <2>4
<1>15. Addressed(a)' /\ Patient(a)' /\ Mine(a)'
  BY <1>2 DEF Addressed, Patient, Mine, Deciding, Outgoing
<1>16. QuietAndComplete'
  <2>1. ASSUME NEW f \in Event \ met, NEW i \in RowsOf(f), NEW j \in RowsOf(f),
               rows[i].ok, rows[j].ok, i < j,
               \A k \in RowsOf(f) : k \in i + 1..j - 1 => ~rows[k].ok
        PROVE  rows'[j].created > rows'[i].created + Window /\ rows'[j].said = rows'[i].merged
    <3>1. rows'[i].merged = rows[i].merged
      <4>1. CASE f # e
        BY <1>9, <4>1
      <4>2. CASE f = e
        <5>1. ~(j <= i)
          BY <1>1, <2>1, RowsTyped DEF RowsOf
        <5>2. i # r
          BY <1>3, <2>1, <4>2, <5>1 DEF NewestSent
        <5> QED
          BY <1>6, <5>2 DEF RowsOf
      <4> QED
        BY <4>1, <4>2
    <3>2. rows[j].created > rows[i].created + Window /\ rows[j].said = rows[i].merged
      BY <2>1 DEF AlertInv, QuietAndComplete
    <3> QED
      BY <1>7, <3>1, <3>2 DEF RowsOf
  <2> QED
    <3>1. \A f \in Event \ met : \A i, j \in RowsOf(f) :
            /\ rows[i].ok /\ rows[j].ok /\ i < j
            /\ \A k \in RowsOf(f) : k \in i + 1..j - 1 => ~rows[k].ok
            => rows'[j].created > rows'[i].created + Window /\ rows'[j].said = rows'[i].merged
      BY <2>1
    <3>2. \A f \in Event : \A i \in RowsOf(f) : rows'[i].ok = rows[i].ok
      BY <1>7 DEF RowsOf
    <3> QED
      BY <1>1, <1>8, <3>1, <3>2, SMTT(30) DEF QuietAndComplete
<1> QED
  BY <1>10, <1>11, <1>12, <1>13, <1>14, <1>15, <1>16 DEF AlertInv

\* A record is the newest one, comes a window after the one before, and is one alert's.
LEMMA RecordStep == ASSUME AlertInv, NEW a \in Alert, Record(a) PROVE AlertInv'
<1> PICK e \in Event : e = alert[a].event
  BY DEF AlertInv, AlertTypes, Coroutine
<1> PICK n \in Nat : n = Len(rows) + 1
  BY DEF AlertInv, AlertTypes
<1> DEFINE new == [event |-> alert[a].event, ok |-> alert[a].ok, created |-> now,
                   merged |-> 0, said |-> alert[a].said, target |-> alert[a].target]
<1>1. /\ alert[a].at = "record" /\ rows \in Seq(Row) /\ End(a, "sent")
      /\ rows' = Append(rows, new) /\ alert[a] \in Coroutine /\ now \in Time
      /\ UNCHANGED <<now, duty, cache, faults, met>>
  BY DEF Record, AlertInv, AlertTypes
<1>2. /\ alert' \in [Alert -> Coroutine] /\ suppressed' \in [Alert -> Outcomes]
      /\ alert'[a].at = "ended" /\ alert'[a].event = e /\ suppressed'[a] = "sent"
      /\ \A b \in Alert \ {a} : alert'[b] = alert[b] /\ suppressed'[b] = suppressed[b]
  BY <1>1, AlertEnded DEF Outcomes
<1>3. new \in Row
  BY <1>1 DEF Coroutine, Row
<1>4. /\ new.event = e /\ new.created = now /\ new.said = alert[a].said
  OBVIOUS
<1>5. e \notin met => \A i \in DOMAIN rows : NewestSent(e, i) =>
        rows[i].created + Window < now /\ alert[a].said = rows[i].merged
  BY <1>1 DEF AlertInv, Mine, Outgoing
<1> HIDE DEF new
<1>6. /\ rows' \in Seq(Row) /\ Len(rows') = n /\ DOMAIN rows' = DOMAIN rows \cup {n}
      /\ n \in Nat /\ n \notin DOMAIN rows /\ rows'[n] = new
      /\ \A i \in DOMAIN rows : rows'[i] = rows[i] /\ i < n /\ i \in Nat
  BY <1>1, <1>3
<1>7. /\ RowsOf(e)' = RowsOf(e) \cup {n} /\ n \notin RowsOf(e)
      /\ \A f \in Event \ {e} : RowsOf(f)' = RowsOf(f)
  <2>1. rows'[n].event = e
    BY <1>4, <1>6
  <2>2. n \notin RowsOf(e)
    BY <1>6 DEF RowsOf
  <2>3. RowsOf(e)' = RowsOf(e) \cup {n}
    BY <1>6, <2>1 DEF RowsOf
  <2>4. ASSUME NEW f \in Event \ {e} PROVE RowsOf(f)' = RowsOf(f)
    BY <1>6, <2>1 DEF RowsOf
  <2> QED
    BY <2>2, <2>3, <2>4
<1>8. \A f \in Event \ {e}, i \in DOMAIN rows : NewestSent(f, i)' <=> NewestSent(f, i)
  BY <1>6, <1>7 DEF NewestSent, RowsOf
<1>9. AlertTypes' /\ CacheSound'
  BY <1>1, <1>2, <1>6 DEF AlertInv, AlertTypes, CacheSound
<1>10. Written'
  <2>1. \A i \in DOMAIN rows : rows[i].created <= now
    BY DEF AlertInv, Written
  <2>2. now \in Nat
    BY <1>1 DEF Time
  <2>3. ASSUME NEW i \in DOMAIN rows', NEW j \in DOMAIN rows', i <= j
        PROVE  rows'[i].created <= rows'[j].created
    <3>1. CASE j = n
      BY <1>4, <1>6, <2>1, <2>2, <3>1
    <3>2. CASE j # n
      BY <1>6, <2>3, <3>2 DEF AlertInv, Written
    <3> QED
      BY <3>1, <3>2
  <2>4. \A i \in DOMAIN rows' : rows'[i].created <= now
    BY <1>4, <1>6, <2>1, <2>2
  <2> QED
    BY <1>1, <2>3, <2>4 DEF Written
<1>11. Alone'
  BY <1>1, <1>2 DEF AlertInv, Alone, Under
<1>12. Counted'
  <2>1. suppressed[a] = "pending"
    BY <1>1 DEF AlertInv, Counted
  <2>2. ASSUME NEW f \in Event PROVE Cardinality(RowsOf(f)') = Cardinality(Ours("sent", f)')
    <3>1. Cardinality(RowsOf(f)) = Cardinality(Ours("sent", f))
      BY DEF AlertInv, Counted
    <3>2. CASE f # e
      <4>1. Ours("sent", f)' = Ours("sent", f)
        BY <1>2, <2>1, <3>2 DEF Ours
      <4> QED
        BY <1>7, <3>1, <3>2, <4>1
    <3>3. CASE f = e
      <4>1. Ours("sent", e)' = Ours("sent", e) \cup {a} /\ a \notin Ours("sent", e)
        BY <1>2, <2>1 DEF Ours
      <4>2. IsFiniteSet(Ours("sent", e))
        BY FS_Subset DEF Ours
      <4>3. IsFiniteSet(RowsOf(e))
        <5>1. RowsOf(e) \in SUBSET (1..Len(rows)) /\ Len(rows) \in Nat
          BY <1>1 DEF RowsOf
        <5>2. IsFiniteSet(1..Len(rows))
          BY <5>1, FS_Interval
        <5> QED
          BY <5>1, <5>2, FS_Subset
      <4>4. Cardinality(RowsOf(e) \cup {n}) = Cardinality(RowsOf(e)) + 1
        BY <1>7, <4>3, FS_AddElement
      <4>5. Cardinality(Ours("sent", e) \cup {a}) = Cardinality(Ours("sent", e)) + 1
        BY <4>1, <4>2, FS_AddElement
      <4> QED
        BY <1>7, <3>1, <3>3, <4>1, <4>4, <4>5
    <3> QED
      BY <3>2, <3>3
  <2>3. Len(rows') = Cardinality({b \in Alert : suppressed'[b] = "sent"})
    <3> DEFINE S == {b \in Alert : suppressed[b] = "sent"}
    <3>1. {b \in Alert : suppressed'[b] = "sent"} = S \cup {a} /\ a \notin S
      BY <1>2, <2>1
    <3>2. IsFiniteSet(S)
      BY FS_Subset
    <3>3. Cardinality(S \cup {a}) = Cardinality(S) + 1
      BY <3>1, <3>2, FS_AddElement
    <3>4. Len(rows) = Cardinality(S)
      BY DEF AlertInv, Counted
    <3> QED
      BY <1>6, <3>1, <3>3, <3>4
  <2>4. \A b \in Alert : suppressed'[b] # "pending" <=> alert'[b].at = "ended"
    BY <1>2 DEF AlertInv, Counted
  <2> QED
    BY <2>2, <2>3, <2>4 DEF Counted
<1>13. ASSUME NEW b \in Alert \ {a} PROVE Addressed(b)' /\ Patient(b)' /\ Mine(b)'
  <2>1. Addressed(b)' /\ Patient(b)'
    BY <1>1, <1>2 DEF AlertInv, Addressed, Patient
  <2> PICK f \in Event : f = alert[b].event
    BY DEF AlertInv, AlertTypes, Coroutine
  <2>2. f \in Event
    OBVIOUS
  <2>3. CASE ~Under(b)
    <3>1. Mine(b)'
      BY <1>2, <2>3 DEF Mine, Under, Outgoing
    <3> QED
      BY <2>1, <3>1
  <2>4. CASE Under(b)
    <3>1. f \notin met => f # e
      BY <1>1, <2>4 DEF AlertInv, Alone, Under
    <3>2. /\ alert[b].at = "merge" => alert[b].row \in RowsOf(f)
          /\ alert[b].at = "select" /\ alert[b].since > 0 => alert[b].since + Window <= now
          /\ f \notin met =>
             /\ alert[b].at = "merge" => NewestSent(f, alert[b].row)
             /\ \A i \in DOMAIN rows : NewestSent(f, i) =>
                  /\ alert[b].at \in Outgoing => rows[i].created + Window < now
                  /\ alert[b].at \in {"send", "record"} => alert[b].said = rows[i].merged
      BY DEF AlertInv, Mine
    <3>3. alert'[b] = alert[b] /\ now' = now /\ met' = met
      BY <1>1, <1>2
    <3>4. RowsOf(f) \subseteq RowsOf(f)' /\ RowsOf(f) \subseteq DOMAIN rows
      BY <1>7, <2>2 DEF RowsOf
    <3>5. ASSUME f \notin met PROVE \A i \in DOMAIN rows' : NewestSent(f, i)' =>
                  /\ alert[b].at \in Outgoing => rows'[i].created + Window < now
                  /\ alert[b].at \in {"send", "record"} => alert[b].said = rows'[i].merged
      <4>1. f \in Event \ {e}
        BY <3>1, <3>5
      <4>2. RowsOf(f)' = RowsOf(f)
        BY <1>7, <4>1
      <4>3. ~NewestSent(f, n)'
        BY <1>6, <3>4, <4>2 DEF NewestSent
      <4>4. \A i \in DOMAIN rows : NewestSent(f, i)' => NewestSent(f, i)
        BY <1>8, <4>1
      <4> QED
        BY <1>6, <3>2, <3>5, <4>3, <4>4
    <3>6. f \notin met /\ alert[b].at = "merge" => NewestSent(f, alert[b].row)'
      <4>1. ASSUME f \notin met, alert[b].at = "merge" PROVE NewestSent(f, alert[b].row)'
        <5>1. f \in Event \ {e}
          BY <3>1, <4>1
        <5>2. alert[b].row \in DOMAIN rows /\ NewestSent(f, alert[b].row)
          BY <3>2, <3>4, <4>1
        <5> DEFINE r == alert[b].row
        <5>3. \A i \in DOMAIN rows : NewestSent(f, i) => NewestSent(f, i)'
          BY <1>8, <5>1
        <5>4. alert'[b].row = alert[b].row
          BY <3>3
        <5> QED
          BY <5>2, <5>3, <5>4 DEF NewestSent
      <4> QED
        BY <4>1
    <3>7. Mine(b)'
      BY <3>2, <3>3, <3>4, <3>5, <3>6 DEF Mine
    <3> QED
      BY <2>1, <3>7
  <2> QED
    BY <2>3, <2>4
<1>14. Addressed(a)' /\ Patient(a)' /\ Mine(a)'
  BY <1>2 DEF Addressed, Patient, Mine, Deciding, Outgoing
<1>15. QuietAndComplete'
  <2>1. ASSUME NEW f \in Event \ met, NEW i \in RowsOf(f)', NEW j \in RowsOf(f)',
               rows'[i].ok, rows'[j].ok, i < j,
               \A k \in RowsOf(f)' : k \in i + 1..j - 1 => ~rows'[k].ok
        PROVE  rows'[j].created > rows'[i].created + Window /\ rows'[j].said = rows'[i].merged
    <3>1. i \in DOMAIN rows' /\ j \in DOMAIN rows' /\ i \in Nat /\ j \in Nat
      BY <1>6 DEF RowsOf
    <3>2. i \in DOMAIN rows /\ i \in RowsOf(f) /\ rows'[i] = rows[i]
      BY <1>6, <2>1, <3>1 DEF RowsOf
    <3>3. CASE j \in DOMAIN rows
      <4>1. j \in RowsOf(f) /\ rows'[j] = rows[j]
        BY <1>6, <3>3 DEF RowsOf
      <4>2. \A k \in RowsOf(f) : k \in i + 1..j - 1 => ~rows[k].ok
        BY <1>6, <2>1 DEF RowsOf
      <4> QED
        BY <2>1, <3>2, <4>1, <4>2 DEF AlertInv, QuietAndComplete
    <3>4. CASE j = n
      <4>1. f = e
        BY <1>7, <3>4, <1>6 DEF RowsOf
      <4>2. ASSUME NEW k \in RowsOf(e), rows[k].ok PROVE k <= i
        <5>1. k \in RowsOf(f)' /\ rows'[k].ok /\ k \in Nat /\ k < n
          BY <1>6, <1>7, <4>1, <4>2 DEF RowsOf
        <5> QED
          BY <2>1, <3>1, <3>4, <5>1, <1>6
      <4>3. NewestSent(e, i)
        BY <2>1, <3>2, <4>1, <4>2 DEF NewestSent
      <4>4. rows[i].created + Window < now /\ alert[a].said = rows[i].merged
        BY <1>5, <3>2, <4>1, <4>3, <2>1
      <4>5. rows[i].created \in Nat /\ now \in Nat
        BY <1>1, <3>2, RowsTyped DEF Time
      <4> QED
        BY <1>4, <1>6, <3>2, <3>4, <4>4, <4>5
    <3> QED
      BY <1>6, <3>1, <3>3, <3>4
  <2>2. \A f \in Event \ met : \A i, j \in RowsOf(f)' :
          /\ rows'[i].ok /\ rows'[j].ok /\ i < j
          /\ \A k \in RowsOf(f)' : k \in i + 1..j - 1 => ~rows'[k].ok
          => rows'[j].created > rows'[i].created + Window /\ rows'[j].said = rows'[i].merged
    BY <2>1
  <2>3. met' = met
    BY <1>1
  <2> QED
    BY ONLY <2>2, <2>3 DEF QuietAndComplete
<1> QED
  BY <1>9, <1>10, <1>11, <1>12, <1>13, <1>14, <1>15 DEF AlertInv

\* An alert that meets none of its event goes on alone (_notify_alert_inner).
LEMMA BeginStep == ASSUME AlertInv, NEW a \in Alert, NEW e \in Event, Begin(a, e) PROVE AlertInv'
<1> DEFINE since == IF now > Window THEN now - Window ELSE 0
           c == New("select", e, since)
<1>1. /\ alert[a].at = "new" /\ Become(a, c) /\ now \in Nat /\ now \in Time
      /\ met \subseteq met' /\ met' \subseteq Event
      /\ e \notin met' => \A b \in Alert \ {a} : ~(Under(b) /\ alert[b].event = e)
      /\ UNCHANGED <<now, duty, rows, cache, faults, suppressed>>
  BY DEF Begin, AlertInv, AlertTypes, Time
<1>2. since \in Time /\ (since > 0 => since + Window <= now)
  BY <1>1 DEF Time
<1> HIDE DEF since
<1>3. /\ c \in Coroutine /\ c.at = "select" /\ c.event = e /\ c.since = since
      /\ c.target = Nobody /\ c.attempts = 0
  BY <1>2, NewCoroutine DEF New, Steps
<1> HIDE DEF c
<1>4. /\ alert' \in [Alert -> Coroutine] /\ alert'[a] = c
      /\ \A b \in Alert \ {a} : alert'[b] = alert[b]
  BY <1>1, <1>3, AlertBecomes DEF AlertInv, AlertTypes
<1>5. AlertTypes' /\ CacheSound' /\ Written'
  BY <1>1, <1>4 DEF AlertInv, AlertTypes, CacheSound, Written
<1>6. Alone'
  BY <1>1, <1>3, <1>4 DEF AlertInv, Alone, Under
<1>7. Counted'
  <2>1. suppressed[a] = "pending"
    BY <1>1 DEF AlertInv, Counted
  <2>2. \A f \in Event : Ours("sent", f)' = Ours("sent", f) /\ RowsOf(f)' = RowsOf(f)
    BY <1>1, <1>4, <2>1 DEF Ours, RowsOf
  <2> QED
    BY <1>1, <1>3, <1>4, <2>1, <2>2 DEF AlertInv, Counted
<1>8. ASSUME NEW b \in Alert \ {a} PROVE Addressed(b)' /\ Patient(b)' /\ Mine(b)'
  BY <1>1, <1>4 DEF AlertInv, Addressed, Patient, Mine, RowsOf, NewestSent
<1>9. Addressed(a)' /\ Patient(a)' /\ Mine(a)'
  BY <1>1, <1>2, <1>3, <1>4 DEF Addressed, Patient, Mine, Deciding, Outgoing
<1>10. QuietAndComplete'
  BY <1>1 DEF AlertInv, QuietAndComplete, RowsOf
<1> QED
  BY <1>5, <1>6, <1>7, <1>8, <1>9, <1>10 DEF AlertInv

\* Time makes no answer false and no window longer.
LEMMA TickStep == ASSUME AlertInv, Tick PROVE AlertInv'
<1> PICK p \in Person : duty' = [u \in 0..now + 1 |-> IF u <= now THEN duty[u] ELSE p]
  BY DEF Tick
<1>1. /\ now \in Nat /\ now' = now + 1 /\ now' \in Time
      /\ UNCHANGED <<rows, cache, alert, faults, suppressed, met>>
  BY DEF Tick, AlertInv, AlertTypes, Time
<1>2. \A u \in 0..now : u \in 0..now' /\ duty'[u] = duty[u]
  BY <1>1
<1>3. duty' \in [0..now' -> Person]
  BY <1>1 DEF AlertInv, AlertTypes
<1>4. AlertTypes'
  BY <1>1, <1>3 DEF AlertInv, AlertTypes
<1>5. CacheSound'
  BY <1>1, <1>2 DEF AlertInv, CacheSound
<1>6. \A i \in DOMAIN rows : rows[i].created \in Nat
  BY RowsTyped DEF AlertInv, AlertTypes
<1>7. Written'
  BY <1>1, <1>6 DEF AlertInv, Written
<1>8. Alone' /\ Counted' /\ QuietAndComplete'
  <2>1. Alone' /\ QuietAndComplete'
    BY <1>1 DEF AlertInv, Alone, Under, QuietAndComplete, RowsOf
  <2>2. \A e \in Event : RowsOf(e)' = RowsOf(e) /\ Ours("sent", e)' = Ours("sent", e)
    BY <1>1 DEF RowsOf, Ours
  <2>3. Counted'
    BY <1>1, <2>2 DEF AlertInv, Counted
  <2> QED
    BY <2>1, <2>3
<1>9. ASSUME NEW a \in Alert PROVE Addressed(a)' /\ Patient(a)' /\ Mine(a)'
  <2>1. alert[a].asked \in Nat /\ alert[a].since \in Nat
    BY DEF AlertInv, AlertTypes, Coroutine, Time
  <2>2. Addressed(a)' /\ Patient(a)'
    BY <1>1, <1>2, <2>1 DEF AlertInv, Addressed, Patient
  <2>3. Mine(a)'
    BY <1>1, <1>6, <2>1 DEF AlertInv, Mine, NewestSent, RowsOf
  <2> QED
    BY <2>2, <2>3
<1> QED
  BY <1>4, <1>5, <1>7, <1>8, <1>9 DEF AlertInv

\* At first there are no records and no answer.
LEMMA AlertInvInit == Init => AlertInv
<1> SUFFICES ASSUME Init PROVE AlertInv
  OBVIOUS
<1> PICK e \in Event : alert = [a \in Alert |-> New("new", e, 0)]
  BY DEF Init
<1>1. \A a \in Alert : alert[a] \in Coroutine /\ alert[a].at = "new"
  BY NewCoroutine DEF Steps, Time
<1>2. AlertTypes
  BY <1>1 DEF Init, AlertTypes, Time, Outcomes
<1>3. rows = <<>> /\ (\A f : RowsOf(f) = {}) /\ (\A f : Ours("sent", f) = {})
  BY DEF Init, RowsOf, Ours
<1>4. Counted
  <2>1. {a \in Alert : suppressed[a] = "sent"} = {}
    BY DEF Init
  <2> QED
    BY <1>1, <1>3, <2>1, FS_EmptySet DEF Counted, Init
<1>5. CacheSound /\ Written /\ Alone /\ QuietAndComplete
  BY <1>1, <1>3 DEF Init, CacheSound, Written, Alone, Under, QuietAndComplete
<1>6. \A a \in Alert : Addressed(a) /\ Patient(a) /\ Mine(a)
  BY <1>1, <1>3 DEF Addressed, Patient, Mine, Deciding, Outgoing
<1> QED
  BY <1>2, <1>4, <1>5, <1>6 DEF AlertInv

\* Every step of every alert keeps the invariant.
LEMMA AlertInvStep == AlertInv /\ [Next]_vars => AlertInv'
<1> SUFFICES ASSUME AlertInv, [Next]_vars PROVE AlertInv'
  OBVIOUS
<1>1. CASE UNCHANGED vars
  <2>1. UNCHANGED <<now, duty, rows, cache, alert, faults, suppressed, met>>
    BY <1>1 DEF vars
  <2>2. AlertTypes' /\ CacheSound' /\ Written' /\ Alone' /\ QuietAndComplete'
    BY <2>1 DEF AlertInv, AlertTypes, CacheSound, Written, Alone, Under, QuietAndComplete, RowsOf
  <2>3. \A e \in Event : RowsOf(e)' = RowsOf(e) /\ Ours("sent", e)' = Ours("sent", e)
    BY <2>1 DEF RowsOf, Ours
  <2>4. Counted'
    BY <2>1, <2>3 DEF AlertInv, Counted
  <2>5. \A a \in Alert : Addressed(a)' /\ Patient(a)' /\ Mine(a)'
    BY <2>1 DEF AlertInv, Addressed, Patient, Mine, NewestSent, RowsOf
  <2> QED
    BY <2>2, <2>4, <2>5 DEF AlertInv
<1>2. ASSUME NEW a \in Alert, Step(a) PROVE AlertInv'
  BY <1>2, SelectStep, MergeStep, LookupStep, AnsweredStep, UnansweredStep, PreviousStep,
     AttemptStep, RecordStep DEF Step
<1> QED
  BY <1>1, <1>2, BeginStep, SwallowedStep, RestartStep, TickStep DEF Next

\* The invariant holds in every state.
LEMMA AlertInvHolds == Spec => []AlertInv
BY AlertInvInit, AlertInvStep, PTL DEF Spec

-----------------------------------------------------------------------------
(* AlertNotify: the counts, on top of the invariant *)

\* Each merged alert of an event is one more in the counts of its records.
Tally == \A e \in Event : Total(RowsOf(e), rows) = Cardinality(Ours("merged", e))

\* No record and no merged alert comes or goes.
LEMMA TallyStays ==
  ASSUME AlertInv, AlertInv', Tally, UNCHANGED rows,
         \A a \in Alert : suppressed[a] = "merged" <=> suppressed'[a] = "merged",
         \A a \in Alert : suppressed[a] = "merged" => alert'[a].event = alert[a].event
  PROVE  Tally'
<1>1. \A e \in Event : Ours("merged", e)' = Ours("merged", e)
  BY DEF Ours
<1>2. \A e \in Event : RowsOf(e)' = RowsOf(e)
  BY DEF RowsOf
<1> QED
  BY <1>1, <1>2 DEF Tally

\* An event's records are finitely many.
LEMMA RowsCounted ==
  ASSUME AlertInv, NEW e \in Event
  PROVE  /\ RowsOf(e) \in SUBSET DOMAIN rows /\ IsFiniteSet(DOMAIN rows) /\ IsFiniteSet(RowsOf(e))
         /\ \A i \in RowsOf(e) : rows[i].merged \in Nat
<1>1. rows \in Seq(Row) /\ DOMAIN rows = 1..Len(rows) /\ Len(rows) \in Nat
  BY DEF AlertInv, AlertTypes
<1>2. IsFiniteSet(DOMAIN rows)
  BY <1>1, FS_Interval
<1>3. RowsOf(e) \in SUBSET DOMAIN rows
  BY DEF RowsOf
<1>4. IsFiniteSet(RowsOf(e))
  BY <1>2, <1>3, FS_Subset
<1> QED
  BY <1>1, <1>2, <1>3, <1>4, RowsTyped

\* A merge is one more in one count.
LEMMA TallyMerge == ASSUME AlertInv, AlertInv', Tally, NEW a \in Alert, Merge(a) PROVE Tally'
<1> PICK e \in Event : e = alert[a].event
  BY DEF AlertInv, AlertTypes, Coroutine
<1> PICK r \in Nat : r = alert[a].row
  BY DEF AlertInv, AlertTypes, Coroutine
<1>1. /\ alert[a].at = "merge" /\ rows \in Seq(Row) /\ End(a, "merged")
      /\ rows' = [rows EXCEPT ![r].merged = @ + 1]
  BY DEF Merge, AlertInv, AlertTypes
<1>2. /\ alert'[a].event = e /\ suppressed'[a] = "merged" /\ suppressed[a] # "merged"
      /\ \A b \in Alert \ {a} : alert'[b] = alert[b] /\ suppressed'[b] = suppressed[b]
  <2>1. suppressed[a] = "pending"
    BY <1>1 DEF AlertInv, Counted
  <2> QED
    BY <1>1, <2>1, AlertEnded DEF Outcomes
<1>3. r \in RowsOf(e)
  BY <1>1 DEF AlertInv, Mine
<1>4. r \in DOMAIN rows /\ rows[r] \in Row /\ rows[r].event = e
  BY <1>1, <1>3, RowsTyped DEF RowsOf
<1>5. DOMAIN rows' = DOMAIN rows /\ \A i \in DOMAIN rows : rows'[i].event = rows[i].event
  BY <1>1, <1>4 DEF Row
<1>6. /\ rows'[r].merged = rows[r].merged + 1
      /\ \A i \in DOMAIN rows \ {r} : rows'[i].merged = rows[i].merged
  BY <1>1, <1>4 DEF Row
<1>7. \A f \in Event : RowsOf(f)' = RowsOf(f)
  BY <1>5 DEF RowsOf
<1>8. ASSUME NEW f \in Event, f # e PROVE Total(RowsOf(f), rows') = Cardinality(Ours("merged", f)')
  <2>1. \A i \in RowsOf(f) : rows'[i].merged = rows[i].merged
    BY <1>4, <1>6, <1>8 DEF RowsOf
  <2>2. Total(RowsOf(f), rows') = Total(RowsOf(f), rows)
    BY <2>1, RowsCounted, TotalSame
  <2>3. Ours("merged", f)' = Ours("merged", f)
    BY <1>2, <1>8 DEF Ours
  <2> QED
    BY <2>2, <2>3 DEF Tally
<1>9. Total(RowsOf(e), rows') = Cardinality(Ours("merged", e)')
  <2> DEFINE S == RowsOf(e)
             O == Ours("merged", e)
  <2>1. IsFiniteSet(S) /\ r \in S /\ \A i \in S : rows[i].merged \in Nat
    BY <1>3, RowsCounted
  <2>2. \A i \in S : rows'[i].merged \in Nat
    BY <1>6, <2>1 DEF RowsOf
  <2>3. \A i \in S \ {r} : rows'[i].merged = rows[i].merged
    BY <1>6 DEF RowsOf
  <2>4. O' = O \cup {a} /\ a \notin O /\ O \in SUBSET Alert
    BY <1>2 DEF Ours
  <2> HIDE DEF S, O
  <2>5. IsFiniteSet(S \ {r})
    BY <2>1, FS_Subset
  <2>6. Total(S \ {r}, rows') = Total(S \ {r}, rows)
    BY <2>3, <2>5, TotalSame
  <2>7. Total(S, rows) = rows[r].merged + Total(S \ {r}, rows) /\ Total(S \ {r}, rows) \in Nat
    BY <2>1, TotalWithout
  <2>12. Total(S, rows') = rows'[r].merged + Total(S \ {r}, rows')
    BY <2>1, <2>2, TotalWithout
  <2>8. Total(S, rows') = Total(S, rows) + 1
    BY <1>6, <2>1, <2>6, <2>7, <2>12
  <2>9. IsFiniteSet(O)
    BY <2>4, FS_Subset, AlertAssumption
  <2>10. Cardinality(O') = Cardinality(O) + 1
    BY <2>4, <2>9, FS_AddElement
  <2>11. Total(S, rows) = Cardinality(O)
    BY <1>3 DEF Tally, S, O
  <2> QED
    BY <2>8, <2>10, <2>11 DEF S, O
<1>10. \A f \in Event : Total(RowsOf(f), rows') = Cardinality(Ours("merged", f)')
  BY <1>8, <1>9
<1> QED
  BY <1>7, <1>10 DEF Tally

\* A record begins with a count of 0.
LEMMA TallyRecord == ASSUME AlertInv, AlertInv', Tally, NEW a \in Alert, Record(a) PROVE Tally'
<1> DEFINE n == Len(rows) + 1
<1>1. /\ alert[a].at = "record" /\ rows \in Seq(Row) /\ End(a, "sent") /\ Len(rows) \in Nat
      /\ rows' = Append(rows, [event |-> alert[a].event, ok |-> alert[a].ok, created |-> now,
                               merged |-> 0, said |-> alert[a].said, target |-> alert[a].target])
  BY DEF Record, AlertInv, AlertTypes
<1>2. /\ suppressed'[a] = "sent" /\ suppressed[a] = "pending"
      /\ \A b \in Alert \ {a} : alert'[b] = alert[b] /\ suppressed'[b] = suppressed[b]
  <2>1. suppressed[a] = "pending"
    BY <1>1 DEF AlertInv, Counted
  <2> QED
    BY <1>1, <2>1, AlertEnded DEF Outcomes
<1>3. /\ DOMAIN rows' = DOMAIN rows \cup {n} /\ n \notin DOMAIN rows /\ rows'[n].merged = 0
      /\ \A i \in DOMAIN rows : rows'[i] = rows[i]
  BY <1>1
<1> HIDE DEF n
<1>4. ASSUME NEW e \in Event PROVE Total(RowsOf(e)', rows') = Total(RowsOf(e), rows)
  <2>1. \A i \in RowsOf(e) : rows'[i].merged = rows[i].merged /\ i \in RowsOf(e)'
    BY <1>3 DEF RowsOf
  <2>2. Total(RowsOf(e), rows') = Total(RowsOf(e), rows)
    BY <2>1, RowsCounted, TotalSame
  <2>3. RowsOf(e)' \ {n} = RowsOf(e)
    BY <1>3 DEF RowsOf
  <2>4. CASE n \notin RowsOf(e)'
    BY <2>2, <2>3, <2>4
  <2>5. CASE n \in RowsOf(e)'
    <3>1. rows' \in Seq(Row) /\ DOMAIN rows' = 1..Len(rows') /\ Len(rows') \in Nat
      BY DEF AlertInv, AlertTypes
    <3>2. IsFiniteSet(DOMAIN rows')
      BY <3>1, FS_Interval
    <3>3. IsFiniteSet(RowsOf(e)') /\ \A i \in RowsOf(e)' : rows'[i].merged \in Nat
      <4>1. RowsOf(e)' \in SUBSET DOMAIN rows'
        BY DEF RowsOf
      <4>2. \A i \in DOMAIN rows' : rows'[i] \in Row
        BY <3>1
      <4> QED
        BY <3>2, <4>1, <4>2, FS_Subset DEF Row
    <3>4. /\ Total(RowsOf(e)', rows') = rows'[n].merged + Total(RowsOf(e)' \ {n}, rows')
          /\ Total(RowsOf(e)' \ {n}, rows') \in Nat
      BY <2>5, <3>3, TotalWithout
    <3>5. Total(RowsOf(e)' \ {n}, rows') = Total(RowsOf(e), rows)
      BY <2>2, <2>3
    <3> QED
      BY <1>3, <3>4, <3>5
  <2> QED
    BY <2>4, <2>5
<1>5. \A e \in Event : Ours("merged", e)' = Ours("merged", e)
  BY <1>2 DEF Ours
<1> QED
  BY <1>4, <1>5 DEF Tally

LEMMA TallyStep == AlertInv /\ AlertInv' /\ Tally /\ [Next]_vars => Tally'
<1> SUFFICES ASSUME AlertInv, AlertInv', Tally, [Next]_vars PROVE Tally'
  OBVIOUS
<1>0. \A a \in Alert : suppressed[a] # "pending" <=> alert[a].at = "ended"
  BY DEF AlertInv, Counted
<1>1. ASSUME NEW a \in Alert, NEW e \in Event, Begin(a, e) PROVE Tally'
  <2>1. suppressed[a] = "pending" /\ UNCHANGED <<rows, suppressed>>
    BY <1>0, <1>1 DEF Begin
  <2>2. \A b \in Alert \ {a} : alert'[b] = alert[b]
    BY <1>1 DEF Begin, Become, AlertInv, AlertTypes
  <2> QED
    BY <2>1, <2>2, TallyStays
<1>2. ASSUME NEW a \in Alert, UNCHANGED <<rows, suppressed>>, NEW c, Become(a, c), c.event = alert[a].event
      PROVE Tally'
  <2>1. \A b \in Alert : alert'[b].event = alert[b].event
    BY <1>2 DEF Become, AlertInv, AlertTypes
  <2> QED
    BY <1>2, <2>1, TallyStays
<1>3. ASSUME NEW a \in Alert, Step(a) PROVE Tally'
  <2>1. CASE Merge(a)
    BY <2>1, TallyMerge
  <2>2. CASE Record(a)
    BY <2>2, TallyRecord
  <2>3. alert[a] \in Coroutine
    BY DEF AlertInv, AlertTypes
  <2>4. CASE Select(a)
    BY <1>2, <2>3, <2>4 DEF Select, Coroutine
  <2>5. CASE Lookup(a)
    BY <1>2, <2>3, <2>5 DEF Lookup, Coroutine
  <2>6. CASE Answered(a) \/ Unanswered(a)
    BY <1>2, <2>3, <2>6 DEF Answered, Unanswered, Coroutine
  <2>7. CASE Previous(a)
    BY <1>2, <2>3, <2>7 DEF Previous, Coroutine
  <2>8. CASE Attempt(a)
    BY <1>2, <2>3, <2>8 DEF Attempt, Coroutine
  <2> QED
    BY <1>3, <2>1, <2>2, <2>4, <2>5, <2>6, <2>7, <2>8 DEF Step
<1>4. ASSUME NEW a \in Alert, Swallowed(a) PROVE Tally'
  <2>1. /\ suppressed[a] = "pending" /\ suppressed'[a] = "lost" /\ UNCHANGED rows
        /\ \A b \in Alert \ {a} : alert'[b] = alert[b] /\ suppressed'[b] = suppressed[b]
    BY <1>0, <1>4, AlertEnded DEF Swallowed, Outcomes
  <2> QED
    BY <2>1, TallyStays
<1>5. CASE Restart
  <2>1. \A a \in Alert : IF Under(a) THEN suppressed'[a] = "lost" /\ suppressed[a] = "pending"
                         ELSE suppressed'[a] = suppressed[a] /\ alert'[a] = alert[a]
    BY <1>0, <1>5 DEF Restart, Under
  <2> QED
    BY <1>5, <2>1, TallyStays DEF Restart
<1>6. CASE Tick \/ UNCHANGED vars
  BY <1>6, TallyStays DEF Tick, vars
<1> QED
  BY <1>1, <1>3, <1>4, <1>5, <1>6 DEF Next

LEMMA TallyInit == Init => Tally
<1> SUFFICES ASSUME Init, NEW e \in Event PROVE Total(RowsOf(e), rows) = Cardinality(Ours("merged", e))
  BY DEF Tally
<1>1. RowsOf(e) = {}
  BY DEF Init, RowsOf
<1>2. Ours("merged", e) = {}
  BY DEF Init, Ours
<1> QED
  BY <1>1, <1>2, TotalOfNone, FS_EmptySet

-----------------------------------------------------------------------------
(* AlertNotify: theorems *)

\* There are no more records than alerts.
LEMMA AlertInvTypes == AlertInv => TypeOK
<1> SUFFICES ASSUME AlertInv PROVE TypeOK
  OBVIOUS
<1>1. Len(rows) <= Cardinality(Alert)
  BY FS_Subset DEF AlertInv, Counted
<1>2. \A a \in Alert : alert[a].at = "merge" => alert[a].row \in DOMAIN rows
  BY DEF AlertInv, Mine, RowsOf
<1> QED
  BY <1>1, <1>2 DEF AlertInv, AlertTypes, TypeOK

\* Every coroutine, record and answer has its type, a merge has a record to count in, and
\* an alert writes at most one record (_notify_alert_inner).
THEOREM AlertTypeCorrect == Spec => []TypeOK
BY AlertInvTypes, AlertInvHolds, PTL

\* Whoever is mentioned was on duty no longer ago than an answer is kept, in whatever
\* order the answers of concurrent questions arrive (current_oncall).
THEOREM NobodyOffDuty == Spec => []OnDutyRecently
<1>1. AlertInv => OnDutyRecently
  BY DEF AlertInv, Addressed, OnDutyRecently
<1> QED
  BY <1>1, AlertInvHolds, PTL

\* Every alert that ended without an error is a record or one more in the count of one,
\* however many meet (_suppress_and_merge counts in place); and alerts of an event that
\* never meet are told in full: messages are more than a window apart, and each one reports
\* exactly what was merged into the one before (_previous_merged_count).
THEOREM AlertsAreCounted == Spec => []CountedAndTold
<1>1. AlertInv /\ Tally => CountedAndTold
  BY MergedInIs DEF CountedAndTold, EveryTriggerCounted, Tally, AlertInv, Counted
<1> QED
  BY <1>1, AlertInvHolds, TallyInit, TallyStep, PTL DEF Spec
=============================================================================
