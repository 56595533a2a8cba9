---------------------------- MODULE FormsProofs ----------------------------
(***************************************************************************)
(* Theorems about DiskPlan, for any forms, any machines with any number of *)
(* disks, whatever order the kernel finds them in, any number of boots;   *)
(* and about NetConfig, for any requests, runs and cuts of the script.     *)
(***************************************************************************)
EXTENDS DiskPlan, NetConfig, FiniteSetTheorems, WellFoundedInduction, TLAPS

-----------------------------------------------------------------------------
(* Chains of masters, as NoCycle follows them, and the rings they can form *)

\* Some numbers have a least one.
LEMMA LeastNat ==
  ASSUME NEW T \in SUBSET Nat, T # {}
  PROVE  \E m \in T : \A k \in T : m <= k
<1> DEFINE R == {p \in Nat \X Nat : p[1] < p[2]}
<1>1. IsWellFoundedOn(R, Nat)
  BY NatLessThanWellFounded DEF OpToRel
<1>2. \A k, m \in Nat : k < m => <<k, m>> \in R
  OBVIOUS
<1> HIDE DEF R
<1>3. PICK m \in T : \A k \in T : <<k, m>> \notin R
  BY <1>1, WFMin
<1>4. ASSUME NEW k \in T
      PROVE  m <= k
  <2>1. k \in Nat /\ m \in Nat
    OBVIOUS
  <2>2. ~(k < m)
    BY <1>2, <1>3, <2>1
  <2> QED
    BY <2>1, <2>2
<1> QED
  BY <1>4

\* Names, without what the provers know of strings.
Name == STRING

\* One more name at the end of a chain.
LEMMA AppendIs ==
  ASSUME NEW c \in Seq(Name), NEW x \in Name
  PROVE  /\ Append(c, x) \in Seq(Name) /\ Append(c, x) # <<>>
         /\ Last(Append(c, x)) = x /\ ToSet(Append(c, x)) = ToSet(c) \cup {x}
         /\ c # <<>> => Last(c) \in ToSet(c)
<1> DEFINE d == Append(c, x)
<1>1. d \in Seq(Name) /\ Len(d) = Len(c) + 1 /\ Len(c) \in Nat /\ d # <<>>
  OBVIOUS
<1>2. \A i \in 1..Len(c) : d[i] = c[i]
  OBVIOUS
<1>3. d[Len(c) + 1] = x
  OBVIOUS
<1>4. DOMAIN d = 1..Len(c) + 1 /\ DOMAIN c = 1..Len(c)
  OBVIOUS
<1> HIDE DEF d
<1>5. Last(d) = x
  BY <1>1, <1>3 DEF Last
<1>6. ToSet(d) = ToSet(c) \cup {x}
  BY <1>1, <1>2, <1>3, <1>4 DEF ToSet
<1>7. c # <<>> => Last(c) \in ToSet(c)
  BY <1>1, <1>4 DEF Last, ToSet
<1> QED
  BY <1>1, <1>5, <1>6, <1>7 DEF d

\* What Chain follows for some function f, from the chains in D.
Follows(f, D, q, seen) ==
  f = [c \in D |->
         IF MasterOf(q, Last(c)) \in ToSet(c) THEN [chain |-> c, closes |-> TRUE]
         ELSE IF MasterOf(q, Last(c)) \notin Ports(q) \/ MasterOf(q, Last(c)) \in seen
              THEN [chain |-> c, closes |-> FALSE]
         ELSE f[Append(c, MasterOf(q, Last(c)))]]

\* The ports that a chain has not reached yet.
Ahead(q, c) == Cardinality(Ports(q) \ ToSet(c))

\* A step that goes on has one port less ahead.
LEMMA LessAhead ==
  ASSUME NEW q, IsFiniteSet(Ports(q)), Ports(q) \in SUBSET Name, NEW c \in Seq(Name)
  PROVE  /\ Ahead(q, c) \in Nat
         /\ \A x \in Ports(q) \ ToSet(c) : /\ Append(c, x) \in Seq(Name)
                                           /\ Ahead(q, Append(c, x)) = Ahead(q, c) - 1
                                           /\ Ahead(q, c) > 0
<1> DEFINE A == Ports(q) \ ToSet(c)
<1>1. IsFiniteSet(A) /\ Cardinality(A) \in Nat
  BY FS_Subset, FS_CardinalityType
<1>2. ASSUME NEW x \in A
      PROVE  /\ Append(c, x) \in Seq(Name) /\ Ahead(q, Append(c, x)) = Ahead(q, c) - 1 /\ Ahead(q, c) > 0
  <2>1. x \in Name
    OBVIOUS
  <2>2. Append(c, x) \in Seq(Name) /\ ToSet(Append(c, x)) = ToSet(c) \cup {x}
    BY <2>1, AppendIs
  <2>3. Ports(q) \ ToSet(Append(c, x)) = A \ {x}
    BY <2>2
  <2>4. Cardinality(A \ {x}) = Cardinality(A) - 1
    BY <1>1, FS_RemoveElement
  <2>5. Cardinality(A) # 0
    BY <1>1, FS_EmptySet
  <2>6. Ahead(q, c) = Cardinality(A) /\ Ahead(q, Append(c, x)) = Cardinality(A \ {x})
    BY <2>3 DEF Ahead
  <2> HIDE DEF A
  <2> QED
    BY <1>1, <2>2, <2>4, <2>5, <2>6
<1> QED
  BY <1>1, <1>2 DEF Ahead

\* There is such a function, since fewer and fewer ports are ahead.
LEMMA FollowExists ==
  ASSUME NEW q, IsFiniteSet(Ports(q)), Ports(q) \in SUBSET Name, NEW seen
  PROVE  \E f : Follows(f, Seq(Name), q, seen)
<1> DEFINE D(n) == {c \in Seq(Name) : Ahead(q, c) <= n}
           T == {n \in Nat : \A f : ~Follows(f, D(n), q, seen)}
<1>1. ASSUME T # {} PROVE FALSE
  <2>1. T \in SUBSET Nat
    OBVIOUS
  <2>2. PICK m \in T : \A k \in T : m <= k
    BY <1>1, <2>1, LeastNat
  <2>3. m \in Nat /\ \A f : ~Follows(f, D(m), q, seen)
    OBVIOUS
  <2>4. \E f : m > 0 => Follows(f, D(m - 1), q, seen)
    <3>1. CASE m > 0
      <4>1. m - 1 \in Nat /\ m - 1 \notin T
        BY <2>2, <2>3, <3>1
      <4> QED
        BY <4>1
    <3> QED
      BY <3>1
  <2>5. PICK f : m > 0 => Follows(f, D(m - 1), q, seen)
    BY <2>4
  <2> HIDE DEF T
  <2> DEFINE Closing(c) == MasterOf(q, Last(c)) \in ToSet(c)
             Ending(c) == MasterOf(q, Last(c)) \notin Ports(q) \/ MasterOf(q, Last(c)) \in seen
             next(c) == Append(c, MasterOf(q, Last(c)))
             g == [c \in D(m) |-> IF Closing(c) THEN [chain |-> c, closes |-> TRUE]
                                  ELSE IF Ending(c) THEN [chain |-> c, closes |-> FALSE]
                                  ELSE f[next(c)]]
  <2>6. ASSUME NEW c \in D(m), ~Closing(c), ~Ending(c)
        PROVE  g[next(c)] = f[next(c)]
    <3>1. MasterOf(q, Last(c)) \in Ports(q) \ ToSet(c)
      BY <2>6
    <3>2. /\ Ahead(q, c) \in Nat /\ Ahead(q, c) > 0 /\ Ahead(q, c) <= m
          /\ next(c) \in Seq(Name) /\ Ahead(q, next(c)) = Ahead(q, c) - 1
      BY <3>1, LessAhead
    <3>3. m > 0 /\ next(c) \in D(m - 1) /\ next(c) \in D(m)
      BY <2>3, <3>2
    <3> DEFINE d == next(c)
    <3>4. f[d] = IF Closing(d) THEN [chain |-> d, closes |-> TRUE]
                 ELSE IF Ending(d) THEN [chain |-> d, closes |-> FALSE]
                 ELSE f[next(d)]
      <4> HIDE DEF d
      <4> QED
        BY <2>5, <3>3 DEF Follows, d
    <3>5. d \in D(m)
      BY <3>3
    <3> HIDE DEF d
    <3>6. g[d] = f[d]
      BY <3>4, <3>5
    <3> QED
      BY <3>6 DEF d
  <2>7. \A c \in D(m) : g[c] = IF Closing(c) THEN [chain |-> c, closes |-> TRUE]
                               ELSE IF Ending(c) THEN [chain |-> c, closes |-> FALSE]
                               ELSE g[next(c)]
    BY <2>6
  <2>8. g = [c \in D(m) |-> g[c]]
    OBVIOUS
  <2>9. Follows(g, D(m), q, seen)
    <3> HIDE DEF g
    <3> QED
      BY <2>7, <2>8 DEF Follows
  <2> QED
    BY <2>3, <2>9
<1> DEFINE n == Cardinality(Ports(q))
<1>2. n \in Nat
  BY FS_CardinalityType
<1>3. PICK f : Follows(f, D(n), q, seen)
  BY <1>1, <1>2
<1>4. D(n) = Seq(Name)
  BY FS_Subset DEF Ahead
<1> QED
  BY <1>3, <1>4
\* Masters that lead from one to the other and never out.
Ring(q, S) == S \in SUBSET Ports(q) /\ S # {} /\ \A p \in S : MasterOf(q, p) \in S

\* A chain so far: each port's master is the next one.
Chained(q) ==
  {c \in Seq(Name) : c # <<>> /\ ToSet(c) \in SUBSET Ports(q)
                     /\ \A p \in ToSet(c) : p = Last(c) \/ MasterOf(q, p) \in ToSet(c)}

\* What a walk from chain c finds, in the words of rings.
Finds(q, seen, c, found) ==
  /\ ToSet(c) \in SUBSET ToSet(found.chain)
  /\ found.closes \in BOOLEAN
  /\ found.closes => \E S : Ring(q, S)
  /\ \A S : Ring(q, S) /\ S \cap seen = {} =>
       /\ Last(c) \in S => found.closes
       /\ ToSet(c) \cap S = {} => found.closes \/ ToSet(found.chain) \cap S = {}

\* A walk that closes has found a ring; one that enters a ring closes.
LEMMA FollowFinds ==
  ASSUME NEW q, IsFiniteSet(Ports(q)), Ports(q) \in SUBSET Name, NEW seen,
         NEW f, Follows(f, Seq(Name), q, seen)
  PROVE  \A c \in Chained(q) : Finds(q, seen, c, f[c])
<1> DEFINE T == {n \in Nat : \E c \in Chained(q) : Ahead(q, c) = n /\ ~Finds(q, seen, c, f[c])}
<1>1. ASSUME T # {} PROVE FALSE
  <2>1. T \in SUBSET Nat
    OBVIOUS
  <2>2. PICK m \in T : \A k \in T : m <= k
    BY <1>1, <2>1, LeastNat
  <2>3. PICK c \in Chained(q) : Ahead(q, c) = m /\ ~Finds(q, seen, c, f[c])
    OBVIOUS
  <2>4. \A d \in Chained(q) : Ahead(q, d) \in Nat /\ Ahead(q, d) < m => Finds(q, seen, d, f[d])
    BY <2>2
  <2> HIDE DEF T
  <2> DEFINE x == MasterOf(q, Last(c))
  <2>5. /\ c \in Seq(Name) /\ c # <<>> /\ ToSet(c) \in SUBSET Ports(q) /\ Last(c) \in ToSet(c)
        /\ \A p \in ToSet(c) : p = Last(c) \/ MasterOf(q, p) \in ToSet(c)
        /\ \A y \in Name : /\ Append(c, y) \in Seq(Name) /\ Append(c, y) # <<>>
                           /\ Last(Append(c, y)) = y /\ ToSet(Append(c, y)) = ToSet(c) \cup {y}
    BY AppendIs DEF Chained
  <2>6. f[c] = IF x \in ToSet(c) THEN [chain |-> c, closes |-> TRUE]
               ELSE IF x \notin Ports(q) \/ x \in seen THEN [chain |-> c, closes |-> FALSE]
               ELSE f[Append(c, x)]
    BY <2>5 DEF Follows
  <2> HIDE DEF x
  <2>7. CASE x \in ToSet(c)
    <3>1. Ring(q, ToSet(c))
      BY <2>5, <2>7 DEF Ring, x
    <3>2. f[c].chain = c /\ f[c].closes = TRUE
      BY <2>6, <2>7
    <3> QED
      BY <2>3, <3>1, <3>2 DEF Finds
  <2>8. CASE x \notin ToSet(c) /\ (x \notin Ports(q) \/ x \in seen)
    <3>1. f[c].chain = c /\ f[c].closes = FALSE
      BY <2>6, <2>8
    <3>2. ASSUME NEW S, Ring(q, S), S \cap seen = {} PROVE Last(c) \notin S
      BY <2>8, <3>2 DEF Ring, x
    <3> QED
      BY <2>3, <3>1, <3>2 DEF Finds
  <2>9. CASE x \in Ports(q) \ ToSet(c) /\ x \notin seen
    <3> DEFINE d == Append(c, x)
    <3>1. /\ d \in Seq(Name) /\ d # <<>> /\ Last(d) = x /\ ToSet(d) = ToSet(c) \cup {x}
          /\ f[c] = f[d]
      BY <2>5, <2>6, <2>9
    <3>2. Ahead(q, d) \in Nat /\ Ahead(q, d) < m
      BY <2>3, <2>5, <2>9, <3>1, LessAhead
    <3> HIDE DEF d
    <3>3. d \in Chained(q)
      BY <2>5, <2>9, <3>1 DEF Chained, x
    <3>4. Finds(q, seen, d, f[d])
      BY <2>4, <3>2, <3>3
    <3>5. ASSUME NEW S, Ring(q, S), S \cap seen = {}
          PROVE  /\ Last(c) \in S => f[d].closes
                 /\ ToSet(c) \cap S = {} => f[d].closes \/ ToSet(f[d].chain) \cap S = {}
      <4>1. /\ x \in S => f[d].closes
            /\ ToSet(d) \cap S = {} => f[d].closes \/ ToSet(f[d].chain) \cap S = {}
        BY <3>1, <3>4, <3>5 DEF Finds
      <4>2. Last(c) \in S => x \in S
        BY <3>5 DEF Ring, x
      <4> QED
        BY <3>1, <4>1, <4>2
    <3>6. Finds(q, seen, c, f[c])
      BY <3>1, <3>4, <3>5 DEF Finds
    <3> QED
      BY <2>3, <3>6
  <2> QED
    BY <2>7, <2>8, <2>9
<1>2. \A c \in Chained(q) : c \in Seq(Name)
  BY DEF Chained
<1>3. \A c \in Chained(q) : Ahead(q, c) \in Nat
  BY <1>2, LessAhead
<1> QED
  BY <1>1, <1>3

\* What Chain returns, in the words of rings.
LEMMA ChainFinds ==
  ASSUME NEW q, IsFiniteSet(Ports(q)), Ports(q) \in SUBSET Name, NEW seen, NEW p \in Ports(q)
  PROVE  /\ p \in ToSet(Chain(q, p, seen).chain) /\ Chain(q, p, seen).closes \in BOOLEAN
         /\ Chain(q, p, seen).closes => \E S : Ring(q, S)
         /\ \A S : Ring(q, S) /\ S \cap seen = {} =>
              Chain(q, p, seen).closes \/ ToSet(Chain(q, p, seen).chain) \cap S = {}
<1> DEFINE f == CHOOSE g : Follows(g, Seq(Name), q, seen)
<1>1. Follows(f, Seq(Name), q, seen)
  BY FollowExists
<1>2. Chain(q, p, seen) = f[<<p>>]
  BY DEF Chain, Follows, Name
<1> HIDE DEF f
<1>3. p \in Name
  OBVIOUS
<1>4. <<p>> \in Seq(Name) /\ <<p>> # <<>> /\ Last(<<p>>) = p /\ ToSet(<<p>>) = {p}
  BY <1>3 DEF Last, ToSet
<1>5. <<p>> \in Chained(q)
  BY <1>4 DEF Chained
<1>6. Finds(q, seen, <<p>>, f[<<p>>])
  BY <1>1, <1>5, FollowFinds
<1> QED
  BY <1>2, <1>4, <1>6 DEF Finds, Ring
\* Some places in a list have a last one.
LEMMA GreatestOf ==
  ASSUME NEW n \in Nat, NEW d \in SUBSET (1..n), d # {}
  PROVE  Max(d) \in d /\ \A i \in d : i <= Max(d)
<1> DEFINE T == {n - i : i \in d}
<1>0. PICK i0 \in d : TRUE
  OBVIOUS
<1>1. T \in SUBSET Nat /\ T # {}
  <2>1. n - i0 \in T
    BY <1>0
  <2>2. \A j \in d : n - j \in Nat
    OBVIOUS
  <2> QED
    BY <2>1, <2>2
<1>2. PICK m \in T : \A k \in T : m <= k
  BY <1>1, LeastNat
<1>3. PICK i \in d : m = n - i
  OBVIOUS
<1>4. ASSUME NEW j \in d PROVE i >= j
  <2>1. n - j \in T
    OBVIOUS
  <2>2. m <= n - j
    BY <1>2, <2>1
  <2>3. i \in Int /\ j \in Int
    OBVIOUS
  <2> QED
    BY <1>3, <2>2, <2>3
<1>5. Max(d) \in d /\ \A j \in d : Max(d) >= j
  BY <1>4 DEF Max
<1> QED
  BY <1>5

\* One more port in NoCycle.
Visited(q, acc, port) ==
  IF port \in acc.seen THEN acc
  ELSE LET found == Chain(q, port, acc.seen)
       IN [seen |-> acc.seen \cup ToSet(found.chain), cycle |-> acc.cycle \/ found.closes]

\* Before the first port.
NoneVisited == [seen |-> {}, cycle |-> FALSE]

\* What NoCycle folds for some function g, for each set of places in s.
Visits(g, n, q, s) ==
  g = [d \in SUBSET (1..n) |-> IF d = {} THEN NoneVisited
                               ELSE Visited(q, g[d \ {Max(d)}], s[Max(d)])]

\* There is such a function, place after place.
LEMMA VisitsExist ==
  ASSUME NEW q, NEW s, NEW n \in Nat
  PROVE  \E g : Visits(g, n, q, s)
<1> DEFINE T == {m \in Nat : \A g : ~Visits(g, m, q, s)}
<1> SUFFICES ASSUME T # {} PROVE FALSE
  OBVIOUS
<1>1. T \in SUBSET Nat
  OBVIOUS
<1>2. PICK m \in T : \A k \in T : m <= k
  BY <1>1, LeastNat
<1>3. m \in Nat /\ \A g : ~Visits(g, m, q, s)
  OBVIOUS
<1>4. \E g : m > 0 => Visits(g, m - 1, q, s)
  <2>1. CASE m > 0
    <3>1. m - 1 \in Nat /\ m - 1 \notin T
      BY <1>2, <1>3, <2>1
    <3> QED
      BY <3>1
  <2> QED
    BY <2>1
<1>5. PICK f : m > 0 => Visits(f, m - 1, q, s)
  BY <1>4
<1> HIDE DEF T
<1> DEFINE Value(h, d) == IF d = {} THEN NoneVisited ELSE Visited(q, h[d \ {Max(d)}], s[Max(d)])
           g == [d \in SUBSET (1..m) |-> Value(f, d)]
<1>6. ASSUME NEW d \in SUBSET (1..m), d # {}
      PROVE  g[d \ {Max(d)}] = f[d \ {Max(d)}]
  <2> DEFINE e == d \ {Max(d)}
  <2>1. Max(d) \in d /\ \A i \in d : i <= Max(d)
    BY <1>3, <1>6, GreatestOf
  <2>2. Max(d) \in 1..m /\ \A i \in e : i \in 1..m /\ i # Max(d)
    BY <2>1
  <2>3. \A i \in e : i \in 1..m - 1
    BY <1>3, <2>1, <2>2
  <2>4. e \in SUBSET (1..m) /\ e \in SUBSET (1..m - 1)
    BY <2>2, <2>3
  <2>7. m > 0
    BY <1>3, <2>2
  <2> HIDE DEF e
  <2>5. f[e] = Value(f, e)
    BY <1>5, <2>4, <2>7 DEF Visits
  <2>6. g[e] = Value(f, e)
    BY <2>4
  <2> QED
    BY <2>5, <2>6 DEF e
<1>7. \A d \in SUBSET (1..m) : g[d] = Value(g, d)
  BY <1>6
<1>8. g = [d \in SUBSET (1..m) |-> g[d]]
  OBVIOUS
<1>9. Visits(g, m, q, s)
  <2> HIDE DEF g
  <2> QED
    BY <1>7, <1>8 DEF Visits
<1> QED
  BY <1>3, <1>9

\* The ports of a request that have been visited, in the words of rings.
Explored(q, done, acc) ==
  /\ done \in SUBSET acc.seen
  /\ acc.cycle \in BOOLEAN
  /\ acc.cycle => \E S : Ring(q, S)
  /\ \A S : Ring(q, S) => acc.cycle \/ S \cap acc.seen = {}

\* One port more is explored.
LEMMA VisitedExplored ==
  ASSUME NEW q, IsFiniteSet(Ports(q)), Ports(q) \in SUBSET Name, NEW done, NEW acc,
         Explored(q, done, acc), NEW p \in Ports(q)
  PROVE  Explored(q, done \cup {p}, Visited(q, acc, p))
<1>1. CASE p \in acc.seen
  BY <1>1 DEF Explored, Visited
<1>2. CASE p \notin acc.seen
  <2> DEFINE found == Chain(q, p, acc.seen)
  <2>1. /\ p \in ToSet(found.chain) /\ found.closes \in BOOLEAN
        /\ found.closes => \E S : Ring(q, S)
        /\ \A S : Ring(q, S) /\ S \cap acc.seen = {} =>
             found.closes \/ ToSet(found.chain) \cap S = {}
    BY ChainFinds
  <2>2. /\ Visited(q, acc, p).seen = acc.seen \cup ToSet(found.chain)
        /\ Visited(q, acc, p).cycle = (acc.cycle \/ found.closes)
    BY <1>2, Zenon DEF Visited
  <2> HIDE DEF found
  <2>3. Visited(q, acc, p).cycle \in BOOLEAN /\ (Visited(q, acc, p).cycle <=> acc.cycle \/ found.closes)
    BY <2>1, <2>2, Zenon DEF Explored
  <2>4. done \cup {p} \in SUBSET Visited(q, acc, p).seen
    BY <2>1, <2>2 DEF Explored
  <2>5. (Visited(q, acc, p).cycle) => \E S : Ring(q, S)
    BY <2>1, <2>3, Zenon DEF Explored
  <2>6. ASSUME NEW S, Ring(q, S), ~Visited(q, acc, p).cycle PROVE S \cap Visited(q, acc, p).seen = {}
    <3>1. ~acc.cycle /\ ~found.closes
      BY <2>3, <2>6, Zenon
    <3>2. S \cap acc.seen = {}
      BY <2>6, <3>1, Zenon DEF Explored
    <3>3. ToSet(found.chain) \cap S = {}
      BY <2>1, <2>6, <3>1, <3>2, Zenon
    <3> QED
      BY <2>2, <3>2, <3>3
  <2> QED
    BY <2>3, <2>4, <2>5, <2>6, Zenon DEF Explored
<1> QED
  BY <1>1, <1>2

\* A finite set is listed whole.
LEMMA ListedWhole ==
  ASSUME NEW S, IsFiniteSet(S)
  PROVE  /\ SetToSeq(S) \in [1..Cardinality(S) -> S] /\ Cardinality(S) \in Nat
         /\ IsInjective(SetToSeq(S)) /\ ToSet(SetToSeq(S)) = S
<1> DEFINE n == Cardinality(S)
           s == SetToSeq(S)
<1>1. n \in Nat /\ ExistsBijection(1..n, S)
  BY FS_CardinalityType
<1>2. \E f \in [1..n -> S] : IsInjective(f)
  BY <1>1 DEF ExistsBijection, Bijection, Injection, IsInjective
<1>3. s \in [1..n -> S] /\ IsInjective(s)
  BY <1>2 DEF SetToSeq
<1> HIDE DEF s
<1>4. s \in Injection(1..n, S)
  BY <1>3 DEF Injection, IsInjective
<1>5. Cardinality(1..n) = n
  BY <1>1, FS_Interval
<1>6. s \in Surjection(1..n, S)
  BY <1>4, <1>5, FS_Injection
<1>7. ToSet(s) = S
  BY <1>6 DEF Surjection, ToSet
<1> QED
  BY <1>1, <1>3, <1>7 DEF s

\* The walk over all ports finds a cycle if there is a ring, and none if there is none.
LEMMA CyclesAreRings ==
  ASSUME NEW q, IsFiniteSet(Ports(q)), Ports(q) \in SUBSET Name
  PROVE  NoCycle(q) <=> \A S : ~Ring(q, S)
<1> DEFINE s == SetToSeq(Ports(q))
           n == Cardinality(Ports(q))
           g == CHOOSE h : Visits(h, n, q, s)
<1>1. s \in [1..n -> Ports(q)] /\ n \in Nat /\ ToSet(s) = Ports(q) /\ DOMAIN s = 1..n
  BY ListedWhole
<1>2. Visits(g, n, q, s)
  BY <1>1, VisitsExist
<1>3. NoCycle(q) <=> ~g[1..n].cycle
  <2>1. FoldLeft(LAMBDA acc, port : Visited(q, acc, port), NoneVisited, s) = g[DOMAIN s]
    BY <1>1 DEF FoldLeft, MapThenFoldSet, Visits
  <2> QED
    BY <1>1, <2>1 DEF NoCycle, Visited, NoneVisited
<1> HIDE DEF s, n, g
<1> DEFINE done(m) == {s[i] : i \in 1..m}
           T == {m \in Nat : m <= n /\ ~Explored(q, done(m), g[1..m])}
<1>4. ASSUME T # {} PROVE FALSE
  <2>1. T \in SUBSET Nat
    OBVIOUS
  <2>2. PICK m \in T : \A k \in T : m <= k
    BY <1>4, <2>1, LeastNat
  <2>3. m \in Nat /\ m <= n /\ ~Explored(q, done(m), g[1..m])
    OBVIOUS
  <2>4. CASE m = 0
    <3>1. g[{}] = NoneVisited /\ 1..m = {} /\ done(m) = {}
      BY <1>2, <2>4 DEF Visits
    <3>2. Explored(q, {}, NoneVisited)
      BY DEF Explored, NoneVisited
    <3> QED
      BY <2>3, <3>1, <3>2
  <2>5. CASE m # 0
    <3>0. m - 1 \in Nat /\ m - 1 <= n /\ ~(m <= m - 1)
      BY <1>1, <2>3, <2>5
    <3>1. m - 1 \in Nat /\ m - 1 <= n /\ m - 1 \notin T
      BY <2>2, <3>0
    <3>2. Explored(q, done(m - 1), g[1..m - 1])
      BY <3>1
    <3> HIDE DEF T
    <3>3. Max(1..m) = m
      <4>1. m \in 1..m
        BY <2>3, <2>5
      <4>2. Max(1..m) \in 1..m /\ \A i \in 1..m : i <= Max(1..m)
        BY <2>3, <4>1, GreatestOf
      <4> QED
        BY <2>3, <4>1, <4>2
    <3>4. 1..m \in SUBSET (1..n) /\ 1..m # {} /\ (1..m) \ {m} = 1..m - 1 /\ m \in 1..n
      <4>1. n \in Nat /\ m \in Nat /\ m <= n /\ m # 0
        BY <1>1, <2>3, <2>5
      <4>2. m \in 1..m /\ m \in 1..n
        BY <4>1
      <4>3. \A i \in 1..m : i \in 1..n
        BY <4>1
      <4>4. (1..m) \ {m} = 1..m - 1
        BY <4>1
      <4> QED
        BY <4>2, <4>3, <4>4
    <3>5. g[1..m] = Visited(q, g[1..m - 1], s[m])
      BY <1>2, <3>3, <3>4 DEF Visits
    <3>6. s[m] \in Ports(q)
      BY <1>1, <3>4
    <3>7. done(m) = done(m - 1) \cup {s[m]}
      BY <2>3, <2>5
    <3> HIDE DEF done
    <3>8. Explored(q, done(m - 1) \cup {s[m]}, Visited(q, g[1..m - 1], s[m]))
      BY <3>2, <3>6, VisitedExplored
    <3> QED
      BY <2>3, <3>5, <3>7, <3>8
  <2> QED
    BY <2>4, <2>5
<1>5. Explored(q, done(n), g[1..n])
  <2>1. n \in Nat /\ n <= n
    BY <1>1
  <2> QED
    BY <1>4, <2>1
<1>6. done(n) = Ports(q)
  BY <1>1 DEF ToSet
<1> HIDE DEF done, T
<1>7. ASSUME ~g[1..n].cycle, NEW S, Ring(q, S) PROVE FALSE
  BY <1>5, <1>6, <1>7 DEF Explored, Ring
<1> QED
  BY <1>3, <1>5, <1>7, Zenon DEF Explored
\* The least of some numbers is one of them.
LEMMA LeastIsMin ==
  ASSUME NEW I \in SUBSET Nat, I # {}
  PROVE  Min(I) \in I
<1>1. \E m \in I : \A k \in I : m <= k
  BY LeastNat
<1> QED
  BY <1>1 DEF Min

\* Two lists of different things, one after the other.
LEMMA ApartTogether ==
  ASSUME NEW X, NEW s \in Seq(X), NEW t \in Seq(X)
  PROVE  /\ ToSet(s \o t) = ToSet(s) \cup ToSet(t)
         /\ IsInjective(s \o t) <=> IsInjective(s) /\ IsInjective(t) /\ ToSet(s) \cap ToSet(t) = {}
<1> DEFINE r == s \o t
<1>1. /\ Len(s) \in Nat /\ Len(t) \in Nat
      /\ DOMAIN s = 1..Len(s) /\ DOMAIN t = 1..Len(t) /\ DOMAIN r = 1..Len(s) + Len(t)
      /\ \A i \in 1..Len(s) : r[i] = s[i]
      /\ \A i \in Len(s) + 1..Len(s) + Len(t) : r[i] = t[i - Len(s)]
  OBVIOUS
<1> HIDE DEF r
<1>2. \A i \in DOMAIN s : i \in DOMAIN r /\ r[i] = s[i]
  BY <1>1
<1>3. \A i \in DOMAIN t : Len(s) + i \in DOMAIN r /\ r[Len(s) + i] = t[i] /\ Len(s) + i \notin DOMAIN s
  BY <1>1
<1>4. \A i \in DOMAIN r : i \in DOMAIN s \/ \E k \in DOMAIN t : i = Len(s) + k
  <2>1. ASSUME NEW i \in DOMAIN r, i \notin DOMAIN s PROVE \E k \in DOMAIN t : i = Len(s) + k
    <3>1. i - Len(s) \in DOMAIN t /\ i = Len(s) + (i - Len(s))
      BY <1>1, <2>1
    <3> QED
      BY <3>1
  <2> QED
    BY <2>1
<1>5. ToSet(r) = ToSet(s) \cup ToSet(t)
  <2>1. ToSet(s) \cup ToSet(t) \in SUBSET ToSet(r)
    BY <1>2, <1>3 DEF ToSet
  <2>2. ToSet(r) \in SUBSET (ToSet(s) \cup ToSet(t))
    BY <1>2, <1>3, <1>4 DEF ToSet
  <2> QED
    BY <2>1, <2>2
<1>6. ASSUME IsInjective(r) PROVE IsInjective(s) /\ IsInjective(t) /\ ToSet(s) \cap ToSet(t) = {}
  <2>1. IsInjective(s)
    BY <1>2, <1>6 DEF IsInjective
  <2>2. ASSUME NEW i \in DOMAIN t, NEW k \in DOMAIN t, t[i] = t[k] PROVE i = k
    <3>1. Len(s) + i = Len(s) + k
      BY <1>3, <1>6, <2>2 DEF IsInjective
    <3>2. i \in Int /\ k \in Int
      BY <1>1
    <3> QED
      BY <1>1, <3>1, <3>2
  <2>3. \A i \in DOMAIN s, k \in DOMAIN t : s[i] # t[k]
    BY <1>2, <1>3, <1>6 DEF IsInjective
  <2>4. ToSet(s) \cap ToSet(t) = {}
    BY <2>3 DEF ToSet
  <2> QED
    BY <2>1, <2>2, <2>4 DEF IsInjective
<1>7. ASSUME IsInjective(s), IsInjective(t), ToSet(s) \cap ToSet(t) = {} PROVE IsInjective(r)
  <2>1. \A i \in DOMAIN s, k \in DOMAIN t : s[i] # t[k]
    BY <1>7 DEF ToSet
  <2>2. \A i, k \in DOMAIN s : s[i] = s[k] => i = k
    BY <1>7 DEF IsInjective
  <2>3. \A i, k \in DOMAIN t : t[i] = t[k] => i = k
    BY <1>7 DEF IsInjective
  <2> QED
    BY <1>2, <1>3, <1>4, <2>1, <2>2, <2>3 DEF IsInjective
<1> QED
  BY <1>5, <1>6, <1>7 DEF r

\* A list has finitely many members.
LEMMA ListIsFinite ==
  ASSUME NEW X, NEW s \in Seq(X)
  PROVE  IsFiniteSet(ToSet(s))
<1>1. Len(s) \in Nat /\ DOMAIN s = 1..Len(s)
  OBVIOUS
<1>2. IsFiniteSet(1..Len(s))
  BY <1>1, FS_Interval
<1>3. s \in Surjection(1..Len(s), ToSet(s))
  BY <1>1 DEF Surjection, ToSet
<1> QED
  BY <1>2, <1>3, FS_Surjection

\* Finitely many finite sets have finitely many members.
LEMMA UnionIsFinite ==
  ASSUME NEW n \in Nat, NEW F, \A i \in 1..n : IsFiniteSet(F[i])
  PROVE  IsFiniteSet(UNION {F[i] : i \in 1..n})
<1> DEFINE U(m) == UNION {F[i] : i \in 1..m}
           T == {m \in Nat : m <= n /\ ~IsFiniteSet(U(m))}
<1>1. ASSUME T # {} PROVE FALSE
  <2>1. T \in SUBSET Nat
    OBVIOUS
  <2>2. PICK m \in T : \A k \in T : m <= k
    BY <1>1, <2>1, LeastNat
  <2>3. m \in Nat /\ m <= n /\ ~IsFiniteSet(U(m))
    OBVIOUS
  <2>4. CASE m = 0
    <3>1. U(m) = {}
      BY <2>4
    <3> HIDE DEF U
    <3> QED
      BY <2>3, <3>1, FS_EmptySet
  <2>5. CASE m # 0
    <3>1. m - 1 \in Nat /\ m - 1 <= n /\ m - 1 \notin T
      BY <2>2, <2>3, <2>5
    <3>2. IsFiniteSet(U(m - 1))
      BY <3>1
    <3>3. IsFiniteSet(F[m])
      BY <2>3, <2>5
    <3>4. \A i \in 1..m : i = m \/ i \in 1..m - 1
      BY <2>3
    <3>5. m \in 1..m /\ \A i \in 1..m - 1 : i \in 1..m
      BY <2>3, <2>5
    <3>6. U(m) = U(m - 1) \cup F[m]
      BY <3>4, <3>5
    <3> HIDE DEF U, T
    <3>7. IsFiniteSet(U(m - 1) \cup F[m])
      BY <3>2, <3>3, FS_Union
    <3> QED
      BY <2>3, <3>6, <3>7
  <2> QED
    BY <2>4, <2>5
<1>2. n <= n
  OBVIOUS
<1>3. IsFiniteSet(U(n))
  BY <1>1, <1>2
<1> QED
  BY <1>3

\* Bonds and bridges have names and lists of ports.
LEMMA MastersTyped ==
  ASSUME NEW q \in Request
  PROVE  /\ DOMAIN Masters(q) = 1..Len(Masters(q)) /\ Len(Masters(q)) \in Nat
         /\ \A i \in DOMAIN Masters(q) : Masters(q)[i].name \in Name /\ Masters(q)[i].ports \in Seq(Name)
<1>1. q.bonds \in Seq(Bond) /\ q.bridges \in Seq(Bridge)
  BY DEF Request
<1>3. \A b \in Bond \cup Bridge : b.name \in Name /\ b.ports \in Seq(Name)
  BY DEF Bond, Bridge, Name
<1> DEFINE X == Bond \cup Bridge
<1>4. q.bonds \in Seq(X) /\ q.bridges \in Seq(X)
  <2>1. /\ \A i \in 1..Len(q.bonds) : q.bonds[i] \in X
        /\ \A i \in 1..Len(q.bridges) : q.bridges[i] \in X
    BY <1>1
  <2> HIDE DEF X
  <2> QED
    BY <1>1, <2>1
<1> HIDE DEF X
<1>5. Masters(q) \in Seq(X)
  BY <1>4 DEF Masters
<1>6. /\ DOMAIN Masters(q) = 1..Len(Masters(q)) /\ Len(Masters(q)) \in Nat
      /\ \A i \in DOMAIN Masters(q) : Masters(q)[i] \in X
  BY <1>5
<1> QED
  BY <1>3, <1>6 DEF X

\* A request has finitely many ports.
LEMMA PortsAreNames ==
  ASSUME NEW q \in Request
  PROVE  IsFiniteSet(Ports(q)) /\ Ports(q) \in SUBSET Name
<1> DEFINE n == Len(Masters(q))
           F == [i \in 1..n |-> ToSet(Masters(q)[i].ports)]
<1>1. /\ DOMAIN Masters(q) = 1..n /\ n \in Nat
      /\ \A i \in 1..n : Masters(q)[i].ports \in Seq(Name)
  BY MastersTyped
<1>2. Ports(q) = UNION {F[i] : i \in 1..n}
  BY <1>1 DEF Ports
<1>3. \A i \in 1..n : IsFiniteSet(F[i]) /\ F[i] \in SUBSET Name
  <2>1. ASSUME NEW i \in 1..n PROVE IsFiniteSet(F[i]) /\ F[i] \in SUBSET Name
    <3>1. F[i] = ToSet(Masters(q)[i].ports) /\ Masters(q)[i].ports \in Seq(Name)
      BY <1>1
    <3>2. IsFiniteSet(ToSet(Masters(q)[i].ports))
      BY <3>1, ListIsFinite
    <3>3. ToSet(Masters(q)[i].ports) \in SUBSET Name
      BY <3>1 DEF ToSet
    <3> QED
      BY <3>1, <3>2, <3>3
  <2> QED
    BY <2>1
<1> HIDE DEF n, F
<1>4. IsFiniteSet(UNION {F[i] : i \in 1..n})
  BY <1>1, <1>3, UnionIsFinite
<1> QED
  BY <1>2, <1>3, <1>4

\* The master that is followed is a device that lists the port.
LEMMA MasterIs ==
  ASSUME NEW q \in Request, NEW p \in Ports(q)
  PROVE  \E i \in DOMAIN Masters(q) :
           p \in ToSet(Masters(q)[i].ports) /\ MasterOf(q, p) = Masters(q)[i].name
<1> DEFINE n == Len(Masters(q))
           I == {i \in 1..n : p \in ToSet(Masters(q)[i].ports)}
<1>1. DOMAIN Masters(q) = 1..n /\ n \in Nat
  BY MastersTyped
<1>2. I # {} /\ I \in SUBSET Nat
  BY <1>1 DEF Ports
<1>3. Min(I) \in I
  BY <1>2, LeastIsMin
<1>4. MasterOf(q, p) = Masters(q)[Min(I)].name
  BY <1>2 DEF MasterOf, SelectInSeq
<1> HIDE DEF I, n
<1>5. Min(I) \in DOMAIN Masters(q) /\ p \in ToSet(Masters(q)[Min(I)].ports)
  BY <1>1, <1>3 DEF I
<1> QED
  BY <1>4, <1>5
\* The lists of names that the check and the file put together.
LEMMA NamesListed ==
  ASSUME NEW q \in Request
  PROVE  \E X : /\ NamesOf(q.interfaces) \in Seq(X) /\ NamesOf(q.bonds) \in Seq(X)
                /\ NamesOf(Vlans(q)) \in Seq(X) /\ NamesOf(q.bridges) \in Seq(X)
                /\ SetToSeq(ImplicitIfaces(q)) \in Seq(X)
                /\ IsInjective(SetToSeq(ImplicitIfaces(q)))
                /\ ToSet(SetToSeq(ImplicitIfaces(q))) = ImplicitIfaces(q)
<1>1. /\ DOMAIN q.interfaces = 1..Len(q.interfaces) /\ Len(q.interfaces) \in Nat
      /\ DOMAIN q.bonds = 1..Len(q.bonds) /\ Len(q.bonds) \in Nat
      /\ DOMAIN q.vlans = 1..Len(q.vlans) /\ Len(q.vlans) \in Nat
      /\ DOMAIN q.bridges = 1..Len(q.bridges) /\ Len(q.bridges) \in Nat
  BY DEF Request
<1>2. DOMAIN Vlans(q) = 1..Len(q.vlans)
  BY <1>1 DEF Vlans
<1> DEFINE i == NamesOf(q.interfaces)
           b == NamesOf(q.bonds)
           v == NamesOf(Vlans(q))
           r == NamesOf(q.bridges)
           M == ImplicitIfaces(q)
           X == ToSet(i) \cup ToSet(b) \cup ToSet(v) \cup ToSet(r) \cup M
<1>3. /\ i = [k \in 1..Len(q.interfaces) |-> i[k]] /\ b = [k \in 1..Len(q.bonds) |-> b[k]]
      /\ v = [k \in 1..Len(q.vlans) |-> v[k]] /\ r = [k \in 1..Len(q.bridges) |-> r[k]]
  BY <1>1, <1>2 DEF NamesOf
<1>4. IsFiniteSet(M)
  <2> DEFINE parents == [k \in 1..Len(q.vlans) |-> q.vlans[k].parent]
  <2>1. parents \in Seq({q.vlans[k].parent : k \in 1..Len(q.vlans)})
    BY <1>1
  <2>2. IsFiniteSet(ToSet(parents))
    BY <2>1, ListIsFinite
  <2>3. ToSet(parents) = Parents(q)
    BY <1>1 DEF ToSet, Parents
  <2>4. IsFiniteSet(Ports(q) \cup Parents(q))
    BY <2>2, <2>3, PortsAreNames, FS_Union
  <2>5. M \in SUBSET (Ports(q) \cup Parents(q))
    BY DEF ImplicitIfaces
  <2> QED
    BY <2>4, <2>5, FS_Subset
<1> HIDE DEF i, b, v, r, M
<1>5. /\ SetToSeq(M) \in [1..Cardinality(M) -> M] /\ Cardinality(M) \in Nat
      /\ IsInjective(SetToSeq(M)) /\ ToSet(SetToSeq(M)) = M
  BY <1>4, ListedWhole
<1>6. /\ \A k \in 1..Len(q.interfaces) : i[k] \in X
      /\ \A k \in 1..Len(q.bonds) : b[k] \in X
      /\ \A k \in 1..Len(q.vlans) : v[k] \in X
      /\ \A k \in 1..Len(q.bridges) : r[k] \in X
  BY <1>3 DEF ToSet
<1> PICK Y : Y = X
  OBVIOUS
<1>7. M \in SUBSET Y
  OBVIOUS
<1> HIDE DEF X
<1>8. i \in Seq(Y) /\ b \in Seq(Y) /\ v \in Seq(Y) /\ r \in Seq(Y)
  <2>1. \A n \in Nat : \A s : s = [k \in 1..n |-> s[k]] /\ (\A k \in 1..n : s[k] \in Y) => s \in Seq(Y)
    OBVIOUS
  <2> QED
    BY <1>1, <1>3, <1>6, <2>1, Zenon
<1>9. SetToSeq(M) \in Seq(Y)
  BY <1>5, <1>7
<1> QED
  BY <1>5, <1>8, <1>9 DEF i, b, v, r, M

\* Every name once in the check is every key once in the file, which defines all that it
\* refers to.
LEMMA KeysOnce ==
  ASSUME NEW q \in Request
  PROVE  /\ NamesOnce(q) <=> IsInjective(NetplanKeys(q))
         /\ Ports(q) \cup Parents(q) \in SUBSET ToSet(NetplanKeys(q))
<1> DEFINE m == SetToSeq(ImplicitIfaces(q))
<1>1. PICK X : /\ NamesOf(q.interfaces) \in Seq(X) /\ NamesOf(q.bonds) \in Seq(X)
               /\ NamesOf(Vlans(q)) \in Seq(X) /\ NamesOf(q.bridges) \in Seq(X)
               /\ m \in Seq(X) /\ IsInjective(m) /\ ToSet(m) = ImplicitIfaces(q)
  BY NamesListed
<1> HIDE DEF m
<1> PICK i \in Seq(X) : i = NamesOf(q.interfaces)
  BY <1>1
<1> PICK b \in Seq(X) : b = NamesOf(q.bonds)
  BY <1>1
<1> PICK v \in Seq(X) : v = NamesOf(Vlans(q))
  BY <1>1
<1> PICK r \in Seq(X) : r = NamesOf(q.bridges)
  BY <1>1
<1>2. \A s, t \in Seq(X) :
        /\ s \o t \in Seq(X) /\ ToSet(s \o t) = ToSet(s) \cup ToSet(t)
        /\ IsInjective(s \o t) <=> IsInjective(s) /\ IsInjective(t) /\ ToSet(s) \cap ToSet(t) = {}
  <2>1. ASSUME NEW s \in Seq(X), NEW t \in Seq(X) PROVE s \o t \in Seq(X)
    OBVIOUS
  <2> QED
    BY <2>1, ApartTogether
<1> DEFINE Disjoint(s, t) == ToSet(s) \cap ToSet(t) = {}
           Each == IsInjective(i) /\ IsInjective(b) /\ IsInjective(v) /\ IsInjective(r)
           Pairs == /\ Disjoint(i, b) /\ Disjoint(i, v) /\ Disjoint(i, r)
                    /\ Disjoint(b, v) /\ Disjoint(b, r) /\ Disjoint(v, r)
<1>3. IsInjective(i \o b \o r \o v) <=> Each /\ Pairs
  <2>1. i \o b \in Seq(X) /\ i \o b \o r \in Seq(X)
    BY <1>2
  <2>3. ToSet(i \o b) = ToSet(i) \cup ToSet(b)
    BY <1>2
  <2>9. ToSet(i \o b \o r) = ToSet(i \o b) \cup ToSet(r)
    BY <1>2, <2>1
  <2>2. ToSet(i \o b \o r) = ToSet(i) \cup ToSet(b) \cup ToSet(r)
    BY <2>3, <2>9
  <2>4. IsInjective(i \o b \o r \o v) <=>
          IsInjective(i \o b \o r) /\ IsInjective(v) /\ Disjoint(i \o b \o r, v)
    BY <1>2, <2>1
  <2>5. IsInjective(i \o b \o r) <=> IsInjective(i \o b) /\ IsInjective(r) /\ Disjoint(i \o b, r)
    BY <1>2, <2>1
  <2>6. IsInjective(i \o b) <=> IsInjective(i) /\ IsInjective(b) /\ Disjoint(i, b)
    BY <1>2
  <2>7. Disjoint(i \o b \o r, v) <=> Disjoint(i, v) /\ Disjoint(b, v) /\ Disjoint(v, r)
    BY <2>2
  <2>8. Disjoint(i \o b, r) <=> Disjoint(i, r) /\ Disjoint(b, r)
    BY <2>3
  <2> HIDE DEF Disjoint
  <2> QED
    BY <2>4, <2>5, <2>6, <2>7, <2>8
<1> DEFINE w == b \o v \o r
<1>4. /\ w \in Seq(X) /\ ToSet(w) = ToSet(b) \cup ToSet(v) \cup ToSet(r)
      /\ IsInjective(w) <=> IsInjective(b) /\ IsInjective(v) /\ IsInjective(r)
                            /\ Disjoint(b, v) /\ Disjoint(b, r) /\ Disjoint(v, r)
  <2>1. b \o v \in Seq(X) /\ ToSet(b \o v) = ToSet(b) \cup ToSet(v)
    BY <1>2
  <2>2. w \in Seq(X) /\ ToSet(w) = ToSet(b \o v) \cup ToSet(r)
    BY <1>2, <2>1
  <2>3. IsInjective(w) <=> IsInjective(b \o v) /\ IsInjective(r) /\ Disjoint(b \o v, r)
    BY <1>2, <2>1
  <2>4. IsInjective(b \o v) <=> IsInjective(b) /\ IsInjective(v) /\ Disjoint(b, v)
    BY <1>2
  <2>5. Disjoint(b \o v, r) <=> Disjoint(b, r) /\ Disjoint(v, r)
    BY <2>1
  <2> HIDE DEF Disjoint, w
  <2> QED
    BY <2>1, <2>2, <2>3, <2>4, <2>5
<1>5. NetplanKeys(q) = i \o m \o w /\ VirtualNames(q) = w
  BY DEF NetplanKeys, VirtualNames, m
<1> HIDE DEF w
<1>6. Disjoint(m, i) /\ Disjoint(m, w)
  BY <1>1, <1>5 DEF ImplicitIfaces
<1>7. i \o m \in Seq(X) /\ ToSet(i \o m) = ToSet(i) \cup ToSet(m)
  BY <1>1, <1>2
<1>8. ToSet(NetplanKeys(q)) = ToSet(i) \cup ToSet(m) \cup ToSet(w)
  <2>1. ToSet(i \o m \o w) = ToSet(i \o m) \cup ToSet(w)
    BY <1>2, <1>4, <1>7
  <2> QED
    BY <1>5, <1>7, <2>1
<1>9. IsInjective(NetplanKeys(q)) <=> Each /\ Pairs
  <2>1. IsInjective(NetplanKeys(q)) <=> IsInjective(i \o m) /\ IsInjective(w) /\ Disjoint(i \o m, w)
    <3>1. IsInjective(i \o m \o w) <=> IsInjective(i \o m) /\ IsInjective(w) /\ Disjoint(i \o m, w)
      BY <1>2, <1>4, <1>7
    <3> QED
      BY <1>5, <3>1
  <2>2. IsInjective(i \o m) <=> IsInjective(i) /\ Disjoint(i, m)
    BY <1>1, <1>2
  <2>3. Disjoint(i \o m, w) <=> Disjoint(i, w) /\ Disjoint(m, w)
    BY <1>7
  <2>4. Disjoint(i, w) <=> Disjoint(i, b) /\ Disjoint(i, v) /\ Disjoint(i, r)
    BY <1>4
  <2>5. Disjoint(i, m)
    BY <1>6
  <2> HIDE DEF Disjoint
  <2> QED
    BY <1>4, <1>6, <2>1, <2>2, <2>3, <2>4, <2>5
<1>10. NamesOnce(q) <=> Each /\ Pairs
  BY <1>3 DEF NamesOnce, Declared
<1>11. Ports(q) \cup Parents(q) \in SUBSET ToSet(NetplanKeys(q))
  BY <1>1, <1>5, <1>8 DEF ImplicitIfaces
<1> QED
  BY <1>9, <1>10, <1>11

\* The check refuses exactly what netplan does not load, and a primary that is no port.
LEMMA ReferencesExact ==
  ASSUME NEW q \in Request
  PROVE  CheckReferences(q) <=> NetplanLoads(q) /\ PrimaryIsPort(q)
<1> DEFINE D == DOMAIN Masters(q)
           PortsOf(i) == ToSet(Masters(q)[i].ports)
           Called(i) == Masters(q)[i].name
           edges == UNION {{<<p, i>> : p \in PortsOf(i)} : i \in D}
           Once == \A i, k \in D : i # k => PortsOf(i) \cap PortsOf(k) = {}
<1>1. \A e : e \in edges <=> \E i \in D : \E p \in PortsOf(i) : e = <<p, i>>
  OBVIOUS
<1>2. Ports(q) = UNION {PortsOf(i) : i \in D}
  BY DEF Ports
<1>3. \A p \in Ports(q) : \E i \in D : p \in PortsOf(i) /\ MasterOf(q, p) = Called(i)
  BY MasterIs
<1>4. OnePortOneMaster(q) <=> Once /\ \A i \in D : Called(i) \notin PortsOf(i)
  BY DEF OnePortOneMaster
<1>5. NoCycle(q) <=> \A S : ~Ring(q, S)
  BY PortsAreNames, CyclesAreRings
<1>6. NetplanLoads(q) <=>
        /\ IsInjective(NetplanKeys(q))
        /\ Ports(q) \cup Parents(q) \in SUBSET ToSet(NetplanKeys(q))
        /\ \A e, f \in edges : e[1] = f[1] => e = f
        /\ \A S \in (SUBSET Ports(q)) \ {{}} :
             \E p \in S : \A e \in edges : e[1] = p => Called(e[2]) \notin S
  BY DEF NetplanLoads
<1> HIDE DEF edges, PortsOf, Called, D
<1>7. (\A e, f \in edges : e[1] = f[1] => e = f) <=> Once
  <2>1. ASSUME Once, NEW e \in edges, NEW f \in edges, e[1] = f[1] PROVE e = f
    BY <1>1, <2>1
  <2>2. ASSUME \A e, f \in edges : e[1] = f[1] => e = f, NEW i \in D, NEW k \in D, i # k
        PROVE  PortsOf(i) \cap PortsOf(k) = {}
    <3> SUFFICES ASSUME NEW p \in PortsOf(i), p \in PortsOf(k) PROVE FALSE
      OBVIOUS
    <3>1. <<p, i>> \in edges /\ <<p, k>> \in edges
      BY <1>1
    <3>2. <<p, i>> = <<p, k>>
      BY <2>2, <3>1
    <3> QED
      BY <2>2, <3>2
  <2> QED
    BY <2>1, <2>2
<1>8. ASSUME Once, NEW i \in D, NEW p \in PortsOf(i) PROVE p \in Ports(q) /\ MasterOf(q, p) = Called(i)
  BY <1>2, <1>3, <1>8
<1>9. ASSUME Once
      PROVE  (\A S : ~Ring(q, S)) <=>
             \A S \in (SUBSET Ports(q)) \ {{}} :
               \E p \in S : \A e \in edges : e[1] = p => Called(e[2]) \notin S
  <2>1. ASSUME NEW S \in (SUBSET Ports(q)) \ {{}}, NEW p \in S
        PROVE  (\A e \in edges : e[1] = p => Called(e[2]) \notin S) <=> MasterOf(q, p) \notin S
    <3>1. p \in Ports(q)
      OBVIOUS
    <3>2. PICK i \in D : p \in PortsOf(i) /\ MasterOf(q, p) = Called(i)
      BY <1>3, <3>1
    <3>3. <<p, i>> \in edges
      BY <1>1, <3>2
    <3>4. \A e \in edges : e[1] = p => Called(e[2]) = MasterOf(q, p)
      BY <1>1, <1>8, <1>9
    <3> QED
      BY <3>2, <3>3, <3>4
  <2> QED
    BY <2>1 DEF Ring
<1>10. ASSUME Once, \A S : ~Ring(q, S), NEW i \in D PROVE Called(i) \notin PortsOf(i)
  <2> SUFFICES ASSUME Called(i) \in PortsOf(i) PROVE FALSE
    OBVIOUS
  <2>1. Called(i) \in Ports(q) /\ MasterOf(q, Called(i)) = Called(i)
    BY <1>8, <1>10
  <2>2. Ring(q, {Called(i)})
    BY <2>1 DEF Ring
  <2> QED
    BY <1>10, <2>2
<1> HIDE DEF Once
<1> QED
  BY <1>4, <1>5, <1>6, <1>7, <1>9, <1>10, KeysOnce DEF CheckReferences

-----------------------------------------------------------------------------
(* Types *)

OnServer == {"draft", "stored", "refused", "made"}

\* The machine comes with its first boot and stays; what boots was made from the form,
\* and there is a disk for the system wherever the installer goes on.
Progress ==
  /\ boots = 0 <=> stage \in OnServer
  /\ boots = 0 => touched = {}
  /\ boots # 0 => machine \in Machines
  /\ stage \notin {"draft", "stored", "refused"} => Makes(form)
  /\ stage = "picked" => picked.system \in Disk

\* What a step of the installer picks is of this machine and of this form.
LEMMA PicksOwn ==
  ASSUME TypeOK, Pick
  PROVE  /\ stage = "booted"
         /\ \/ \E s \in Disk : \E data \in [Looked -> Disk] \cup {<<>>} : Picks(s, data)
            \/ Stops({}) \/ (Stops(Extra) /\ form.os = "debian")
<1>1. \A n : Named(n) \subseteq Disk
  BY DEF Named
<1>2. \A S \in SUBSET Disk : First(S) \subseteq Disk
  BY DEF First
<1>3. BySize \subseteq Disk /\ ByKey \subseteq Disk
  BY <1>2 DEF BySize, ByKey, Fixed
<1>4. CASE PickRhel
  BY <1>3, <1>4 DEF PickRhel
<1>5. CASE PickNamed
  BY <1>1, <1>5 DEF PickNamed
<1>6. CASE PickUbuntu
  BY <1>1, <1>6 DEF PickUbuntu, Fixed
<1>7. CASE PickDebian
  <2> DEFINE key(d) == IF form.serial # 0 THEN machine[d].serial = form.serial
                       ELSE form.model # "" /\ machine[d].model = form.model
             keyed == {d \in Disk : key(d) /\ \A e \in Disk : key(e) => names[e] <= names[d]}
             largest == {d \in Lasting : \A e \in Lasting : machine[e].size <= machine[d].size}
             matched == IF form.idpath THEN {{d} : d \in Disk} \cup {keyed} ELSE {keyed}
             systems == IF ~form.structured THEN {Named(IF form.disk # 0 THEN form.disk ELSE 1)}
                        ELSE CASE Mode(form) = "name"  -> {Named(Target(form))}
                               [] Mode(form) = "match" -> matched
                               [] Mode(form) = "auto"  -> {{d \in First(largest) : machine[d].size >= form.min}}
  <2>1. PICK system \in systems :
          /\ stage = "booted" /\ form.os = "debian"
          /\ IF system # {} THEN \E s \in system : Picks(s, <<>>) ELSE Stops(Extra)
    BY <1>7 DEF PickDebian
  <2>2. Mode(form) \in {"auto", "name", "match"}
    BY DEF TypeOK, Profile, Mode
  <2>3. largest \subseteq Disk /\ keyed \subseteq Disk
    BY DEF Lasting
  <2>4. \A S \in matched : S \subseteq Disk
    BY <2>3
  <2>5. {d \in First(largest) : machine[d].size >= form.min} \subseteq Disk
    BY <1>2, <2>3
  <2> HIDE DEF keyed, largest, matched
  <2>6. \A S \in systems : S \subseteq Disk
    BY <1>1, <2>2, <2>4, <2>5
  <2> QED
    BY <2>1, <2>6
<1>8. CASE PickOpensuse
  BY <1>1, <1>8 DEF PickOpensuse
<1> QED
  BY <1>4, <1>5, <1>6, <1>7, <1>8 DEF Pick

LEMMA InitTyped == Init => TypeOK /\ Progress
<1> SUFFICES ASSUME Init PROVE TypeOK /\ Progress
  OBVIOUS
<1>1. form \in Profile
  BY DiskPlanAssumption DEF Init
<1>2. machine = <<>> /\ DOMAIN machine = {} /\ names = <<>> /\ names \in [{} -> {}]
  BY DEF Init
<1>3. picked.system = 0 /\ picked.data = <<>> /\ DOMAIN picked.data = {}
  BY DEF Init, Nothing
<1> QED
  BY <1>1, <1>2, <1>3, DiskPlanAssumption DEF Init, TypeOK, Progress, OnServer, Disk, Apart

LEMMA NextTyped ==
  ASSUME TypeOK, Progress, [Next]_vars
  PROVE  TypeOK' /\ Progress'
<1> USE DEF OnServer
<1>1. CASE Save \/ Inherit \/ Make
  BY <1>1 DEF Save, Inherit, Make, TypeOK, Progress, Disk, Apart
<1>2. CASE Boot
  <2>1. machine' \in Machines /\ form' = form /\ touched' = touched /\ picked' = Nothing
    BY <1>2 DEF Boot, Progress
  <2>2. /\ names' \in [DOMAIN machine' -> DOMAIN machine'] /\ Apart(names')
        /\ stage' = "booted" /\ boots' = boots + 1 /\ boots < Boots /\ stage \in {"made", "stopped", "done"}
        /\ boots # 0 => machine' = machine
    BY <1>2 DEF Boot
  <2>3. touched' \subseteq DOMAIN machine'
    BY <2>1, <2>2 DEF TypeOK, Progress, Disk
  <2>4. picked'.system = 0 /\ DOMAIN picked'.data = {}
    BY <2>1 DEF Nothing
  <2> QED
    BY <2>1, <2>2, <2>3, <2>4, DiskPlanAssumption DEF TypeOK, Progress, Disk, Apart
<1>3. CASE Pick
  <2>1. /\ stage = "booted" /\ UNCHANGED <<form, machine, names, boots>>
        /\ \/ \E s \in Disk : \E data \in [Looked -> Disk] \cup {<<>>} : Picks(s, data)
           \/ Stops({}) \/ Stops(Extra)
    BY <1>3, PicksOwn DEF Picks, Stops
  <2>2. Extra \subseteq Disk
    BY DEF Extra, Named
  <2>3. CASE Stops({}) \/ Stops(Extra)
    BY <2>1, <2>2, <2>3 DEF Stops, TypeOK, Progress, Disk, Apart
  <2>4. ASSUME NEW s \in Disk, NEW data \in [Looked -> Disk] \cup {<<>>}, Picks(s, data)
        PROVE  TypeOK' /\ Progress'
    <3>1. DOMAIN data \subseteq DOMAIN form.data /\ \A k \in DOMAIN data : data[k] \in Disk
      BY DEF Looked
    <3>2. picked'.system = s /\ picked'.data = data /\ stage' = "picked" /\ touched' = touched
      BY <2>4 DEF Picks
    <3> QED
      BY <2>1, <3>1, <3>2 DEF TypeOK, Progress, Disk, Apart
  <2> QED
    BY <2>1, <2>3, <2>4
<1>4. CASE Write
  <2>1. Cleared \subseteq Disk
    BY <1>4 DEF Write, Cleared, TypeOK, Progress, Extra, Named
  <2> QED
    BY <1>4, <2>1 DEF Write, TypeOK, Progress, Disk, Apart
<1>5. CASE UNCHANGED vars
  BY <1>5 DEF vars, TypeOK, Progress, Disk, Apart
<1> QED
  BY <1>1, <1>2, <1>3, <1>4, <1>5 DEF Next

\* Every variable keeps its type; the disks that are picked and touched are disks of the
\* machine that boots.
THEOREM DisksTypeCorrect == Spec => []TypeOK
<1>1. TypeOK /\ Progress /\ [Next]_vars => TypeOK' /\ Progress'
  BY NextTyped
<1> QED
  BY <1>1, InitTyped, PTL DEF Spec

-----------------------------------------------------------------------------
(* The red line *)

\* Disk d is none that a declaration protects.
Spared(d) == \A k \in DOMAIN form.data : Guarded(form.data[k]) => ~Protects(form.data[k], d)

\* A form whose files count the declarations before anything is written.
Counting == form.os = "rhel" /\ form.structured /\ Mode(form) # "name"

\* What has been picked is spared before it is touched, and was picked after every
\* declaration was found to describe a disk.
Kept ==
  /\ \A d \in touched : Spared(d)
  /\ stage = "picked" => \A d \in Cleared : Spared(d)
  /\ Counting /\ (touched # {} \/ stage = "picked") => AllHit

\* What is cleared when s is the disk for the system and data are the data disks.
ClearedBy(s, data) ==
  {s} \cup {data[k] : k \in {j \in DOMAIN data : form.data[j].wipe}}
    \cup (IF form.os = "debian" THEN Extra ELSE {})

LEMMA NoneInEmpty == DOMAIN <<>> = {}
<1>1. <<>> \in Seq({}) /\ Len(<<>>) = 0
  OBVIOUS
<1>2. DOMAIN <<>> = 1..0
  BY <1>1
<1> QED
  BY <1>2

LEMMA PickedIsCleared ==
  ASSUME NEW s, NEW data, Picks(s, data)
  PROVE  Cleared' = ClearedBy(s, data)
BY DEF Picks, Cleared, ClearedBy, Extra, Named, Disk

\* A disk that a declaration with wipe describes is spared: such a disk is not protected.
LEMMA WipedIsSpared ==
  ASSUME NEW k \in DOMAIN form.data, form.data[k].wipe, NEW d, Describes(form.data[k], d, TRUE)
  PROVE  Spared(d)
BY DEF Spared, Protects

LEMMA RhelSpares ==
  ASSUME TypeOK, Makes(form), PickRhel, stage' = "picked"
  PROVE  AllHit /\ \A d \in Cleared' : Spared(d)
<1> DEFINE system == IF Mode(form) = "match" THEN ByKey ELSE BySize
           found == {data \in [Looked -> Disk] : \A k \in Looked : data[k] \in ByGroup(k)}
           fine == {data \in found : \A k \in Looked : data[k] \notin system}
<1>1. /\ form.os = "rhel" /\ form.structured /\ Mode(form) \in {"auto", "match"}
      /\ AllHit /\ \E s \in system, data \in fine : Picks(s, data)
  BY DEF PickRhel, Stops, Mode, TypeOK, Profile
<1>2. PICK s \in system, data \in fine : Picks(s, data)
  BY <1>1
<1>3. Cleared' = {s} \cup {data[k] : k \in {j \in DOMAIN data : form.data[j].wipe}}
  BY <1>1, <1>2, PickedIsCleared DEF ClearedBy
<1>4. ASSUME NEW k \in DOMAIN data, form.data[k].wipe
      PROVE  Spared(data[k])
  <2>1. k \in DOMAIN form.data /\ data[k] \in ByGroup(k)
    BY <1>4 DEF Looked
  <2>2. Describes(form.data[k], data[k], TRUE)
    BY <2>1 DEF ByGroup, First
  <2> QED
    BY <1>4, <2>1, <2>2, WipedIsSpared
<1>5. Spared(s)
  <2> SUFFICES ASSUME NEW k \in DOMAIN form.data, Guarded(form.data[k])
               PROVE  ~Describes(form.data[k], s, TRUE)
    BY DEF Spared, Protects
  <2>1. CASE Mode(form) = "auto"
    BY <1>2, <2>1 DEF BySize, First, Described
  <2>2. CASE Mode(form) = "match"
    <3>1. form.data[k].size = 0
      BY <1>1, <2>2 DEF Guarded
    <3>2. ~Describes(form.data[k], s, FALSE)
      BY <1>2, <2>2 DEF ByKey, First, Described
    <3> QED
      BY <3>1, <3>2 DEF Describes, Near
  <2> QED
    BY <1>1, <2>1, <2>2
<1> QED
  BY <1>1, <1>3, <1>4, <1>5

\* Where a declaration is a protection on Ubuntu and Debian: by serial, on both sides.
LEMMA OtherSerials ==
  ASSUME TypeOK, Makes(form), NEW g \in DOMAIN form.data, Guarded(form.data[g]), form.os # "rhel"
  PROVE  /\ form.structured /\ Mode(form) = "match" /\ form.serial # 0 /\ ~form.idpath
         /\ form.os \in {"ubuntu", "debian"} /\ form.wipeDisks = {}
         /\ \A k \in DOMAIN form.data : form.data[k].wipe => form.data[k].serial # 0
         /\ \A d : machine[d].serial = form.serial => ~Describes(form.data[g], d, TRUE)
<1>1. /\ form.structured /\ Mode(form) = "match" /\ form.serial # 0 /\ ~form.idpath
      /\ form.os \in {"ubuntu", "debian"} /\ form.wipeDisks = {}
      /\ form.data[g].serial # 0 /\ form.data[g].size = 0 /\ form.data[g].wwid = 0
      /\ \A k \in DOMAIN form.data : form.data[k].wipe => form.data[k].serial # 0
  BY DEF Guarded
<1>2. form.data[g].serial # form.serial
  BY <1>1 DEF Makes, Plans, PlanIdentities
<1> QED
  BY <1>1, <1>2 DEF Describes, Near

LEMMA UbuntuSpares ==
  ASSUME TypeOK, Makes(form), PickUbuntu, stage' = "picked"
  PROVE  \A d \in Cleared' : Spared(d)
<1> SUFFICES ASSUME NEW d \in Cleared', NEW g \in DOMAIN form.data, Guarded(form.data[g]),
                    Protects(form.data[g], d)
             PROVE  FALSE
  BY DEF Spared
<1> DEFINE matched == {e \in Disk : /\ form.serial # 0 => machine[e].serial = form.serial
                                    /\ form.model # "" => machine[e].model = form.model}
           of(k) == IF form.data[k].serial # 0
                    THEN {e \in Disk : machine[e].serial = form.data[k].serial}
                    ELSE Named(form.data[k].name)
           found == {data \in [Looked -> Disk] : \A k \in Looked : data[k] \in of(k)}
<1>1. form.os = "ubuntu"
  BY DEF PickUbuntu
<1>2. Mode(form) = "match" /\ form.serial # 0
  BY <1>1, OtherSerials
<1>3. \E s \in matched, data \in found : Picks(s, data)
  BY <1>2 DEF PickUbuntu, Stops
<1>4. PICK s \in matched, data \in found : Picks(s, data)
  BY <1>3
<1>5. Cleared' = {s} \cup {data[k] : k \in {j \in DOMAIN data : form.data[j].wipe}}
  <2>1. Cleared' = ClearedBy(s, data)
    BY <1>4, PickedIsCleared
  <2> HIDE DEF matched, found
  <2> QED
    BY <1>1, <2>1 DEF ClearedBy
<1>6. CASE d = s
  <2>1. machine[s].serial = form.serial
    BY <1>2, <1>4
  <2> QED
    BY <1>1, <1>6, <2>1, OtherSerials DEF Protects
<1>7. ASSUME NEW k \in DOMAIN data, form.data[k].wipe, d = data[k]
      PROVE  FALSE
  <2>1. k \in DOMAIN form.data /\ data[k] \in of(k)
    BY <1>7 DEF Looked
  <2>2. form.data[k].serial # 0
    BY <1>1, <1>7, <2>1, OtherSerials
  <2>3. Describes(form.data[k], d, TRUE)
    BY <1>7, <2>1, <2>2 DEF Describes
  <2> QED
    BY <1>7, <2>1, <2>3 DEF Protects
<1> QED
  BY <1>5, <1>6, <1>7

LEMMA DebianSpares ==
  ASSUME TypeOK, Makes(form), PickDebian
  PROVE  /\ stage' = "picked" => \A d \in Cleared' : Spared(d)
         /\ \A d \in touched' \ touched : Spared(d)
<1> SUFFICES ASSUME NEW g \in DOMAIN form.data, Guarded(form.data[g])
             PROVE  /\ stage' = "picked" => \A d \in Cleared' : ~Describes(form.data[g], d, TRUE)
                    /\ touched' \subseteq touched
  BY DEF Spared, Protects
<1> DEFINE key(d) == IF form.serial # 0 THEN machine[d].serial = form.serial
                     ELSE form.model # "" /\ machine[d].model = form.model
           keyed == {d \in Disk : key(d) /\ \A e \in Disk : key(e) => names[e] <= names[d]}
<1>1. form.os = "debian" /\ form.structured /\ Mode(form) = "match" /\ form.serial # 0 /\ ~form.idpath
  BY OtherSerials DEF PickDebian
<1>2. Extra = {}
  BY <1>1, OtherSerials DEF Extra
<1>3. \/ \E s \in keyed : Picks(s, <<>>)
      \/ Stops(Extra)
  BY <1>1 DEF PickDebian
<1>4. ASSUME NEW s \in keyed, Picks(s, <<>>)
      PROVE  Cleared' = {s} /\ ~Describes(form.data[g], s, TRUE) /\ touched' = touched
  <2>1. Cleared' = {s}
    <3>1. Cleared' = ClearedBy(s, <<>>)
      BY <1>4, PickedIsCleared
    <3> QED
      BY <1>2, <3>1, NoneInEmpty DEF ClearedBy
  <2>2. machine[s].serial = form.serial
    BY <1>1
  <2> QED
    BY <1>1, <1>4, <2>1, <2>2, OtherSerials DEF Picks
<1> QED
  BY <1>2, <1>3, <1>4 DEF Stops

LEMMA PickKeeps ==
  ASSUME TypeOK, Progress, Kept, Pick
  PROVE  Kept'
<1>1. /\ stage = "booted" /\ UNCHANGED <<form, machine, names>>
      /\ stage' \in {"picked", "stopped"} /\ Makes(form)
      /\ stage' = "picked" \/ form.os # "debian" => touched' = touched
      /\ touched \subseteq touched'
  BY PicksOwn DEF Picks, Stops, Progress
<1>2. \A d : Spared(d)' <=> Spared(d)
  BY <1>1 DEF Spared, Guarded, Protects, Describes, Near, Mode
<1>3. AllHit' <=> AllHit
  BY <1>1 DEF AllHit, Disk, Describes, Near
<1>4. Counting' <=> Counting
  BY <1>1 DEF Counting, Mode
<1>5. /\ stage' = "picked" => \A d \in Cleared' : Spared(d)
      /\ \A d \in touched' \ touched : Spared(d)
      /\ stage' = "picked" /\ Counting => AllHit
  <2>1. CASE PickRhel
    BY <1>1, <2>1, RhelSpares DEF PickRhel
  <2>2. CASE PickUbuntu
    BY <1>1, <2>2, UbuntuSpares DEF PickUbuntu, Counting
  <2>3. CASE PickDebian
    BY <2>3, <1>1, DebianSpares DEF PickDebian, Counting
  <2>4. CASE PickNamed
    <3>1. form.os = "rhel" /\ (form.structured => Mode(form) = "name")
      BY <2>4 DEF PickNamed
    <3>2. \A d : Spared(d)
      BY <3>1 DEF Spared, Guarded
    <3> QED
      BY <3>1, <3>2 DEF Counting
  <2>5. CASE PickOpensuse
    <3>1. form.os = "opensuse"
      BY <2>5 DEF PickOpensuse
    <3>2. \A d : Spared(d)
      BY <3>1 DEF Spared, Guarded
    <3> QED
      BY <3>1, <3>2 DEF Counting
  <2> QED
    BY <2>1, <2>2, <2>3, <2>4, <2>5 DEF Pick
<1>6. \A d \in touched' : Spared(d)
  BY <1>5 DEF Kept
<1>7. Counting /\ (touched' # {} \/ stage' = "picked") => AllHit
  BY <1>1, <1>5 DEF Kept, Counting
<1> QED
  BY <1>2, <1>3, <1>4, <1>5, <1>6, <1>7 DEF Kept

LEMMA NextKeeps ==
  ASSUME TypeOK, Progress, Kept, [Next]_vars
  PROVE  Kept'
<1>1. CASE Save \/ Inherit \/ Make
  <2>1. boots = 0 /\ touched = {} /\ touched' = touched /\ stage' # "picked"
    BY <1>1 DEF Save, Inherit, Make, Progress, OnServer
  <2> QED
    BY <2>1 DEF Kept
<1>2. CASE Boot
  <2>1. form' = form /\ touched' = touched /\ stage' = "booted"
    BY <1>2 DEF Boot
  <2>2. CASE boots = 0
    BY <2>1, <2>2 DEF Kept, Progress
  <2>3. CASE boots # 0
    <3>1. machine' = machine
      BY <1>2, <2>3 DEF Boot
    <3>2. \A d : Spared(d)' <=> Spared(d)
      BY <2>1, <3>1 DEF Spared, Guarded, Protects, Describes, Near, Mode
    <3>3. (AllHit' <=> AllHit) /\ (Counting' <=> Counting)
      BY <2>1, <3>1 DEF AllHit, Disk, Describes, Near, Counting, Mode
    <3> QED
      BY <2>1, <3>2, <3>3 DEF Kept
  <2> QED
    BY <2>2, <2>3
<1>3. CASE Pick
  BY <1>3, PickKeeps
<1>4. CASE Write
  <2>1. /\ stage = "picked" /\ stage' = "done" /\ touched' = touched \cup Cleared
        /\ UNCHANGED <<form, machine, names, picked>>
    BY <1>4 DEF Write
  <2>2. \A d : Spared(d)' <=> Spared(d)
    BY <2>1 DEF Spared, Guarded, Protects, Describes, Near, Mode
  <2>3. (AllHit' <=> AllHit) /\ (Counting' <=> Counting)
    BY <2>1 DEF AllHit, Disk, Describes, Near, Counting, Mode
  <2> QED
    BY <2>1, <2>2, <2>3 DEF Kept
<1>5. CASE UNCHANGED vars
  <2>1. /\ UNCHANGED <<form, machine, names, picked, stage, touched>>
    BY <1>5 DEF vars
  <2>2. \A d : Spared(d)' <=> Spared(d)
    BY <2>1 DEF Spared, Guarded, Protects, Describes, Near, Mode
  <2>3. (AllHit' <=> AllHit) /\ (Counting' <=> Counting) /\ Cleared' = Cleared
    BY <2>1 DEF AllHit, Disk, Describes, Near, Counting, Mode, Cleared, Extra, Named
  <2> QED
    BY <2>1, <2>2, <2>3 DEF Kept
<1> QED
  BY <1>1, <1>2, <1>3, <1>4, <1>5 DEF Next

\* The red line of generator.py: where a declaration is a protection, the disk that it
\* describes is never cleared or formatted, whatever the kernel calls it; and on RHEL
\* nothing is, as long as a declaration describes no disk of the machine.
THEOREM DisksAreProtected == Spec => []ProtectedStay
<1>1. Init => TypeOK /\ Progress /\ Kept
  BY InitTyped DEF Init, Kept
<1>2. TypeOK /\ Progress /\ Kept /\ [Next]_vars => TypeOK' /\ Progress' /\ Kept'
  BY NextTyped, NextKeeps
<1>3. Kept => ProtectedStay
  BY DEF Kept, ProtectedStay, Spared, Counting, AllHit
<1> QED
  BY <1>1, <1>2, <1>3, PTL DEF Spec
-----------------------------------------------------------------------------
(* The order of the disks *)

\* A form that determines its disks is never stopped, and clears what it means.
Same ==
  Determined => /\ stage # "stopped"
                /\ touched \subseteq Meant
                /\ stage = "picked" => Cleared = Meant
                /\ stage = "done" => touched = Meant

LEMMA FirstOfOne ==
  ASSUME TypeOK, machine \in Machines, NEW d \in Disk
  PROVE  First({d}) = {d}
<1>1. names[d] \in Nat
  <2>1. machine \in Seq(Sizes)
    BY DiskPlanAssumption
  <2>2. Disk = 1..Len(machine) /\ Len(machine) \in Nat
    BY <2>1 DEF Disk
  <2>3. names[d] \in Disk
    BY DEF TypeOK
  <2> QED
    BY <2>2, <2>3
<1>2. names[d] <= names[d]
  BY <1>1
<1> QED
  BY <1>2 DEF First

\* The one disk that a determined form leaves for the system, and the one disk of a
\* declaration.
LEMMA OneOfEach ==
  ASSUME TypeOK, machine \in Machines, Determined
  PROVE  /\ \E c \in Fixed : /\ {d \in Fixed : ~Described(d, TRUE) /\ machine[d].size >= form.min} = {c}
                             /\ BySize = {c} /\ ~Described(c, TRUE)
         /\ \A k \in DOMAIN form.data :
              \E g \in Lasting : /\ ByGroup(k) = {g} /\ Described(g, TRUE)
                               /\ {d \in Disk : Describes(form.data[k], d, TRUE)} = {g}
<1>1. IsFiniteSet(Disk)
  <2>1. machine \in Seq(Sizes)
    BY DiskPlanAssumption
  <2>2. Disk = 1..Len(machine) /\ Len(machine) \in Nat
    BY <2>1 DEF Disk
  <2>3. IsFiniteSet(1..Len(machine))
    BY <2>2, FS_Interval
  <2> QED
    BY <2>2, <2>3
<1> DEFINE C == {d \in Fixed : ~Described(d, TRUE) /\ machine[d].size >= form.min}
<1>2. \E c \in Fixed : C = {c}
  <2>1. IsFiniteSet(C)
    BY <1>1, FS_Subset DEF Fixed
  <2>2. Cardinality(C) = 1
    BY DEF Determined
  <2> QED
    BY <2>1, <2>2, FS_Singleton
<1>3. PICK c \in Fixed : C = {c}
  BY <1>2
<1>4. BySize = {c} /\ ~Described(c, TRUE)
  <2>1. c \in Disk /\ c \in C
    BY <1>3 DEF Fixed
  <2>2. BySize = First({c})
    BY <1>3 DEF BySize
  <2> QED
    BY <2>1, <2>2, FirstOfOne
<1>5. ASSUME NEW k \in DOMAIN form.data
      PROVE  \E g \in Lasting : /\ ByGroup(k) = {g} /\ Described(g, TRUE)
                              /\ {d \in Disk : Describes(form.data[k], d, TRUE)} = {g}
  <2>1. PICK g \in Lasting : \A e \in Disk : Describes(form.data[k], e, TRUE) <=> e = g
    BY <1>5 DEF Determined
  <2>2. g \in Disk /\ Lasting \subseteq Disk
    BY DEF Lasting
  <2>3. {d \in Lasting : Describes(form.data[k], d, TRUE)} = {g}
    BY <2>1, <2>2
  <2>4. ByGroup(k) = {g}
    BY <2>2, <2>3, FirstOfOne DEF ByGroup
  <2>5. Described(g, TRUE)
    BY <1>5, <2>1, <2>2 DEF Described
  <2>6. {d \in Disk : Describes(form.data[k], d, TRUE)} = {g}
    BY <2>1, <2>2
  <2> QED
    BY <2>4, <2>5, <2>6
<1> QED
  BY <1>3, <1>4, <1>5

LEMMA PickSame ==
  ASSUME TypeOK, Progress, Determined, Pick
  PROVE  stage' = "picked" /\ touched' = touched /\ Cleared' = Meant
<1>1. /\ form.os = "rhel" /\ form.structured /\ Mode(form) = "auto"
      /\ stage = "booted" /\ machine \in Machines
  BY PicksOwn DEF Determined, Progress, OnServer
<1>2. PICK c \in Fixed :
        /\ {d \in Fixed : ~Described(d, TRUE) /\ machine[d].size >= form.min} = {c}
        /\ BySize = {c} /\ ~Described(c, TRUE)
  BY <1>1, OneOfEach
<1>3. \A k \in DOMAIN form.data :
        \E g \in Lasting : /\ ByGroup(k) = {g} /\ Described(g, TRUE)
                         /\ {d \in Disk : Describes(form.data[k], d, TRUE)} = {g}
  BY <1>1, OneOfEach
<1> DEFINE found == {data \in [Looked -> Disk] : \A k \in Looked : data[k] \in ByGroup(k)}
           fine == {data \in found : \A k \in Looked : data[k] \notin BySize}
<1>4. PickRhel
  BY <1>1 DEF Pick, PickRhel, PickNamed, PickUbuntu, PickDebian, PickOpensuse
<1>5. IF AllHit /\ BySize # {} /\ fine # {}
      THEN \E s \in BySize, data \in fine : Picks(s, data)
      ELSE Stops({})
  BY <1>1, <1>4 DEF PickRhel
<1>6. AllHit
  BY <1>3 DEF AllHit
<1>7. fine # {}
  <2>1. Looked \subseteq DOMAIN form.data /\ Lasting \subseteq Disk
    BY DEF Looked, Lasting
  <2> DEFINE one == [k \in Looked |-> CHOOSE d : d \in ByGroup(k)]
  <2>2. ASSUME NEW k \in Looked
        PROVE  one[k] \in Disk /\ one[k] \in ByGroup(k) /\ one[k] \notin BySize
    <3>1. PICK g \in Lasting : ByGroup(k) = {g} /\ Described(g, TRUE)
      BY <1>3, <2>1
    <3>2. one[k] = g
      BY <3>1
    <3> QED
      BY <1>2, <2>1, <3>1, <3>2
  <2>3. one \in [Looked -> Disk]
    BY <2>2
  <2>4. one \in fine
    BY <2>2, <2>3
  <2> QED
    BY <2>4
<1>8. PICK s \in BySize, data \in fine : Picks(s, data)
  BY <1>2, <1>5, <1>6, <1>7
<1>9. Cleared' = {s} \cup {data[k] : k \in {j \in DOMAIN data : form.data[j].wipe}}
  <2>1. Cleared' = ClearedBy(s, data)
    BY <1>8, PickedIsCleared
  <2> HIDE DEF found, fine
  <2> QED
    BY <1>1, <2>1 DEF ClearedBy
<1>10. {data[k] : k \in {j \in DOMAIN data : form.data[j].wipe}}
         = {d \in Disk : \E k \in DOMAIN form.data :
                           form.data[k].wipe /\ Describes(form.data[k], d, TRUE)}
  <2>1. DOMAIN data = Looked /\ \A k \in Looked : data[k] \in ByGroup(k) /\ data[k] \in Disk
    OBVIOUS
  <2>2. \A k \in Looked : {d \in Disk : Describes(form.data[k], d, TRUE)} = {data[k]}
    BY <1>3, <2>1 DEF Looked
  <2>3. \A k \in DOMAIN form.data : form.data[k].wipe => k \in Looked
    BY DEF Looked
  <2>4. Looked \subseteq DOMAIN form.data
    BY DEF Looked
  <2> HIDE DEF found, fine
  <2>5. ASSUME NEW j \in DOMAIN data, form.data[j].wipe
        PROVE  data[j] \in {d \in Disk : \E k \in DOMAIN form.data :
                              form.data[k].wipe /\ Describes(form.data[k], d, TRUE)}
    BY <2>1, <2>2, <2>4, <2>5
  <2>6. ASSUME NEW d \in Disk, NEW k \in DOMAIN form.data, form.data[k].wipe,
               Describes(form.data[k], d, TRUE)
        PROVE  k \in DOMAIN data /\ d = data[k]
    BY <2>1, <2>2, <2>3, <2>6
  <2> DEFINE cleared == {data[k] : k \in {j \in DOMAIN data : form.data[j].wipe}}
             meant == {d \in Disk : \E k \in DOMAIN form.data :
                                       form.data[k].wipe /\ Describes(form.data[k], d, TRUE)}
  <2>7. cleared \subseteq meant
    BY <2>5
  <2>8. meant \subseteq cleared
    BY <2>6
  <2> QED
    BY <2>7, <2>8
<1> QED
  BY <1>2, <1>8, <1>9, <1>10 DEF Meant, Picks

LEMMA NextSame ==
  ASSUME TypeOK, Progress, Same, [Next]_vars
  PROVE  Same'
<1> USE DEF OnServer
<1>1. CASE Save \/ Inherit \/ Make
  BY <1>1 DEF Save, Inherit, Make, Same, Progress
<1>2. CASE Boot
  <2>1. form' = form /\ touched' = touched /\ stage' = "booted"
    BY <1>2 DEF Boot
  <2>2. CASE boots = 0
    BY <2>1, <2>2 DEF Same, Progress
  <2>3. CASE boots # 0
    <3>1. machine' = machine
      BY <1>2, <2>3 DEF Boot
    <3>2. (Determined' <=> Determined) /\ Meant' = Meant
      BY <2>1, <3>1 DEF Determined, Meant, Fixed, Lasting, Disk, Described, Describes, Near, Mode
    <3> QED
      BY <2>1, <3>2 DEF Same
  <2> QED
    BY <2>2, <2>3
<1>3. ASSUME form' = form, machine' = machine
      PROVE  (Determined' <=> Determined) /\ Meant' = Meant
  BY <1>3 DEF Determined, Meant, Fixed, Lasting, Disk, Described, Describes, Near, Mode
<1>4. CASE Pick
  <2>1. form' = form /\ machine' = machine
    BY <1>4, PicksOwn DEF Picks, Stops
  <2> QED
    BY <1>3, <1>4, <2>1, PickSame DEF Same
<1>5. CASE Write
  <2>1. /\ stage = "picked" /\ stage' = "done" /\ touched' = touched \cup Cleared
        /\ UNCHANGED <<form, machine, names, picked>>
    BY <1>5 DEF Write
  <2> QED
    BY <1>3, <2>1 DEF Same
<1>6. CASE UNCHANGED vars
  <2>1. UNCHANGED <<form, machine, names, picked, stage, touched>>
    BY <1>6 DEF vars
  <2>2. Cleared' = Cleared
    BY <2>1 DEF Cleared, Extra, Named, Disk
  <2> QED
    BY <1>3, <2>1, <2>2 DEF Same
<1> QED
  BY <1>1, <1>2, <1>4, <1>5, <1>6 DEF Next

\* A RHEL form with mode auto whose declarations describe one disk each and which leaves
\* one disk for the system is installed at every boot, on those disks, whatever order the
\* kernel finds them in.
THEOREM OrderIsNothing == Spec => []OrderMakesNoDifference
<1>1. Init => TypeOK /\ Progress /\ Same
  BY InitTyped DEF Init, Same
<1>2. TypeOK /\ Progress /\ Same /\ [Next]_vars => TypeOK' /\ Progress' /\ Same'
  BY NextTyped, NextSame
<1>3. Same => OrderMakesNoDifference
  BY DEF Same, OrderMakesNoDifference
<1> QED
  BY <1>1, <1>2, <1>3, PTL DEF Spec

-----------------------------------------------------------------------------
(* The two layers of rules *)

\* Rule by rule: what the first layer lets through, and is none of the listed
\* exceptions, is let through by the second layer and by the writer of its family.
LEMMA RulesAgree ==
  ASSUME NEW f \in Profile, Saves(f), ~FoundLate(f)
  PROVE  Makes(f)
<1>1. Mode(f) \in {"auto", "name", "match"} /\ f.os \in {"rhel", "ubuntu", "debian", "opensuse"}
  BY DEF Mode, Profile
<1> SUFFICES ASSUME f.structured, f.os # "opensuse"
             PROVE  Makes(f)
  BY DEF Makes, Saves, Profile
<1>2. PlanTarget(f)
  BY <1>1 DEF PlanTarget, Saves, SchemaLayout, FoundLate
<1>3. PlanParts(f)
  BY DEF PlanParts, Saves, SchemaItems, SchemaCombinations, SchemaLayout
<1>4. PlanRaid(f)
  BY DEF PlanRaid, Saves, SchemaCombinations
<1>5. PlanData(f)
  BY DEF PlanData, Saves, SchemaData, SchemaCombinations, SchemaLayout, FoundLate
<1>6. PlanIdentities(f)
  <2>1. TargetIsNoData(f) /\ RaidNotOnData(f)
    BY DEF Saves, SchemaCombinations
  <2>2. ASSUME NEW k \in DOMAIN f.data
        PROVE  /\ f.serial # 0 => f.data[k].serial # f.serial
               /\ Mode(f) # "auto" /\ Target(f) # 0 => f.data[k].name # Target(f)
    BY <1>1, <2>1, <2>2 DEF TargetIsNoData, FoundLate
  <2>3. ~(Mode(f) = "match" /\ f.model # "" /\ f.serial = 0 /\ f.data # <<>>)
    BY DEF FoundLate
  <2> QED
    BY <2>1, <2>2, <2>3 DEF PlanIdentities
<1>7. f.os = "rhel" => RhelWrites(f)
  BY DEF RhelWrites, FoundLate
<1>8. f.os = "ubuntu" => UbuntuWrites(f)
  BY DEF UbuntuWrites, FoundLate
<1> QED
  BY <1>2, <1>3, <1>4, <1>5, <1>6, <1>7, <1>8 DEF Makes, Plans

LEMMA MadeIsWhole ==
  ASSUME NEW f \in Profile, Makes(f), f.structured, f.os \in {"rhel", "ubuntu"}
  PROVE  OfParts(f, {i \in DOMAIN f.parts \ (Bios(f) \cup Members(f)) : f.parts[i].mount # "swap"})
           \cup OfRaid(f) \cup OfData(f, DOMAIN f.data) \subseteq Mounted(f)
<1>1. Plans(f)
  BY DEF Makes
<1>2. CASE ~Custom(f)
  <2>1. DOMAIN f.parts = {} /\ DOMAIN f.raid = {}
    BY <1>1, <1>2, NoneInEmpty DEF Plans, PlanTarget, OnlyCustomParts
  <2>2. \A k \in DOMAIN f.data : f.data[k].mount = ""
    BY <1>1, <1>2 DEF Plans, PlanData, OnlyCustomData
  <2> QED
    BY <2>1, <2>2 DEF OfParts, OfRaid, OfData
<1>3. CASE Custom(f)
  <2>1. \A k \in DOMAIN f.data : f.data[k].mount # "" => f.data[k].wipe \/ f.data[k].existing
    BY <1>1, <1>3 DEF Plans, PlanData, MountHasPlace
  <2>2. CASE f.os = "rhel"
    <3>1. Mounted(f) = RhelMounts(f)
      BY <1>3, <2>2 DEF Mounted
    <3> QED
      BY <2>1, <3>1 DEF RhelMounts, OfParts, OfData
  <2>3. CASE f.os = "ubuntu"
    <3>1. Mounted(f) = UbuntuMounts(f)
      BY <1>3, <2>3 DEF Mounted
    <3>2. \A k \in DOMAIN f.data : ~f.data[k].existing
      BY <1>1, <2>3 DEF Plans, PlanData, ExistingIsRhel
    <3> QED
      BY <2>1, <3>1, <3>2 DEF UbuntuMounts, OfData
  <2> QED
    BY <2>2, <2>3
<1> QED
  BY <1>2, <1>3

\* The two layers have the same rules: what was saved can be made, but for the listed
\* exceptions; and whatever is made holds every mount point of the form, also of a form
\* that was stored before the first layer had its rules.
THEOREM FormsAreWhole == Spec => []SavedIsMadeWhole
<1>1. Init => TypeOK /\ Progress
  BY InitTyped
<1>2. TypeOK /\ Progress /\ [Next]_vars => TypeOK' /\ Progress'
  BY NextTyped
<1>3. TypeOK /\ Progress => SavedIsMadeWhole
  <2> SUFFICES ASSUME TypeOK, Progress PROVE SavedIsMadeWhole
    OBVIOUS
  <2>1. form \in Profile
    BY DEF TypeOK
  <2>2. SavedIsMade
    BY <2>1, RulesAgree DEF SavedIsMade
  <2>3. NothingDropped
    BY <2>1, MadeIsWhole DEF NothingDropped, Progress
  <2> QED
    BY <2>2, <2>3 DEF SavedIsMadeWhole
<1> QED
  BY <1>1, <1>2, <1>3, PTL DEF Spec
-----------------------------------------------------------------------------
(* Sequences that are put together *)

\* What FlattenSeq computes for some function f, step by step.
Flattens(f, ss, m) == f = [i \in 1..m |-> IF i = 1 THEN ss[i] ELSE f[i - 1] \o ss[i]]

LEMMA FlattensExists ==
  ASSUME NEW X, NEW ss \in Seq(X), NEW n \in 1..Len(ss)
  PROVE  \E f : Flattens(f, ss, n)
<1> DEFINE T == {m \in 1..Len(ss) : \A f : ~Flattens(f, ss, m)}
<1> SUFFICES ASSUME T # {} PROVE FALSE
  OBVIOUS
<1>1. T \in SUBSET Nat
  OBVIOUS
<1>2. PICK m \in T : \A k \in T : m <= k
  BY <1>1, LeastNat
<1>3. m \in 1..Len(ss) /\ \A f : ~Flattens(f, ss, m)
  OBVIOUS
<1>4. CASE m = 1
  <2> DEFINE f == [i \in 1..1 |-> ss[1]]
  <2>1. Flattens(f, ss, 1)
    BY DEF Flattens
  <2> QED
    BY <1>3, <1>4, <2>1
<1>5. CASE m > 1
  <2>1. m - 1 \in 1..Len(ss) /\ m - 1 \notin T
    BY <1>2, <1>3, <1>5
  <2>2. PICK f : Flattens(f, ss, m - 1)
    BY <2>1
  <2> DEFINE g == [i \in 1..m |-> IF i = m THEN f[m - 1] \o ss[m] ELSE f[i]]
  <2>3. g = [i \in 1..m |-> IF i = 1 THEN ss[i] ELSE g[i - 1] \o ss[i]]
    <3> SUFFICES ASSUME NEW i \in 1..m
                 PROVE  g[i] = IF i = 1 THEN ss[i] ELSE g[i - 1] \o ss[i]
      OBVIOUS
    <3>1. CASE i = m
      <4>1. m - 1 \in 1..m /\ m - 1 # m /\ m # 1
        BY <1>3, <1>5
      <4>2. g[m - 1] = f[m - 1]
        BY <4>1
      <4>3. m \in 1..m
        BY <1>3
      <4>4. g[m] = f[m - 1] \o ss[m]
        BY <4>3
      <4> QED
        BY <3>1, <4>1, <4>2, <4>4
    <3>2. CASE i # m
      <4>1. i \in 1..m - 1 /\ g[i] = f[i]
        BY <1>3, <3>2
      <4>2. f[i] = IF i = 1 THEN ss[i] ELSE f[i - 1] \o ss[i]
        BY <2>2, <4>1 DEF Flattens
      <4>3. i # 1 => g[i - 1] = f[i - 1]
        BY <1>3, <4>1
      <4> QED
        BY <4>1, <4>2, <4>3
    <3> QED
      BY <3>1, <3>2
  <2>4. Flattens(g, ss, m)
    BY <2>3 DEF Flattens
  <2> QED
    BY <1>3, <2>4
<1> QED
  BY <1>3, <1>4, <1>5

\* Whatever holds of the empty sequence, and of two sequences put together if it holds
\* of both, holds of many put together if it holds of each.
LEMMA FlattenStays ==
  ASSUME NEW G, <<>> \in G, \A s, t \in G : s \o t \in G, NEW ss \in Seq(G)
  PROVE  FlattenSeq(ss) \in G
<1>1. CASE Len(ss) = 0
  <2>1. ss = <<>>
    BY <1>1
  <2> QED
    BY <1>1, <2>1 DEF FlattenSeq
<1>2. CASE Len(ss) # 0
  <2> DEFINE n == Len(ss)
             f == CHOOSE g : Flattens(g, ss, n)
  <2>1. n \in Nat /\ n \in 1..n
    BY <1>2
  <2>2. Flattens(f, ss, n)
    BY <2>1, FlattensExists
  <2>3. FlattenSeq(ss) = f[n]
    BY <1>2 DEF FlattenSeq, Flattens
  <2> HIDE DEF f
  <2> DEFINE T == {i \in 1..n : f[i] \notin G}
  <2>4. T = {}
    <3> SUFFICES ASSUME T # {} PROVE FALSE
      OBVIOUS
    <3>1. T \in SUBSET Nat
      BY <2>1
    <3>2. PICK m \in T : \A k \in T : m <= k
      BY <3>1, LeastNat
    <3>3. m \in 1..n /\ f[m] \notin G /\ ss[m] \in G
      BY <2>1
    <3>4. f[m] = IF m = 1 THEN ss[m] ELSE f[m - 1] \o ss[m]
      BY <2>2, <3>3 DEF Flattens
    <3>5. CASE m = 1
      BY <3>3, <3>4, <3>5
    <3>6. CASE m # 1
      <4>1. m - 1 \in 1..n /\ m - 1 \notin T
        BY <2>1, <3>2, <3>3, <3>6
      <4> QED
        BY <3>3, <3>4, <3>6, <4>1
    <3> QED
      BY <3>5, <3>6
  <2> QED
    BY <2>1, <2>3, <2>4
<1> QED
  BY <1>1, <1>2
-----------------------------------------------------------------------------
(* The nmcli script *)

IsUp(l) == l.do \in {"up", "up or stop"}

\* Blocks of lines over L: a connection is there before its other lines, and one of them
\* brings it up.
Blocks(L) ==
  {s \in Seq(L) :
     \A i \in DOMAIN s :
       /\ \E j \in DOMAIN s : j <= i /\ s[j].con = s[i].con /\ s[j].do = "add"
       /\ \E j \in DOMAIN s : s[j].con = s[i].con /\ IsUp(s[j])}

Framed(s) == \E L : s \in Blocks(L)

LEMMA BlocksGrow ==
  ASSUME NEW L, NEW M, L \subseteq M
  PROVE  Blocks(L) \subseteq Blocks(M)
<1>1. Seq(L) \subseteq Seq(M)
  OBVIOUS
<1> QED
  BY <1>1 DEF Blocks

LEMMA EmptyBlock == ASSUME NEW L PROVE <<>> \in Blocks(L)
<1>1. <<>> \in Seq(L) /\ DOMAIN <<>> = {}
  BY NoneInEmpty
<1> QED
  BY <1>1 DEF Blocks

LEMMA BlocksTogether ==
  ASSUME NEW L, NEW s \in Blocks(L), NEW t \in Blocks(L)
  PROVE  s \o t \in Blocks(L)
<1>1. s \in Seq(L) /\ t \in Seq(L)
  BY DEF Blocks
<1> DEFINE u == s \o t
<1>2. /\ u \in Seq(L) /\ Len(u) = Len(s) + Len(t)
      /\ DOMAIN u = 1..Len(u) /\ DOMAIN s = 1..Len(s) /\ DOMAIN t = 1..Len(t)
      /\ Len(s) \in Nat /\ Len(t) \in Nat
  BY <1>1
<1>3. \A i \in DOMAIN s : i \in DOMAIN u /\ u[i] = s[i]
  BY <1>1, <1>2
<1>4. \A i \in DOMAIN t : i + Len(s) \in DOMAIN u /\ u[i + Len(s)] = t[i]
  BY <1>1, <1>2
<1>5. \A i \in DOMAIN u : i \in DOMAIN s \/ \E k \in DOMAIN t : i = k + Len(s)
  <2> SUFFICES ASSUME NEW i \in DOMAIN u, i \notin DOMAIN s
               PROVE  \E k \in DOMAIN t : i = k + Len(s)
    OBVIOUS
  <2>1. i - Len(s) \in DOMAIN t /\ i = (i - Len(s)) + Len(s)
    BY <1>2
  <2> QED
    BY <2>1
<1> HIDE DEF u
<1>6. ASSUME NEW i \in DOMAIN u
      PROVE  /\ \E j \in DOMAIN u : j <= i /\ u[j].con = u[i].con /\ u[j].do = "add"
             /\ \E j \in DOMAIN u : u[j].con = u[i].con /\ IsUp(u[j])
  <2>1. CASE i \in DOMAIN s
    <3>1. PICK j \in DOMAIN s : j <= i /\ s[j].con = s[i].con /\ s[j].do = "add"
      BY <2>1 DEF Blocks
    <3>2. PICK k \in DOMAIN s : s[k].con = s[i].con /\ IsUp(s[k])
      BY <2>1 DEF Blocks
    <3> QED
      BY <1>3, <2>1, <3>1, <3>2
  <2>2. ASSUME NEW m \in DOMAIN t, i = m + Len(s)
        PROVE  /\ \E j \in DOMAIN u : j <= i /\ u[j].con = u[i].con /\ u[j].do = "add"
               /\ \E j \in DOMAIN u : u[j].con = u[i].con /\ IsUp(u[j])
    <3>1. PICK j \in DOMAIN t : j <= m /\ t[j].con = t[m].con /\ t[j].do = "add"
      BY DEF Blocks
    <3>2. PICK k \in DOMAIN t : t[k].con = t[m].con /\ IsUp(t[k])
      BY DEF Blocks
    <3>3. j + Len(s) <= i
      BY <1>2, <2>2, <3>1
    <3> QED
      BY <1>4, <2>2, <3>1, <3>2, <3>3
  <2> QED
    BY <1>5, <2>1, <2>2
<1> QED
  BY <1>2, <1>6 DEF Blocks, u

\* The lines of a device around those of its ports.
LEMMA BlockAround ==
  ASSUME NEW n, NEW f, NEW g, NEW t, Framed(t)
  PROVE  Framed(<<Add(n, f), Modify(n, g)>> \o t \o <<Up(n)>>)
<1>1. PICK M : t \in Blocks(M)
  BY DEF Framed
<1> DEFINE head == <<Add(n, f), Modify(n, g)>>
           L == M \cup {Add(n, f), Modify(n, g), Up(n)}
           u == head \o t \o <<Up(n)>>
<1>2. t \in Blocks(L) /\ t \in Seq(L)
  <2>1. t \in Blocks(L)
    BY <1>1, BlocksGrow
  <2> QED
    BY <2>1 DEF Blocks
<1>3. /\ u \in Seq(L) /\ Len(t) \in Nat /\ Len(u) = Len(t) + 3
      /\ DOMAIN u = 1..Len(t) + 3 /\ DOMAIN t = 1..Len(t)
  BY <1>2
<1>4. u[1] = Add(n, f) /\ u[2] = Modify(n, g) /\ u[Len(t) + 3] = Up(n)
  BY <1>2, <1>3
<1>5. \A i \in DOMAIN t : i + 2 \in DOMAIN u /\ u[i + 2] = t[i]
  BY <1>2, <1>3
<1> HIDE DEF u, L
<1>6. ASSUME NEW i \in DOMAIN u
      PROVE  /\ \E j \in DOMAIN u : j <= i /\ u[j].con = u[i].con /\ u[j].do = "add"
             /\ \E j \in DOMAIN u : u[j].con = u[i].con /\ IsUp(u[j])
  <2>1. CASE i \in {1, 2, Len(t) + 3}
    <3>1. 1 \in DOMAIN u /\ Len(t) + 3 \in DOMAIN u /\ 1 <= i
      BY <1>3
    <3>2. u[i].con = n /\ u[1].con = n /\ u[1].do = "add" /\ u[Len(t) + 3].con = n
          /\ IsUp(u[Len(t) + 3])
      BY <1>4, <2>1 DEF Add, Modify, Up, IsUp
    <3> QED
      BY <3>1, <3>2
  <2>2. CASE i \notin {1, 2, Len(t) + 3}
    <3>1. i - 2 \in DOMAIN t /\ i = (i - 2) + 2
      BY <1>3, <2>2
    <3>2. PICK m \in DOMAIN t : i = m + 2
      BY <3>1
    <3>3. PICK j \in DOMAIN t : j <= m /\ t[j].con = t[m].con /\ t[j].do = "add"
      BY <1>2 DEF Blocks
    <3>4. PICK k \in DOMAIN t : t[k].con = t[m].con /\ IsUp(t[k])
      BY <1>2 DEF Blocks
    <3>5. j + 2 <= i
      BY <1>3, <3>2, <3>3
    <3> QED
      BY <1>5, <3>2, <3>3, <3>4, <3>5
  <2> QED
    BY <2>1, <2>2
<1>7. u \in Blocks(L)
  BY <1>3, <1>6 DEF Blocks
<1> QED
  BY <1>7 DEF Framed, u

\* Blocks one after the other are a block.
LEMMA FlattenFramed ==
  ASSUME NEW X, NEW ss \in Seq(X), \A x \in X : Framed(x)
  PROVE  Framed(FlattenSeq(ss))
<1> DEFINE Of(x) == CHOOSE L : x \in Blocks(L)
           M == UNION {Of(x) : x \in X}
<1>1. ASSUME NEW x \in X
      PROVE  x \in Blocks(M)
  <2>1. x \in Blocks(Of(x))
    BY DEF Framed
  <2>2. Of(x) \subseteq M
    OBVIOUS
  <2> QED
    BY <2>1, <2>2, BlocksGrow
<1> HIDE DEF M
<1>2. X \subseteq Blocks(M)
  BY <1>1
<1>3. ss \in Seq(Blocks(M))
  BY <1>2
<1>4. FlattenSeq(ss) \in Blocks(M)
  BY <1>3, EmptyBlock, BlocksTogether, FlattenStays
<1> QED
  BY <1>4 DEF Framed

LEMMA PairFramed ==
  ASSUME NEW n, NEW f
  PROVE  Framed(<<Add(n, f), UpOrStop(n)>>)
<1> DEFINE u == <<Add(n, f), UpOrStop(n)>>
           L == {Add(n, f), UpOrStop(n)}
<1>1. u \in Seq(L) /\ DOMAIN u = 1..2 /\ u[1] = Add(n, f) /\ u[2] = UpOrStop(n)
  OBVIOUS
<1> HIDE DEF u, L
<1>2. /\ Add(n, f).con = n /\ Add(n, f).do = "add"
      /\ UpOrStop(n).con = n /\ UpOrStop(n).do = "up or stop"
  BY DEF Add, UpOrStop
<1>3. u[1].con = n /\ u[2].con = n /\ u[1].do = "add" /\ IsUp(u[2])
  BY <1>1, <1>2 DEF IsUp
<1>4. ASSUME NEW i \in DOMAIN u
      PROVE  /\ \E j \in DOMAIN u : j <= i /\ u[j].con = u[i].con /\ u[j].do = "add"
             /\ \E j \in DOMAIN u : u[j].con = u[i].con /\ IsUp(u[j])
  <2>1. i \in {1, 2} /\ 1 \in DOMAIN u /\ 2 \in DOMAIN u /\ 1 <= i
    BY <1>1
  <2> QED
    BY <1>3, <2>1
<1>5. u \in Blocks(L)
  BY <1>1, <1>4 DEF Blocks
<1> QED
  BY <1>5 DEF Framed, u

LEMMA EmptyFramed == Framed(<<>>)
BY EmptyBlock DEF Framed

LEMMA PortsFramed ==
  ASSUME NEW master, NEW infix, NEW ports \in Seq(STRING)
  PROVE  Framed(PortLines(master, infix, ports))
<1> DEFINE con(i) == master \o infix \o ports[i]
           of(i) == <<Add(con(i), {<<"master", ports[i], master>>}), UpOrStop(con(i))>>
           ss == [i \in DOMAIN ports |-> of(i)]
           X == {of(i) : i \in DOMAIN ports}
<1>1. \A x \in X : Framed(x)
  BY PairFramed
<1> HIDE DEF con
<1>2. DOMAIN ports = 1..Len(ports) /\ Len(ports) \in Nat
  OBVIOUS
<1>3. \A i \in DOMAIN ports : of(i) \in X
  OBVIOUS
<1> HIDE DEF of, X
<1>4. ss \in Seq(X)
  BY <1>2, <1>3
<1>5. PortLines(master, infix, ports) = FlattenSeq(ss)
  BY DEF PortLines, of, con
<1> HIDE DEF ss
<1> QED
  BY <1>1, <1>4, <1>5, FlattenFramed

LEMMA DevicesFramed ==
  ASSUME NEW q \in Request
  PROVE  /\ \A i \in DOMAIN q.interfaces : Framed(IfaceLines(q, q.interfaces[i]))
         /\ \A i \in DOMAIN q.bonds : Framed(BondLines(q, q.bonds[i]))
         /\ \A i \in DOMAIN q.vlans : Framed(VlanLines(q, q.vlans[i]))
         /\ \A i \in DOMAIN q.bridges : Framed(BridgeLines(q, q.bridges[i]))
<1>1. ASSUME NEW n, NEW f, NEW g
      PROVE  Framed(<<Add(n, f), Modify(n, g)>> \o <<Up(n)>>)
  <2>1. Framed(<<Add(n, f), Modify(n, g)>> \o <<>> \o <<Up(n)>>)
    BY EmptyFramed, BlockAround
  <2>2. <<Add(n, f), Modify(n, g)>> \o <<>> = <<Add(n, f), Modify(n, g)>>
    OBVIOUS
  <2> QED
    BY <2>1, <2>2
<1>2. \A i \in DOMAIN q.interfaces : Framed(IfaceLines(q, q.interfaces[i]))
  BY <1>1 DEF IfaceLines, OwnLines
<1>3. \A i \in DOMAIN q.vlans : Framed(VlanLines(q, q.vlans[i]))
  BY <1>1 DEF VlanLines, OwnLines
<1>4. ASSUME NEW i \in DOMAIN q.bonds
      PROVE  Framed(BondLines(q, q.bonds[i]))
  <2>1. q.bonds[i].ports \in Seq(STRING)
    <3>1. q.bonds \in Seq(Bond)
      BY DEF Request
    <3>2. q.bonds[i] \in Bond
      BY <3>1
    <3> QED
      BY <3>2 DEF Bond
  <2>2. Framed(PortLines(q.bonds[i].name, "-slave-", q.bonds[i].ports))
    BY <2>1, PortsFramed
  <2> QED
    BY <2>2, BlockAround DEF BondLines, OwnLines
<1>5. ASSUME NEW i \in DOMAIN q.bridges
      PROVE  Framed(BridgeLines(q, q.bridges[i]))
  <2>1. q.bridges[i].ports \in Seq(STRING)
    <3>1. q.bridges \in Seq(Bridge)
      BY DEF Request
    <3>2. q.bridges[i] \in Bridge
      BY <3>1
    <3> QED
      BY <3>2 DEF Bridge
  <2>2. Framed(PortLines(q.bridges[i].name, "-port-", q.bridges[i].ports))
    BY <2>1, PortsFramed
  <2> QED
    BY <2>2, BlockAround DEF BridgeLines, OwnLines
<1> QED
  BY <1>2, <1>3, <1>4, <1>5

LEMMA ScriptFramed ==
  ASSUME NEW q \in Request
  PROVE  Framed(Script(q))
<1> DEFINE iface(i) == IF q.interfaces[i].name \in Ports(q) THEN <<>> ELSE IfaceLines(q, q.interfaces[i])
           bond(i) == BondLines(q, q.bonds[i])
           vlan(i) == VlanLines(q, q.vlans[i])
           bridge(i) == BridgeLines(q, q.bridges[i])
           X == {iface(i) : i \in DOMAIN q.interfaces} \cup {bond(i) : i \in DOMAIN q.bonds}
                  \cup {vlan(i) : i \in DOMAIN q.vlans} \cup {bridge(i) : i \in DOMAIN q.bridges}
           ifaces == [i \in DOMAIN q.interfaces |-> iface(i)]
           bonds == [i \in DOMAIN q.bonds |-> bond(i)]
           vlans == [i \in DOMAIN q.vlans |-> vlan(i)]
           bridges == [i \in DOMAIN q.bridges |-> bridge(i)]
<1>1. \A i \in DOMAIN q.interfaces : Framed(iface(i))
  BY DevicesFramed, EmptyFramed
<1>2. \A x \in X : Framed(x)
  BY <1>1, DevicesFramed
<1>3. /\ \A i \in DOMAIN q.interfaces : iface(i) \in X
      /\ \A i \in DOMAIN q.bonds : bond(i) \in X
      /\ \A i \in DOMAIN q.vlans : vlan(i) \in X
      /\ \A i \in DOMAIN q.bridges : bridge(i) \in X
  OBVIOUS
<1>4. Script(q) = FlattenSeq(ifaces \o bonds \o vlans \o bridges)
  BY DEF Script
<1>5. /\ DOMAIN q.interfaces = 1..Len(q.interfaces) /\ Len(q.interfaces) \in Nat
      /\ DOMAIN q.bonds = 1..Len(q.bonds) /\ Len(q.bonds) \in Nat
      /\ DOMAIN q.vlans = 1..Len(q.vlans) /\ Len(q.vlans) \in Nat
      /\ DOMAIN q.bridges = 1..Len(q.bridges) /\ Len(q.bridges) \in Nat
  BY DEF Request
<1> HIDE DEF X, iface, bond, vlan, bridge
<1>6. ifaces \in Seq(X) /\ bonds \in Seq(X) /\ vlans \in Seq(X) /\ bridges \in Seq(X)
  BY <1>3, <1>5
<1> HIDE DEF ifaces, bonds, vlans, bridges
<1>7. ifaces \o bonds \o vlans \o bridges \in Seq(X)
  BY <1>6
<1> QED
  BY <1>2, <1>4, <1>7, FlattenFramed

\* What a run has done up to its line: connections that were added are there, and a
\* connection that was to come up did, or the script has noted that one did not.
Progressed ==
  /\ line \in Nat \ {0}
  /\ \A i \in DOMAIN script : i < line /\ script[i].do = "add" => script[i].con \in DOMAIN profiles
  /\ failed \/ \A i \in DOMAIN script : i < line /\ IsUp(script[i]) => script[i].con \in active

NetInv ==
  /\ request \in Request
  /\ outcome \in {"script", "running", "aborted", "failed", "ok"} => Framed(script)
  /\ outcome = "running" => Progressed
  /\ outcome = "ok" => ExitZeroMeansUp

\* The line that is reached belongs to a connection that is there, if it is not the one
\* that adds it.
LEMMA HereIsThere ==
  ASSUME NetTypeOK, NetInv, outcome = "running", line <= Len(script), Here.do # "add"
  PROVE  Here.con \in DOMAIN profiles
<1>1. PICK L : script \in Blocks(L)
  BY DEF NetInv, Framed
<1>2. line \in DOMAIN script
  BY <1>1 DEF NetInv, Progressed, Blocks
<1>3. PICK j \in DOMAIN script :
        j <= line /\ script[j].con = script[line].con /\ script[j].do = "add"
  BY <1>1, <1>2 DEF Blocks
<1>4. j < line
  <2>1. j \in Nat /\ line \in Nat
    <3>1. script \in Seq(L)
      BY <1>1 DEF Blocks
    <3> QED
      BY <3>1 DEF NetInv, Progressed
  <2>2. j # line
    BY <1>3 DEF Here
  <2> QED
    BY <1>3, <2>1, <2>2
<1> QED
  BY <1>3, <1>4 DEF NetInv, Progressed, Here

LEMMA NetNextTyped ==
  ASSUME NetTypeOK, NetInv, [NetNext]_netVars
  PROVE  NetTypeOK'
<1>1. failed' \in BOOLEAN /\ fixed' \in BOOLEAN
  <2>1. failed \in BOOLEAN /\ fixed \in BOOLEAN
    BY Zenon DEF NetTypeOK
  <2>2. CASE UNCHANGED <<failed, fixed>>
    BY <2>1, <2>2, Zenon
  <2>3. CASE Run
    BY <2>1, <2>3, Zenon DEF Run
  <2>4. CASE FailsToComeUp
    BY <2>1, <2>4, Zenon DEF FailsToComeUp
  <2>5. CASE Fix
    BY <2>1, <2>5, Zenon DEF Fix
  <2>6. UNCHANGED <<failed, fixed>> \/ Run \/ FailsToComeUp \/ Fix
    BY Zenon DEF NetNext, netVars, Generate, IdemAdd, ModifyProfile, ComesUp, PortFailsToComeUp,
                 Cut, End
  <2> QED
    BY <2>2, <2>3, <2>4, <2>5, <2>6, Zenon
<1>2. /\ outcome' \in {"new", "refused", "file", "script", "running", "aborted", "failed", "ok"}
      /\ line' \in Nat
  <2>1. outcome' \in {outcome, "refused", "file", "script", "running", "aborted", "failed", "ok"}
    BY DEF NetNext, netVars, Generate, Run, IdemAdd, ModifyProfile, ComesUp, FailsToComeUp,
           PortFailsToComeUp, Cut, End, Fix
  <2>2. line' \in {1, line, line + 1}
    BY DEF NetNext, netVars, Generate, Run, IdemAdd, ModifyProfile, ComesUp, FailsToComeUp,
           PortFailsToComeUp, Cut, End, Fix
  <2> QED
    BY <2>1, <2>2 DEF NetTypeOK
<1>3. runs' \in 0..MaxRuns /\ cuts' \in 0..MaxCuts
  <2>1. \/ UNCHANGED <<runs, cuts>>
        \/ runs' = runs + 1 /\ runs < MaxRuns /\ cuts' = cuts
        \/ cuts' = cuts + 1 /\ cuts < MaxCuts /\ runs' = runs
    BY DEF NetNext, netVars, Generate, Run, IdemAdd, ModifyProfile, ComesUp, FailsToComeUp,
           PortFailsToComeUp, Cut, End, Fix
  <2>2. runs \in 0..MaxRuns /\ cuts \in 0..MaxCuts
    BY DEF NetTypeOK
  <2> QED
    BY <2>1, <2>2, NetConfigAssumption
<1>4. active' \subseteq DOMAIN profiles'
  <2>1. CASE IdemAdd
    BY <2>1 DEF IdemAdd, NetTypeOK
  <2>2. CASE ModifyProfile
    BY <2>2 DEF ModifyProfile, NetTypeOK
  <2>3. CASE ComesUp
    <3>1. Here.con \in DOMAIN profiles
      BY <2>3, HereIsThere DEF ComesUp, AtLine, Here
    <3> QED
      BY <2>3, <3>1 DEF ComesUp, NetTypeOK
  <2>4. CASE active' = {} \/ UNCHANGED <<active, profiles>>
    BY <2>4 DEF NetTypeOK
  <2> QED
    BY <2>1, <2>2, <2>3, <2>4
    DEF NetNext, netVars, Generate, Run, FailsToComeUp, PortFailsToComeUp, Cut, End, Fix
<1> QED
  BY <1>1, <1>2, <1>3, <1>4, Zenon DEF NetTypeOK

LEMMA NetNextKeeps ==
  ASSUME NetTypeOK, NetInv, [NetNext]_netVars
  PROVE  NetInv'
<1>1. CASE Generate
  <2>1. request' = request /\ outcome' \in {"refused", "script", "file"}
    BY <1>1 DEF Generate
  <2>2. outcome' = "script" => script' = Script(request)
    BY <1>1 DEF Generate
  <2> QED
    BY <2>1, <2>2, ScriptFramed DEF NetInv
<1>2. CASE Run
  <2>1. /\ request' = request /\ script' = script /\ outcome' = "running" /\ line' = 1
        /\ Framed(script)
    BY <1>2 DEF Run, NetInv
  <2>2. \A i \in DOMAIN script : ~(i < 1)
    BY <2>1 DEF Framed, Blocks
  <2> QED
    BY <2>1, <2>2 DEF NetInv, Progressed
<1>3. ASSUME outcome = "running", line <= Len(script), line' = line + 1, script' = script,
             DOMAIN profiles \subseteq DOMAIN profiles', active \subseteq active',
             script[line].do = "add" => script[line].con \in DOMAIN profiles',
             failed' \/ (~failed /\ (IsUp(script[line]) => script[line].con \in active'))
      PROVE  Progressed'
  <2>1. \A i \in DOMAIN script : i < line + 1 => i = line \/ i < line
    <3>1. \A i \in DOMAIN script : i \in Nat
      <4>1. PICK L : script \in Seq(L)
        BY <1>3 DEF NetInv, Framed, Blocks
      <4> QED
        BY <4>1
    <3> QED
      BY <3>1 DEF NetTypeOK
  <2>2. /\ line \in Nat \ {0}
        /\ \A i \in DOMAIN script : i < line /\ script[i].do = "add" => script[i].con \in DOMAIN profiles
        /\ failed \/ \A i \in DOMAIN script : i < line /\ IsUp(script[i]) => script[i].con \in active
    BY <1>3, Zenon DEF NetInv, Progressed
  <2>3. line' \in Nat \ {0}
    BY <1>3, <2>2
  <2>4. \A i \in DOMAIN script : i < line' /\ script[i].do = "add" => script[i].con \in DOMAIN profiles'
    BY <1>3, <2>1, <2>2
  <2>5. ASSUME ~failed'
        PROVE  \A i \in DOMAIN script : i < line' /\ IsUp(script[i]) => script[i].con \in active'
    <3>1. \A i \in DOMAIN script : i < line /\ IsUp(script[i]) => script[i].con \in active
      BY <1>3, <2>2, <2>5, Zenon
    <3>2. IsUp(script[line]) => script[line].con \in active'
      BY <1>3, <2>5, Zenon
    <3> QED
      BY <1>3, <2>1, <3>1, <3>2
  <2>6. \A i \in DOMAIN script : IsUp(script[i])' <=> IsUp(script[i])
    BY <1>3 DEF IsUp
  <2> QED
    BY <1>3, <2>3, <2>4, <2>5, <2>6, Zenon DEF Progressed
<1>4. CASE IdemAdd
  <2>1. DOMAIN profiles \subseteq DOMAIN profiles' /\ script[line].con \in DOMAIN profiles'
    BY <1>4 DEF IdemAdd, Here
  <2>2. outcome = "running" /\ line <= Len(script) /\ line' = line + 1 /\ script[line].do = "add"
    BY <1>4 DEF IdemAdd, AtLine
  <2>3. UNCHANGED <<request, outcome, script, failed, active>>
    BY <1>4 DEF IdemAdd
  <2>4. Progressed'
    BY <1>3, <2>1, <2>2, <2>3 DEF IsUp, NetTypeOK
  <2> QED
    BY <2>2, <2>3, <2>4 DEF NetInv
<1>5. CASE ModifyProfile
  <2>1. /\ outcome = "running" /\ line <= Len(script) /\ line' = line + 1 /\ script[line].do = "modify"
        /\ DOMAIN profiles' = DOMAIN profiles /\ UNCHANGED <<request, outcome, script, failed, active>>
    BY <1>5 DEF ModifyProfile, AtLine
  <2>2. Progressed'
    BY <1>3, <2>1 DEF IsUp, NetTypeOK
  <2> QED
    BY <2>1, <2>2 DEF NetInv
<1>6. CASE ComesUp
  <2>1. /\ outcome = "running" /\ line <= Len(script) /\ line' = line + 1 /\ IsUp(script[line])
        /\ active' = active \cup {script[line].con}
        /\ UNCHANGED <<request, outcome, script, failed, profiles>>
    BY <1>6 DEF ComesUp, AtLine, IsUp, Here
  <2>2. Progressed'
    BY <1>3, <2>1 DEF IsUp, NetTypeOK
  <2> QED
    BY <2>1, <2>2 DEF NetInv
<1>7. CASE FailsToComeUp
  <2>1. /\ outcome = "running" /\ line <= Len(script) /\ line' = line + 1 /\ script[line].do = "up"
        /\ failed' = TRUE /\ UNCHANGED <<request, outcome, script, profiles, active>>
    BY <1>7 DEF FailsToComeUp, AtLine
  <2>2. Progressed'
    BY <1>3, <2>1
  <2> QED
    BY <2>1, <2>2 DEF NetInv
<1>8. CASE PortFailsToComeUp \/ Cut
  BY <1>8 DEF PortFailsToComeUp, AtLine, Cut, NetInv
<1>9. CASE End
  <2>1. /\ outcome = "running" /\ line > Len(script) /\ outcome' = IF failed THEN "failed" ELSE "ok"
        /\ UNCHANGED <<request, script, active>>
    BY <1>9 DEF End
  <2>2. ASSUME ~failed, NEW i \in DOMAIN script
        PROVE  script[i].con \in active
    <3>1. PICK L : script \in Blocks(L)
      BY <2>1 DEF NetInv, Framed
    <3>2. PICK j \in DOMAIN script : script[j].con = script[i].con /\ IsUp(script[j])
      BY <3>1 DEF Blocks
    <3>3. j < line
      <4>1. script \in Seq(L) /\ line \in Nat
        BY <3>1 DEF Blocks, NetTypeOK
      <4> QED
        BY <2>1, <4>1
    <3>4. \A k \in DOMAIN script : k < line /\ IsUp(script[k]) => script[k].con \in active
      BY <2>1, <2>2, Zenon DEF NetInv, Progressed
    <3> QED
      BY <3>2, <3>3, <3>4
  <2>3. outcome' = "ok" => ExitZeroMeansUp'
    BY <2>1, <2>2 DEF ExitZeroMeansUp, NetTypeOK
  <2> QED
    BY <2>1, <2>3 DEF NetInv
<1>10. CASE Fix
  <2>1. PICK q \in Fixes : request' = q /\ script' = Script(q) /\ outcome' = "script"
    BY <1>10 DEF Fix
  <2> QED
    BY <2>1, ScriptFramed, NetConfigAssumption DEF NetInv
<1>11. CASE UNCHANGED netVars
  BY <1>11 DEF netVars, NetInv, Progressed, ExitZeroMeansUp
<1> QED
  BY <1>1, <1>2, <1>4, <1>5, <1>6, <1>7, <1>8, <1>9, <1>10, <1>11 DEF NetNext

LEMMA NetInitHolds == NetInit => NetTypeOK /\ NetInv
<1> SUFFICES ASSUME NetInit PROVE NetTypeOK /\ NetInv
  OBVIOUS
<1>1. failed \in BOOLEAN /\ fixed \in BOOLEAN
  BY Zenon DEF NetInit
<1>2. /\ outcome = "new" /\ line \in Nat /\ active \subseteq DOMAIN profiles
      /\ runs \in 0..MaxRuns /\ cuts \in 0..MaxCuts
  BY NetConfigAssumption DEF NetInit
<1>3. request \in Request
  BY NetConfigAssumption DEF NetInit
<1>4. NetTypeOK
  BY <1>1, <1>2 DEF NetTypeOK
<1> QED
  BY <1>2, <1>3, <1>4 DEF NetInv

\* Every variable keeps its type; a connection that came up is one that NetworkManager has
\* a profile of.
THEOREM NetTypeCorrect == NetSpec => []NetTypeOK
<1>1. NetTypeOK /\ NetInv /\ [NetNext]_netVars => NetTypeOK' /\ NetInv'
  BY NetNextTyped, NetNextKeeps
<1> QED
  BY <1>1, NetInitHolds, PTL DEF NetSpec

\* A script that ends with status 0 has brought up every connection it sets up, in this
\* very run (_build_nmcli), whatever request it was made from, however often it was cut
\* and run again, and after the request was corrected.
THEOREM ZeroMeansUp == NetSpec => []ExitZeroMeansUp
<1>1. NetTypeOK /\ NetInv /\ [NetNext]_netVars => NetTypeOK' /\ NetInv'
  BY NetNextTyped, NetNextKeeps
<1>2. NetInv => ExitZeroMeansUp
  BY DEF NetInv, ExitZeroMeansUp
<1> QED
  BY <1>1, <1>2, NetInitHolds, PTL DEF NetSpec

\* The check of references (_check_reference_closure) refuses exactly what
\* netplan does not load or what forms a ring, and a primary that is no port: whatever
\* devices there are, in whatever order the walk takes them.
THEOREM CheckIsExact == NetSpec => []LoadsOrRefused
<1>1. NetTypeOK /\ NetInv /\ [NetNext]_netVars => NetTypeOK' /\ NetInv'
  BY NetNextTyped, NetNextKeeps
<1>2. NetInv => LoadsOrRefused
  BY ReferencesExact DEF NetInv, LoadsOrRefused
<1> QED
  BY <1>1, <1>2, NetInitHolds, PTL DEF NetSpec

-----------------------------------------------------------------------------
(* The devices of a request, in their order *)

\* Two lists are one after the other in w.
Two(w, s, t) ==
  /\ Len(w) = Len(s) + Len(t) /\ DOMAIN w = 1..Len(w)
  /\ \A i \in DOMAIN s : i \in DOMAIN w /\ w[i] = s[i]
  /\ \A i \in DOMAIN t : Len(s) + i \in DOMAIN w /\ w[Len(s) + i] = t[i]
  /\ \A k \in DOMAIN w : k \in DOMAIN s \/ \E i \in DOMAIN t : k = Len(s) + i

LEMMA TwoTogether ==
  ASSUME NEW X, NEW s \in Seq(X), NEW t \in Seq(X)
  PROVE  s \o t \in Seq(X) /\ Two(s \o t, s, t)
<1> PICK w : w = s \o t
  OBVIOUS
<1>1. /\ w \in Seq(X) /\ Len(w) = Len(s) + Len(t) /\ Len(s) \in Nat /\ Len(t) \in Nat
      /\ DOMAIN w = 1..Len(w) /\ DOMAIN s = 1..Len(s) /\ DOMAIN t = 1..Len(t)
  OBVIOUS
<1>2. \A i \in DOMAIN s : w[i] = s[i]
  OBVIOUS
<1>3. \A i \in DOMAIN t : w[Len(s) + i] = t[i]
  OBVIOUS
<1>4. ASSUME NEW k \in DOMAIN w, k \notin DOMAIN s PROVE \E i \in DOMAIN t : k = Len(s) + i
  <2>1. k - Len(s) \in DOMAIN t /\ k = Len(s) + (k - Len(s))
    BY <1>1, <1>4
  <2> QED
    BY <2>1
<1>5. /\ \A i \in DOMAIN s : i \in DOMAIN w
      /\ \A i \in DOMAIN t : Len(s) + i \in DOMAIN w
  BY <1>1
<1>6. w \in Seq(X) /\ Two(w, s, t)
  BY <1>1, <1>2, <1>3, <1>4, <1>5, Zenon DEF Two
<1> QED
  BY <1>6

\* Four lists are one after the other in w.
Four(w, s, t, u, v) ==
  /\ Len(w) = Len(s) + Len(t) + Len(u) + Len(v) /\ DOMAIN w = 1..Len(w)
  /\ \A i \in DOMAIN s : i \in DOMAIN w /\ w[i] = s[i]
  /\ \A i \in DOMAIN t : Len(s) + i \in DOMAIN w /\ w[Len(s) + i] = t[i]
  /\ \A i \in DOMAIN u : Len(s) + Len(t) + i \in DOMAIN w /\ w[Len(s) + Len(t) + i] = u[i]
  /\ \A i \in DOMAIN v :
       /\ Len(s) + Len(t) + Len(u) + i \in DOMAIN w
       /\ w[Len(s) + Len(t) + Len(u) + i] = v[i]
  /\ \A k \in DOMAIN w :
       \/ k \in DOMAIN s
       \/ \E i \in DOMAIN t : k = Len(s) + i
       \/ \E i \in DOMAIN u : k = Len(s) + Len(t) + i
       \/ \E i \in DOMAIN v : k = Len(s) + Len(t) + Len(u) + i

LEMMA TwiceTwo ==
  ASSUME NEW s, NEW t, NEW u, NEW v, NEW a, NEW b, NEW w, Two(a, s, t), Two(b, a, u), Two(w, b, v),
         Len(s) \in Nat, Len(t) \in Nat, Len(u) \in Nat, Len(v) \in Nat
  PROVE  Four(w, s, t, u, v)
<1>4. Len(a) = Len(s) + Len(t) /\ Len(b) = Len(s) + Len(t) + Len(u)
      /\ Len(w) = Len(s) + Len(t) + Len(u) + Len(v)
  BY DEF Two
<1>5. ASSUME NEW i \in DOMAIN s PROVE i \in DOMAIN w /\ w[i] = s[i]
  BY DEF Two
<1>6. ASSUME NEW i \in DOMAIN t PROVE Len(s) + i \in DOMAIN w /\ w[Len(s) + i] = t[i]
  BY DEF Two
<1>7. ASSUME NEW i \in DOMAIN u PROVE Len(a) + i \in DOMAIN w /\ w[Len(a) + i] = u[i]
  BY DEF Two
<1>8. ASSUME NEW i \in DOMAIN v PROVE Len(b) + i \in DOMAIN w /\ w[Len(b) + i] = v[i]
  BY DEF Two
<1>9. ASSUME NEW k \in DOMAIN w
      PROVE  \/ k \in DOMAIN s
             \/ \E i \in DOMAIN t : k = Len(s) + i
             \/ \E i \in DOMAIN u : k = Len(a) + i
             \/ \E i \in DOMAIN v : k = Len(b) + i
  <2>1. k \in DOMAIN b \/ \E i \in DOMAIN v : k = Len(b) + i
    BY Zenon DEF Two
  <2>2. k \in DOMAIN b => k \in DOMAIN a \/ \E i \in DOMAIN u : k = Len(a) + i
    BY Zenon DEF Two
  <2>3. k \in DOMAIN a => k \in DOMAIN s \/ \E i \in DOMAIN t : k = Len(s) + i
    BY Zenon DEF Two
  <2> QED
    BY <2>1, <2>2, <2>3, Zenon
<1>10. DOMAIN w = 1..Len(w)
  BY DEF Two
<1>11. Len(a) = Len(s) + Len(t)
  BY <1>4
<1>12. Len(b) = Len(s) + Len(t) + Len(u)
  BY <1>4
<1>13. Len(w) = Len(s) + Len(t) + Len(u) + Len(v)
  BY <1>4
<1>14. \A i \in DOMAIN u : Len(s) + Len(t) + i \in DOMAIN w /\ w[Len(s) + Len(t) + i] = u[i]
  BY <1>7, <1>11
<1>15. \A i \in DOMAIN v :
         /\ Len(s) + Len(t) + Len(u) + i \in DOMAIN w
         /\ w[Len(s) + Len(t) + Len(u) + i] = v[i]
  BY <1>8, <1>12
<1>16. \A k \in DOMAIN w :
         \/ k \in DOMAIN s
         \/ \E i \in DOMAIN t : k = Len(s) + i
         \/ \E i \in DOMAIN u : k = Len(s) + Len(t) + i
         \/ \E i \in DOMAIN v : k = Len(s) + Len(t) + Len(u) + i
  BY <1>9, <1>11, <1>12
<1> QED
  BY <1>5, <1>6, <1>10, <1>13, <1>14, <1>15, <1>16, Zenon DEF Four

LEMMA FourTogether ==
  ASSUME NEW X, NEW s \in Seq(X), NEW t \in Seq(X), NEW u \in Seq(X), NEW v \in Seq(X)
  PROVE  s \o t \o u \o v \in Seq(X) /\ Four(s \o t \o u \o v, s, t, u, v)
<1>1. s \o t \in Seq(X) /\ Two(s \o t, s, t)
  BY TwoTogether
<1>2. s \o t \o u \in Seq(X) /\ Two(s \o t \o u, s \o t, u)
  BY <1>1, TwoTogether
<1>3. s \o t \o u \o v \in Seq(X) /\ Two(s \o t \o u \o v, s \o t \o u, v)
  BY <1>2, TwoTogether
<1>4. Len(s) \in Nat /\ Len(t) \in Nat /\ Len(u) \in Nat /\ Len(v) \in Nat
  OBVIOUS
<1> QED
  BY <1>1, <1>2, <1>3, <1>4, TwiceTwo

\* The places of bonds, VLANs and bridges.
BondAt(q, i) == Len(q.interfaces) + i
VlanAt(q, i) == Len(q.interfaces) + Len(q.bonds) + i
BridgeAt(q, i) == Len(q.interfaces) + Len(q.bonds) + Len(q.vlans) + i

NameAt(q, i) == Ordered(q)[i].name
L3At(q, i) == Ordered(q)[i].l3

\* The lists of a request.
LEMMA RequestIs ==
  ASSUME NEW q \in Request
  PROVE  /\ DOMAIN q.interfaces = 1..Len(q.interfaces) /\ Len(q.interfaces) \in Nat
         /\ DOMAIN q.bonds = 1..Len(q.bonds) /\ Len(q.bonds) \in Nat
         /\ DOMAIN q.vlans = 1..Len(q.vlans) /\ Len(q.vlans) \in Nat
         /\ DOMAIN q.bridges = 1..Len(q.bridges) /\ Len(q.bridges) \in Nat
         /\ \A i \in DOMAIN q.interfaces : q.interfaces[i] \in Interface
         /\ \A i \in DOMAIN q.bonds : q.bonds[i] \in Bond
         /\ \A i \in DOMAIN q.vlans : q.vlans[i] \in Vlan
         /\ \A i \in DOMAIN q.bridges : q.bridges[i] \in Bridge
<1>1. /\ q.interfaces \in Seq(Interface) /\ q.bonds \in Seq(Bond) /\ q.vlans \in Seq(Vlan)
      /\ q.bridges \in Seq(Bridge)
  BY DEF Request
<1>2. \A X : \A s \in Seq(X) : DOMAIN s = 1..Len(s) /\ Len(s) \in Nat /\ \A i \in DOMAIN s : s[i] \in X
  OBVIOUS
<1> QED
  BY <1>1, <1>2, Zenon

\* A function on the first numbers is a list of its values.
LEMMA ListOf ==
  ASSUME NEW n \in Nat, NEW s, s = [i \in 1..n |-> s[i]], NEW X, \A i \in 1..n : s[i] \in X
  PROVE  s \in Seq(X) /\ Len(s) = n /\ DOMAIN s = 1..n
<1>1. s \in [1..n -> X]
  OBVIOUS
<1> QED
  BY <1>1

Listed(s, n) == n \in Nat /\ s = [i \in 1..n |-> s[i]]

LEMMA FourLists ==
  ASSUME NEW s, NEW t, NEW u, NEW v, NEW a, NEW b, NEW c, NEW d,
         Listed(s, a), Listed(t, b), Listed(u, c), Listed(v, d)
  PROVE  \E X : s \in Seq(X) /\ t \in Seq(X) /\ u \in Seq(X) /\ v \in Seq(X)
<1> DEFINE X == {s[i] : i \in 1..a} \cup {t[i] : i \in 1..b}
                  \cup {u[i] : i \in 1..c} \cup {v[i] : i \in 1..d}
<1>1. /\ \A i \in 1..a : s[i] \in X
      /\ \A i \in 1..b : t[i] \in X
      /\ \A i \in 1..c : u[i] \in X
      /\ \A i \in 1..d : v[i] \in X
  OBVIOUS
<1> HIDE DEF X
<1>2. s \in Seq(X) /\ t \in Seq(X) /\ u \in Seq(X) /\ v \in Seq(X)
  BY <1>1, ListOf DEF Listed
<1> QED
  BY <1>2

LEMMA Sections ==
  ASSUME NEW q \in Request
  PROVE  /\ Ordered(q) \in Seq({Ordered(q)[i] : i \in DOMAIN Ordered(q)})
         /\ DOMAIN Ordered(q) = 1..Len(Ordered(q)) /\ Len(Ordered(q)) \in Nat
         /\ \A i \in DOMAIN q.interfaces :
              /\ i \in DOMAIN Ordered(q) /\ NameAt(q, i) = q.interfaces[i].name
              /\ L3At(q, i) = q.interfaces[i].l3
         /\ \A i \in DOMAIN q.bonds :
              /\ BondAt(q, i) \in DOMAIN Ordered(q) /\ NameAt(q, BondAt(q, i)) = q.bonds[i].name
              /\ L3At(q, BondAt(q, i)) = q.bonds[i].l3
         /\ \A i \in DOMAIN q.vlans :
              /\ VlanAt(q, i) \in DOMAIN Ordered(q)
              /\ NameAt(q, VlanAt(q, i)) = VlanName(q.vlans[i])
              /\ L3At(q, VlanAt(q, i)) = q.vlans[i].l3
         /\ \A i \in DOMAIN q.bridges :
              /\ BridgeAt(q, i) \in DOMAIN Ordered(q)
              /\ NameAt(q, BridgeAt(q, i)) = q.bridges[i].name
              /\ L3At(q, BridgeAt(q, i)) = q.bridges[i].l3
         /\ \A k \in DOMAIN Ordered(q) :
              \/ k \in DOMAIN q.interfaces
              \/ \E i \in DOMAIN q.bonds : k = BondAt(q, i)
              \/ \E i \in DOMAIN q.vlans : k = VlanAt(q, i)
              \/ \E i \in DOMAIN q.bridges : k = BridgeAt(q, i)
<1> DEFINE named(devices) ==
             [i \in DOMAIN devices |-> [name |-> devices[i].name, l3 |-> devices[i].l3]]
<1> PICK s : s = named(q.interfaces)
  OBVIOUS
<1> PICK t : t = named(q.bonds)
  OBVIOUS
<1> PICK u : u = Vlans(q)
  OBVIOUS
<1> PICK v : v = named(q.bridges)
  OBVIOUS
<1>1. Ordered(q) = s \o t \o u \o v
  BY DEF Ordered
<1>2. /\ \A i \in DOMAIN q.interfaces :
           s[i].name = q.interfaces[i].name /\ s[i].l3 = q.interfaces[i].l3
      /\ \A i \in DOMAIN q.bonds : t[i].name = q.bonds[i].name /\ t[i].l3 = q.bonds[i].l3
      /\ \A i \in DOMAIN q.vlans : u[i].name = VlanName(q.vlans[i]) /\ u[i].l3 = q.vlans[i].l3
      /\ \A i \in DOMAIN q.bridges : v[i].name = q.bridges[i].name /\ v[i].l3 = q.bridges[i].l3
  BY DEF Vlans
<1>3. /\ Listed(s, Len(q.interfaces)) /\ Listed(t, Len(q.bonds))
      /\ Listed(u, Len(q.vlans)) /\ Listed(v, Len(q.bridges))
  BY RequestIs DEF Vlans, Listed
<1> HIDE DEF named
<1>4. PICK X : s \in Seq(X) /\ t \in Seq(X) /\ u \in Seq(X) /\ v \in Seq(X)
  BY <1>3, FourLists
<1>5. /\ Len(s) = Len(q.interfaces) /\ DOMAIN s = DOMAIN q.interfaces
      /\ Len(t) = Len(q.bonds) /\ DOMAIN t = DOMAIN q.bonds
      /\ Len(u) = Len(q.vlans) /\ DOMAIN u = DOMAIN q.vlans
      /\ Len(v) = Len(q.bridges) /\ DOMAIN v = DOMAIN q.bridges
  <2>1. \A n : \A r \in Seq(X) : Listed(r, n) => Len(r) = n /\ DOMAIN r = 1..n
    BY DEF Listed
  <2> QED
    BY <1>3, <1>4, <2>1, RequestIs, Zenon
<1> PICK w : w = Ordered(q)
  OBVIOUS
<1>6. w \in Seq(X) /\ Four(w, s, t, u, v)
  BY <1>1, <1>4, FourTogether
<1>8. Len(w) \in Nat /\ DOMAIN w = 1..Len(w) /\ w \in Seq({w[i] : i \in DOMAIN w})
  BY <1>6
<1>14. \A i \in DOMAIN s : i \in DOMAIN w /\ w[i] = s[i]
  BY <1>6, Zenon DEF Four
<1>15. \A i \in DOMAIN t : Len(s) + i \in DOMAIN w /\ w[Len(s) + i] = t[i]
  BY <1>6, Zenon DEF Four
<1>16. \A i \in DOMAIN u : Len(s) + Len(t) + i \in DOMAIN w /\ w[Len(s) + Len(t) + i] = u[i]
  BY <1>6, Zenon DEF Four
<1>17. \A i \in DOMAIN v :
         /\ Len(s) + Len(t) + Len(u) + i \in DOMAIN w
         /\ w[Len(s) + Len(t) + Len(u) + i] = v[i]
  BY <1>6, Zenon DEF Four
<1>18. \A k \in DOMAIN w :
         \/ k \in DOMAIN s
         \/ \E i \in DOMAIN t : k = Len(s) + i
         \/ \E i \in DOMAIN u : k = Len(s) + Len(t) + i
         \/ \E i \in DOMAIN v : k = Len(s) + Len(t) + Len(u) + i
  BY <1>6, Zenon DEF Four
<1>9. ASSUME NEW i \in DOMAIN q.interfaces
      PROVE  /\ i \in DOMAIN Ordered(q) /\ NameAt(q, i) = q.interfaces[i].name
             /\ L3At(q, i) = q.interfaces[i].l3
  BY <1>2, <1>5, <1>14 DEF NameAt, L3At
<1>10. ASSUME NEW i \in DOMAIN q.bonds
       PROVE  /\ BondAt(q, i) \in DOMAIN Ordered(q) /\ NameAt(q, BondAt(q, i)) = q.bonds[i].name
              /\ L3At(q, BondAt(q, i)) = q.bonds[i].l3
  <2>1. BondAt(q, i) = Len(s) + i
    BY <1>5 DEF BondAt
  <2>2. BondAt(q, i) \in DOMAIN w /\ w[BondAt(q, i)] = t[i]
    BY <1>5, <1>15, <2>1
  <2> QED
    BY <1>2, <2>2 DEF NameAt, L3At
<1>11. ASSUME NEW i \in DOMAIN q.vlans
       PROVE  /\ VlanAt(q, i) \in DOMAIN Ordered(q) /\ NameAt(q, VlanAt(q, i)) = VlanName(q.vlans[i])
              /\ L3At(q, VlanAt(q, i)) = q.vlans[i].l3
  <2>1. VlanAt(q, i) = Len(s) + Len(t) + i
    BY <1>5 DEF VlanAt
  <2>2. VlanAt(q, i) \in DOMAIN w /\ w[VlanAt(q, i)] = u[i]
    BY <1>5, <1>16, <2>1
  <2> QED
    BY <1>2, <2>2 DEF NameAt, L3At
<1>12. ASSUME NEW i \in DOMAIN q.bridges
       PROVE  /\ BridgeAt(q, i) \in DOMAIN Ordered(q) /\ NameAt(q, BridgeAt(q, i)) = q.bridges[i].name
              /\ L3At(q, BridgeAt(q, i)) = q.bridges[i].l3
  <2>1. BridgeAt(q, i) = Len(s) + Len(t) + Len(u) + i
    BY <1>5 DEF BridgeAt
  <2>2. BridgeAt(q, i) \in DOMAIN w /\ w[BridgeAt(q, i)] = v[i]
    BY <1>5, <1>17, <2>1
  <2> QED
    BY <1>2, <2>2 DEF NameAt, L3At
<1>13. ASSUME NEW k \in DOMAIN Ordered(q)
       PROVE  \/ k \in DOMAIN q.interfaces
              \/ \E i \in DOMAIN q.bonds : k = BondAt(q, i)
              \/ \E i \in DOMAIN q.vlans : k = VlanAt(q, i)
              \/ \E i \in DOMAIN q.bridges : k = BridgeAt(q, i)
  <2>1. \/ k \in DOMAIN s
        \/ \E i \in DOMAIN t : k = Len(s) + i
        \/ \E i \in DOMAIN u : k = Len(s) + Len(t) + i
        \/ \E i \in DOMAIN v : k = Len(s) + Len(t) + Len(u) + i
    BY <1>18
  <2> QED
    BY <1>5, <2>1 DEF BondAt, VlanAt, BridgeAt
<1> QED
  BY <1>8, <1>9, <1>10, <1>11, <1>12, <1>13, ZenonT(30)

\* The names of accepted requests tell its devices apart.
LEMMA DevicesApart ==
  ASSUME NEW q \in Request, NamesOnce(q), NEW i \in DOMAIN Ordered(q), NEW k \in DOMAIN Ordered(q),
         NameAt(q, i) = NameAt(q, k)
  PROVE  i = k
<1> PICK s : s = NamesOf(q.interfaces)
  OBVIOUS
<1> PICK t : t = NamesOf(q.bonds)
  OBVIOUS
<1> PICK u : u = NamesOf(Vlans(q))
  OBVIOUS
<1> PICK v : v = NamesOf(q.bridges)
  OBVIOUS
<1>1. /\ Listed(s, Len(q.interfaces)) /\ Listed(t, Len(q.bonds))
      /\ Listed(u, Len(q.vlans)) /\ Listed(v, Len(q.bridges))
  BY RequestIs DEF Vlans, NamesOf, Listed
<1>2. PICK X : s \in Seq(X) /\ t \in Seq(X) /\ u \in Seq(X) /\ v \in Seq(X)
  BY <1>1, FourLists
<1>3. /\ Len(s) = Len(q.interfaces) /\ DOMAIN s = DOMAIN q.interfaces
      /\ Len(t) = Len(q.bonds) /\ DOMAIN t = DOMAIN q.bonds
      /\ Len(u) = Len(q.vlans) /\ DOMAIN u = DOMAIN q.vlans
      /\ Len(v) = Len(q.bridges) /\ DOMAIN v = DOMAIN q.bridges
  <2>1. \A n : \A r \in Seq(X) : Listed(r, n) => Len(r) = n /\ DOMAIN r = 1..n
    BY DEF Listed
  <2> QED
    BY <1>1, <1>2, <2>1, RequestIs, Zenon
<1>4. /\ \A j \in DOMAIN q.interfaces : s[j] = q.interfaces[j].name
      /\ \A j \in DOMAIN q.bonds : t[j] = q.bonds[j].name
      /\ \A j \in DOMAIN q.vlans : u[j] = VlanName(q.vlans[j])
      /\ \A j \in DOMAIN q.bridges : v[j] = q.bridges[j].name
  BY DEF NamesOf, Vlans
<1>5. IsInjective(s \o t \o v \o u)
  BY DEF NamesOnce, Declared
<1>6. Four(s \o t \o v \o u, s, t, v, u)
  BY <1>2, FourTogether
<1>20. PICK w : w = s \o t \o v \o u
  OBVIOUS
<1>21. PICK a : a = Len(s)
  OBVIOUS
<1>22. PICK b : b = Len(t)
  OBVIOUS
<1>23. PICK c : c = Len(u)
  OBVIOUS
<1>24. PICK d : d = Len(v)
  OBVIOUS
<1>7. /\ a \in Nat /\ b \in Nat /\ c \in Nat /\ d \in Nat
      /\ DOMAIN q.interfaces = 1..a /\ DOMAIN q.bonds = 1..b
      /\ DOMAIN q.vlans = 1..c /\ DOMAIN q.bridges = 1..d
      /\ Len(q.interfaces) = a /\ Len(q.bonds) = b /\ Len(q.vlans) = c
  BY <1>2, <1>3, <1>21, <1>22, <1>23, <1>24, RequestIs
<1> DEFINE J(p) == IF p <= a + b THEN p ELSE IF p <= a + b + c THEN p + d ELSE p - c
<1>8. ASSUME NEW p \in DOMAIN Ordered(q)
      PROVE  p \in Nat /\ p <= a + b + c + d /\ J(p) \in DOMAIN w /\ w[J(p)] = NameAt(q, p)
  <2>1. CASE p \in DOMAIN q.interfaces
    <3>1. p \in DOMAIN w /\ w[p] = s[p]
      BY <1>3, <1>6, <1>20, <2>1, Zenon DEF Four
    <3>2. J(p) = p /\ p \in Nat /\ p <= a + b + c + d
      BY <1>7, <2>1
    <3> QED
      BY <1>4, <2>1, <3>1, <3>2, Sections
  <2>2. ASSUME NEW n \in DOMAIN q.bonds, p = BondAt(q, n)
        PROVE  p \in Nat /\ p <= a + b + c + d /\ J(p) \in DOMAIN w /\ w[J(p)] = NameAt(q, p)
    <3>1. Len(s) + n \in DOMAIN w /\ w[Len(s) + n] = t[n]
      BY <1>3, <1>6, <1>20, <2>2, Zenon DEF Four
    <3>3. p = a + n /\ n \in 1..b
      BY <1>7, <2>2 DEF BondAt
    <3>2. J(p) = a + n /\ p \in Nat /\ p <= a + b + c + d
      BY <1>7, <3>3
    <3>4. J(p) = Len(s) + n
      BY <1>21, <1>22, <1>23, <1>24, <3>2
    <3>5. NameAt(q, p) = q.bonds[n].name
      BY <2>2, Sections
    <3> HIDE DEF J
    <3> QED
      BY <1>4, <3>1, <3>2, <3>4, <3>5
  <2>3. ASSUME NEW n \in DOMAIN q.vlans, p = VlanAt(q, n)
        PROVE  p \in Nat /\ p <= a + b + c + d /\ J(p) \in DOMAIN w /\ w[J(p)] = NameAt(q, p)
    <3>1. Len(s) + Len(t) + Len(v) + n \in DOMAIN w /\ w[Len(s) + Len(t) + Len(v) + n] = u[n]
      BY <1>3, <1>6, <1>20, <2>3, Zenon DEF Four
    <3>3. p = a + b + n /\ n \in 1..c
      BY <1>7, <2>3 DEF VlanAt
    <3>2. J(p) = a + b + d + n /\ p \in Nat /\ p <= a + b + c + d
      BY <1>7, <3>3
    <3>4. J(p) = Len(s) + Len(t) + Len(v) + n
      BY <1>21, <1>22, <1>23, <1>24, <3>2
    <3>5. NameAt(q, p) = VlanName(q.vlans[n])
      BY <2>3, Sections
    <3> HIDE DEF J
    <3> QED
      BY <1>4, <3>1, <3>2, <3>4, <3>5
  <2>4. ASSUME NEW n \in DOMAIN q.bridges, p = BridgeAt(q, n)
        PROVE  p \in Nat /\ p <= a + b + c + d /\ J(p) \in DOMAIN w /\ w[J(p)] = NameAt(q, p)
    <3>1. Len(s) + Len(t) + n \in DOMAIN w /\ w[Len(s) + Len(t) + n] = v[n]
      BY <1>3, <1>6, <1>20, <2>4, Zenon DEF Four
    <3>3. p = a + b + c + n /\ n \in 1..d
      BY <1>7, <2>4 DEF BridgeAt
    <3>2. J(p) = a + b + n /\ p \in Nat /\ p <= a + b + c + d
      BY <1>7, <3>3
    <3>4. J(p) = Len(s) + Len(t) + n
      BY <1>21, <1>22, <1>23, <1>24, <3>2
    <3>5. NameAt(q, p) = q.bridges[n].name
      BY <2>4, Sections
    <3> HIDE DEF J
    <3> QED
      BY <1>4, <3>1, <3>2, <3>4, <3>5
  <2>5. \/ p \in DOMAIN q.interfaces
        \/ \E n \in DOMAIN q.bonds : p = BondAt(q, n)
        \/ \E n \in DOMAIN q.vlans : p = VlanAt(q, n)
        \/ \E n \in DOMAIN q.bridges : p = BridgeAt(q, n)
    BY Sections, Zenon
  <2> HIDE DEF J
  <2> QED
    BY <2>1, <2>2, <2>3, <2>4, <2>5, Zenon
<1> HIDE DEF J
<1>12. IsInjective(w)
  BY <1>5, <1>20
<1>13. J(i) \in DOMAIN w /\ J(k) \in DOMAIN w /\ w[J(i)] = w[J(k)]
  BY <1>8
<1>9. J(i) = J(k)
  BY <1>12, <1>13, Zenon DEF IsInjective
<1>10. i \in 1..a + b + c + d /\ k \in 1..a + b + c + d
  <2>1. i \in 1..Len(Ordered(q)) /\ k \in 1..Len(Ordered(q)) /\ Len(Ordered(q)) \in Nat
    BY Sections, Zenon
  <2> QED
    BY <1>7, <1>8, <2>1
<1>11. ASSUME NEW x \in 1..a + b + c + d, NEW y \in 1..a + b + c + d, J(x) = J(y) PROVE x = y
  <2>1. /\ a \in Int /\ b \in Int /\ c \in Int /\ d \in Int /\ x \in Int /\ y \in Int
        /\ 0 <= a /\ 0 <= b /\ 0 <= c /\ 0 <= d /\ x <= a + b + c + d /\ y <= a + b + c + d
    BY <1>7
  <2>2. CASE x <= a + b
    BY <1>11, <2>1, <2>2 DEF J
  <2>3. CASE a + b < x /\ x <= a + b + c
    BY <1>11, <2>1, <2>3 DEF J
  <2>4. CASE a + b + c < x
    BY <1>11, <2>1, <2>4 DEF J
  <2> QED
    BY <2>1, <2>2, <2>3, <2>4
<1> QED
  BY <1>9, <1>10, <1>11

\* A device is found by its name.
LEMMA PlaceIs ==
  ASSUME NEW q \in Request, NamesOnce(q), NEW i \in DOMAIN Ordered(q)
  PROVE  Place(q, NameAt(q, i)) = i
<1> DEFINE I == {j \in 1..Len(Ordered(q)) : Ordered(q)[j].name = NameAt(q, i)}
<1>1. DOMAIN Ordered(q) = 1..Len(Ordered(q)) /\ Len(Ordered(q)) \in Nat
  BY Sections, Zenon
<1>2. i \in I /\ \A j \in I : j = i
  BY <1>1, DevicesApart DEF NameAt
<1>3. Place(q, NameAt(q, i)) = Min(I)
  BY <1>2 DEF Place, SelectInSeq
<1>4. I \in SUBSET Nat /\ I # {}
  BY <1>1, <1>2
<1> HIDE DEF I
<1>5. Min(I) \in I
  BY <1>4, LeastIsMin
<1> QED
  BY <1>2, <1>3, <1>5

\* What the check says of a device that gets settings.
LEMMA OwnIs ==
  ASSUME NEW q \in Request
  PROVE  /\ \A i \in DOMAIN q.interfaces : i \in Own(q) <=> q.interfaces[i].name \notin Ports(q)
         /\ \A i \in DOMAIN q.bonds : BondAt(q, i) \in Own(q)
         /\ \A i \in DOMAIN q.vlans : VlanAt(q, i) \in Own(q)
         /\ \A i \in DOMAIN q.bridges : BridgeAt(q, i) \in Own(q)
         /\ \A i \in DOMAIN q.bonds : BondAt(q, i) \notin DOMAIN q.interfaces
         /\ \A i \in DOMAIN q.vlans : VlanAt(q, i) \notin DOMAIN q.interfaces
         /\ \A i \in DOMAIN q.bridges : BridgeAt(q, i) \notin DOMAIN q.interfaces
<1>1. \A i \in DOMAIN q.interfaces :
        i \in DOMAIN Ordered(q) /\ NameAt(q, i) = q.interfaces[i].name
  BY Sections, Zenon
<1>2. \A i \in DOMAIN q.interfaces : i \in Own(q) <=> q.interfaces[i].name \notin Ports(q)
  BY <1>1 DEF Own, NameAt
<1>3. /\ \A i \in DOMAIN q.bonds : BondAt(q, i) \notin DOMAIN q.interfaces
      /\ \A i \in DOMAIN q.vlans : VlanAt(q, i) \notin DOMAIN q.interfaces
      /\ \A i \in DOMAIN q.bridges : BridgeAt(q, i) \notin DOMAIN q.interfaces
  <2>1. /\ DOMAIN q.interfaces = 1..Len(q.interfaces) /\ Len(q.interfaces) \in Nat
        /\ Len(q.bonds) \in Nat /\ Len(q.vlans) \in Nat
    BY RequestIs
  <2>0. \A a, b, c, i \in Nat :
          i > 0 => a + b + i \in Nat /\ a + b + i > a /\ a + b + c + i \in Nat /\ a + b + c + i > a
    OBVIOUS
  <2>2. /\ \A i \in DOMAIN q.bonds : i \in Nat \ {0}
        /\ \A i \in DOMAIN q.vlans : i \in Nat \ {0}
        /\ \A i \in DOMAIN q.bridges : i \in Nat \ {0}
    BY RequestIs
  <2>3. ASSUME NEW i \in DOMAIN q.bonds PROVE BondAt(q, i) \notin DOMAIN q.interfaces
    <3>1. i \in Nat /\ i > 0
      BY <2>2
    <3>2. BondAt(q, i) \in Nat /\ BondAt(q, i) > Len(q.interfaces)
      BY <2>1, <3>1 DEF BondAt
    <3> QED
      BY <2>1, <3>2
  <2>4. ASSUME NEW i \in DOMAIN q.vlans PROVE VlanAt(q, i) \notin DOMAIN q.interfaces
    <3>1. i \in Nat /\ i > 0
      BY <2>2
    <3>2. VlanAt(q, i) \in Nat /\ VlanAt(q, i) > Len(q.interfaces)
      BY <2>1, <2>0, <3>1 DEF VlanAt
    <3> QED
      BY <2>1, <3>2
  <2>5. ASSUME NEW i \in DOMAIN q.bridges PROVE BridgeAt(q, i) \notin DOMAIN q.interfaces
    <3>1. i \in Nat /\ i > 0
      BY <2>2
    <3>2. BridgeAt(q, i) \in Nat /\ BridgeAt(q, i) > Len(q.interfaces)
      BY <2>1, <2>0, <3>1 DEF BridgeAt
    <3> QED
      BY <2>1, <3>2
  <2> QED
    BY <2>3, <2>4, <2>5
<1>4. /\ \A i \in DOMAIN q.bonds : BondAt(q, i) \in DOMAIN Ordered(q)
      /\ \A i \in DOMAIN q.vlans : VlanAt(q, i) \in DOMAIN Ordered(q)
      /\ \A i \in DOMAIN q.bridges : BridgeAt(q, i) \in DOMAIN Ordered(q)
  BY Sections, Zenon
<1> QED
  BY <1>2, <1>3, <1>4, Zenon DEF Own

LEMMA CheckedAt ==
  ASSUME NEW q \in Request, Accepts(q), NEW k \in Own(q)
  PROVE  L3At(q, k) \in Settings /\ CheckL3(L3At(q, k), TRUE)
<1>1. /\ \A i \in DOMAIN q.interfaces : q.interfaces[i].l3 \in Settings
      /\ \A i \in DOMAIN q.bonds : q.bonds[i].l3 \in Settings
      /\ \A i \in DOMAIN q.vlans : q.vlans[i].l3 \in Settings
      /\ \A i \in DOMAIN q.bridges : q.bridges[i].l3 \in Settings
  BY RequestIs DEF Interface, Bond, Vlan, Bridge
<1>2. /\ \A i \in DOMAIN q.interfaces :
           CheckL3(q.interfaces[i].l3, q.interfaces[i].name \notin Ports(q))
      /\ \A i \in DOMAIN q.bonds : CheckL3(q.bonds[i].l3, TRUE)
      /\ \A i \in DOMAIN q.vlans : CheckL3(q.vlans[i].l3, TRUE)
      /\ \A i \in DOMAIN q.bridges : CheckL3(q.bridges[i].l3, TRUE)
  BY Zenon DEF Accepts
<1>3. k \in DOMAIN Ordered(q) /\ (k \in DOMAIN q.interfaces => NameAt(q, k) \notin Ports(q))
  BY DEF Own, NameAt
<1>4. CASE k \in DOMAIN q.interfaces
  <2>1. L3At(q, k) = q.interfaces[k].l3 /\ NameAt(q, k) = q.interfaces[k].name
    BY <1>4, Sections, Zenon
  <2>2. (q.interfaces[k].name \notin Ports(q)) = TRUE
    BY <1>3, <1>4, <2>1
  <2> QED
    BY <1>1, <1>2, <1>4, <2>1, <2>2
<1>5. CASE \E i \in DOMAIN q.bonds : k = BondAt(q, i)
  <2>1. PICK i \in DOMAIN q.bonds : k = BondAt(q, i)
    BY <1>5
  <2>2. L3At(q, k) = q.bonds[i].l3
    BY <2>1, Sections, Zenon
  <2> QED
    BY <1>1, <1>2, <2>2
<1>6. CASE \E i \in DOMAIN q.vlans : k = VlanAt(q, i)
  <2>1. PICK i \in DOMAIN q.vlans : k = VlanAt(q, i)
    BY <1>6
  <2>2. L3At(q, k) = q.vlans[i].l3
    BY <2>1, Sections, Zenon
  <2> QED
    BY <1>1, <1>2, <2>2
<1>7. CASE \E i \in DOMAIN q.bridges : k = BridgeAt(q, i)
  <2>1. PICK i \in DOMAIN q.bridges : k = BridgeAt(q, i)
    BY <1>7
  <2>2. L3At(q, k) = q.bridges[i].l3
    BY <2>1, Sections, Zenon
  <2> QED
    BY <1>1, <1>2, <2>2
<1>8. \/ k \in DOMAIN q.interfaces
      \/ \E i \in DOMAIN q.bonds : k = BondAt(q, i)
      \/ \E i \in DOMAIN q.vlans : k = VlanAt(q, i)
      \/ \E i \in DOMAIN q.bridges : k = BridgeAt(q, i)
  BY <1>3, Sections, Zenon
<1> QED
  BY <1>4, <1>5, <1>6, <1>7, <1>8

\* The later of two devices with default routes has the larger metric.
LEMMA MetricsRise ==
  ASSUME NEW q \in Request, NamesOnce(q), NEW i \in Routed(q), NEW k \in Routed(q), i < k
  PROVE  /\ Metric(q, NameAt(q, i)) # NoValue /\ Metric(q, NameAt(q, k)) # NoValue
         /\ Metric(q, NameAt(q, i)) < Metric(q, NameAt(q, k))
<1> DEFINE Upto(n) == {j \in Routed(q) : j <= n}
<1>1. DOMAIN Ordered(q) = 1..Len(Ordered(q)) /\ Len(Ordered(q)) \in Nat
  BY Sections, Zenon
<1>2. Routed(q) \in SUBSET (1..Len(Ordered(q)))
  BY <1>1 DEF Routed, Own
<1>3. IsFiniteSet(Routed(q))
  <2>1. IsFiniteSet(1..Len(Ordered(q)))
    BY <1>1, FS_Interval
  <2> QED
    BY <1>2, <2>1, FS_Subset
<1>4. Upto(k) \in SUBSET Routed(q) /\ Upto(i) \in SUBSET Upto(k)
  BY <1>2
<1>5. k \in Upto(k) /\ k \notin Upto(i)
  BY <1>2
<1> HIDE DEF Upto
<1>6. /\ IsFiniteSet(Upto(k)) /\ IsFiniteSet(Upto(i))
      /\ Cardinality(Upto(i)) <= Cardinality(Upto(k)) /\ Cardinality(Upto(i)) # Cardinality(Upto(k))
      /\ Cardinality(Upto(i)) \in Nat /\ Cardinality(Upto(k)) \in Nat
  <2>1. IsFiniteSet(Upto(k))
    BY <1>3, <1>4, FS_Subset
  <2>2. IsFiniteSet(Upto(i)) /\ Cardinality(Upto(i)) <= Cardinality(Upto(k))
        /\ (Cardinality(Upto(k)) = Cardinality(Upto(i)) => Upto(k) = Upto(i))
    BY <1>4, <2>1, FS_Subset
  <2>3. Upto(k) # Upto(i)
    BY <1>5
  <2> QED
    BY <2>1, <2>2, <2>3, FS_CardinalityType
<1>7. Cardinality(Routed(q)) > 1
  <2>1. Cardinality({i}) = 1 /\ {i} \in SUBSET Routed(q) /\ i # k
    <3>1. Cardinality({i}) = 1
      BY FS_Singleton
    <3>2. i \in Int /\ k \in Int
      BY <1>2
    <3> QED
      BY <3>1, <3>2
  <2>3. {i} # Routed(q)
    BY <2>1
  <2>2. Cardinality({i}) <= Cardinality(Routed(q)) /\ Cardinality(Routed(q)) # Cardinality({i})
    BY <1>3, <2>1, <2>3, FS_Subset
  <2> QED
    BY <1>3, <2>1, <2>2, FS_CardinalityType
<1>8. Place(q, NameAt(q, i)) = i /\ Place(q, NameAt(q, k)) = k
  BY PlaceIs DEF Routed, Own
<1>9. Metric(q, NameAt(q, i)) = 100 * Cardinality(Upto(i))
  BY <1>3, <1>7, <1>8, FS_CardinalityType DEF Metric, Upto
<1>10. Metric(q, NameAt(q, k)) = 100 * Cardinality(Upto(k))
  BY <1>3, <1>7, <1>8, FS_CardinalityType DEF Metric, Upto
<1> QED
  BY <1>6, <1>9, <1>10 DEF NoValue

-----------------------------------------------------------------------------
(* The facts of a device, one by one *)

\* What the check of a device says, as the facts below need it.
LEMMA CheckedIs ==
  ASSUME NEW o \in Settings, CheckL3(o, TRUE)
  PROVE  /\ o.mode = "dhcp" => ~o.ip
         /\ V6Addrs(o) # {} => o.mode6 = "static"
         /\ o.gateway6 => o.mode6 = "static" /\ o.ip6
         /\ o.cidr # 0 => Prefix(o) = CheckedPrefix(o)
         /\ o.ip /\ o.gateway # NoValue => CheckedPrefix(o) <= o.gateway
         /\ o.gateway6 => V6Addrs(o) # {}
<1>1. o.cidr \in Width /\ o.netmask \in Width /\ o.gateway \in Width
  BY DEF Settings
<1>2. o.mode = "dhcp" => ~o.ip
  BY Zenon DEF CheckL3, DhcpAlone
<1>3. /\ o.mode6 # "static" => ~o.ip6 /\ ~o.more6 /\ ~o.gateway6
      /\ o.gateway6 => o.ip6
  BY Zenon DEF CheckL3
<1>4. V6Addrs(o) # {} <=> o.ip6 \/ o.more6
  BY DEF V6Addrs, When
<1>5. o.netmask # NoValue /\ o.cidr # NoValue => o.netmask = o.cidr
  BY DEF CheckL3
<1>6. o.ip /\ o.gateway # NoValue => CheckedPrefix(o) <= o.gateway
  BY DEF CheckL3
<1>7. o.cidr # 0 => Prefix(o) = CheckedPrefix(o)
  BY <1>1, <1>5 DEF Prefix, CheckedPrefix, Width, NoValue
<1> QED
  BY <1>2, <1>3, <1>4, <1>6, <1>7, Zenon

\* The facts that a device is asked to have, one by one.
LEMMA AskedIs ==
  ASSUME NEW n, NEW o, NEW f
  PROVE  f \in AskedOf(n, o) <=>
           \/ o.ip /\ f = <<"method4", n, "manual">>
           \/ o.ip /\ f = <<"ip", n, CheckedPrefix(o)>>
           \/ o.mode = "dhcp" /\ f = <<"method4", n, "auto">>
           \/ o.ip /\ o.gateway # NoValue /\ f = <<"gateway", n, o.gateway>>
           \/ o.dns /\ (o.ip \/ o.mode = "dhcp") /\ f = <<"dns", n, 1>>
           \/ V6Addrs(o) # {} /\ f = <<"method6", n, "manual">>
           \/ V6Addrs(o) # {} /\ f = <<"addr6", n, V6Addrs(o)>>
           \/ o.gateway6 /\ f = <<"gateway6", n, 1>>
           \/ o.mode6 # "static" /\ f = <<"method6", n, o.mode6>>
           \/ f \in RoutesOf(n, o)
BY Zenon DEF AskedOf, When, RoutesOf

\* The facts of a netplan device, one by one.
LEMMA NetplanIs ==
  ASSUME NEW n, NEW o, NEW d, NEW m, NEW f
  PROVE  f \in NetplanAddrBlock(n, o, d, m) <=>
           \/ (o.mode = "dhcp" \/ (~o.ip /\ d)) /\ f = <<"method4", n, "auto">>
           \/ o.ip /\ f = <<"method4", n, "manual">>
           \/ o.ip /\ f = <<"ip", n, Prefix(o)>>
           \/ V6Addrs(o) # {} /\ f = <<"method6", n, "manual">>
           \/ V6Addrs(o) # {} /\ f = <<"addr6", n, V6Addrs(o)>>
           \/ o.mode6 # "static" /\ f = <<"method6", n, o.mode6>>
           \/ o.gateway # NoValue /\ f = <<"gateway", n, o.gateway>>
           \/ o.gateway # NoValue /\ m # NoValue /\ f = <<"metric", n, m>>
           \/ f \in RoutesOf(n, o)
           \/ o.gateway6 /\ f = <<"gateway6", n, 1>>
           \/ (o.mode = "dhcp" \/ (~o.ip /\ d) \/ o.ip) /\ o.dns /\ f = <<"dns", n, 1>>
BY Zenon DEF NetplanAddrBlock, NetplanAddresses, NetplanV6Mode, NetplanRoutes, Gateway, Dns, When

Ipv6Is(n, o, f) ==
  \/ o.mode6 # "static" /\ f = <<"method6", n, o.mode6>>
  \/ o.mode6 = "static" /\ V6Addrs(o) # {} /\ f = <<"method6", n, "manual">>
  \/ o.mode6 = "static" /\ V6Addrs(o) # {} /\ f = <<"addr6", n, V6Addrs(o)>>
  \/ o.mode6 = "static" /\ V6Addrs(o) # {} /\ o.gateway6 /\ f = <<"gateway6", n, 1>>

\* The facts of the IPv4 and IPv6 lines of a connection, one by one.
LEMMA LinesIs ==
  ASSUME NEW n, NEW o, NEW m, NEW f
  PROVE  f \in Ipv4Lines(n, o, m) <=>
           \/ ~o.ip /\ f = <<"method4", n, "auto">>
           \/ o.ip /\ f = <<"method4", n, "manual">>
           \/ o.ip /\ f = <<"ip", n, Prefix(o)>>
           \/ o.ip /\ o.gateway # NoValue /\ f = <<"gateway", n, o.gateway>>
           \/ o.ip /\ o.gateway # NoValue /\ m # NoValue /\ f = <<"metric", n, m>>
           \/ Ipv6Is(n, o, f)
           \/ o.dns /\ f = <<"dns", n, 1>>
           \/ f \in RoutesOf(n, o)
BY Zenon DEF Ipv4Lines, Ipv6Lines, Ipv6Is, Gateway, Dns, When

LEMMA FileIs ==
  ASSUME NEW n, NEW o, NEW m, NEW f
  PROVE  f \in IpLines(n, o, m) <=>
           \/ (o.mode = "dhcp" \/ ~o.ip) /\ f = <<"method4", n, "auto">>
           \/ o.mode # "dhcp" /\ o.ip /\ f = <<"method4", n, "manual">>
           \/ o.mode # "dhcp" /\ o.ip /\ f = <<"ip", n, Prefix(o)>>
           \/ o.mode # "dhcp" /\ o.ip /\ o.gateway # NoValue /\ f = <<"gateway", n, o.gateway>>
           \/ o.mode # "dhcp" /\ o.ip /\ o.gateway # NoValue /\ m # NoValue /\ f = <<"metric", n, m>>
           \/ Ipv6Is(n, o, f)
           \/ o.dns /\ f = <<"dns", n, 1>>
BY Zenon DEF IpLines, Ipv6Lines, Ipv6Is, Gateway, Dns, When

-----------------------------------------------------------------------------
(* What the formats write of a device, and what it is asked to have *)

\* What the three formats write of the settings of the device at place i.
Written(q, i) ==
  LET n == NameAt(q, i)
      o == IF q.format = "ifcfg" /\ i \notin DOMAIN q.interfaces THEN Passed(L3At(q, i)) ELSE L3At(q, i)
      m == Metric(q, n)
  IN IF q.format = "netplan" THEN NetplanAddrBlock(n, o, i \in DOMAIN q.interfaces, m)
     ELSE IF q.format = "ifcfg" THEN IpLines(n, o, m) \cup RoutesOf(n, o)
     ELSE Ipv4Lines(n, o, m)

LeftOut(q, i, f) ==
  /\ q.format = "ifcfg" /\ i \notin DOMAIN q.interfaces
  /\ f[1] \in {"method6", "addr6"} /\ (L3At(q, i).more6 \/ L3At(q, i).mode6 # "static")

\* What may be written of a device that it is not asked to have.
MayBe(q, i, f) ==
  \/ f[1] = "metric" /\ f[3] = Metric(q, NameAt(q, i))
  \/ f[1] = "method4" /\ f[3] = "auto" /\ ~L3At(q, i).ip
  \/ f[1] = "dns" /\ L3At(q, i).dns
  \/ f[1] = "gateway" /\ ~L3At(q, i).ip /\ q.format = "netplan"
  \/ f[1] = "ip" /\ L3At(q, i).cidr = 0
  \/ LeftOut(q, i, f)

\* The settings of the other devices of ifcfg files.
LEMMA PassedIs ==
  ASSUME NEW o \in Settings
  PROVE  /\ Passed(o).mode = o.mode /\ Passed(o).ip = o.ip /\ Passed(o).cidr = o.cidr
         /\ Passed(o).netmask = o.netmask /\ Passed(o).gateway = o.gateway
         /\ Passed(o).gateway6 = o.gateway6 /\ Passed(o).dns = o.dns /\ Passed(o).routes = o.routes
         /\ Passed(o).mode6 = "static" /\ V6Addrs(Passed(o)) = When(o.ip6, {1})
         /\ Prefix(Passed(o)) = Prefix(o)
         /\ \A n : RoutesOf(n, Passed(o)) = RoutesOf(n, o)
BY DEF Passed, Settings, V6Addrs, When, Prefix, RoutesOf

LEMMA AskedIsWritten ==
  ASSUME NEW q \in Request, Accepts(q), NEW i \in Own(q), NEW f \in AskedOf(NameAt(q, i), L3At(q, i))
  PROVE  f \in Written(q, i) \/ LeftOut(q, i, f) \/ (f[1] = "ip" /\ L3At(q, i).cidr = 0)
<1> PICK n : n = NameAt(q, i)
  OBVIOUS
<1> PICK o : o = L3At(q, i)
  OBVIOUS
<1> PICK m : m = Metric(q, n)
  OBVIOUS
<1>1. o \in Settings /\ CheckL3(o, TRUE)
  BY CheckedAt
<1>2. /\ o.mode = "dhcp" => ~o.ip
      /\ V6Addrs(o) # {} => o.mode6 = "static"
      /\ o.gateway6 => o.mode6 = "static" /\ o.ip6
      /\ o.cidr # 0 => Prefix(o) = CheckedPrefix(o)
      /\ o.gateway6 => V6Addrs(o) # {}
  BY <1>1, CheckedIs
<1>3. \/ o.ip /\ f = <<"method4", n, "manual">>
      \/ o.ip /\ f = <<"ip", n, CheckedPrefix(o)>>
      \/ o.mode = "dhcp" /\ f = <<"method4", n, "auto">>
      \/ o.ip /\ o.gateway # NoValue /\ f = <<"gateway", n, o.gateway>>
      \/ o.dns /\ (o.ip \/ o.mode = "dhcp") /\ f = <<"dns", n, 1>>
      \/ V6Addrs(o) # {} /\ f = <<"method6", n, "manual">>
      \/ V6Addrs(o) # {} /\ f = <<"addr6", n, V6Addrs(o)>>
      \/ o.gateway6 /\ f = <<"gateway6", n, 1>>
      \/ o.mode6 # "static" /\ f = <<"method6", n, o.mode6>>
      \/ f \in RoutesOf(n, o)
  BY AskedIs, Zenon
<1>4. f = <<"ip", n, CheckedPrefix(o)>> => f[1] = "ip"
  OBVIOUS
<1>5. CASE q.format = "netplan"
  <2>1. f \in NetplanAddrBlock(n, o, i \in DOMAIN q.interfaces, m) \/ (f[1] = "ip" /\ o.cidr = 0)
    BY <1>2, <1>3, <1>4, NetplanIs, Zenon
  <2>2. Written(q, i) = NetplanAddrBlock(n, o, i \in DOMAIN q.interfaces, m)
    BY <1>5 DEF Written
  <2> QED
    BY <2>1, <2>2
<1>6. CASE q.format # "netplan" /\ q.format # "ifcfg"
  <2>1. f \in Ipv4Lines(n, o, m) \/ (f[1] = "ip" /\ o.cidr = 0)
    BY <1>2, <1>3, <1>4, LinesIs, Zenon DEF Ipv6Is
  <2>2. Written(q, i) = Ipv4Lines(n, o, m)
    BY <1>6 DEF Written
  <2> QED
    BY <2>1, <2>2
<1>7. CASE q.format = "ifcfg" /\ i \in DOMAIN q.interfaces
  <2>1. f \in IpLines(n, o, m) \/ f \in RoutesOf(n, o) \/ (f[1] = "ip" /\ o.cidr = 0)
    BY <1>2, <1>3, <1>4, FileIs, Zenon DEF Ipv6Is
  <2>2. Written(q, i) = IpLines(n, o, m) \cup RoutesOf(n, o)
    BY <1>7 DEF Written
  <2> QED
    BY <2>1, <2>2
<1>8. CASE q.format = "ifcfg" /\ i \notin DOMAIN q.interfaces
  <2> PICK p : p = Passed(o)
    OBVIOUS
  <2>1. /\ p.mode = o.mode /\ p.ip = o.ip /\ p.gateway = o.gateway /\ p.gateway6 = o.gateway6
        /\ p.dns = o.dns /\ p.mode6 = "static" /\ Prefix(p) = Prefix(o) /\ RoutesOf(n, p) = RoutesOf(n, o)
    BY <1>1, PassedIs
  <2>2. o.gateway6 => V6Addrs(p) # {}
    BY <1>1, <1>2, PassedIs DEF When
  <2>3. ~o.more6 => V6Addrs(p) = V6Addrs(o)
    BY <1>1, PassedIs DEF When, V6Addrs
  <2>4. \/ f \in IpLines(n, p, m) \/ f \in RoutesOf(n, p) \/ (f[1] = "ip" /\ o.cidr = 0)
        \/ o.more6 /\ (f = <<"method6", n, "manual">> \/ f = <<"addr6", n, V6Addrs(o)>>)
        \/ o.mode6 # "static" /\ f = <<"method6", n, o.mode6>>
    <3>1. CASE \/ V6Addrs(o) # {} /\ f = <<"method6", n, "manual">>
               \/ V6Addrs(o) # {} /\ f = <<"addr6", n, V6Addrs(o)>>
      <4>1. CASE o.more6
        BY <3>1, <4>1, Zenon
      <4>2. CASE ~o.more6
        <5>1. V6Addrs(p) = V6Addrs(o) /\ V6Addrs(p) # {}
          BY <2>3, <3>1, <4>2, Zenon
        <5>2. Ipv6Is(n, p, f)
          BY <2>1, <3>1, <5>1, Zenon DEF Ipv6Is
        <5> QED
          BY <5>2, FileIs, Zenon
      <4> QED
        BY <4>1, <4>2
    <3>2. CASE o.gateway6 /\ f = <<"gateway6", n, 1>>
      <4>1. Ipv6Is(n, p, f)
        BY <2>1, <2>2, <3>2, Zenon DEF Ipv6Is
      <4> QED
        BY <4>1, FileIs, Zenon
    <3>3. CASE o.mode6 # "static" /\ f = <<"method6", n, o.mode6>>
      BY <3>3, Zenon
    <3>4. CASE f \in RoutesOf(n, o)
      BY <2>1, <3>4, Zenon
    <3>5. CASE \/ o.ip /\ f = <<"method4", n, "manual">>
               \/ o.ip /\ f = <<"ip", n, CheckedPrefix(o)>>
               \/ o.mode = "dhcp" /\ f = <<"method4", n, "auto">>
      BY <1>2, <1>4, <2>1, <3>5, FileIs, Zenon
    <3>6. CASE \/ o.ip /\ o.gateway # NoValue /\ f = <<"gateway", n, o.gateway>>
               \/ o.dns /\ f = <<"dns", n, 1>>
      BY <1>2, <2>1, <3>6, FileIs, Zenon
    <3> QED
      BY <1>3, <3>1, <3>2, <3>3, <3>4, <3>5, <3>6, Zenon
  <2>5. /\ f = <<"method6", n, "manual">> => f[1] = "method6"
        /\ f = <<"addr6", n, V6Addrs(o)>> => f[1] = "addr6"
        /\ f = <<"method6", n, o.mode6>> => f[1] = "method6"
    OBVIOUS
  <2>6. Written(q, i) = IpLines(n, p, m) \cup RoutesOf(n, p)
    BY <1>8 DEF Written
  <2> QED
    BY <1>8, <2>4, <2>5, <2>6 DEF LeftOut
<1> QED
  BY <1>5, <1>6, <1>7, <1>8

LEMMA Ipv6IsAsked ==
  ASSUME NEW n, NEW o, NEW f, Ipv6Is(n, o, f)
  PROVE  f \in AskedOf(n, o)
BY AskedIs, Zenon DEF Ipv6Is

LEMMA FactIs ==
  ASSUME NEW k, NEW n, NEW x, NEW f, f = <<k, n, x>>
  PROVE  f[1] = k /\ f[2] = n /\ f[3] = x
OBVIOUS

LEMMA OneOf ==
  ASSUME NEW n, NEW o, NEW f \in AskedOf(n, o)
  PROVE  f[2] = n
<1>1. CASE f \in RoutesOf(n, o)
  BY <1>1 DEF RoutesOf
<1>2. CASE f \notin RoutesOf(n, o)
  <2>1. \/ f = <<"method4", n, "manual">> \/ f = <<"ip", n, CheckedPrefix(o)>>
        \/ f = <<"method4", n, "auto">> \/ f = <<"gateway", n, o.gateway>>
        \/ f = <<"dns", n, 1>> \/ f = <<"method6", n, "manual">>
        \/ f = <<"addr6", n, V6Addrs(o)>> \/ f = <<"gateway6", n, 1>>
        \/ f = <<"method6", n, o.mode6>>
    BY <1>2, AskedIs, Zenon
  <2> QED
    BY <2>1, FactIs
<1> QED
  BY <1>1, <1>2

LEMMA WrittenIsAsked ==
  ASSUME NEW q \in Request, Accepts(q), NEW i \in Own(q), NEW f \in Written(q, i)
  PROVE  f[2] = NameAt(q, i) /\ (f \in AskedOf(NameAt(q, i), L3At(q, i)) \/ MayBe(q, i, f))
<1> PICK n : n = NameAt(q, i)
  OBVIOUS
<1> PICK o : o = L3At(q, i)
  OBVIOUS
<1> PICK m : m = Metric(q, n)
  OBVIOUS
<1>1. o \in Settings /\ CheckL3(o, TRUE)
  BY CheckedAt
<1>2. /\ o.mode = "dhcp" => ~o.ip
      /\ V6Addrs(o) # {} => o.mode6 = "static"
      /\ o.gateway6 => o.mode6 = "static" /\ o.ip6
      /\ o.cidr # 0 => Prefix(o) = CheckedPrefix(o)
      /\ o.gateway6 => V6Addrs(o) # {}
  BY <1>1, CheckedIs
<1> DEFINE Told(p) ==
             \/ ~p.ip /\ f = <<"method4", n, "auto">>
             \/ p.ip /\ f = <<"method4", n, "manual">>
             \/ p.ip /\ f = <<"ip", n, Prefix(p)>>
             \/ p.ip /\ p.gateway # NoValue /\ f = <<"gateway", n, p.gateway>>
             \/ f = <<"metric", n, m>>
             \/ p.dns /\ f = <<"dns", n, 1>>
             \/ f \in RoutesOf(n, p)
             \/ ~p.ip /\ q.format = "netplan" /\ f = <<"gateway", n, p.gateway>>
<1>3. Told(o) => f[2] = n /\ (f \in AskedOf(n, o) \/ MayBe(q, i, f))
  <2>1. CASE f = <<"metric", n, m>>
    BY <2>1, FactIs DEF MayBe
  <2>2. CASE ~o.ip /\ f = <<"method4", n, "auto">>
    BY <2>2, FactIs DEF MayBe
  <2>3. CASE ~o.ip /\ q.format = "netplan" /\ f = <<"gateway", n, o.gateway>>
    BY <2>3, FactIs DEF MayBe
  <2>4. CASE o.dns /\ f = <<"dns", n, 1>>
    BY <2>4, FactIs DEF MayBe
  <2>5. CASE o.ip /\ f = <<"ip", n, Prefix(o)>>
    <3>1. CASE o.cidr = 0
      BY <2>5, <3>1, FactIs DEF MayBe
    <3>2. CASE o.cidr # 0
      <4>1. f \in AskedOf(n, o)
        BY <1>2, <2>5, <3>2, AskedIs, Zenon
      <4> QED
        BY <4>1, OneOf
    <3> QED
      BY <3>1, <3>2
  <2>6. CASE \/ o.ip /\ f = <<"method4", n, "manual">>
             \/ o.ip /\ o.gateway # NoValue /\ f = <<"gateway", n, o.gateway>>
             \/ f \in RoutesOf(n, o)
    <3>1. f \in AskedOf(n, o)
      BY <2>6, AskedIs, Zenon
    <3> QED
      BY <3>1, OneOf
  <2> QED
    BY <2>1, <2>2, <2>3, <2>4, <2>5, <2>6
<1>4. f \in AskedOf(n, o) => f[2] = n
  BY OneOf
<1> HIDE DEF Told
<1>5. CASE q.format = "netplan"
  <2> PICK d : d = (i \in DOMAIN q.interfaces)
    OBVIOUS
  <2>1. f \in NetplanAddrBlock(n, o, d, m)
    BY <1>5 DEF Written
  <2>2. \/ f \in AskedOf(n, o) \/ Told(o)
    <3>1. \/ (o.mode = "dhcp" \/ (~o.ip /\ d)) /\ f = <<"method4", n, "auto">>
          \/ o.ip /\ f = <<"method4", n, "manual">>
          \/ o.ip /\ f = <<"ip", n, Prefix(o)>>
          \/ V6Addrs(o) # {} /\ f = <<"method6", n, "manual">>
          \/ V6Addrs(o) # {} /\ f = <<"addr6", n, V6Addrs(o)>>
          \/ o.mode6 # "static" /\ f = <<"method6", n, o.mode6>>
          \/ o.gateway # NoValue /\ f = <<"gateway", n, o.gateway>>
          \/ o.gateway # NoValue /\ m # NoValue /\ f = <<"metric", n, m>>
          \/ f \in RoutesOf(n, o)
          \/ o.gateway6 /\ f = <<"gateway6", n, 1>>
          \/ (o.mode = "dhcp" \/ (~o.ip /\ d) \/ o.ip) /\ o.dns
             /\ f = <<"dns", n, 1>>
      BY <2>1, NetplanIs
    <3>2. CASE \/ V6Addrs(o) # {} /\ f = <<"method6", n, "manual">>
               \/ V6Addrs(o) # {} /\ f = <<"addr6", n, V6Addrs(o)>>
               \/ o.mode6 # "static" /\ f = <<"method6", n, o.mode6>>
               \/ o.gateway6 /\ f = <<"gateway6", n, 1>>
      BY <3>2, AskedIs, Zenon
    <3>3. CASE (o.mode = "dhcp" \/ (~o.ip /\ d)) /\ f = <<"method4", n, "auto">>
      BY <1>2, <3>3, Zenon DEF Told
    <3>4. CASE o.gateway # NoValue /\ f = <<"gateway", n, o.gateway>>
      BY <1>5, <3>4, Zenon DEF Told
    <3>5. CASE \/ o.ip /\ f = <<"method4", n, "manual">>
               \/ o.ip /\ f = <<"ip", n, Prefix(o)>>
               \/ o.gateway # NoValue /\ m # NoValue /\ f = <<"metric", n, m>>
               \/ f \in RoutesOf(n, o)
               \/ o.dns /\ f = <<"dns", n, 1>>
      BY <3>5, Zenon DEF Told
    <3> QED
      BY <3>1, <3>2, <3>3, <3>4, <3>5, Zenon
  <2> QED
    BY <1>3, <1>4, <2>2
<1>6. CASE q.format # "netplan" /\ q.format # "ifcfg"
  <2>1. f \in Ipv4Lines(n, o, m)
    BY <1>6 DEF Written
  <2>2. Ipv6Is(n, o, f) \/ Told(o)
    BY <2>1, LinesIs, Zenon DEF Told
  <2> QED
    BY <1>3, <1>4, <2>2, Ipv6IsAsked
<1>7. CASE q.format = "ifcfg" /\ i \in DOMAIN q.interfaces
  <2>1. f \in IpLines(n, o, m) \/ f \in RoutesOf(n, o)
    BY <1>7 DEF Written
  <2>2. Ipv6Is(n, o, f) \/ Told(o)
    BY <1>2, <2>1, FileIs, Zenon DEF Told
  <2> QED
    BY <1>3, <1>4, <2>2, Ipv6IsAsked
<1>8. CASE q.format = "ifcfg" /\ i \notin DOMAIN q.interfaces
  <2> PICK p : p = Passed(o)
    OBVIOUS
  <2>1. /\ p.mode = o.mode /\ p.ip = o.ip /\ p.gateway = o.gateway /\ p.gateway6 = o.gateway6
        /\ p.dns = o.dns /\ p.mode6 = "static" /\ Prefix(p) = Prefix(o) /\ RoutesOf(n, p) = RoutesOf(n, o)
        /\ V6Addrs(p) = When(o.ip6, {1})
    BY <1>1, PassedIs
  <2>2. f \in IpLines(n, p, m) \/ f \in RoutesOf(n, p)
    BY <1>8 DEF Written
  <2>7. p.mode = "dhcp" => ~p.ip
    BY <1>2, <2>1
  <2>3. Ipv6Is(n, p, f) \/ Told(p)
    BY <2>2, <2>7, FileIs, Zenon DEF Told
  <2>4. Told(p) => Told(o)
    <3>1. CASE \/ ~p.ip /\ f = <<"method4", n, "auto">>
               \/ p.ip /\ f = <<"method4", n, "manual">>
      BY <2>1, <3>1, Zenon DEF Told
    <3>2. CASE p.ip /\ f = <<"ip", n, Prefix(p)>>
      BY <2>1, <3>2, Zenon DEF Told
    <3>3. CASE \/ p.ip /\ p.gateway # NoValue /\ f = <<"gateway", n, p.gateway>>
               \/ ~p.ip /\ q.format = "netplan" /\ f = <<"gateway", n, p.gateway>>
      BY <2>1, <3>3, Zenon DEF Told
    <3>4. CASE f = <<"metric", n, m>> \/ (p.dns /\ f = <<"dns", n, 1>>) \/ f \in RoutesOf(n, p)
      BY <2>1, <3>4, Zenon DEF Told
    <3> QED
      BY <3>1, <3>2, <3>3, <3>4, Zenon DEF Told
  <2>5. ASSUME Ipv6Is(n, p, f)
        PROVE  f[2] = n /\ (f \in AskedOf(n, o) \/ MayBe(q, i, f))
    <3>1. /\ V6Addrs(p) # {}
          /\ \/ f = <<"method6", n, "manual">>
             \/ f = <<"addr6", n, V6Addrs(p)>>
             \/ o.gateway6 /\ f = <<"gateway6", n, 1>>
      BY <2>1, <2>5, Zenon DEF Ipv6Is
    <3>2. V6Addrs(o) # {}
      BY <2>1, <3>1 DEF When, V6Addrs
    <3>3. CASE f = <<"addr6", n, V6Addrs(p)>>
      <4>1. CASE o.more6
        BY <1>8, <3>3, <4>1, FactIs DEF MayBe, LeftOut
      <4>2. CASE ~o.more6
        <5>1. V6Addrs(p) = V6Addrs(o)
          BY <2>1, <4>2 DEF When, V6Addrs
        <5> QED
          BY <1>4, <3>2, <3>3, <5>1, AskedIs, Zenon
      <4> QED
        BY <4>1, <4>2
    <3>4. CASE f = <<"method6", n, "manual">> \/ (o.gateway6 /\ f = <<"gateway6", n, 1>>)
      BY <1>4, <3>2, <3>4, AskedIs, Zenon
    <3> QED
      BY <3>1, <3>3, <3>4
  <2> QED
    BY <1>3, <2>3, <2>4, <2>5
<1> QED
  BY <1>5, <1>6, <1>7, <1>8

-----------------------------------------------------------------------------
(* Gateways and metrics *)

\* An address is written with its device, and with a gateway its metric.
LEMMA AddressWritten ==
  ASSUME NEW q \in Request, Accepts(q), NEW i \in Own(q), L3At(q, i).ip
  PROVE  /\ <<"ip", NameAt(q, i), Prefix(L3At(q, i))>> \in Written(q, i)
         /\ L3At(q, i).gateway # NoValue /\ Metric(q, NameAt(q, i)) # NoValue =>
              <<"metric", NameAt(q, i), Metric(q, NameAt(q, i))>> \in Written(q, i)
<1> PICK n : n = NameAt(q, i)
  OBVIOUS
<1> PICK o : o = L3At(q, i)
  OBVIOUS
<1> PICK m : m = Metric(q, n)
  OBVIOUS
<1> PICK d : d = (i \in DOMAIN q.interfaces)
  OBVIOUS
<1> PICK p : p = IF q.format = "ifcfg" /\ i \notin DOMAIN q.interfaces THEN Passed(o) ELSE o
  OBVIOUS
<1>1. o \in Settings /\ CheckL3(o, TRUE)
  BY CheckedAt
<1>2. o.ip /\ o.mode # "dhcp"
  BY <1>1, CheckedIs
<1>3. p.mode # "dhcp" /\ p.ip /\ p.gateway = o.gateway /\ Prefix(p) = Prefix(o)
  BY <1>1, <1>2, PassedIs
<1>4. /\ <<"ip", n, Prefix(p)>> \in NetplanAddrBlock(n, p, d, m)
      /\ p.gateway # NoValue /\ m # NoValue => <<"metric", n, m>> \in NetplanAddrBlock(n, p, d, m)
  BY <1>3, NetplanIs
<1>5. /\ <<"ip", n, Prefix(p)>> \in IpLines(n, p, m)
      /\ p.gateway # NoValue /\ m # NoValue => <<"metric", n, m>> \in IpLines(n, p, m)
  BY <1>3, FileIs
<1>6. /\ <<"ip", n, Prefix(p)>> \in Ipv4Lines(n, p, m)
      /\ p.gateway # NoValue /\ m # NoValue => <<"metric", n, m>> \in Ipv4Lines(n, p, m)
  BY <1>3, LinesIs
<1>7. Written(q, i) = IF q.format = "netplan" THEN NetplanAddrBlock(n, p, d, m)
                      ELSE IF q.format = "ifcfg" THEN IpLines(n, p, m) \cup RoutesOf(n, p)
                      ELSE Ipv4Lines(n, p, m)
  BY DEF Written
<1> QED
  BY <1>3, <1>4, <1>5, <1>6, <1>7

\* The gateway of a device that has an address is the one that was checked with it.
LEMMA GatewayWritten ==
  ASSUME NEW q \in Request, Accepts(q), NEW i \in Own(q), NEW f \in Written(q, i), f[1] = "gateway",
         L3At(q, i).ip
  PROVE  /\ i \in Routed(q)
         /\ Prefix(L3At(q, i)) <= f[3] \/ L3At(q, i).cidr = 0
<1> PICK n : n = NameAt(q, i)
  OBVIOUS
<1> PICK o : o = L3At(q, i)
  OBVIOUS
<1>1. o \in Settings /\ CheckL3(o, TRUE)
  BY CheckedAt
<1>2. f \in AskedOf(n, o)
  <2>1. ~MayBe(q, i, f)
    BY DEF MayBe, LeftOut
  <2> QED
    BY <2>1, WrittenIsAsked
<1>3. o.gateway # NoValue /\ f[3] = o.gateway
  <2>1. CASE f \in RoutesOf(n, o)
    BY <2>1 DEF RoutesOf
  <2>2. CASE o.ip /\ o.gateway # NoValue /\ f = <<"gateway", n, o.gateway>>
    BY <2>2
  <2>3. CASE \/ f = <<"method4", n, "manual">> \/ f = <<"ip", n, CheckedPrefix(o)>>
             \/ f = <<"method4", n, "auto">> \/ f = <<"dns", n, 1>>
             \/ f = <<"method6", n, "manual">> \/ f = <<"addr6", n, V6Addrs(o)>>
             \/ f = <<"gateway6", n, 1>> \/ f = <<"method6", n, o.mode6>>
    BY <2>3, FactIs
  <2> QED
    BY <1>2, <2>1, <2>2, <2>3, AskedIs, Zenon
<1>4. /\ o.mode # "dhcp" /\ CheckedPrefix(o) <= o.gateway
      /\ o.cidr # 0 => Prefix(o) = CheckedPrefix(o)
  BY <1>1, <1>3, CheckedIs
<1>5. HasDefaultRoute(L3At(q, i))
  BY <1>3, <1>4 DEF HasDefaultRoute
<1> QED
  BY <1>3, <1>4, <1>5 DEF Routed, L3At

LEMMA MetricWritten ==
  ASSUME NEW q \in Request, Accepts(q), NEW i \in Own(q), NEW f \in Written(q, i), f[1] = "metric"
  PROVE  f[3] = Metric(q, NameAt(q, i))
<1> PICK n : n = NameAt(q, i)
  OBVIOUS
<1> PICK o : o = L3At(q, i)
  OBVIOUS
<1>1. ASSUME f \in AskedOf(n, o) PROVE FALSE
  <2>1. CASE f \in RoutesOf(n, o)
    BY <2>1 DEF RoutesOf
  <2>2. CASE \/ f = <<"method4", n, "manual">> \/ f = <<"ip", n, CheckedPrefix(o)>>
             \/ f = <<"method4", n, "auto">> \/ f = <<"dns", n, 1>>
             \/ f = <<"method6", n, "manual">> \/ f = <<"addr6", n, V6Addrs(o)>>
             \/ f = <<"gateway6", n, 1>> \/ f = <<"method6", n, o.mode6>>
             \/ f = <<"gateway", n, o.gateway>>
    BY <2>2, FactIs
  <2> QED
    BY <1>1, <2>1, <2>2, AskedIs, Zenon
<1>2. MayBe(q, i, f)
  BY <1>1, WrittenIsAsked
<1> QED
  BY <1>2 DEF MayBe, LeftOut

\* A configuration has the settings of its devices, and nothing else but how they are
\* made and joined.
Settled(q, G) == \A i \in Own(q) : Written(q, i) \subseteq G

OfStructure(f) == f[1] \in {"type", "master", "bond", "link"}

OnlySettled(q, G) == \A f \in G : OfStructure(f) \/ \E i \in Own(q) : f \in Written(q, i)

\* What DefaultRoutesWork says of a request and its configuration.
RoutesIn(q, G) ==
  LET gateways == {f \in G : f[1] = "gateway" /\ SettingsOf(q, f[2]).ip}
      metrics(n) == {f[3] : f \in {g \in G : g[1] = "metric" /\ g[2] = n}}
  IN /\ \A f \in gateways : \E g \in G :
          g[1] = "ip" /\ g[2] = f[2] /\ (g[3] <= f[3] \/ SettingsOf(q, f[2]).cidr = 0)
     /\ \A f, g \in gateways :
          Place(q, f[2]) < Place(q, g[2]) =>
            \E a \in metrics(f[2]), b \in metrics(g[2]) : a < b /\ metrics(f[2]) = {a}

LEMMA RoutesFollow ==
  ASSUME NEW q \in Request, Accepts(q), NEW G, Settled(q, G), OnlySettled(q, G)
  PROVE  RoutesIn(q, G)
<1>0. q \in Request /\ Accepts(q) /\ NamesOnce(q) /\ Settled(q, G) /\ OnlySettled(q, G)
  BY Zenon DEF Accepts, CheckReferences
<1>1. ASSUME NEW f \in G, f[1] \in {"gateway", "metric"}
      PROVE  \E i \in Own(q) : f \in Written(q, i) /\ f[2] = NameAt(q, i) /\ Place(q, f[2]) = i
                                 /\ SettingsOf(q, f[2]) = L3At(q, i)
  <2>1. PICK i \in Own(q) : f \in Written(q, i)
    BY <1>0, <1>1 DEF OnlySettled, OfStructure
  <2>2. f[2] = NameAt(q, i) /\ i \in DOMAIN Ordered(q)
    BY <1>0, <2>1, WrittenIsAsked DEF Own
  <2>3. Place(q, f[2]) = i
    BY <1>0, <2>2, PlaceIs
  <2>4. SettingsOf(q, f[2]) = L3At(q, i)
    BY <2>3 DEF SettingsOf, L3At
  <2> QED
    BY <2>1, <2>2, <2>3, <2>4
<1> DEFINE gateways == {f \in G : f[1] = "gateway" /\ SettingsOf(q, f[2]).ip}
           metrics(n) == {f[3] : f \in {g \in G : g[1] = "metric" /\ g[2] = n}}
<1>2. ASSUME NEW f \in gateways
      PROVE  \E i \in Routed(q) :
               /\ i \in Own(q) /\ f \in Written(q, i) /\ f[2] = NameAt(q, i) /\ Place(q, f[2]) = i
               /\ L3At(q, i).ip /\ L3At(q, i).gateway # NoValue
               /\ SettingsOf(q, f[2]) = L3At(q, i)
  <2>1. f \in G /\ f[1] = "gateway" /\ SettingsOf(q, f[2]).ip
    OBVIOUS
  <2>2. PICK i \in Own(q) : f \in Written(q, i) /\ f[2] = NameAt(q, i) /\ Place(q, f[2]) = i
                              /\ SettingsOf(q, f[2]) = L3At(q, i)
    BY <1>1, <2>1
  <2>3. L3At(q, i).ip
    BY <2>1, <2>2
  <2>4. i \in Routed(q)
    BY <1>0, <2>1, <2>2, <2>3, GatewayWritten
  <2>5. L3At(q, i).gateway # NoValue
    BY <2>4 DEF Routed, HasDefaultRoute, L3At
  <2> QED
    BY <2>2, <2>3, <2>4, <2>5
<1>3. ASSUME NEW f \in gateways
      PROVE  \E g \in G : g[1] = "ip" /\ g[2] = f[2] /\ (g[3] <= f[3] \/ SettingsOf(q, f[2]).cidr = 0)
  <2>1. PICK i \in Routed(q) :
               /\ i \in Own(q) /\ f \in Written(q, i) /\ f[2] = NameAt(q, i)
               /\ L3At(q, i).ip /\ SettingsOf(q, f[2]) = L3At(q, i)
    BY <1>2
  <2> PICK g : g = <<"ip", NameAt(q, i), Prefix(L3At(q, i))>>
    OBVIOUS
  <2>2. g \in Written(q, i)
    BY <1>0, <2>1, AddressWritten
  <2>3. g \in G
    BY <1>0, <2>1, <2>2 DEF Settled
  <2>4. f[1] = "gateway"
    OBVIOUS
  <2>5. Prefix(L3At(q, i)) <= f[3] \/ L3At(q, i).cidr = 0
    BY <1>0, <2>1, <2>4, GatewayWritten
  <2>6. g[1] = "ip" /\ g[2] = NameAt(q, i) /\ g[3] = Prefix(L3At(q, i))
    BY FactIs
  <2> QED
    BY <2>1, <2>3, <2>5, <2>6
<1>4. ASSUME NEW i \in Routed(q), i \in Own(q), L3At(q, i).ip, L3At(q, i).gateway # NoValue,
             Metric(q, NameAt(q, i)) # NoValue
      PROVE  metrics(NameAt(q, i)) = {Metric(q, NameAt(q, i))}
  <2> PICK a : a = Metric(q, NameAt(q, i))
    OBVIOUS
  <2>1. <<"metric", NameAt(q, i), a>> \in Written(q, i)
    BY <1>0, <1>4, AddressWritten
  <2>2. <<"metric", NameAt(q, i), a>> \in G
    BY <1>0, <1>4, <2>1 DEF Settled
  <2>3. a \in metrics(NameAt(q, i))
    <3> PICK g : g = <<"metric", NameAt(q, i), a>>
      OBVIOUS
    <3>1. g[1] = "metric" /\ g[2] = NameAt(q, i) /\ g[3] = a
      BY FactIs
    <3> QED
      BY <2>2, <3>1
  <2>4. ASSUME NEW f \in G, f[1] = "metric", f[2] = NameAt(q, i) PROVE f[3] = a
    <3>1. PICK k \in Own(q) : f \in Written(q, k) /\ f[2] = NameAt(q, k)
      BY <1>1, <2>4
    <3>2. f[3] = Metric(q, NameAt(q, k))
      BY <1>0, <2>4, <3>1, MetricWritten
    <3> QED
      BY <2>4, <3>1, <3>2
  <2> QED
    BY <2>3, <2>4
<1>5. ASSUME NEW f \in gateways, NEW g \in gateways, Place(q, f[2]) < Place(q, g[2])
      PROVE  \E a \in metrics(f[2]), b \in metrics(g[2]) : a < b /\ metrics(f[2]) = {a}
  <2>1. PICK i \in Routed(q) :
               /\ i \in Own(q) /\ f \in Written(q, i) /\ f[2] = NameAt(q, i) /\ Place(q, f[2]) = i
               /\ L3At(q, i).ip /\ L3At(q, i).gateway # NoValue
    BY <1>2
  <2>2. PICK k \in Routed(q) :
               /\ k \in Own(q) /\ g \in Written(q, k) /\ g[2] = NameAt(q, k) /\ Place(q, g[2]) = k
               /\ L3At(q, k).ip /\ L3At(q, k).gateway # NoValue
    BY <1>2
  <2>3. i < k
    BY <1>5, <2>1, <2>2
  <2>4. /\ Metric(q, NameAt(q, i)) # NoValue /\ Metric(q, NameAt(q, k)) # NoValue
        /\ Metric(q, NameAt(q, i)) < Metric(q, NameAt(q, k))
    BY <1>0, <2>3, MetricsRise
  <2>5. /\ metrics(NameAt(q, i)) = {Metric(q, NameAt(q, i))}
        /\ metrics(NameAt(q, k)) = {Metric(q, NameAt(q, k))}
    BY <1>4, <2>1, <2>2, <2>4
  <2> HIDE DEF metrics
  <2> QED
    BY <2>1, <2>2, <2>4, <2>5
<1>6. /\ \A f \in gateways : \E g \in G :
           g[1] = "ip" /\ g[2] = f[2] /\ (g[3] <= f[3] \/ SettingsOf(q, f[2]).cidr = 0)
      /\ \A f, g \in gateways :
           Place(q, f[2]) < Place(q, g[2]) =>
             \E a \in metrics(f[2]), b \in metrics(g[2]) : a < b /\ metrics(f[2]) = {a}
  <2> HIDE DEF metrics, gateways
  <2> QED
    BY <1>3, <1>5, Zenon
<1> QED
  BY <1>6, Zenon DEF RoutesIn

LEMMA RoutesAre == RoutesIn(request, Given) => DefaultRoutesWork
BY Zenon DEF RoutesIn, DefaultRoutesWork, PrefixZero

-----------------------------------------------------------------------------
(* The netplan file *)

\* The masters are the bonds and the bridges.
LEMMA MastersAre ==
  ASSUME NEW q \in Request
  PROVE  ToSet(Masters(q)) = ToSet(q.bonds) \cup ToSet(q.bridges)
<1>1. q.bonds \in Seq(Bond) /\ q.bridges \in Seq(Bridge)
  BY DEF Request
<1>2. \A X, Y : Seq(X) \subseteq Seq(X \cup Y) /\ Seq(Y) \subseteq Seq(X \cup Y)
  OBVIOUS
<1>3. q.bonds \in Seq(Bond \cup Bridge) /\ q.bridges \in Seq(Bond \cup Bridge)
  BY <1>1, <1>2
<1> QED
  BY <1>3, ApartTogether DEF Masters

\* How devices are joined, as it is asked.
JoinedOf(q) ==
  UNION {UNION {{<<"master", p, Masters(q)[i].name>> : p \in ToSet(Masters(q)[i].ports)} :
                  i \in DOMAIN Masters(q)},
         {<<"bond", b.name, <<b.level, b.primary>> >> : b \in ToSet(q.bonds)},
         {<<"link", VlanName(v), v.parent>> : v \in ToSet(q.vlans)}}

LEMMA JoinedIs ==
  ASSUME NEW q \in Request, NEW f
  PROVE  f \in JoinedOf(q) <=>
           \/ \E b \in ToSet(q.bonds) : f \in NetplanPorts(b)
           \/ \E b \in ToSet(q.bridges) : f \in NetplanPorts(b)
           \/ \E b \in ToSet(q.bonds) : f = <<"bond", b.name, <<b.level, b.primary>> >>
           \/ \E v \in ToSet(q.vlans) : f = <<"link", VlanName(v), v.parent>>
<1> DEFINE A == UNION {{<<"master", p, Masters(q)[i].name>> : p \in ToSet(Masters(q)[i].ports)} :
                         i \in DOMAIN Masters(q)}
           B == {<<"bond", b.name, <<b.level, b.primary>> >> : b \in ToSet(q.bonds)}
           C == {<<"link", VlanName(v), v.parent>> : v \in ToSet(q.vlans)}
<1>3. f \in A <=> \E i \in DOMAIN Masters(q) : f \in NetplanPorts(Masters(q)[i])
  BY DEF NetplanPorts
<1>4. /\ f \in B <=> \E b \in ToSet(q.bonds) : f = <<"bond", b.name, <<b.level, b.primary>> >>
      /\ f \in C <=> \E v \in ToSet(q.vlans) : f = <<"link", VlanName(v), v.parent>>
  OBVIOUS
<1>5. JoinedOf(q) = UNION {A, B, C}
  BY DEF JoinedOf
<1> HIDE DEF A, B, C
<1>1. f \in JoinedOf(q) <=> f \in A \/ f \in B \/ f \in C
  BY <1>5
<1>2. (\E i \in DOMAIN Masters(q) : f \in NetplanPorts(Masters(q)[i]))
        <=> \E b \in ToSet(Masters(q)) : f \in NetplanPorts(b)
  BY DEF ToSet
<1>6. (\E i \in DOMAIN Masters(q) : f \in NetplanPorts(Masters(q)[i])) <=>
        \/ \E b \in ToSet(q.bonds) : f \in NetplanPorts(b)
        \/ \E b \in ToSet(q.bridges) : f \in NetplanPorts(b)
  BY <1>2, MastersAre
<1> QED
  BY <1>1, <1>3, <1>4, <1>6, Zenon

Joined(q, G) ==
  \A f \in JoinedOf(q) :
    \/ f \in G
    \/ /\ q.format = "ifcfg"
       /\ (f[1] = "master" /\ f[2] \in ToSet(VirtualNames(q))) \/ (f[1] = "bond" /\ f[3][1] = 0)
    \/ AddSkipped(q, f)

\* Fact f is about a device of q, or how it is made or joined.  A bond mode of 0 is written
\* as 1 in an ifcfg file.
Belongs(q, f) ==
  \/ f[1] = "type" \/ f \in JoinedOf(q) \/ \E i \in Own(q) : f \in Written(q, i)
  \/ /\ q.format = "ifcfg" /\ f[1] = "bond" /\ f[3][1] = 1
     /\ <<"bond", f[2], <<0, f[3][2]>> >> \in JoinedOf(q)

OnlyJoined(q, G) == \A f \in G : Belongs(q, f)

LEMMA JoinedKinds ==
  ASSUME NEW q \in Request, NEW f \in JoinedOf(q)
  PROVE  f[1] \in {"master", "bond", "link"}
<1>1. \A k, n, x : <<k, n, x>>[1] = k
  OBVIOUS
<1>2. ASSUME NEW b, NEW g \in NetplanPorts(b) PROVE g[1] = "master"
  BY DEF NetplanPorts
<1>3. \/ \E b : f \in NetplanPorts(b)
      \/ \E b : f = <<"bond", b.name, <<b.level, b.primary>> >>
      \/ \E v : f = <<"link", VlanName(v), v.parent>>
  BY JoinedIs, Zenon
<1> QED
  BY <1>1, <1>2, <1>3

LEMMA JoinedIsStructure ==
  ASSUME NEW q \in Request, NEW G, OnlyJoined(q, G)
  PROVE  OnlySettled(q, G)
BY JoinedKinds DEF OnlyJoined, Belongs, OnlySettled, OfStructure

\* The devices of a netplan file, kind by kind.
LEMMA NetplanHas ==
  ASSUME NEW q \in Request, NEW f
  PROVE  f \in Netplan(q) <=>
           \/ f \in NetplanEthernets(q)
           \/ \E o \in ToSet(q.bonds) :
                f \in NetplanDevice(q, o.name, o.l3, "bond", FALSE) \/ f \in NetplanPorts(o)
                  \/ f = <<"bond", o.name, <<o.level, o.primary>> >>
           \/ \E o \in ToSet(q.vlans) :
                f \in NetplanDevice(q, VlanName(o), o.l3, "vlan", FALSE)
                  \/ f = <<"link", VlanName(o), o.parent>>
           \/ \E o \in ToSet(q.bridges) :
                f \in NetplanDevice(q, o.name, o.l3, "bridge", FALSE) \/ f \in NetplanPorts(o)
<1> DEFINE bond(o) == NetplanDevice(q, o.name, o.l3, "bond", FALSE) \cup NetplanPorts(o)
                        \cup {<<"bond", o.name, <<o.level, o.primary>> >>}
           vlan(o) == NetplanDevice(q, VlanName(o), o.l3, "vlan", FALSE)
                        \cup {<<"link", VlanName(o), o.parent>>}
           bridge(o) == NetplanDevice(q, o.name, o.l3, "bridge", FALSE) \cup NetplanPorts(o)
<1>1. /\ \A o : f \in bond(o) <=> \/ f \in NetplanDevice(q, o.name, o.l3, "bond", FALSE)
                                   \/ f \in NetplanPorts(o)
                                   \/ f = <<"bond", o.name, <<o.level, o.primary>> >>
      /\ \A o : f \in vlan(o) <=> \/ f \in NetplanDevice(q, VlanName(o), o.l3, "vlan", FALSE)
                                   \/ f = <<"link", VlanName(o), o.parent>>
      /\ \A o : f \in bridge(o) <=> \/ f \in NetplanDevice(q, o.name, o.l3, "bridge", FALSE)
                                     \/ f \in NetplanPorts(o)
  OBVIOUS
<1>2. Netplan(q) = UNION {NetplanEthernets(q), UNION {bond(o) : o \in ToSet(q.bonds)},
                          UNION {vlan(o) : o \in ToSet(q.vlans)},
                          UNION {bridge(o) : o \in ToSet(q.bridges)}}
  BY DEF Netplan
<1> HIDE DEF bond, vlan, bridge
<1>3. f \in Netplan(q) <=>
        \/ f \in NetplanEthernets(q)
        \/ \E o \in ToSet(q.bonds) : f \in bond(o)
        \/ \E o \in ToSet(q.vlans) : f \in vlan(o)
        \/ \E o \in ToSet(q.bridges) : f \in bridge(o)
  BY <1>2
<1> QED
  BY <1>1, <1>3, Zenon

LEMMA EthernetsHave ==
  ASSUME NEW q \in Request, NEW f
  PROVE  f \in NetplanEthernets(q) <=>
           \/ \E o \in ToSet(q.interfaces) : o.name \in Ports(q) /\ f = <<"type", o.name, "ethernet">>
           \/ \E o \in ToSet(q.interfaces) :
                o.name \notin Ports(q) /\ f \in NetplanDevice(q, o.name, o.l3, "ethernet", TRUE)
           \/ \E n \in ImplicitIfaces(q) : f = <<"type", n, "ethernet">>
<1> DEFINE iface(o) == IF o.name \in Ports(q) THEN {<<"type", o.name, "ethernet">>}
                       ELSE NetplanDevice(q, o.name, o.l3, "ethernet", TRUE)
           implied == {<<"type", n, "ethernet">> : n \in ImplicitIfaces(q)}
<1>1. /\ \A o : f \in iface(o) <=>
             \/ o.name \in Ports(q) /\ f = <<"type", o.name, "ethernet">>
             \/ o.name \notin Ports(q) /\ f \in NetplanDevice(q, o.name, o.l3, "ethernet", TRUE)
      /\ f \in implied <=> \E n \in ImplicitIfaces(q) : f = <<"type", n, "ethernet">>
  OBVIOUS
<1>2. NetplanEthernets(q) = implied \cup UNION {iface(o) : o \in ToSet(q.interfaces)}
  BY DEF NetplanEthernets
<1> HIDE DEF iface, implied
<1>3. f \in NetplanEthernets(q) <=> (\E o \in ToSet(q.interfaces) : f \in iface(o)) \/ f \in implied
  BY <1>2
<1> QED
  BY <1>1, <1>3, Zenon

LEMMA NetplanSettles ==
  ASSUME NEW q \in Request, Accepts(q), q.format = "netplan"
  PROVE  Settled(q, Netplan(q)) /\ Joined(q, Netplan(q)) /\ OnlyJoined(q, Netplan(q))
<1>1. ASSUME NEW i \in DOMAIN q.interfaces
      PROVE  /\ i \in DOMAIN Ordered(q) /\ NameAt(q, i) = q.interfaces[i].name
             /\ L3At(q, i) = q.interfaces[i].l3
             /\ NetplanDevice(q, q.interfaces[i].name, q.interfaces[i].l3, "ethernet", TRUE)
                  = {<<"type", NameAt(q, i), "ethernet">>} \cup Written(q, i)
  <2>1. /\ i \in DOMAIN Ordered(q) /\ NameAt(q, i) = q.interfaces[i].name
        /\ L3At(q, i) = q.interfaces[i].l3
    BY Sections, Zenon
  <2>2. (i \in DOMAIN q.interfaces) = TRUE
    OBVIOUS
  <2>3. Written(q, i) = NetplanAddrBlock(NameAt(q, i), L3At(q, i), TRUE, Metric(q, NameAt(q, i)))
    BY <2>2 DEF Written
  <2> QED
    BY <2>1, <2>3 DEF NetplanDevice
<1>2. ASSUME NEW k \in DOMAIN Ordered(q), k \notin DOMAIN q.interfaces, NEW kind
      PROVE  NetplanDevice(q, NameAt(q, k), L3At(q, k), kind, FALSE)
                  = {<<"type", NameAt(q, k), kind>>} \cup Written(q, k)
  <2>2. (k \in DOMAIN q.interfaces) = FALSE
    BY <1>2
  <2>3. Written(q, k) = NetplanAddrBlock(NameAt(q, k), L3At(q, k), FALSE, Metric(q, NameAt(q, k)))
    BY <2>2 DEF Written
  <2> QED
    BY <2>3 DEF NetplanDevice
<1>3. ASSUME NEW i \in DOMAIN q.bonds
      PROVE  /\ BondAt(q, i) \in Own(q)
             /\ NetplanDevice(q, q.bonds[i].name, q.bonds[i].l3, "bond", FALSE)
                  = {<<"type", q.bonds[i].name, "bond">>} \cup Written(q, BondAt(q, i))
  <2>1. /\ BondAt(q, i) \in DOMAIN Ordered(q) /\ NameAt(q, BondAt(q, i)) = q.bonds[i].name
        /\ L3At(q, BondAt(q, i)) = q.bonds[i].l3
    BY Sections, Zenon
  <2>2. BondAt(q, i) \in Own(q) /\ BondAt(q, i) \notin DOMAIN q.interfaces
    BY OwnIs, Zenon
  <2> QED
    BY <1>2, <2>1, <2>2, Zenon
<1>4. ASSUME NEW i \in DOMAIN q.vlans
      PROVE  /\ VlanAt(q, i) \in Own(q)
             /\ NetplanDevice(q, VlanName(q.vlans[i]), q.vlans[i].l3, "vlan", FALSE)
                  = {<<"type", VlanName(q.vlans[i]), "vlan">>} \cup Written(q, VlanAt(q, i))
  <2>1. /\ VlanAt(q, i) \in DOMAIN Ordered(q) /\ NameAt(q, VlanAt(q, i)) = VlanName(q.vlans[i])
        /\ L3At(q, VlanAt(q, i)) = q.vlans[i].l3
    BY Sections, Zenon
  <2>2. VlanAt(q, i) \in Own(q) /\ VlanAt(q, i) \notin DOMAIN q.interfaces
    BY OwnIs, Zenon
  <2> QED
    BY <1>2, <2>1, <2>2, Zenon
<1>5. ASSUME NEW i \in DOMAIN q.bridges
      PROVE  /\ BridgeAt(q, i) \in Own(q)
             /\ NetplanDevice(q, q.bridges[i].name, q.bridges[i].l3, "bridge", FALSE)
                  = {<<"type", q.bridges[i].name, "bridge">>} \cup Written(q, BridgeAt(q, i))
  <2>1. /\ BridgeAt(q, i) \in DOMAIN Ordered(q) /\ NameAt(q, BridgeAt(q, i)) = q.bridges[i].name
        /\ L3At(q, BridgeAt(q, i)) = q.bridges[i].l3
    BY Sections, Zenon
  <2>2. BridgeAt(q, i) \in Own(q) /\ BridgeAt(q, i) \notin DOMAIN q.interfaces
    BY OwnIs, Zenon
  <2> QED
    BY <1>2, <2>1, <2>2, Zenon
<1>6. ASSUME NEW k \in Own(q), NEW f \in Written(q, k)
      PROVE  f \in Netplan(q)
  <2>1. CASE k \in DOMAIN q.interfaces
    <3>1. q.interfaces[k].name \notin Ports(q)
      BY <2>1, OwnIs, Zenon
    <3>2. q.interfaces[k] \in ToSet(q.interfaces)
      BY <2>1 DEF ToSet
    <3>3. f \in NetplanDevice(q, q.interfaces[k].name, q.interfaces[k].l3, "ethernet", TRUE)
      BY <1>1, <2>1
    <3> QED
      BY <3>1, <3>2, <3>3, EthernetsHave, NetplanHas, Zenon
  <2>2. CASE \E i \in DOMAIN q.bonds : k = BondAt(q, i)
    <3>0. PICK i \in DOMAIN q.bonds : k = BondAt(q, i)
      BY <2>2
    <3>1. f \in NetplanDevice(q, q.bonds[i].name, q.bonds[i].l3, "bond", FALSE)
      BY <1>3, <3>0
    <3>2. q.bonds[i] \in ToSet(q.bonds)
      BY DEF ToSet
    <3> QED
      BY <3>1, <3>2, NetplanHas, Zenon
  <2>3. CASE \E i \in DOMAIN q.vlans : k = VlanAt(q, i)
    <3>0. PICK i \in DOMAIN q.vlans : k = VlanAt(q, i)
      BY <2>3
    <3>1. f \in NetplanDevice(q, VlanName(q.vlans[i]), q.vlans[i].l3, "vlan", FALSE)
      BY <1>4, <3>0
    <3>2. q.vlans[i] \in ToSet(q.vlans)
      BY DEF ToSet
    <3> QED
      BY <3>1, <3>2, NetplanHas, Zenon
  <2>4. CASE \E i \in DOMAIN q.bridges : k = BridgeAt(q, i)
    <3>0. PICK i \in DOMAIN q.bridges : k = BridgeAt(q, i)
      BY <2>4
    <3>1. f \in NetplanDevice(q, q.bridges[i].name, q.bridges[i].l3, "bridge", FALSE)
      BY <1>5, <3>0
    <3>2. q.bridges[i] \in ToSet(q.bridges)
      BY DEF ToSet
    <3> QED
      BY <3>1, <3>2, NetplanHas, Zenon
  <2>5. k \in DOMAIN Ordered(q)
    BY DEF Own
  <2>6. \/ k \in DOMAIN q.interfaces
        \/ \E i \in DOMAIN q.bonds : k = BondAt(q, i)
        \/ \E i \in DOMAIN q.vlans : k = VlanAt(q, i)
        \/ \E i \in DOMAIN q.bridges : k = BridgeAt(q, i)
    BY <2>5, Sections, Zenon
  <2> QED
    BY <2>1, <2>2, <2>3, <2>4, <2>6
<1>7. ASSUME NEW f \in JoinedOf(q) PROVE f \in Netplan(q)
  <2>1. CASE \E b \in ToSet(q.bonds) : f \in NetplanPorts(b)
    BY <2>1, NetplanHas, Zenon
  <2>2. CASE \E b \in ToSet(q.bridges) : f \in NetplanPorts(b)
    BY <2>2, NetplanHas, Zenon
  <2>3. CASE \E b \in ToSet(q.bonds) : f = <<"bond", b.name, <<b.level, b.primary>> >>
    BY <2>3, NetplanHas, Zenon
  <2>4. CASE \E v \in ToSet(q.vlans) : f = <<"link", VlanName(v), v.parent>>
    BY <2>4, NetplanHas, Zenon
  <2> QED
    BY <2>1, <2>2, <2>3, <2>4, JoinedIs, Zenon
<1>8. ASSUME NEW f \in Netplan(q)
      PROVE  f[1] = "type" \/ f \in JoinedOf(q) \/ \E i \in Own(q) : f \in Written(q, i)
  <2>0. \A k, n, x : <<k, n, x>>[1] = k
    OBVIOUS
  <2>1. CASE f \in NetplanEthernets(q)
    <3>1. CASE \E o \in ToSet(q.interfaces) :
                o.name \notin Ports(q) /\ f \in NetplanDevice(q, o.name, o.l3, "ethernet", TRUE)
      <4>1. PICK i \in DOMAIN q.interfaces :
              /\ q.interfaces[i].name \notin Ports(q)
              /\ f \in NetplanDevice(q, q.interfaces[i].name, q.interfaces[i].l3, "ethernet", TRUE)
        BY <3>1, Zenon DEF ToSet
      <4>2. i \in Own(q)
        BY <4>1, OwnIs, Zenon
      <4>3. f = <<"type", NameAt(q, i), "ethernet">> \/ f \in Written(q, i)
        BY <1>1, <4>1
      <4> QED
        BY <2>0, <4>2, <4>3
    <3>2. CASE \E n : f = <<"type", n, "ethernet">>
      BY <2>0, <3>2
    <3> QED
      BY <2>1, <3>1, <3>2, EthernetsHave, Zenon
  <2>2. CASE \E o \in ToSet(q.bonds) : f \in NetplanDevice(q, o.name, o.l3, "bond", FALSE)
    <3>1. PICK i \in DOMAIN q.bonds : f \in NetplanDevice(q, q.bonds[i].name, q.bonds[i].l3, "bond", FALSE)
      BY <2>2, Zenon DEF ToSet
    <3>2. BondAt(q, i) \in Own(q) /\ (f \in Written(q, BondAt(q, i)) \/ \E n, x : f = <<"type", n, x>>)
      BY <1>3, <3>1
    <3> QED
      BY <2>0, <3>2, Zenon
  <2>3. CASE \E o \in ToSet(q.vlans) : f \in NetplanDevice(q, VlanName(o), o.l3, "vlan", FALSE)
    <3>1. PICK i \in DOMAIN q.vlans : f \in NetplanDevice(q, VlanName(q.vlans[i]), q.vlans[i].l3, "vlan", FALSE)
      BY <2>3, Zenon DEF ToSet
    <3>2. VlanAt(q, i) \in Own(q) /\ (f \in Written(q, VlanAt(q, i)) \/ \E n, x : f = <<"type", n, x>>)
      BY <1>4, <3>1
    <3> QED
      BY <2>0, <3>2, Zenon
  <2>4. CASE \E o \in ToSet(q.bridges) : f \in NetplanDevice(q, o.name, o.l3, "bridge", FALSE)
    <3>1. PICK i \in DOMAIN q.bridges : f \in NetplanDevice(q, q.bridges[i].name, q.bridges[i].l3, "bridge", FALSE)
      BY <2>4, Zenon DEF ToSet
    <3>2. BridgeAt(q, i) \in Own(q) /\ (f \in Written(q, BridgeAt(q, i)) \/ \E n, x : f = <<"type", n, x>>)
      BY <1>5, <3>1
    <3> QED
      BY <2>0, <3>2, Zenon
  <2> QED
    BY <2>1, <2>2, <2>3, <2>4, JoinedIs, NetplanHas, Zenon
<1> QED
  BY <1>6, <1>7, <1>8, Zenon DEF Settled, Joined, OnlyJoined, Belongs

-----------------------------------------------------------------------------
(* The lines of a script *)

IsList(s) == \E L : s \in Seq(L)

\* The members of lists that are put together.
LEMMA FlattenMembers ==
  ASSUME NEW L, NEW ss \in Seq(Seq(L))
  PROVE  ToSet(FlattenSeq(ss)) = UNION {ToSet(ss[i]) : i \in DOMAIN ss}
<1>1. CASE Len(ss) = 0
  <2>1. ss = <<>> /\ DOMAIN ss = {}
    BY <1>1, NoneInEmpty
  <2>2. ToSet(ss) = {}
    BY <2>1 DEF ToSet
  <2> QED
    BY <1>1, <2>1, <2>2 DEF FlattenSeq
<1>2. CASE Len(ss) # 0
  <2> DEFINE n == Len(ss)
             f == CHOOSE g : Flattens(g, ss, n)
             U(m) == UNION {ToSet(ss[i]) : i \in 1..m}
  <2>1. n \in Nat /\ n \in 1..n /\ DOMAIN ss = 1..n
    BY <1>2
  <2>2. Flattens(f, ss, n)
    BY <2>1, FlattensExists
  <2>3. FlattenSeq(ss) = f[n]
    BY <1>2 DEF FlattenSeq, Flattens
  <2> HIDE DEF f
  <2> DEFINE T == {i \in 1..n : ~(f[i] \in Seq(L) /\ ToSet(f[i]) = U(i))}
  <2>4. T = {}
    <3> SUFFICES ASSUME T # {} PROVE FALSE
      OBVIOUS
    <3>1. T \in SUBSET Nat
      BY <2>1
    <3>2. PICK m \in T : \A k \in T : m <= k
      BY <3>1, LeastNat
    <3>3. m \in 1..n /\ ~(f[m] \in Seq(L) /\ ToSet(f[m]) = U(m)) /\ ss[m] \in Seq(L)
      BY <2>1
    <3>4. f[m] = IF m = 1 THEN ss[m] ELSE f[m - 1] \o ss[m]
      BY <2>2, <3>3 DEF Flattens
    <3>5. CASE m = 1
      <4>1. U(m) = ToSet(ss[m])
        <5>1. 1..1 = {1}
          OBVIOUS
        <5> QED
          BY <3>5, <5>1
      <4>2. f[m] = ss[m]
        BY <3>4, <3>5
      <4> HIDE DEF U
      <4> QED
        BY <3>3, <4>1, <4>2
    <3>6. CASE m # 1
      <4>8. m - 1 \in 1..n /\ ~(m <= m - 1)
        BY <2>1, <3>3, <3>6
      <4>1. m - 1 \in 1..n /\ m - 1 \notin T
        BY <3>2, <4>8, Zenon
      <4>2. f[m - 1] \in Seq(L) /\ ToSet(f[m - 1]) = U(m - 1)
        BY <4>1, Zenon
      <4>3. f[m] = f[m - 1] \o ss[m]
        BY <3>4, <3>6
      <4>10. ss[m] \in Seq(L)
        BY <3>3
      <4>9. ASSUME NEW r \in Seq(L) PROVE ToSet(r \o ss[m]) = ToSet(r) \cup ToSet(ss[m])
        BY <4>10, ApartTogether
      <4>4. ToSet(f[m]) = U(m - 1) \cup ToSet(ss[m])
        BY <4>2, <4>3, <4>9
      <4>5. 1..m = (1..m - 1) \cup {m}
        BY <2>1, <3>3
      <4>6. U(m) = U(m - 1) \cup ToSet(ss[m])
        <5>1. \A A, B : A = B \cup {m} =>
                UNION {ToSet(ss[i]) : i \in A} = (UNION {ToSet(ss[i]) : i \in B}) \cup ToSet(ss[m])
          OBVIOUS
        <5> QED
          BY <4>5, <5>1
      <4>7. f[m] \in Seq(L)
        BY <3>3, <4>2, <4>3
      <4> HIDE DEF U
      <4> QED
        BY <3>3, <4>4, <4>6, <4>7
    <3> QED
      BY <3>5, <3>6
  <2>5. ToSet(f[n]) = U(n)
    BY <2>1, <2>4
  <2> QED
    BY <2>1, <2>3, <2>5
<1> QED
  BY <1>1, <1>2

LEMMA FlattenList ==
  ASSUME NEW X, NEW ss \in Seq(X), \A x \in X : IsList(x)
  PROVE  /\ IsList(FlattenSeq(ss))
         /\ ToSet(FlattenSeq(ss)) = UNION {ToSet(ss[i]) : i \in DOMAIN ss}
<1> DEFINE Of(x) == CHOOSE L : x \in Seq(L)
           M == UNION {Of(x) : x \in X}
<1>1. ASSUME NEW x \in X PROVE x \in Seq(M)
  <2>1. x \in Seq(Of(x))
    BY DEF IsList
  <2>2. Of(x) \subseteq M
    OBVIOUS
  <2> HIDE DEF Of, M
  <2> QED
    BY <2>1, <2>2
<1> HIDE DEF M
<1>2. X \subseteq Seq(M)
  BY <1>1
<1>3. ss \in Seq(Seq(M))
  BY <1>2
<1>4. <<>> \in Seq(M) /\ \A s, t \in Seq(M) : s \o t \in Seq(M)
  OBVIOUS
<1>5. FlattenSeq(ss) \in Seq(M)
  BY <1>3, <1>4, FlattenStays
<1> QED
  BY <1>3, <1>5, FlattenMembers DEF IsList

\* Two lists together.
LEMMA ListsTogether ==
  ASSUME NEW s, NEW t, IsList(s), IsList(t)
  PROVE  IsList(s \o t) /\ ToSet(s \o t) = ToSet(s) \cup ToSet(t)
<1>1. PICK L, M : s \in Seq(L) /\ t \in Seq(M)
  BY DEF IsList
<1>2. \A X, Y : Seq(X) \subseteq Seq(X \cup Y) /\ Seq(Y) \subseteq Seq(X \cup Y)
  OBVIOUS
<1>3. s \in Seq(L \cup M) /\ t \in Seq(L \cup M)
  BY <1>1, <1>2
<1>4. s \o t \in Seq(L \cup M)
  BY <1>3
<1> QED
  BY <1>3, <1>4, ApartTogether DEF IsList

LEMMA ShortLists ==
  ASSUME NEW x, NEW y
  PROVE  /\ IsList(<<x, y>>) /\ ToSet(<<x, y>>) = {x, y}
         /\ IsList(<<x>>) /\ ToSet(<<x>>) = {x}
<1>1. <<x, y>> \in Seq({x, y}) /\ DOMAIN <<x, y>> = 1..2
  OBVIOUS
<1>2. <<x>> \in Seq({x}) /\ DOMAIN <<x>> = 1..1
  OBVIOUS
<1>3. 1..2 = {1, 2} /\ 1..1 = {1}
  OBVIOUS
<1>4. <<x, y>>[1] = x /\ <<x, y>>[2] = y /\ <<x>>[1] = x
  OBVIOUS
<1> PICK s, t : s = <<x, y>> /\ t = <<x>>
  OBVIOUS
<1>5. ToSet(s) = {x, y} /\ ToSet(t) = {x}
  BY <1>1, <1>2, <1>3, <1>4 DEF ToSet
<1> QED
  BY <1>1, <1>2, <1>5 DEF IsList

\* The lines of ports.
LEMMA PortLinesAre ==
  ASSUME NEW master, NEW infix, NEW ports \in Seq(STRING)
  PROVE  /\ IsList(PortLines(master, infix, ports))
         /\ ToSet(PortLines(master, infix, ports)) =
              UNION {{Add(master \o infix \o p, {<<"master", p, master>>}), UpOrStop(master \o infix \o p)} :
                       p \in ToSet(ports)}
<1> DEFINE of(p) == <<Add(master \o infix \o p, {<<"master", p, master>>}), UpOrStop(master \o infix \o p)>>
           both(p) == {Add(master \o infix \o p, {<<"master", p, master>>}), UpOrStop(master \o infix \o p)}
           ss == [i \in DOMAIN ports |-> of(ports[i])]
           X == {of(ports[i]) : i \in DOMAIN ports}
<1>1. \A p : IsList(of(p)) /\ ToSet(of(p)) = both(p)
  BY ShortLists
<1>2. DOMAIN ports = 1..Len(ports) /\ Len(ports) \in Nat
  OBVIOUS
<1>3. PortLines(master, infix, ports) = FlattenSeq(ss)
  BY DEF PortLines
<1>4. \A i \in DOMAIN ports : of(ports[i]) \in X
  OBVIOUS
<1>5. \A x \in X : IsList(x)
  BY <1>1
<1> HIDE DEF of, X, both
<1>6. ss \in Seq(X) /\ DOMAIN ss = DOMAIN ports /\ \A i \in DOMAIN ss : ss[i] = of(ports[i])
  BY <1>2, <1>4
<1> HIDE DEF ss
<1>7. /\ IsList(FlattenSeq(ss))
      /\ ToSet(FlattenSeq(ss)) = UNION {ToSet(ss[i]) : i \in DOMAIN ss}
  BY <1>5, <1>6, FlattenList
<1>8. \A i \in DOMAIN ss : ToSet(ss[i]) = both(ports[i])
  BY <1>1, <1>6
<1>9. UNION {ToSet(ss[i]) : i \in DOMAIN ss} = UNION {both(p) : p \in ToSet(ports)}
  BY <1>6, <1>8 DEF ToSet
<1> QED
  BY <1>3, <1>7, <1>9 DEF both

\* The lines of a device, and those of its ports.
LinesOf(q, n, o, kind, facts) ==
  {Add(n, {<<"type", n, kind>>} \cup facts), Modify(n, Ipv4Lines(n, o, Metric(q, n))), Up(n)}

LinesOfPorts(o, infix) ==
  UNION {{Add(o.name \o infix \o p, {<<"master", p, o.name>>}), UpOrStop(o.name \o infix \o p)} :
           p \in ToSet(o.ports)}

LEMMA HeadLines ==
  ASSUME NEW q, NEW n, NEW o, NEW kind, NEW facts
  PROVE  /\ IsList(OwnLines(q, n, o, <<kind, facts>>)) /\ IsList(<<Up(n)>>)
         /\ LinesOf(q, n, o, kind, facts) = ToSet(OwnLines(q, n, o, <<kind, facts>>)) \cup ToSet(<<Up(n)>>)
<1> DEFINE a == Add(n, {<<"type", n, kind>>} \cup facts)
           b == Modify(n, Ipv4Lines(n, o, Metric(q, n)))
<1>1. OwnLines(q, n, o, <<kind, facts>>) = <<a, b>>
  BY DEF OwnLines
<1>2. LinesOf(q, n, o, kind, facts) = {a, b} \cup {Up(n)}
  BY DEF LinesOf
<1> HIDE DEF a, b
<1>3. IsList(<<a, b>>) /\ ToSet(<<a, b>>) = {a, b}
  BY ShortLists, Zenon
<1>4. IsList(<<Up(n)>>) /\ ToSet(<<Up(n)>>) = {Up(n)}
  BY ShortLists, Zenon
<1> QED
  BY <1>1, <1>2, <1>3, <1>4, Zenon

LEMMA OwnLinesAre ==
  ASSUME NEW q, NEW n, NEW o, NEW kind, NEW facts
  PROVE  /\ IsList(OwnLines(q, n, o, <<kind, facts>>) \o <<Up(n)>>)
         /\ ToSet(OwnLines(q, n, o, <<kind, facts>>) \o <<Up(n)>>) = LinesOf(q, n, o, kind, facts)
<1> PICK h : h = OwnLines(q, n, o, <<kind, facts>>)
  OBVIOUS
<1> PICK e : e = <<Up(n)>>
  OBVIOUS
<1>1. /\ IsList(h) /\ IsList(e)
      /\ LinesOf(q, n, o, kind, facts) = ToSet(h) \cup ToSet(e)
  BY HeadLines, Zenon
<1>2. IsList(h \o e) /\ ToSet(h \o e) = ToSet(h) \cup ToSet(e)
  BY <1>1, ListsTogether
<1> QED
  BY <1>1, <1>2

Around(q, n, o, kind, facts, s) == OwnLines(q, n, o, <<kind, facts>>) \o s \o <<Up(n)>>

LEMMA LinesAround ==
  ASSUME NEW q, NEW n, NEW o, NEW kind, NEW facts, NEW s, IsList(s)
  PROVE  /\ IsList(Around(q, n, o, kind, facts, s))
         /\ ToSet(Around(q, n, o, kind, facts, s)) = LinesOf(q, n, o, kind, facts) \cup ToSet(s)
<1> PICK h : h = OwnLines(q, n, o, <<kind, facts>>)
  OBVIOUS
<1> PICK e : e = <<Up(n)>>
  OBVIOUS
<1>1. /\ IsList(h) /\ IsList(e)
      /\ LinesOf(q, n, o, kind, facts) = ToSet(h) \cup ToSet(e)
  BY HeadLines, Zenon
<1>2. IsList(h \o s) /\ ToSet(h \o s) = ToSet(h) \cup ToSet(s)
  BY <1>1, ListsTogether
<1>3. IsList(h \o s \o e) /\ ToSet(h \o s \o e) = ToSet(h \o s) \cup ToSet(e)
  BY <1>1, <1>2, ListsTogether
<1> QED
  BY <1>1, <1>2, <1>3 DEF Around

BondFact(o) == <<"bond", o.name, <<o.level, o.primary>> >>

LEMMA DeviceLinesAre ==
  ASSUME NEW q \in Request
  PROVE  /\ \A i \in DOMAIN q.interfaces :
              LET o == q.interfaces[i]
              IN /\ IsList(IfaceLines(q, o))
                 /\ ToSet(IfaceLines(q, o)) = LinesOf(q, o.name, o.l3, "ethernet", {})
         /\ \A i \in DOMAIN q.bonds :
              LET o == q.bonds[i]
              IN /\ IsList(BondLines(q, o))
                 /\ ToSet(BondLines(q, o)) =
                      LinesOf(q, o.name, o.l3, "bond", {BondFact(o)}) \cup LinesOfPorts(o, "-slave-")
         /\ \A i \in DOMAIN q.vlans :
              LET o == q.vlans[i]
              IN /\ IsList(VlanLines(q, o))
                 /\ ToSet(VlanLines(q, o)) =
                      LinesOf(q, VlanName(o), o.l3, "vlan", {<<"link", VlanName(o), o.parent>>})
         /\ \A i \in DOMAIN q.bridges :
              LET o == q.bridges[i]
              IN /\ IsList(BridgeLines(q, o))
                 /\ ToSet(BridgeLines(q, o)) =
                      LinesOf(q, o.name, o.l3, "bridge", {}) \cup LinesOfPorts(o, "-port-")
<1>1. ASSUME NEW o
      PROVE  IsList(IfaceLines(q, o)) /\ ToSet(IfaceLines(q, o)) = LinesOf(q, o.name, o.l3, "ethernet", {})
  <2>1. IfaceLines(q, o) = OwnLines(q, o.name, o.l3, <<"ethernet", {}>>) \o <<Up(o.name)>>
    BY Zenon DEF IfaceLines
  <2> QED
    BY <2>1, OwnLinesAre
<1>2. ASSUME NEW o
      PROVE  /\ IsList(VlanLines(q, o))
             /\ ToSet(VlanLines(q, o)) =
                  LinesOf(q, VlanName(o), o.l3, "vlan", {<<"link", VlanName(o), o.parent>>})
  <2>1. VlanLines(q, o) = OwnLines(q, VlanName(o), o.l3, <<"vlan", {<<"link", VlanName(o), o.parent>>}>>)
                            \o <<Up(VlanName(o))>>
    BY Zenon DEF VlanLines
  <2> QED
    BY <2>1, OwnLinesAre
<1>3. ASSUME NEW o, o.ports \in Seq(STRING)
      PROVE  /\ IsList(BondLines(q, o))
             /\ ToSet(BondLines(q, o)) =
                  LinesOf(q, o.name, o.l3, "bond", {BondFact(o)}) \cup LinesOfPorts(o, "-slave-")
  <2>1. /\ IsList(PortLines(o.name, "-slave-", o.ports))
        /\ ToSet(PortLines(o.name, "-slave-", o.ports)) = LinesOfPorts(o, "-slave-")
    BY <1>3, PortLinesAre, Zenon DEF LinesOfPorts
  <2>2. BondLines(q, o) = Around(q, o.name, o.l3, "bond", {BondFact(o)}, PortLines(o.name, "-slave-", o.ports))
    BY Zenon DEF BondLines, BondFact, Around
  <2> QED
    BY <2>1, <2>2, LinesAround
<1>4. ASSUME NEW o, o.ports \in Seq(STRING)
      PROVE  /\ IsList(BridgeLines(q, o))
             /\ ToSet(BridgeLines(q, o)) =
                  LinesOf(q, o.name, o.l3, "bridge", {}) \cup LinesOfPorts(o, "-port-")
  <2>1. /\ IsList(PortLines(o.name, "-port-", o.ports))
        /\ ToSet(PortLines(o.name, "-port-", o.ports)) = LinesOfPorts(o, "-port-")
    BY <1>4, PortLinesAre, Zenon DEF LinesOfPorts
  <2>2. BridgeLines(q, o) = Around(q, o.name, o.l3, "bridge", {}, PortLines(o.name, "-port-", o.ports))
    BY Zenon DEF BridgeLines, BondFact, Around
  <2> QED
    BY <2>1, <2>2, LinesAround
<1>5. /\ \A i \in DOMAIN q.bonds : q.bonds[i].ports \in Seq(STRING)
      /\ \A i \in DOMAIN q.bridges : q.bridges[i].ports \in Seq(STRING)
  BY RequestIs DEF Bond, Bridge
<1> QED
  BY <1>1, <1>2, <1>3, <1>4, <1>5, Zenon

\* The lines of a script, device by device.
LEMMA ScriptIs ==
  ASSUME NEW q \in Request, NEW l
  PROVE  l \in ToSet(Script(q)) <=>
           \/ \E i \in DOMAIN q.interfaces :
                /\ q.interfaces[i].name \notin Ports(q)
                /\ l \in LinesOf(q, q.interfaces[i].name, q.interfaces[i].l3, "ethernet", {})
           \/ \E i \in DOMAIN q.bonds :
                \/ l \in LinesOf(q, q.bonds[i].name, q.bonds[i].l3, "bond", {BondFact(q.bonds[i])})
                \/ l \in LinesOfPorts(q.bonds[i], "-slave-")
           \/ \E i \in DOMAIN q.vlans :
                l \in LinesOf(q, VlanName(q.vlans[i]), q.vlans[i].l3, "vlan",
                              {<<"link", VlanName(q.vlans[i]), q.vlans[i].parent>>})
           \/ \E i \in DOMAIN q.bridges :
                \/ l \in LinesOf(q, q.bridges[i].name, q.bridges[i].l3, "bridge", {})
                \/ l \in LinesOfPorts(q.bridges[i], "-port-")
<1> DEFINE iface(i) == IF q.interfaces[i].name \in Ports(q) THEN <<>> ELSE IfaceLines(q, q.interfaces[i])
           bond(i) == BondLines(q, q.bonds[i])
           vlan(i) == VlanLines(q, q.vlans[i])
           bridge(i) == BridgeLines(q, q.bridges[i])
           X == {iface(i) : i \in DOMAIN q.interfaces} \cup {bond(i) : i \in DOMAIN q.bonds}
                  \cup {vlan(i) : i \in DOMAIN q.vlans} \cup {bridge(i) : i \in DOMAIN q.bridges}
           ifaces == [i \in DOMAIN q.interfaces |-> iface(i)]
           bonds == [i \in DOMAIN q.bonds |-> bond(i)]
           vlans == [i \in DOMAIN q.vlans |-> vlan(i)]
           bridges == [i \in DOMAIN q.bridges |-> bridge(i)]
<1>1. IsList(<<>>) /\ ToSet(<<>>) = {}
  <2>1. <<>> \in Seq({})
    OBVIOUS
  <2> QED
    BY <2>1, NoneInEmpty DEF IsList, ToSet
<1>2. \A i \in DOMAIN q.interfaces :
        /\ IsList(iface(i))
        /\ l \in ToSet(iface(i)) <=>
             /\ q.interfaces[i].name \notin Ports(q)
             /\ l \in LinesOf(q, q.interfaces[i].name, q.interfaces[i].l3, "ethernet", {})
  BY <1>1, DeviceLinesAre
<1>3. \A x \in X : IsList(x)
  BY <1>2, DeviceLinesAre
<1>4. /\ \A i \in DOMAIN q.interfaces : iface(i) \in X
      /\ \A i \in DOMAIN q.bonds : bond(i) \in X
      /\ \A i \in DOMAIN q.vlans : vlan(i) \in X
      /\ \A i \in DOMAIN q.bridges : bridge(i) \in X
  OBVIOUS
<1>5. Script(q) = FlattenSeq(ifaces \o bonds \o vlans \o bridges)
  BY DEF Script
<1> HIDE DEF X, iface
<1>6. ifaces \in Seq(X) /\ bonds \in Seq(X) /\ vlans \in Seq(X) /\ bridges \in Seq(X)
  <2> HIDE DEF bond, vlan, bridge
  <2>1. /\ DOMAIN q.interfaces = 1..Len(q.interfaces) /\ Len(q.interfaces) \in Nat
        /\ DOMAIN q.bonds = 1..Len(q.bonds) /\ Len(q.bonds) \in Nat
        /\ DOMAIN q.vlans = 1..Len(q.vlans) /\ Len(q.vlans) \in Nat
        /\ DOMAIN q.bridges = 1..Len(q.bridges) /\ Len(q.bridges) \in Nat
    BY RequestIs
  <2> QED
    BY <1>4, <2>1
<1>7. /\ ToSet(ifaces) = {iface(i) : i \in DOMAIN q.interfaces}
      /\ ToSet(bonds) = {bond(i) : i \in DOMAIN q.bonds}
      /\ ToSet(vlans) = {vlan(i) : i \in DOMAIN q.vlans}
      /\ ToSet(bridges) = {bridge(i) : i \in DOMAIN q.bridges}
  <2> HIDE DEF bond, vlan, bridge
  <2> QED
    BY DEF ToSet
<1> HIDE DEF ifaces, bonds, vlans, bridges
<1> PICK ss : ss = ifaces \o bonds \o vlans \o bridges
  OBVIOUS
<1>8. ss \in Seq(X)
  BY <1>6
<1>9. ToSet(ss) = ToSet(ifaces) \cup ToSet(bonds) \cup ToSet(vlans) \cup ToSet(bridges)
  <2> PICK a : a = ifaces \o bonds
    OBVIOUS
  <2> PICK b : b = a \o vlans
    OBVIOUS
  <2>1. ToSet(a) = ToSet(ifaces) \cup ToSet(bonds) /\ a \in Seq(X)
    BY <1>6, ApartTogether
  <2>2. ToSet(b) = ToSet(a) \cup ToSet(vlans)
    BY <1>6, <2>1, ApartTogether, Zenon
  <2>5. b \in Seq(X)
    BY <1>6, <2>1
  <2>3. ToSet(b \o bridges) = ToSet(b) \cup ToSet(bridges)
    BY <1>6, <2>5, ApartTogether, ZenonT(30)
  <2>4. ss = b \o bridges
    OBVIOUS
  <2> QED
    BY <2>1, <2>2, <2>3, <2>4
<1>10. ToSet(FlattenSeq(ss)) = UNION {ToSet(ss[i]) : i \in DOMAIN ss}
  BY <1>3, <1>8, FlattenList
<1>11. l \in ToSet(Script(q)) <=> \E s \in ToSet(ss) : l \in ToSet(s)
  <2>1. \A s : s \in ToSet(ss) <=> \E i \in DOMAIN ss : s = ss[i]
    BY DEF ToSet
  <2>2. l \in UNION {ToSet(ss[i]) : i \in DOMAIN ss} <=> \E i \in DOMAIN ss : l \in ToSet(ss[i])
    OBVIOUS
  <2>3. l \in ToSet(Script(q)) <=> \E i \in DOMAIN ss : l \in ToSet(ss[i])
    BY <1>5, <1>10, <2>2, Zenon
  <2> QED
    BY <2>1, <2>3, Zenon
<1>12. (\E s \in ToSet(ss) : l \in ToSet(s)) <=>
         \/ \E i \in DOMAIN q.interfaces : l \in ToSet(iface(i))
         \/ \E i \in DOMAIN q.bonds : l \in ToSet(bond(i))
         \/ \E i \in DOMAIN q.vlans : l \in ToSet(vlan(i))
         \/ \E i \in DOMAIN q.bridges : l \in ToSet(bridge(i))
  <2> HIDE DEF bond, vlan, bridge
  <2> QED
    BY <1>7, <1>9
<1>13. /\ \A i \in DOMAIN q.bonds : l \in ToSet(bond(i)) <=>
            \/ l \in LinesOf(q, q.bonds[i].name, q.bonds[i].l3, "bond", {BondFact(q.bonds[i])})
            \/ l \in LinesOfPorts(q.bonds[i], "-slave-")
       /\ \A i \in DOMAIN q.vlans : l \in ToSet(vlan(i)) <=>
            l \in LinesOf(q, VlanName(q.vlans[i]), q.vlans[i].l3, "vlan",
                          {<<"link", VlanName(q.vlans[i]), q.vlans[i].parent>>})
       /\ \A i \in DOMAIN q.bridges : l \in ToSet(bridge(i)) <=>
            \/ l \in LinesOf(q, q.bridges[i].name, q.bridges[i].l3, "bridge", {})
            \/ l \in LinesOfPorts(q.bridges[i], "-port-")
  BY DeviceLinesAre
<1> HIDE DEF bond, vlan, bridge
<1> QED
  BY <1>2, <1>11, <1>12, <1>13, Zenon

\* The lines that add a connection, device by device.
DeviceAdd(n, kind, facts) == Add(n, {<<"type", n, kind>>} \cup facts)
PortAdd(o, infix, p) == Add(o.name \o infix \o p, {<<"master", p, o.name>>})

AddOf(q, l) ==
  \/ \E i \in DOMAIN q.interfaces :
       q.interfaces[i].name \notin Ports(q) /\ l = DeviceAdd(q.interfaces[i].name, "ethernet", {})
  \/ \E i \in DOMAIN q.bonds : l = DeviceAdd(q.bonds[i].name, "bond", {BondFact(q.bonds[i])})
  \/ \E i \in DOMAIN q.vlans :
       l = DeviceAdd(VlanName(q.vlans[i]), "vlan", {<<"link", VlanName(q.vlans[i]), q.vlans[i].parent>>})
  \/ \E i \in DOMAIN q.bridges : l = DeviceAdd(q.bridges[i].name, "bridge", {})
  \/ \E i \in DOMAIN q.bonds : \E p \in ToSet(q.bonds[i].ports) : l = PortAdd(q.bonds[i], "-slave-", p)
  \/ \E i \in DOMAIN q.bridges : \E p \in ToSet(q.bridges[i].ports) : l = PortAdd(q.bridges[i], "-port-", p)

LEMMA LineOfDevice ==
  ASSUME NEW q, NEW n, NEW o, NEW kind, NEW facts, NEW l
  PROVE  l \in LinesOf(q, n, o, kind, facts) <=>
           \/ l = DeviceAdd(n, kind, facts)
           \/ l = Modify(n, Ipv4Lines(n, o, Metric(q, n)))
           \/ l = Up(n)
BY Zenon DEF LinesOf, DeviceAdd

LEMMA LineOfPort ==
  ASSUME NEW o, NEW infix, NEW l
  PROVE  l \in LinesOfPorts(o, infix) <=>
           \E p \in ToSet(o.ports) :
             \/ l = PortAdd(o, infix, p)
             \/ l = UpOrStop(o.name \o infix \o p)
BY DEF LinesOfPorts, PortAdd

\* The lines that add are told by what the devices are, not by their settings.
LEMMA AddsAre ==
  ASSUME NEW q \in Request, NEW l, l.do = "add"
  PROVE  l \in ToSet(Script(q)) <=> AddOf(q, l)
<1>0. (\A n, x : l # Modify(n, x)) /\ (\A n : l # Up(n)) /\ (\A n : l # UpOrStop(n))
  <2>1. \A n, x : Modify(n, x).do = "modify"
    BY DEF Modify
  <2>2. \A n : Up(n).do = "up" /\ UpOrStop(n).do = "up or stop"
    BY DEF Up, UpOrStop
  <2> QED
    BY <2>1, <2>2
<1>1. ASSUME NEW n, NEW o, NEW kind, NEW facts
      PROVE  l \in LinesOf(q, n, o, kind, facts) <=> l = DeviceAdd(n, kind, facts)
  <2>1. l # Modify(n, Ipv4Lines(n, o, Metric(q, n))) /\ l # Up(n)
    BY <1>0
  <2>2. l \in LinesOf(q, n, o, kind, facts)
          <=> \/ l = DeviceAdd(n, kind, facts)
              \/ l = Modify(n, Ipv4Lines(n, o, Metric(q, n)))
              \/ l = Up(n)
    BY LineOfDevice
  <2> QED
    BY <2>1, <2>2
<1>2. ASSUME NEW o, NEW infix
      PROVE  l \in LinesOfPorts(o, infix) <=>
               \E p \in ToSet(o.ports) : l = PortAdd(o, infix, p)
  <2>1. l \in LinesOfPorts(o, infix) <=>
          \E p \in ToSet(o.ports) : l = PortAdd(o, infix, p) \/ l = UpOrStop(o.name \o infix \o p)
    BY LineOfPort
  <2> QED
    BY <1>0, <2>1, Zenon
<1>3. \A i \in DOMAIN q.interfaces :
        l \in LinesOf(q, q.interfaces[i].name, q.interfaces[i].l3, "ethernet", {})
          <=> l = DeviceAdd(q.interfaces[i].name, "ethernet", {})
  BY <1>1
<1>4. \A i \in DOMAIN q.bonds :
        /\ l \in LinesOf(q, q.bonds[i].name, q.bonds[i].l3, "bond", {BondFact(q.bonds[i])})
             <=> l = DeviceAdd(q.bonds[i].name, "bond", {BondFact(q.bonds[i])})
        /\ l \in LinesOfPorts(q.bonds[i], "-slave-")
             <=> \E p \in ToSet(q.bonds[i].ports) : l = PortAdd(q.bonds[i], "-slave-", p)
  BY <1>1, <1>2
<1>5. \A i \in DOMAIN q.vlans :
        l \in LinesOf(q, VlanName(q.vlans[i]), q.vlans[i].l3, "vlan",
                      {<<"link", VlanName(q.vlans[i]), q.vlans[i].parent>>})
          <=> l = DeviceAdd(VlanName(q.vlans[i]), "vlan",
                            {<<"link", VlanName(q.vlans[i]), q.vlans[i].parent>>})
  BY <1>1
<1>6. \A i \in DOMAIN q.bridges :
        /\ l \in LinesOf(q, q.bridges[i].name, q.bridges[i].l3, "bridge", {})
             <=> l = DeviceAdd(q.bridges[i].name, "bridge", {})
        /\ l \in LinesOfPorts(q.bridges[i], "-port-")
             <=> \E p \in ToSet(q.bridges[i].ports) : l = PortAdd(q.bridges[i], "-port-", p)
  BY <1>1, <1>2
<1> QED
  BY <1>3, <1>4, <1>5, <1>6, ScriptIs DEF AddOf

\* A port is one of a bond or of a bridge.
LEMMA PortIs ==
  ASSUME NEW q \in Request, NEW n
  PROVE  n \in Ports(q) <=>
           \/ \E i \in DOMAIN q.bonds : n \in ToSet(q.bonds[i].ports)
           \/ \E i \in DOMAIN q.bridges : n \in ToSet(q.bridges[i].ports)
<1>1. n \in Ports(q) <=> \E b \in ToSet(Masters(q)) : n \in ToSet(b.ports)
  BY DEF Ports, ToSet
<1>2. /\ \A b : b \in ToSet(q.bonds) <=> \E i \in DOMAIN q.bonds : b = q.bonds[i]
      /\ \A b : b \in ToSet(q.bridges) <=> \E i \in DOMAIN q.bridges : b = q.bridges[i]
  BY DEF ToSet
<1> QED
  BY <1>1, <1>2, MastersAre

\* Two lines that say the same, but for the options of a bond.
SameButBond(l, m) ==
  /\ m.do = l.do /\ m.con = l.con
  /\ \A f : f[1] # "bond" => (f \in l.facts <=> f \in m.facts)

\* The devices of a request and of its correction are added by the same lines, but for
\* the options of a bond.
LEMMA SameAdds ==
  ASSUME NEW p \in Request, NEW q \in Request, SameDevices(p, q), NEW l, l.do = "add"
  PROVE  l \in ToSet(Script(p)) => \E m \in ToSet(Script(q)) : SameButBond(l, m)
<1>1. /\ DOMAIN p.interfaces = DOMAIN q.interfaces
      /\ \A i \in DOMAIN p.interfaces : p.interfaces[i].name = q.interfaces[i].name
  <2> DEFINE a == [i \in DOMAIN p.interfaces |-> [p.interfaces[i] EXCEPT !.l3 = 0]]
             b == [i \in DOMAIN q.interfaces |-> [q.interfaces[i] EXCEPT !.l3 = 0]]
  <2>1. a = b
    BY DEF SameDevices
  <2>2. DOMAIN a = DOMAIN b
    BY <2>1, Zenon
  <2>3. ASSUME NEW i \in DOMAIN p.interfaces
        PROVE  [p.interfaces[i] EXCEPT !.l3 = 0] = [q.interfaces[i] EXCEPT !.l3 = 0]
    <3>1. a[i] = b[i]
      BY <2>1, Zenon
    <3> QED
      BY <2>2, <3>1
  <2>4. \A i \in DOMAIN p.interfaces : p.interfaces[i] \in Interface /\ q.interfaces[i] \in Interface
    BY <2>2, RequestIs
  <2> QED
    BY <2>2, <2>3, <2>4 DEF Interface
<1>2. /\ DOMAIN p.bonds = DOMAIN q.bonds
      /\ \A i \in DOMAIN p.bonds :
           p.bonds[i].name = q.bonds[i].name /\ p.bonds[i].ports = q.bonds[i].ports
  <2> DEFINE a == [i \in DOMAIN p.bonds |-> [p.bonds[i] EXCEPT !.l3 = 0, !.level = 0, !.primary = ""]]
             b == [i \in DOMAIN q.bonds |-> [q.bonds[i] EXCEPT !.l3 = 0, !.level = 0, !.primary = ""]]
  <2>1. a = b
    BY DEF SameDevices
  <2>2. DOMAIN a = DOMAIN b
    BY <2>1, Zenon
  <2>3. ASSUME NEW i \in DOMAIN p.bonds
        PROVE  [p.bonds[i] EXCEPT !.l3 = 0, !.level = 0, !.primary = ""]
                 = [q.bonds[i] EXCEPT !.l3 = 0, !.level = 0, !.primary = ""]
    <3>1. a[i] = b[i]
      BY <2>1, Zenon
    <3> QED
      BY <2>2, <3>1
  <2>4. \A i \in DOMAIN p.bonds : p.bonds[i] \in Bond /\ q.bonds[i] \in Bond
    BY <2>2, RequestIs
  <2> QED
    BY <2>2, <2>3, <2>4 DEF Bond
<1>3. /\ DOMAIN p.vlans = DOMAIN q.vlans
      /\ \A i \in DOMAIN p.vlans : p.vlans[i].parent = q.vlans[i].parent /\ p.vlans[i].id = q.vlans[i].id
  <2> DEFINE a == [i \in DOMAIN p.vlans |-> [p.vlans[i] EXCEPT !.l3 = 0]]
             b == [i \in DOMAIN q.vlans |-> [q.vlans[i] EXCEPT !.l3 = 0]]
  <2>1. a = b
    BY DEF SameDevices
  <2>2. DOMAIN a = DOMAIN b
    BY <2>1, Zenon
  <2>3. ASSUME NEW i \in DOMAIN p.vlans
        PROVE  [p.vlans[i] EXCEPT !.l3 = 0] = [q.vlans[i] EXCEPT !.l3 = 0]
    <3>1. a[i] = b[i]
      BY <2>1, Zenon
    <3> QED
      BY <2>2, <3>1
  <2>4. \A i \in DOMAIN p.vlans : p.vlans[i] \in Vlan /\ q.vlans[i] \in Vlan
    BY <2>2, RequestIs
  <2> QED
    BY <2>2, <2>3, <2>4 DEF Vlan
<1>4. /\ DOMAIN p.bridges = DOMAIN q.bridges
      /\ \A i \in DOMAIN p.bridges :
           p.bridges[i].name = q.bridges[i].name /\ p.bridges[i].ports = q.bridges[i].ports
  <2> DEFINE a == [i \in DOMAIN p.bridges |-> [p.bridges[i] EXCEPT !.l3 = 0]]
             b == [i \in DOMAIN q.bridges |-> [q.bridges[i] EXCEPT !.l3 = 0]]
  <2>1. a = b
    BY DEF SameDevices
  <2>2. DOMAIN a = DOMAIN b
    BY <2>1, Zenon
  <2>3. ASSUME NEW i \in DOMAIN p.bridges
        PROVE  [p.bridges[i] EXCEPT !.l3 = 0] = [q.bridges[i] EXCEPT !.l3 = 0]
    <3>1. a[i] = b[i]
      BY <2>1, Zenon
    <3> QED
      BY <2>2, <3>1
  <2>4. \A i \in DOMAIN p.bridges : p.bridges[i] \in Bridge /\ q.bridges[i] \in Bridge
    BY <2>2, RequestIs
  <2> QED
    BY <2>2, <2>3, <2>4 DEF Bridge
<1>5. Ports(p) = Ports(q)
  BY <1>2, <1>4, PortIs, ZenonT(30)
<1>6. \A i \in DOMAIN p.vlans : VlanName(p.vlans[i]) = VlanName(q.vlans[i])
  BY <1>3 DEF VlanName
<1>7. ASSUME NEW i \in DOMAIN p.bonds
      PROVE  SameButBond(DeviceAdd(p.bonds[i].name, "bond", {BondFact(p.bonds[i])}),
                         DeviceAdd(q.bonds[i].name, "bond", {BondFact(q.bonds[i])}))
  <2>1. p.bonds[i].name = q.bonds[i].name
    BY <1>2
  <2>2. BondFact(p.bonds[i])[1] = "bond" /\ BondFact(q.bonds[i])[1] = "bond"
    BY DEF BondFact
  <2> QED
    BY <2>1, <2>2 DEF SameButBond, DeviceAdd, Add
<1>9. \A i \in DOMAIN p.bonds : \A n : PortAdd(p.bonds[i], "-slave-", n) = PortAdd(q.bonds[i], "-slave-", n)
  BY <1>2 DEF PortAdd
<1>10. \A i \in DOMAIN p.bridges : \A n : PortAdd(p.bridges[i], "-port-", n) = PortAdd(q.bridges[i], "-port-", n)
  BY <1>4 DEF PortAdd
<1>11. SameButBond(l, l)
  BY DEF SameButBond
<1>8. ASSUME AddOf(p, l) PROVE \E m : AddOf(q, m) /\ m.do = "add" /\ SameButBond(l, m)
  <2>1. CASE \E i \in DOMAIN p.interfaces :
               p.interfaces[i].name \notin Ports(p) /\ l = DeviceAdd(p.interfaces[i].name, "ethernet", {})
    <3>1. AddOf(q, l)
      BY <2>1, <1>1, <1>5 DEF AddOf
    <3> QED
      BY <3>1, <1>11
  <2>2. CASE \E i \in DOMAIN p.bonds : l = DeviceAdd(p.bonds[i].name, "bond", {BondFact(p.bonds[i])})
    <3>1. PICK i \in DOMAIN p.bonds : l = DeviceAdd(p.bonds[i].name, "bond", {BondFact(p.bonds[i])})
      BY <2>2
    <3> PICK m : m = DeviceAdd(q.bonds[i].name, "bond", {BondFact(q.bonds[i])})
      OBVIOUS
    <3>2. SameButBond(l, m)
      BY <1>7, <3>1
    <3>3. AddOf(q, m)
      BY <1>2 DEF AddOf
    <3> QED
      BY <3>2, <3>3 DEF SameButBond
  <2>3. CASE \E i \in DOMAIN p.vlans :
               l = DeviceAdd(VlanName(p.vlans[i]), "vlan",
                             {<<"link", VlanName(p.vlans[i]), p.vlans[i].parent>>})
    <3>1. AddOf(q, l)
      BY <2>3, <1>3, <1>6 DEF AddOf
    <3> QED
      BY <3>1, <1>11
  <2>4. CASE \E i \in DOMAIN p.bridges : l = DeviceAdd(p.bridges[i].name, "bridge", {})
    <3>1. AddOf(q, l)
      BY <2>4, <1>4 DEF AddOf
    <3> QED
      BY <3>1, <1>11
  <2>5. CASE \E i \in DOMAIN p.bonds : \E n \in ToSet(p.bonds[i].ports) : l = PortAdd(p.bonds[i], "-slave-", n)
    <3>1. AddOf(q, l)
      BY <2>5, <1>2, <1>9 DEF AddOf
    <3> QED
      BY <3>1, <1>11
  <2>6. CASE \E i \in DOMAIN p.bridges : \E n \in ToSet(p.bridges[i].ports) : l = PortAdd(p.bridges[i], "-port-", n)
    <3>1. AddOf(q, l)
      BY <2>6, <1>4, <1>10 DEF AddOf
    <3> QED
      BY <3>1, <1>11
  <2> QED
    BY <1>8, <2>1, <2>2, <2>3, <2>4, <2>5, <2>6, Zenon DEF AddOf
<1> QED
  BY <1>8, AddsAre

\* It does not matter which of the two came first.
LEMMA SameBack ==
  ASSUME NEW p \in Request, NEW q \in Request, SameDevices(p, q)
  PROVE  SameDevices(q, p)
BY DEF SameDevices

\* A script modifies each device that has settings of its own, with these settings.
LEMMA ModifiesAre ==
  ASSUME NEW q \in Request, q.format = "nmcli", NEW l, l.do = "modify"
  PROVE  l \in ToSet(Script(q)) <=> \E i \in Own(q) : l = Modify(NameAt(q, i), Written(q, i))
<1>0. (\A n, x : l # Add(n, x)) /\ (\A n : l # Up(n)) /\ (\A n : l # UpOrStop(n))
  <2>1. \A n, x : Add(n, x).do = "add"
    BY DEF Add
  <2>2. \A n : Up(n).do = "up" /\ UpOrStop(n).do = "up or stop"
    BY DEF Up, UpOrStop
  <2> QED
    BY <2>1, <2>2
<1>1. ASSUME NEW n, NEW o, NEW kind, NEW facts
      PROVE  l \in LinesOf(q, n, o, kind, facts) <=> l = Modify(n, Ipv4Lines(n, o, Metric(q, n)))
  <2>1. l # DeviceAdd(n, kind, facts) /\ l # Up(n)
    BY <1>0 DEF DeviceAdd
  <2>2. l \in LinesOf(q, n, o, kind, facts)
          <=> \/ l = DeviceAdd(n, kind, facts)
              \/ l = Modify(n, Ipv4Lines(n, o, Metric(q, n)))
              \/ l = Up(n)
    BY LineOfDevice
  <2> QED
    BY <2>1, <2>2
<1>2. ASSUME NEW o, NEW infix PROVE l \notin LinesOfPorts(o, infix)
  <2>1. \A p : l # PortAdd(o, infix, p)
    BY <1>0 DEF PortAdd
  <2> QED
    BY <1>0, <2>1, LineOfPort
<1> DEFINE M(n, o) == Modify(n, Ipv4Lines(n, o, Metric(q, n)))
<1>3. \A i \in Own(q) : Modify(NameAt(q, i), Written(q, i)) = M(NameAt(q, i), L3At(q, i))
  BY DEF Written
<1> DEFINE At(i) == l = M(NameAt(q, i), L3At(q, i))
<1>4. \A i \in DOMAIN q.interfaces :
        l \in LinesOf(q, q.interfaces[i].name, q.interfaces[i].l3, "ethernet", {}) <=> At(i)
  <2>1. \A i \in DOMAIN q.interfaces : NameAt(q, i) = q.interfaces[i].name /\ L3At(q, i) = q.interfaces[i].l3
    BY Sections, Zenon
  <2> QED
    BY <1>1, <2>1
<1>5. \A i \in DOMAIN q.bonds :
        l \in LinesOf(q, q.bonds[i].name, q.bonds[i].l3, "bond", {BondFact(q.bonds[i])}) <=> At(BondAt(q, i))
  <2>1. \A i \in DOMAIN q.bonds :
          NameAt(q, BondAt(q, i)) = q.bonds[i].name /\ L3At(q, BondAt(q, i)) = q.bonds[i].l3
    BY Sections, Zenon
  <2> QED
    BY <1>1, <2>1
<1>6. \A i \in DOMAIN q.vlans :
        l \in LinesOf(q, VlanName(q.vlans[i]), q.vlans[i].l3, "vlan",
                      {<<"link", VlanName(q.vlans[i]), q.vlans[i].parent>>}) <=> At(VlanAt(q, i))
  <2>1. \A i \in DOMAIN q.vlans :
          NameAt(q, VlanAt(q, i)) = VlanName(q.vlans[i]) /\ L3At(q, VlanAt(q, i)) = q.vlans[i].l3
    BY Sections, Zenon
  <2> QED
    BY <1>1, <2>1
<1>7. \A i \in DOMAIN q.bridges :
        l \in LinesOf(q, q.bridges[i].name, q.bridges[i].l3, "bridge", {}) <=> At(BridgeAt(q, i))
  <2>1. \A i \in DOMAIN q.bridges :
          NameAt(q, BridgeAt(q, i)) = q.bridges[i].name /\ L3At(q, BridgeAt(q, i)) = q.bridges[i].l3
    BY Sections, Zenon
  <2> QED
    BY <1>1, <2>1
<1> HIDE DEF At
<1>8. l \in ToSet(Script(q)) <=>
        \/ \E i \in DOMAIN q.interfaces : q.interfaces[i].name \notin Ports(q) /\ At(i)
        \/ \E i \in DOMAIN q.bonds : At(BondAt(q, i))
        \/ \E i \in DOMAIN q.vlans : At(VlanAt(q, i))
        \/ \E i \in DOMAIN q.bridges : At(BridgeAt(q, i))
  BY <1>2, <1>4, <1>5, <1>6, <1>7, ScriptIs
<1>9. (\E i \in Own(q) : At(i)) <=>
        \/ \E i \in DOMAIN q.interfaces : q.interfaces[i].name \notin Ports(q) /\ At(i)
        \/ \E i \in DOMAIN q.bonds : At(BondAt(q, i))
        \/ \E i \in DOMAIN q.vlans : At(VlanAt(q, i))
        \/ \E i \in DOMAIN q.bridges : At(BridgeAt(q, i))
  <2>1. \A i \in Own(q) :
          \/ i \in DOMAIN q.interfaces
          \/ \E k \in DOMAIN q.bonds : i = BondAt(q, k)
          \/ \E k \in DOMAIN q.vlans : i = VlanAt(q, k)
          \/ \E k \in DOMAIN q.bridges : i = BridgeAt(q, k)
    <3>1. \A i \in Own(q) : i \in DOMAIN Ordered(q)
      BY DEF Own
    <3> QED
      BY <3>1, Sections, Zenon
  <2>2. /\ \A i \in DOMAIN q.interfaces : i \in Own(q) <=> q.interfaces[i].name \notin Ports(q)
        /\ \A i \in DOMAIN q.bonds : BondAt(q, i) \in Own(q)
        /\ \A i \in DOMAIN q.vlans : VlanAt(q, i) \in Own(q)
        /\ \A i \in DOMAIN q.bridges : BridgeAt(q, i) \in Own(q)
    BY OwnIs, Zenon
  <2> QED
    BY <2>1, <2>2
<1>10. \A i \in Own(q) : At(i) <=> l = Modify(NameAt(q, i), Written(q, i))
  BY <1>3 DEF At
<1> QED
  BY <1>8, <1>9, <1>10

\* The lines that add say how devices are made and joined, all of it and nothing else.
LEMMA AddsJoin ==
  ASSUME NEW q \in Request
  PROVE  /\ \A l : AddOf(q, l) => l.do = "add" /\ \A f \in l.facts : f[1] = "type" \/ f \in JoinedOf(q)
         /\ \A f \in JoinedOf(q) : \E l : AddOf(q, l) /\ f \in l.facts
<1>1. /\ \A n, kind, x, f :
           /\ DeviceAdd(n, kind, x).do = "add"
           /\ f \in DeviceAdd(n, kind, x).facts <=> f = <<"type", n, kind>> \/ f \in x
      /\ \A o, infix, p, f :
           /\ PortAdd(o, infix, p).do = "add"
           /\ f \in PortAdd(o, infix, p).facts <=> f = <<"master", p, o.name>>
  BY DEF DeviceAdd, PortAdd, Add
<1>2. \A n, kind : <<"type", n, kind>>[1] = "type"
  OBVIOUS
<1>3. /\ \A i \in DOMAIN q.bonds : q.bonds[i] \in ToSet(q.bonds)
      /\ \A i \in DOMAIN q.vlans : q.vlans[i] \in ToSet(q.vlans)
      /\ \A i \in DOMAIN q.bridges : q.bridges[i] \in ToSet(q.bridges)
      /\ \A o \in ToSet(q.bonds) : \E i \in DOMAIN q.bonds : o = q.bonds[i]
      /\ \A o \in ToSet(q.vlans) : \E i \in DOMAIN q.vlans : o = q.vlans[i]
      /\ \A o \in ToSet(q.bridges) : \E i \in DOMAIN q.bridges : o = q.bridges[i]
  BY DEF ToSet
<1>4. \A o, f : f \in NetplanPorts(o) <=> \E p \in ToSet(o.ports) : f = <<"master", p, o.name>>
  BY DEF NetplanPorts
<1>5. ASSUME NEW l, AddOf(q, l)
      PROVE  l.do = "add" /\ \A f \in l.facts : f[1] = "type" \/ f \in JoinedOf(q)
  <2>1. CASE \/ \E i \in DOMAIN q.interfaces : l = DeviceAdd(q.interfaces[i].name, "ethernet", {})
             \/ \E i \in DOMAIN q.bridges : l = DeviceAdd(q.bridges[i].name, "bridge", {})
    BY <1>1, <1>2, <2>1
  <2>2. CASE \E i \in DOMAIN q.bonds : l = DeviceAdd(q.bonds[i].name, "bond", {BondFact(q.bonds[i])})
    <3>1. PICK i \in DOMAIN q.bonds : l = DeviceAdd(q.bonds[i].name, "bond", {BondFact(q.bonds[i])})
      BY <2>2
    <3>2. BondFact(q.bonds[i]) \in JoinedOf(q)
      BY <1>3, JoinedIs DEF BondFact
    <3> QED
      BY <1>1, <1>2, <3>1, <3>2
  <2>3. CASE \E i \in DOMAIN q.vlans :
               l = DeviceAdd(VlanName(q.vlans[i]), "vlan",
                             {<<"link", VlanName(q.vlans[i]), q.vlans[i].parent>>})
    <3>1. PICK i \in DOMAIN q.vlans :
               l = DeviceAdd(VlanName(q.vlans[i]), "vlan",
                             {<<"link", VlanName(q.vlans[i]), q.vlans[i].parent>>})
      BY <2>3
    <3>2. <<"link", VlanName(q.vlans[i]), q.vlans[i].parent>> \in JoinedOf(q)
      BY <1>3, JoinedIs
    <3> QED
      BY <1>1, <1>2, <3>1, <3>2
  <2>4. CASE \E i \in DOMAIN q.bonds : \E p \in ToSet(q.bonds[i].ports) : l = PortAdd(q.bonds[i], "-slave-", p)
    <3>1. PICK i \in DOMAIN q.bonds : \E p \in ToSet(q.bonds[i].ports) : l = PortAdd(q.bonds[i], "-slave-", p)
      BY <2>4
    <3>2. \A f \in NetplanPorts(q.bonds[i]) : f \in JoinedOf(q)
      BY <1>3, JoinedIs
    <3> QED
      BY <1>1, <1>4, <3>1, <3>2
  <2>5. CASE \E i \in DOMAIN q.bridges : \E p \in ToSet(q.bridges[i].ports) : l = PortAdd(q.bridges[i], "-port-", p)
    <3>1. PICK i \in DOMAIN q.bridges : \E p \in ToSet(q.bridges[i].ports) : l = PortAdd(q.bridges[i], "-port-", p)
      BY <2>5
    <3>2. \A f \in NetplanPorts(q.bridges[i]) : f \in JoinedOf(q)
      BY <1>3, JoinedIs
    <3> QED
      BY <1>1, <1>4, <3>1, <3>2
  <2> QED
    BY <1>5, <2>1, <2>2, <2>3, <2>4, <2>5 DEF AddOf
<1>6. ASSUME NEW f \in JoinedOf(q) PROVE \E l : AddOf(q, l) /\ f \in l.facts
  <2>1. CASE \E b \in ToSet(q.bonds) : f \in NetplanPorts(b)
    <3>1. PICK i \in DOMAIN q.bonds : \E p \in ToSet(q.bonds[i].ports) : f = <<"master", p, q.bonds[i].name>>
      BY <1>3, <1>4, <2>1
    <3>2. PICK p \in ToSet(q.bonds[i].ports) : f = <<"master", p, q.bonds[i].name>>
      BY <3>1
    <3>3. AddOf(q, PortAdd(q.bonds[i], "-slave-", p))
      BY DEF AddOf
    <3> QED
      BY <1>1, <3>2, <3>3
  <2>2. CASE \E b \in ToSet(q.bridges) : f \in NetplanPorts(b)
    <3>1. PICK i \in DOMAIN q.bridges : \E p \in ToSet(q.bridges[i].ports) : f = <<"master", p, q.bridges[i].name>>
      BY <1>3, <1>4, <2>2
    <3>2. PICK p \in ToSet(q.bridges[i].ports) : f = <<"master", p, q.bridges[i].name>>
      BY <3>1
    <3>3. AddOf(q, PortAdd(q.bridges[i], "-port-", p))
      BY DEF AddOf
    <3> QED
      BY <1>1, <3>2, <3>3
  <2>3. CASE \E b \in ToSet(q.bonds) : f = <<"bond", b.name, <<b.level, b.primary>> >>
    <3>1. PICK i \in DOMAIN q.bonds : f = BondFact(q.bonds[i])
      BY <1>3, <2>3 DEF BondFact
    <3>2. AddOf(q, DeviceAdd(q.bonds[i].name, "bond", {BondFact(q.bonds[i])}))
      BY DEF AddOf
    <3> QED
      BY <1>1, <3>1, <3>2
  <2>4. CASE \E v \in ToSet(q.vlans) : f = <<"link", VlanName(v), v.parent>>
    <3>1. PICK i \in DOMAIN q.vlans : f = <<"link", VlanName(q.vlans[i]), q.vlans[i].parent>>
      BY <1>3, <2>4
    <3>2. AddOf(q, DeviceAdd(VlanName(q.vlans[i]), "vlan", {<<"link", VlanName(q.vlans[i]), q.vlans[i].parent>>}))
      BY DEF AddOf
    <3> QED
      BY <1>1, <3>1, <3>2
  <2> QED
    BY <2>1, <2>2, <2>3, <2>4, JoinedIs, Zenon
<1> QED
  BY <1>5, <1>6, Zenon

\* The settings of a connection are not about how it is made or joined.
LEMMA SettingsOnly ==
  ASSUME NEW n, NEW o, NEW m, NEW f \in Ipv4Lines(n, o, m)
  PROVE  ~OfStructure(f)
<1>1. CASE f \in RoutesOf(n, o)
  BY <1>1 DEF RoutesOf, OfStructure
<1>2. CASE f \notin RoutesOf(n, o)
  <2>1. f[1] \in {"method4", "ip", "gateway", "metric", "dns", "method6", "addr6", "gateway6"}
    <3>1. \/ f = <<"method4", n, "auto">> \/ f = <<"method4", n, "manual">>
          \/ f = <<"ip", n, Prefix(o)>> \/ f = <<"gateway", n, o.gateway>> \/ f = <<"metric", n, m>>
          \/ f = <<"method6", n, o.mode6>> \/ f = <<"method6", n, "manual">>
          \/ f = <<"addr6", n, V6Addrs(o)>> \/ f = <<"gateway6", n, 1>> \/ f = <<"dns", n, 1>>
      BY <1>2, LinesIs, Zenon DEF Ipv6Is
    <3> QED
      BY <3>1
  <2> QED
    BY <2>1 DEF OfStructure
<1> QED
  BY <1>1, <1>2

\* The other lines only bring a connection up.
LEMMA OthersAreEmpty ==
  ASSUME NEW q \in Request, NEW l \in ToSet(Script(q)), l.do \notin {"add", "modify"}
  PROVE  l.facts = {}
<1>1. /\ \A n, kind, x : DeviceAdd(n, kind, x).do = "add"
      /\ \A o, infix, p : PortAdd(o, infix, p).do = "add"
      /\ \A n, x : Modify(n, x).do = "modify"
      /\ \A n : Up(n).facts = {} /\ UpOrStop(n).facts = {}
  BY DEF DeviceAdd, PortAdd, Add, Modify, Up, UpOrStop
<1>2. ASSUME NEW n, NEW o, NEW kind, NEW facts, l \in LinesOf(q, n, o, kind, facts) PROVE l.facts = {}
  <2>1. \/ l = DeviceAdd(n, kind, facts)
        \/ l = Modify(n, Ipv4Lines(n, o, Metric(q, n)))
        \/ l = Up(n)
    BY <1>2, LineOfDevice
  <2> QED
    BY <1>1, <2>1
<1>3. ASSUME NEW o, NEW infix, l \in LinesOfPorts(o, infix) PROVE l.facts = {}
  <2>1. PICK p : l = PortAdd(o, infix, p) \/ l = UpOrStop(o.name \o infix \o p)
    BY <1>3, LineOfPort
  <2> QED
    BY <1>1, <2>1
<1> QED
  BY <1>2, <1>3, ScriptIs

-----------------------------------------------------------------------------
(* What the profiles hold of a script *)

\* A device is modified once.
LEMMA OneModify ==
  ASSUME NEW q \in Request, Accepts(q), q.format = "nmcli",
         NEW l \in ToSet(Script(q)), NEW m \in ToSet(Script(q)),
         l.do = "modify", m.do = "modify", l.con = m.con
  PROVE  l.facts = m.facts
<1>1. PICK i \in Own(q) : l = Modify(NameAt(q, i), Written(q, i))
  BY ModifiesAre
<1>2. PICK k \in Own(q) : m = Modify(NameAt(q, k), Written(q, k))
  BY ModifiesAre
<1>3. NameAt(q, i) = NameAt(q, k)
  BY <1>1, <1>2 DEF Modify
<1>4. i \in DOMAIN Ordered(q) /\ k \in DOMAIN Ordered(q)
  BY DEF Own
<1>5. NamesOnce(q)
  BY DEF Accepts, CheckReferences
<1>6. i = k
  BY <1>3, <1>4, <1>5, DevicesApart
<1> QED
  BY <1>1, <1>2, <1>6

\* A modify line is not about how a connection is made or joined, an add line about
\* nothing else.
LEMMA KindsApart ==
  ASSUME NEW q \in Request, q.format = "nmcli", NEW l \in ToSet(Script(q)), NEW f \in l.facts
  PROVE  /\ l.do = "modify" => ~OfStructure(f)
         /\ l.do = "add" => OfStructure(f) /\ (f[1] = "type" \/ f \in JoinedOf(q))
<1>1. CASE l.do = "modify"
  <2>1. PICK i \in Own(q) : l = Modify(NameAt(q, i), Written(q, i))
    BY <1>1, ModifiesAre
  <2>2. l.facts = Ipv4Lines(NameAt(q, i), L3At(q, i), Metric(q, NameAt(q, i)))
    BY <2>1 DEF Modify, Written
  <2> QED
    BY <1>1, <2>2, SettingsOnly
<1>2. CASE l.do = "add"
  <2>1. f[1] = "type" \/ f \in JoinedOf(q)
    BY <1>2, AddsAre, AddsJoin
  <2> QED
    BY <1>2, <2>1, JoinedKinds DEF OfStructure
<1> QED
  BY <1>1, <1>2

HasScript == outcome \in {"script", "running", "aborted", "failed", "ok"}

\* Line i was reached in the last run.
Reached(i) == (outcome = "running" /\ i < line) \/ outcome \in {"failed", "ok"}

\* The requests whose scripts were run.
Scripted == {request} \cup {q \in {former} : fixed}

\* A connection c has been given f by a line about it.
GivenBy(c, f) == \E q \in Scripted : \E l \in ToSet(Script(q)) : l.con = c /\ f \in l.facts

\* The facts have all that line l sets, and nothing else where it sets something.
Overwrites(l, facts) ==
  l.facts \subseteq facts /\ \A f \in facts \ l.facts : \A g \in l.facts : ~Replaces(g, f)

\* What the profiles hold of the script that was run.
Told ==
  /\ outcome = "new" => profiles = <<>> /\ ~fixed
  /\ outcome = "file" => Accepts(request) /\ request.format # "nmcli"
  /\ HasScript => Accepts(request) /\ request.format = "nmcli" /\ script = Script(request)
  /\ HasScript => \A c \in DOMAIN profiles : \A f \in profiles[c] : GivenBy(c, f)
  /\ HasScript /\ fixed => /\ former \in Request /\ former.format = "nmcli" /\ Accepts(former)
                          /\ SameDevices(request, former)
  /\ \A i \in DOMAIN script : Reached(i) /\ script[i].do \in {"add", "modify"} =>
       script[i].con \in DOMAIN profiles
  /\ \A i \in DOMAIN script : Reached(i) /\ script[i].do = "modify" =>
       Overwrites(script[i], profiles[script[i].con])

LEMMA LinesInOrder ==
  ASSUME NetTypeOK, NetInv, HasScript
  PROVE  /\ \A i \in DOMAIN script : i \in Nat /\ i <= Len(script)
         /\ \A i \in DOMAIN script : script[i] \in ToSet(script)
         /\ outcome = "running" => line \in Nat \ {0}
         /\ outcome = "running" /\ line <= Len(script) => line \in DOMAIN script
         /\ \A i \in DOMAIN script : i < line + 1 => i = line \/ i < line
<1>1. PICK L : script \in Seq(L)
  BY DEF NetInv, Framed, Blocks, HasScript
<1>2. outcome = "running" => line \in Nat \ {0}
  BY DEF NetInv, Progressed
<1>3. line \in Nat
  BY DEF NetTypeOK
<1> QED
  BY <1>1, <1>2, <1>3 DEF ToSet

LEMMA ToldAdd ==
  ASSUME NetTypeOK, NetInv, Told, IdemAdd
  PROVE  Told'
<1>1. /\ outcome = "running" /\ line <= Len(script) /\ Here.do = "add" /\ line' = line + 1
      /\ profiles' = [c \in DOMAIN profiles \cup {Here.con} |->
                        IF c \in DOMAIN profiles THEN profiles[c] ELSE Here.facts]
      /\ UNCHANGED <<request, outcome, script, fixed, former>>
  BY DEF IdemAdd, AtLine, Here
<1>2. HasScript /\ HasScript'
  BY <1>1 DEF HasScript
<1>3. /\ line \in DOMAIN script /\ Here \in ToSet(script) /\ Here = script[line]
      /\ \A i \in DOMAIN script : i < line + 1 => i = line \/ i < line
  BY <1>1, <1>2, LinesInOrder DEF Here
<1>4. /\ DOMAIN profiles' = DOMAIN profiles \cup {Here.con}
      /\ \A c \in DOMAIN profiles : profiles'[c] = profiles[c]
      /\ Here.con \notin DOMAIN profiles => profiles'[Here.con] = Here.facts
  BY <1>1
<1>7. /\ Accepts(request) /\ request.format = "nmcli" /\ script = Script(request)
      /\ fixed => /\ former \in Request /\ former.format = "nmcli" /\ Accepts(former)
                  /\ SameDevices(request, former)
  BY <1>2 DEF Told
<1>5. ASSUME NEW c \in DOMAIN profiles', NEW f \in profiles'[c]
      PROVE  GivenBy(c, f)
  <2>1. CASE c \in DOMAIN profiles
    BY <1>2, <1>4, <1>5, <2>1 DEF Told
  <2>2. CASE c \notin DOMAIN profiles
    BY <1>3, <1>4, <1>5, <1>7, <2>2 DEF GivenBy, Scripted
  <2> QED
    BY <2>1, <2>2
<1>6. ASSUME NEW i \in DOMAIN script, i < line + 1
      PROVE  /\ script[i].do \in {"add", "modify"} => script[i].con \in DOMAIN profiles'
             /\ script[i].do = "modify" => Overwrites(script[i], profiles'[script[i].con])
  <2>1. CASE i = line
    BY <1>1, <1>3, <1>4, <2>1
  <2>2. CASE i < line
    <3>1. Reached(i)
      BY <1>1, <2>2 DEF Reached
    <3> QED
      BY <1>4, <3>1 DEF Told
  <2> QED
    BY <1>3, <1>6, <2>1, <2>2
<1>8. \A i : Reached(i)' <=> i < line + 1
  BY <1>1 DEF Reached
<1>9. outcome' = "running"
  BY <1>1
<1>10. \A c, f : GivenBy(c, f)' <=> GivenBy(c, f)
  BY <1>1 DEF GivenBy, Scripted
<1> QED
  BY <1>1, <1>5, <1>6, <1>7, <1>8, <1>9, <1>10, ZenonT(30) DEF Told

LEMMA ToldModify ==
  ASSUME NetTypeOK, NetInv, Told, ModifyProfile
  PROVE  Told'
<1>1. /\ outcome = "running" /\ line <= Len(script) /\ Here.do = "modify" /\ line' = line + 1
      /\ profiles' = [profiles EXCEPT ![Here.con] =
                        {f \in profiles[Here.con] : \A g \in Here.facts : ~Replaces(g, f)} \cup Here.facts]
      /\ UNCHANGED <<request, outcome, script, fixed, former>>
  BY DEF ModifyProfile, AtLine, Here
<1>2. HasScript /\ HasScript'
  BY <1>1 DEF HasScript
<1>3. /\ line \in DOMAIN script /\ Here \in ToSet(script) /\ Here = script[line]
      /\ \A i \in DOMAIN script : i < line + 1 => i = line \/ i < line
      /\ \A i \in DOMAIN script : script[i] \in ToSet(script)
  BY <1>1, <1>2, LinesInOrder DEF Here
<1>4. Here.con \in DOMAIN profiles
  BY <1>1, HereIsThere
<1>5. /\ DOMAIN profiles' = DOMAIN profiles
      /\ \A c \in DOMAIN profiles : c # Here.con => profiles'[c] = profiles[c]
      /\ Here.facts \subseteq profiles'[Here.con]
      /\ profiles'[Here.con] \subseteq profiles[Here.con] \cup Here.facts
      /\ Overwrites(Here, profiles'[Here.con])
  BY <1>1, <1>4 DEF Overwrites
<1>6. /\ Accepts(request) /\ request.format = "nmcli" /\ script = Script(request)
      /\ request \in Request
      /\ fixed => /\ former \in Request /\ former.format = "nmcli" /\ Accepts(former)
                  /\ SameDevices(request, former)
  BY <1>2 DEF Told, NetInv
<1>7. ASSUME NEW c \in DOMAIN profiles', NEW f \in profiles'[c]
      PROVE  GivenBy(c, f)
  <2>1. CASE f \in profiles[c]
    BY <1>2, <1>5, <1>7, <2>1 DEF Told
  <2>2. CASE f \in Here.facts /\ c = Here.con
    BY <1>3, <1>6, <2>2 DEF GivenBy, Scripted
  <2> QED
    BY <1>5, <1>7, <2>1, <2>2
<1>8. ASSUME NEW i \in DOMAIN script, i < line + 1
      PROVE  /\ script[i].do \in {"add", "modify"} => script[i].con \in DOMAIN profiles'
             /\ script[i].do = "modify" => Overwrites(script[i], profiles'[script[i].con])
  <2>1. CASE i = line
    BY <1>1, <1>3, <1>4, <1>5, <2>1
  <2>2. CASE i < line
    <3>1. Reached(i)
      BY <1>1, <2>2 DEF Reached
    <3>2. /\ script[i].do \in {"add", "modify"} => script[i].con \in DOMAIN profiles
          /\ script[i].do = "modify" => Overwrites(script[i], profiles[script[i].con])
      BY <3>1 DEF Told
    <3>3. script[i].do = "modify" /\ script[i].con = Here.con => script[i].facts = Here.facts
      BY <1>1, <1>3, <1>6, OneModify
    <3> QED
      BY <1>5, <3>2, <3>3 DEF Overwrites
  <2> QED
    BY <1>3, <1>8, <2>1, <2>2
<1>9. \A i : Reached(i)' <=> i < line + 1
  BY <1>1 DEF Reached
<1>10. outcome' = "running"
  BY <1>1
<1>11. \A c, f : GivenBy(c, f)' <=> GivenBy(c, f)
  BY <1>1 DEF GivenBy, Scripted
<1> QED
  BY <1>1, <1>6, <1>7, <1>8, <1>9, <1>10, <1>11 DEF Told

LEMMA ToldStep ==
  ASSUME NetTypeOK, NetInv, Told, [NetNext]_netVars
  PROVE  Told'
<1>8. UNCHANGED <<request, former, fixed>> => \A c, f : GivenBy(c, f)' <=> GivenBy(c, f)
  BY DEF GivenBy, Scripted
<1>1. CASE Generate
  <2>1. /\ outcome = "new" /\ profiles' = profiles /\ request' = request
        /\ outcome' = IF ~Accepts(request) THEN "refused"
                      ELSE IF request.format = "nmcli" THEN "script" ELSE "file"
        /\ outcome' = "script" => script' = Script(request)
        /\ fixed' = fixed
    BY <1>1 DEF Generate
  <2>2. DOMAIN profiles' = {} /\ ~fixed'
    BY <2>1, NoneInEmpty DEF Told
  <2>3. \A i : ~Reached(i)'
    BY <2>1 DEF Reached
  <2>4. HasScript' => outcome' = "script"
    BY <2>1 DEF HasScript
  <2> QED
    BY <2>1, <2>2, <2>3, <2>4 DEF Told
<1>2. CASE Run
  <2>1. /\ outcome' = "running" /\ line' = 1 /\ HasScript /\ HasScript'
        /\ UNCHANGED <<request, script, profiles, fixed, former>>
    BY <1>2 DEF Run, HasScript
  <2>2. \A i \in DOMAIN script : ~(i < 1)
    <3>1. PICK L : script \in Seq(L)
      BY <2>1 DEF NetInv, Framed, Blocks, HasScript
    <3> QED
      BY <3>1
  <2>3. \A i \in DOMAIN script' : ~Reached(i)'
    BY <2>1, <2>2 DEF Reached
  <2> QED
    BY <1>8, <2>1, <2>3 DEF Told
<1>3. CASE ComesUp \/ FailsToComeUp
  <2>1. /\ outcome = "running" /\ line <= Len(script) /\ script[line].do \notin {"add", "modify"}
        /\ line' = line + 1 /\ UNCHANGED <<request, outcome, script, profiles, fixed, former>>
    BY <1>3 DEF ComesUp, FailsToComeUp, AtLine
  <2>2. HasScript /\ HasScript'
    BY <2>1 DEF HasScript
  <2>3. \A i \in DOMAIN script : i < line + 1 => i = line \/ i < line
    BY <2>2, LinesInOrder
  <2>4. \A i \in DOMAIN script : Reached(i)' /\ script[i].do \in {"add", "modify"} => Reached(i)
    BY <2>1, <2>3 DEF Reached
  <2> QED
    BY <1>8, <2>1, <2>2, <2>4 DEF Told
<1>4. CASE PortFailsToComeUp \/ Cut
  <2>1. /\ outcome' = "aborted" /\ HasScript /\ HasScript'
        /\ UNCHANGED <<request, script, profiles, fixed, former>>
    BY <1>4 DEF PortFailsToComeUp, Cut, AtLine, HasScript
  <2>2. \A i : ~Reached(i)'
    BY <2>1 DEF Reached
  <2> QED
    BY <1>8, <2>1, <2>2 DEF Told
<1>5. CASE End
  <2>1. /\ outcome = "running" /\ line > Len(script) /\ outcome' \in {"failed", "ok"}
        /\ HasScript /\ HasScript' /\ UNCHANGED <<request, script, profiles, fixed, former>>
    BY <1>5 DEF End, HasScript
  <2>2. \A i \in DOMAIN script : Reached(i)
    BY <2>1, LinesInOrder DEF Reached, NetTypeOK
  <2> QED
    BY <1>8, <2>1, <2>2 DEF Told
<1>6. CASE Fix
  <2>1. PICK q \in Fixes : /\ SameDevices(q, request) /\ Accepts(q) /\ request' = q /\ script' = Script(q)
                           /\ outcome' = "script" /\ fixed' = TRUE /\ HasScript
                           /\ ~fixed /\ former' = request /\ profiles' = profiles
    BY <1>6 DEF Fix, HasScript
  <2>2. q.format = "nmcli" /\ request.format = "nmcli" /\ Accepts(request) /\ request \in Request
    BY <2>1 DEF SameDevices, Told, NetInv
  <2>3. \A i : ~Reached(i)'
    BY <2>1 DEF Reached
  <2>4. \A c, f : GivenBy(c, f) => GivenBy(c, f)'
    BY <2>1 DEF GivenBy, Scripted
  <2>5. \A c \in DOMAIN profiles' : \A f \in profiles'[c] : GivenBy(c, f)'
    BY <2>1, <2>4 DEF Told
  <2> QED
    BY <2>1, <2>2, <2>3, <2>5 DEF Told
<1>7. CASE UNCHANGED netVars
  BY <1>7, <1>8 DEF netVars, Told, HasScript, Reached
<1> QED
  BY <1>1, <1>2, <1>3, <1>4, <1>5, <1>6, <1>7, ToldAdd, ToldModify DEF NetNext

LEMMA ToldInit == NetInit => Told
<1> SUFFICES ASSUME NetInit PROVE Told
  OBVIOUS
<1>1. outcome = "new" /\ profiles = <<>> /\ ~fixed
  BY DEF NetInit
<1>2. ~HasScript /\ \A i : ~Reached(i)
  BY <1>1 DEF HasScript, Reached
<1> QED
  BY <1>1, <1>2 DEF Told

LEMMA ToldHolds == NetSpec => [](NetTypeOK /\ NetInv /\ Told)
<1>1. NetTypeOK /\ NetInv /\ Told /\ [NetNext]_netVars => (NetTypeOK /\ NetInv /\ Told)'
  BY NetNextTyped, NetNextKeeps, ToldStep
<1> QED
  BY <1>1, NetInitHolds, ToldInit, PTL DEF NetSpec

\* A connection that is there was added as the script says, but for what was skipped.
Added ==
  HasScript => \A l \in ToSet(script) :
    l.do = "add" /\ l.con \in DOMAIN profiles =>
      \A f \in l.facts : f \in profiles[l.con] \/ AddSkipped(request, f)

LEMMA AddedFix ==
  ASSUME NetTypeOK, NetInv, Told, Added, Fix
  PROVE  Added'
<1>1. PICK q \in Fixes : /\ SameDevices(q, request) /\ request' = q /\ script' = Script(q)
                         /\ outcome' = "script" /\ HasScript /\ profiles' = profiles
                         /\ ~fixed /\ fixed' = TRUE
  BY DEF Fix, HasScript
<1>2. /\ q \in Request /\ request \in Request /\ script = Script(request)
      /\ request.format = "nmcli" /\ q.format = "nmcli" /\ SameDevices(request, q)
  BY <1>1, NetConfigAssumption, SameBack DEF NetInv, Told, SameDevices
<1>3. ASSUME NEW l \in ToSet(Script(q)), l.do = "add", l.con \in DOMAIN profiles,
             NEW f \in l.facts, f[1] # "bond", f \notin profiles[l.con]
      PROVE  AddSkipped(request, f)'
  <2>1. PICK m \in ToSet(script) : SameButBond(l, m)
    BY <1>1, <1>2, <1>3, SameAdds
  <2>2. f \in profiles[m.con] \/ AddSkipped(request, f)
    BY <1>1, <1>3, <2>1 DEF Added, SameButBond
  <2>3. PICK a \in ToSet(Script(request)), b \in ToSet(Script(request)) :
          a.do = "add" /\ b.do = "add" /\ a.con = b.con /\ f \in a.facts \ b.facts
    BY <1>1, <1>3, <2>1, <2>2 DEF AddSkipped, SameButBond
  <2>4. PICK c \in ToSet(Script(q)) : SameButBond(a, c)
    BY <1>2, <2>3, SameAdds
  <2>5. PICK d \in ToSet(Script(q)) : SameButBond(b, d)
    BY <1>2, <2>3, SameAdds
  <2>6. c.do = "add" /\ d.do = "add" /\ c.con = d.con /\ f \in c.facts \ d.facts
    BY <1>3, <2>3, <2>4, <2>5 DEF SameButBond
  <2> QED
    BY <1>1, <1>2, <2>6 DEF AddSkipped
<1>4. ASSUME NEW f, f[1] = "bond" PROVE AddSkipped(request, f)'
  BY <1>1, <1>2, <1>4 DEF AddSkipped
<1> QED
  BY <1>1, <1>3, <1>4 DEF Added

LEMMA AddedStep ==
  ASSUME NetTypeOK, NetInv, Told, Added, [NetNext]_netVars
  PROVE  Added'
<1>0. UNCHANGED <<request, fixed>> => \A f : AddSkipped(request, f)' <=> AddSkipped(request, f)
  BY DEF AddSkipped
<1>1. CASE Generate
  <2>1. outcome = "new" /\ profiles' = profiles
    BY <1>1 DEF Generate
  <2>2. DOMAIN profiles' = {}
    BY <2>1, NoneInEmpty DEF Told
  <2> QED
    BY <2>2 DEF Added
<1>2. CASE IdemAdd
  <2>1. /\ outcome = "running" /\ line <= Len(script) /\ Here.do = "add"
        /\ profiles' = [c \in DOMAIN profiles \cup {Here.con} |->
                          IF c \in DOMAIN profiles THEN profiles[c] ELSE Here.facts]
        /\ UNCHANGED <<request, outcome, script, fixed>>
    BY <1>2 DEF IdemAdd, AtLine, Here
  <2>2. HasScript
    BY <2>1 DEF HasScript
  <2>3. Here \in ToSet(script) /\ script = Script(request) /\ request.format = "nmcli"
    BY <2>1, <2>2, LinesInOrder DEF Here, Told
  <2>4. ASSUME NEW l \in ToSet(script), l.do = "add", l.con \in DOMAIN profiles', NEW f \in l.facts
        PROVE  f \in profiles'[l.con] \/ AddSkipped(request, f)
    <3>1. CASE l.con \in DOMAIN profiles
      BY <2>1, <2>2, <2>4, <3>1 DEF Added
    <3>2. CASE l.con \notin DOMAIN profiles
      <4>1. l.con = Here.con /\ profiles'[l.con] = Here.facts
        BY <2>1, <2>4, <3>2
      <4>2. f \notin Here.facts => AddSkipped(request, f)
        BY <2>1, <2>3, <2>4, <4>1 DEF AddSkipped
      <4> QED
        BY <4>1, <4>2
    <3> QED
      BY <3>1, <3>2
  <2> QED
    BY <1>0, <2>1, <2>4 DEF Added
<1>3. CASE ModifyProfile
  <2>1. /\ outcome = "running" /\ line <= Len(script) /\ Here.do = "modify"
        /\ profiles' = [profiles EXCEPT ![Here.con] =
                          {f \in profiles[Here.con] : \A g \in Here.facts : ~Replaces(g, f)}
                            \cup Here.facts]
        /\ UNCHANGED <<request, outcome, script, fixed>>
    BY <1>3 DEF ModifyProfile, AtLine, Here
  <2>2. HasScript
    BY <2>1 DEF HasScript
  <2>3. /\ Here \in ToSet(script) /\ script = Script(request)
        /\ request.format = "nmcli" /\ request \in Request
    BY <2>1, <2>2, LinesInOrder DEF Here, Told, NetInv
  <2>4. ASSUME NEW l \in ToSet(script), l.do = "add", l.con \in DOMAIN profiles', NEW f \in l.facts,
               ~AddSkipped(request, f)
        PROVE  f \in profiles'[l.con]
    <3>1. l.con \in DOMAIN profiles
      BY <2>1, <2>4
    <3>2. f \in profiles[l.con]
      BY <2>2, <2>4, <3>1 DEF Added
    <3>3. CASE l.con # Here.con
      BY <2>1, <3>1, <3>2, <3>3
    <3>4. CASE l.con = Here.con
      <4>1. OfStructure(f)
        BY <2>3, <2>4, KindsApart
      <4>2. \A g \in Here.facts : ~OfStructure(g)
        BY <2>1, <2>3, KindsApart
      <4>3. \A g \in Here.facts : ~Replaces(g, f)
        BY <4>1, <4>2 DEF Replaces, OfStructure
      <4> QED
        BY <2>1, <3>1, <3>2, <3>4, <4>3
    <3> QED
      BY <3>3, <3>4
  <2> QED
    BY <1>0, <2>1, <2>4 DEF Added
<1>4. CASE Run \/ ComesUp \/ FailsToComeUp \/ PortFailsToComeUp \/ Cut \/ End \/ UNCHANGED netVars
  <2>1. /\ UNCHANGED <<request, script, profiles, fixed>>
        /\ outcome' = outcome \/ HasScript
    BY <1>4
    DEF Run, ComesUp, FailsToComeUp, PortFailsToComeUp, Cut, End, AtLine, netVars, HasScript
  <2>2. HasScript' => HasScript
    BY <2>1 DEF HasScript
  <2> QED
    BY <1>0, <2>1, <2>2 DEF Added
<1> QED
  BY <1>1, <1>2, <1>3, <1>4, AddedFix DEF NetNext

LEMMA AddedHolds == NetSpec => [](NetTypeOK /\ NetInv /\ Told /\ Added)
<1>1. NetInit => Added
  BY DEF NetInit, HasScript, Added
<1>2. NetTypeOK /\ NetInv /\ Told /\ Added /\ [NetNext]_netVars => (NetTypeOK /\ NetInv /\ Told /\ Added)'
  BY NetNextTyped, NetNextKeeps, ToldStep, AddedStep
<1> QED
  BY <1>1, <1>2, NetInitHolds, ToldInit, PTL DEF NetSpec

\* A script that has come to its end has settled the devices of its request.
LEMMA ScriptSettles ==
  ASSUME NetInv, Told, outcome \in {"failed", "ok"}, NEW G, G = UNION {profiles[c] : c \in DOMAIN profiles}
  PROVE  /\ Settled(request, G)
         /\ ~fixed => OnlyJoined(request, G)
         /\ Added => Joined(request, G)
<1>1. /\ HasScript /\ request \in Request /\ Accepts(request) /\ request.format = "nmcli"
      /\ script = Script(request)
  BY DEF HasScript, Told, NetInv
<1>2. ASSUME NEW l \in ToSet(script), l.do \in {"add", "modify"}
      PROVE  l.con \in DOMAIN profiles /\ (l.do = "modify" => l.facts \subseteq profiles[l.con])
  <2>1. PICK i \in DOMAIN script : l = script[i]
    BY <1>2 DEF ToSet
  <2>2. Reached(i)
    BY DEF Reached
  <2> QED
    BY <1>2, <2>1, <2>2 DEF Told, Overwrites
<1>3. ASSUME NEW i \in Own(request) PROVE Written(request, i) \subseteq G
  <2> PICK l : l = Modify(NameAt(request, i), Written(request, i))
    OBVIOUS
  <2>1. l.do = "modify" /\ l.facts = Written(request, i)
    BY DEF Modify
  <2>2. l \in ToSet(script)
    BY <1>1, <2>1, ModifiesAre
  <2>3. l.con \in DOMAIN profiles /\ l.facts \subseteq profiles[l.con]
    BY <1>2, <2>1, <2>2
  <2> QED
    BY <2>1, <2>3
<1>4. ASSUME ~fixed, NEW f \in G
      PROVE  f[1] = "type" \/ f \in JoinedOf(request) \/ \E i \in Own(request) : f \in Written(request, i)
  <2>1. PICK l \in ToSet(script) : f \in l.facts
    BY <1>1, <1>4 DEF Told, GivenBy, Scripted
  <2>2. CASE l.do = "add"
    BY <1>1, <2>1, <2>2, KindsApart
  <2>3. CASE l.do = "modify"
    <3>1. PICK i \in Own(request) : l = Modify(NameAt(request, i), Written(request, i))
      BY <1>1, <2>3, ModifiesAre
    <3> QED
      BY <2>1, <3>1 DEF Modify
  <2>4. CASE l.do \notin {"add", "modify"}
    BY <1>1, <2>1, <2>4, OthersAreEmpty
  <2> QED
    BY <2>2, <2>3, <2>4
<1>5. ASSUME Added, NEW f \in JoinedOf(request) PROVE f \in G \/ AddSkipped(request, f)
  <2>1. PICK l : AddOf(request, l) /\ f \in l.facts /\ l.do = "add"
    BY <1>1, AddsJoin
  <2>2. l \in ToSet(script)
    BY <1>1, <2>1, AddsAre
  <2>3. l.con \in DOMAIN profiles /\ (f \in profiles[l.con] \/ AddSkipped(request, f))
    BY <1>1, <1>2, <1>5, <2>1, <2>2 DEF Added
  <2> QED
    BY <2>1, <2>3
<1> QED
  BY <1>3, <1>4, <1>5 DEF Settled, OnlyJoined, Belongs, Joined

-----------------------------------------------------------------------------
(* The ifcfg files *)

Implied(q) == Ports(q) \ ToSet(NamesOf(q.interfaces))

VlanFile(q, v) ==
  IfcfgDevice(q, VlanName(v), Passed(v.l3),
              {<<"type", VlanName(v), "vlan">>, <<"link", VlanName(v), v.parent>>})

BridgeFile(q, b) == IfcfgDevice(q, b.name, Passed(b.l3), {<<"type", b.name, "bridge">>})

\* What the files w are, those up to e and those after it.
Files(q, w, e) ==
  /\ \E n \in Nat : DOMAIN w = 1..n
  /\ \A j \in DOMAIN w :
       \/ \E i \in DOMAIN q.interfaces : w[j] = IfcfgIface(q, q.interfaces[i])
       \/ j <= e /\ \E p \in Implied(q) : w[j] = IfcfgPort(q, p)
       \/ \E i \in DOMAIN q.bonds : w[j] = IfcfgBond(q, q.bonds[i])
       \/ \E i \in DOMAIN q.vlans : w[j] = VlanFile(q, q.vlans[i])
       \/ \E i \in DOMAIN q.bridges : w[j] = BridgeFile(q, q.bridges[i])
  /\ \A i \in DOMAIN q.interfaces : \E j \in DOMAIN w : w[j] = IfcfgIface(q, q.interfaces[i])
  /\ \A p \in Implied(q) : \E j \in DOMAIN w : w[j] = IfcfgPort(q, p)
  /\ \A i \in DOMAIN q.bonds : \E j \in DOMAIN w : ~(j <= e) /\ w[j] = IfcfgBond(q, q.bonds[i])
  /\ \A i \in DOMAIN q.vlans : \E j \in DOMAIN w : ~(j <= e) /\ w[j] = VlanFile(q, q.vlans[i])
  /\ \A i \in DOMAIN q.bridges : \E j \in DOMAIN w : ~(j <= e) /\ w[j] = BridgeFile(q, q.bridges[i])

LEMMA FilesAre ==
  ASSUME NEW q \in Request
  PROVE  \E e \in Nat : Files(q, IfcfgWrites(q), e)
<1> PICK implied : implied = SetToSeq(Implied(q))
  OBVIOUS
<1> DEFINE a == [i \in DOMAIN q.interfaces |-> IfcfgIface(q, q.interfaces[i])]
           b == [i \in DOMAIN implied |-> IfcfgPort(q, implied[i])]
           c == [i \in DOMAIN q.bonds |-> IfcfgBond(q, q.bonds[i])]
           d == [i \in DOMAIN q.vlans |-> VlanFile(q, q.vlans[i])]
           f == [i \in DOMAIN q.bridges |-> BridgeFile(q, q.bridges[i])]
<1>1. IfcfgWrites(q) = a \o (b \o c \o d \o f)
  BY Zenon DEF IfcfgWrites, Implied, VlanFile, BridgeFile
<1>2. \E n \in Nat : DOMAIN implied = 1..n /\ ToSet(implied) = Implied(q)
  <2>1. IsFiniteSet(Implied(q))
    BY PortsAreNames, FS_Subset DEF Implied
  <2> QED
    BY <2>1, ListedWhole
<1>3. /\ \A i \in DOMAIN q.interfaces : a[i] = IfcfgIface(q, q.interfaces[i])
      /\ \A i \in DOMAIN implied : b[i] = IfcfgPort(q, implied[i])
      /\ \A i \in DOMAIN q.bonds : c[i] = IfcfgBond(q, q.bonds[i])
      /\ \A i \in DOMAIN q.vlans : d[i] = VlanFile(q, q.vlans[i])
      /\ \A i \in DOMAIN q.bridges : f[i] = BridgeFile(q, q.bridges[i])
  OBVIOUS
<1>4. PICK n \in Nat : Listed(b, n) /\ DOMAIN implied = 1..n
  BY <1>2 DEF Listed
<1>5. /\ Listed(a, Len(q.interfaces)) /\ Listed(c, Len(q.bonds)) /\ Listed(d, Len(q.vlans))
      /\ Listed(f, Len(q.bridges))
  BY RequestIs DEF Listed
<1>6. /\ DOMAIN a = DOMAIN q.interfaces /\ DOMAIN b = DOMAIN implied /\ DOMAIN c = DOMAIN q.bonds
      /\ DOMAIN d = DOMAIN q.vlans /\ DOMAIN f = DOMAIN q.bridges
  OBVIOUS
<1> HIDE DEF a, b, c, d, f
<1>7. PICK X : b \in Seq(X) /\ c \in Seq(X) /\ d \in Seq(X) /\ f \in Seq(X)
  BY <1>4, <1>5, FourLists
<1>8. PICK Y : a \in Seq(Y)
  BY <1>5, FourLists
<1>9. /\ a \in Seq(X \cup Y) /\ b \in Seq(X \cup Y) /\ c \in Seq(X \cup Y)
      /\ d \in Seq(X \cup Y) /\ f \in Seq(X \cup Y)
  <2>1. \A S, T : Seq(S) \subseteq Seq(S \cup T) /\ Seq(T) \subseteq Seq(S \cup T)
    OBVIOUS
  <2> QED
    BY <1>7, <1>8, <2>1
<1>23. PICK r : r = b \o c \o d \o f
  OBVIOUS
<1>10. r \in Seq(X \cup Y) /\ Four(r, b, c, d, f)
  BY <1>9, <1>23, FourTogether
<1>24. PICK w : w = a \o r
  OBVIOUS
<1>11. w \in Seq(X \cup Y) /\ Two(w, a, r)
  BY <1>9, <1>10, <1>24, TwoTogether
<1>12. /\ Len(a) \in Nat /\ Len(b) \in Nat /\ Len(c) \in Nat /\ Len(d) \in Nat
       /\ \A i \in DOMAIN a : i \in Nat /\ i <= Len(a)
       /\ \A i \in DOMAIN b : i \in Nat /\ i <= Len(b)
       /\ \A i \in DOMAIN c : i \in Nat /\ i > 0
       /\ \A i \in DOMAIN d : i \in Nat /\ i > 0
       /\ \A i \in DOMAIN f : i \in Nat /\ i > 0
  <2>1. \A S : \A s \in Seq(S) : Len(s) \in Nat /\ \A i \in DOMAIN s : i \in Nat /\ i > 0 /\ i <= Len(s)
    OBVIOUS
  <2> QED
    BY <1>9, <2>1
<1> DEFINE e == Len(a) + Len(b)
<1>25. e \in Nat
  BY <1>12
<1>13. \A j \in DOMAIN w :
         \/ \E i \in DOMAIN a : w[j] = a[i]
         \/ j <= e /\ \E i \in DOMAIN b : w[j] = b[i]
         \/ \E i \in DOMAIN c : w[j] = c[i]
         \/ \E i \in DOMAIN d : w[j] = d[i]
         \/ \E i \in DOMAIN f : w[j] = f[i]
  <2> SUFFICES ASSUME NEW j \in DOMAIN w
               PROVE  \/ \E i \in DOMAIN a : w[j] = a[i]
                      \/ j <= e /\ \E i \in DOMAIN b : w[j] = b[i]
                      \/ \E i \in DOMAIN c : w[j] = c[i]
                      \/ \E i \in DOMAIN d : w[j] = d[i]
                      \/ \E i \in DOMAIN f : w[j] = f[i]
    OBVIOUS
  <2>1. CASE j \in DOMAIN a
    BY <1>11, <2>1 DEF Two
  <2>2. CASE \E k \in DOMAIN r : j = Len(a) + k
    <3>1. PICK k \in DOMAIN r : j = Len(a) + k /\ w[j] = r[k]
      BY <1>11, <2>2 DEF Two
    <3>2. \/ k \in DOMAIN b /\ r[k] = b[k]
          \/ \E i \in DOMAIN c : r[k] = c[i]
          \/ \E i \in DOMAIN d : r[k] = d[i]
          \/ \E i \in DOMAIN f : r[k] = f[i]
      <4>1. /\ \A i \in DOMAIN b : r[i] = b[i]
            /\ \A i \in DOMAIN c : r[Len(b) + i] = c[i]
            /\ \A i \in DOMAIN d : r[Len(b) + Len(c) + i] = d[i]
            /\ \A i \in DOMAIN f : r[Len(b) + Len(c) + Len(d) + i] = f[i]
        BY <1>10, Zenon DEF Four
      <4>2. \/ k \in DOMAIN b
            \/ \E i \in DOMAIN c : k = Len(b) + i
            \/ \E i \in DOMAIN d : k = Len(b) + Len(c) + i
            \/ \E i \in DOMAIN f : k = Len(b) + Len(c) + Len(d) + i
        BY <1>10, Zenon DEF Four
      <4> QED
        BY <4>1, <4>2
    <3>3. k \in DOMAIN b => j <= e
      BY <1>12, <3>1
    <3> HIDE DEF e
    <3> QED
      BY <3>1, <3>2, <3>3
  <2> QED
    BY <1>11, <2>1, <2>2 DEF Two
<1>14. ASSUME NEW k \in DOMAIN r PROVE Len(a) + k \in DOMAIN w /\ w[Len(a) + k] = r[k]
  BY <1>11 DEF Two
<1>15. \A i \in DOMAIN a : i \in DOMAIN w /\ w[i] = a[i]
  BY <1>11 DEF Two
<1>16. \A i \in DOMAIN b : \E j \in DOMAIN w : w[j] = b[i]
  <2>1. \A i \in DOMAIN b : i \in DOMAIN r /\ r[i] = b[i]
    BY <1>10, Zenon DEF Four
  <2> QED
    BY <1>14, <2>1
<1>17. \A i \in DOMAIN c : \E j \in DOMAIN w : ~(j <= e) /\ w[j] = c[i]
  <2> SUFFICES ASSUME NEW i \in DOMAIN c PROVE \E j \in DOMAIN w : ~(j <= e) /\ w[j] = c[i]
    OBVIOUS
  <2>1. Len(b) + i \in DOMAIN r /\ r[Len(b) + i] = c[i]
    BY <1>10, Zenon DEF Four
  <2>2. ~(Len(a) + (Len(b) + i) <= e)
    BY <1>12
  <2> QED
    BY <1>14, <2>1, <2>2
<1>18. \A i \in DOMAIN d : \E j \in DOMAIN w : ~(j <= e) /\ w[j] = d[i]
  <2> SUFFICES ASSUME NEW i \in DOMAIN d PROVE \E j \in DOMAIN w : ~(j <= e) /\ w[j] = d[i]
    OBVIOUS
  <2>1. Len(b) + Len(c) + i \in DOMAIN r /\ r[Len(b) + Len(c) + i] = d[i]
    BY <1>10, Zenon DEF Four
  <2>2. ~(Len(a) + (Len(b) + Len(c) + i) <= e)
    BY <1>12
  <2> QED
    BY <1>14, <2>1, <2>2
<1>19. \A i \in DOMAIN f : \E j \in DOMAIN w : ~(j <= e) /\ w[j] = f[i]
  <2> SUFFICES ASSUME NEW i \in DOMAIN f PROVE \E j \in DOMAIN w : ~(j <= e) /\ w[j] = f[i]
    OBVIOUS
  <2>1. Len(b) + Len(c) + Len(d) + i \in DOMAIN r /\ r[Len(b) + Len(c) + Len(d) + i] = f[i]
    BY <1>10, Zenon DEF Four
  <2>2. ~(Len(a) + (Len(b) + Len(c) + Len(d) + i) <= e)
    BY <1>12
  <2> QED
    BY <1>14, <2>1, <2>2
<1>20. IfcfgWrites(q) = w /\ \E m \in Nat : DOMAIN w = 1..m
  BY <1>1, <1>11, <1>23, <1>24
<1>21. \A x : (\E i \in DOMAIN b : x = b[i]) <=> \E p \in Implied(q) : x = IfcfgPort(q, p)
  BY <1>2, <1>3, <1>6 DEF ToSet
<1> HIDE DEF e
<1>22. Files(q, w, e)
  <2>1. \A j \in DOMAIN w :
       \/ \E i \in DOMAIN q.interfaces : w[j] = IfcfgIface(q, q.interfaces[i])
       \/ j <= e /\ \E p \in Implied(q) : w[j] = IfcfgPort(q, p)
       \/ \E i \in DOMAIN q.bonds : w[j] = IfcfgBond(q, q.bonds[i])
       \/ \E i \in DOMAIN q.vlans : w[j] = VlanFile(q, q.vlans[i])
       \/ \E i \in DOMAIN q.bridges : w[j] = BridgeFile(q, q.bridges[i])
    BY <1>3, <1>6, <1>13, <1>21
  <2>2. \A i \in DOMAIN q.interfaces : \E j \in DOMAIN w : w[j] = IfcfgIface(q, q.interfaces[i])
    BY <1>3, <1>6, <1>15
  <2>3. \A p \in Implied(q) : \E j \in DOMAIN w : w[j] = IfcfgPort(q, p)
    BY <1>16, <1>21
  <2>4. \A i \in DOMAIN q.bonds : \E j \in DOMAIN w : ~(j <= e) /\ w[j] = IfcfgBond(q, q.bonds[i])
    BY <1>3, <1>6, <1>17
  <2>5. \A i \in DOMAIN q.vlans : \E j \in DOMAIN w : ~(j <= e) /\ w[j] = VlanFile(q, q.vlans[i])
    BY <1>3, <1>6, <1>18
  <2>6. \A i \in DOMAIN q.bridges : \E j \in DOMAIN w : ~(j <= e) /\ w[j] = BridgeFile(q, q.bridges[i])
    BY <1>3, <1>6, <1>19
  <2> QED
    BY <1>20, <2>1, <2>2, <2>3, <2>4, <2>5, <2>6, Zenon DEF Files
<1> QED
  BY <1>20, <1>22, <1>25

LEMMA ThreeTogether ==
  ASSUME NEW X, NEW s \in Seq(X), NEW t \in Seq(X), NEW u \in Seq(X)
  PROVE  ToSet(s \o t \o u) = ToSet(s) \cup ToSet(t) \cup ToSet(u)
<1>1. PICK w : w = s \o t
  OBVIOUS
<1>2. w \in Seq(X)
  BY <1>1
<1>3. ToSet(w) = ToSet(s) \cup ToSet(t)
  BY <1>1, ApartTogether
<1>4. ToSet(w \o u) = ToSet(w) \cup ToSet(u)
  <2>1. \A a, b \in Seq(X) : ToSet(a \o b) = ToSet(a) \cup ToSet(b)
    BY ApartTogether
  <2> QED
    BY <1>2, <2>1, Zenon
<1> QED
  BY <1>1, <1>3, <1>4

\* The names of bonds, VLANs and bridges.
LEMMA VirtualIs ==
  ASSUME NEW q \in Request, NEW n
  PROVE  n \in ToSet(VirtualNames(q)) <=>
           \E k \in Own(q) : k \notin DOMAIN q.interfaces /\ n = NameAt(q, k)
<1> DEFINE b == NamesOf(q.bonds)
           v == NamesOf(Vlans(q))
           r == NamesOf(q.bridges)
<1>1. PICK X : b \in Seq(X) /\ v \in Seq(X) /\ r \in Seq(X)
  BY NamesListed
<1>2. /\ n \in ToSet(b) <=> \E i \in DOMAIN q.bonds : n = q.bonds[i].name
      /\ n \in ToSet(v) <=> \E i \in DOMAIN q.vlans : n = VlanName(q.vlans[i])
      /\ n \in ToSet(r) <=> \E i \in DOMAIN q.bridges : n = q.bridges[i].name
  BY DEF ToSet, NamesOf, Vlans
<1>6. VirtualNames(q) = b \o v \o r
  BY DEF VirtualNames
<1> HIDE DEF b, v, r
<1>3. ToSet(VirtualNames(q)) = ToSet(b) \cup ToSet(v) \cup ToSet(r)
  BY <1>1, <1>6, ThreeTogether
<1>4. n \in ToSet(VirtualNames(q)) <=>
        \/ \E i \in DOMAIN q.bonds : n = NameAt(q, BondAt(q, i))
        \/ \E i \in DOMAIN q.vlans : n = NameAt(q, VlanAt(q, i))
        \/ \E i \in DOMAIN q.bridges : n = NameAt(q, BridgeAt(q, i))
  <2>1. /\ \A i \in DOMAIN q.bonds : NameAt(q, BondAt(q, i)) = q.bonds[i].name
        /\ \A i \in DOMAIN q.vlans : NameAt(q, VlanAt(q, i)) = VlanName(q.vlans[i])
        /\ \A i \in DOMAIN q.bridges : NameAt(q, BridgeAt(q, i)) = q.bridges[i].name
    BY Sections, Zenon
  <2> QED
    BY <1>2, <1>3, <2>1
<1>5. /\ \A i \in DOMAIN q.bonds : BondAt(q, i) \in Own(q) /\ BondAt(q, i) \notin DOMAIN q.interfaces
      /\ \A i \in DOMAIN q.vlans : VlanAt(q, i) \in Own(q) /\ VlanAt(q, i) \notin DOMAIN q.interfaces
      /\ \A i \in DOMAIN q.bridges : BridgeAt(q, i) \in Own(q) /\ BridgeAt(q, i) \notin DOMAIN q.interfaces
  BY OwnIs, Zenon
<1>7. \A k \in Own(q) : k \notin DOMAIN q.interfaces =>
        \/ \E i \in DOMAIN q.bonds : k = BondAt(q, i)
        \/ \E i \in DOMAIN q.vlans : k = VlanAt(q, i)
        \/ \E i \in DOMAIN q.bridges : k = BridgeAt(q, i)
  <2>1. \A k \in Own(q) : k \in DOMAIN Ordered(q)
    BY DEF Own
  <2>2. \A k \in DOMAIN Ordered(q) :
              \/ k \in DOMAIN q.interfaces
              \/ \E i \in DOMAIN q.bonds : k = BondAt(q, i)
              \/ \E i \in DOMAIN q.vlans : k = VlanAt(q, i)
              \/ \E i \in DOMAIN q.bridges : k = BridgeAt(q, i)
    BY Sections, Zenon
  <2> QED
    BY <2>1, <2>2, Zenon
<1> QED
  BY <1>4, <1>5, <1>7, Zenon

\* The bond that an ifcfg file makes: mode 0 is written as 1.
WrittenBond(o) == <<"bond", o.name, <<IF o.level = 0 THEN 1 ELSE o.level, o.primary>> >>
LinkFact(v) == <<"link", VlanName(v), v.parent>>

\* The file of the device at place i, and how it says that the device is made and joined.
Made(q, i, x) == <<NameAt(q, i), x \cup Written(q, i)>>

Joins(q, i, x) ==
  /\ \A f \in x :
       \/ f[1] = "type" \/ f \in JoinedOf(q)
       \/ f[1] = "bond" /\ f[3][1] = 1 /\ <<"bond", f[2], <<0, f[3][2]>> >> \in JoinedOf(q)
  /\ \A b \in ToSet(q.bonds) : b.name = NameAt(q, i) /\ b.level # 0 => BondFact(b) \in x
  /\ \A v \in ToSet(q.vlans) : VlanName(v) = NameAt(q, i) => LinkFact(v) \in x

MadeRight(q, i, d) == \E x : d = Made(q, i, x) /\ Joins(q, i, x)

LEMMA IfcfgIsMade ==
  ASSUME NEW q \in Request, q.format = "ifcfg", NEW i \in DOMAIN Ordered(q), NEW x, NEW o,
         o = IF i \in DOMAIN q.interfaces THEN L3At(q, i) ELSE Passed(L3At(q, i))
  PROVE  IfcfgDevice(q, NameAt(q, i), o, x) = Made(q, i, x)
<1>1. Written(q, i) = IpLines(NameAt(q, i), o, Metric(q, NameAt(q, i))) \cup RoutesOf(NameAt(q, i), o)
  BY DEF Written
<1> QED
  BY <1>1 DEF IfcfgDevice, Made

\* Bonds and VLANs are told apart by their names.
LEMMA VirtualApart ==
  ASSUME NEW q \in Request, NamesOnce(q)
  PROVE  /\ \A i \in DOMAIN q.interfaces : \A k \in Own(q) :
              NameAt(q, k) = q.interfaces[i].name => k = i
         /\ \A i \in DOMAIN q.bonds : \A k \in Own(q) :
              NameAt(q, k) = q.bonds[i].name => k = BondAt(q, i)
         /\ \A i \in DOMAIN q.vlans : \A k \in Own(q) :
              NameAt(q, k) = VlanName(q.vlans[i]) => k = VlanAt(q, i)
<1>1. \A k \in Own(q) : k \in DOMAIN Ordered(q)
  BY DEF Own
<1>2. /\ \A i \in DOMAIN q.interfaces : i \in DOMAIN Ordered(q) /\ NameAt(q, i) = q.interfaces[i].name
      /\ \A i \in DOMAIN q.bonds : BondAt(q, i) \in DOMAIN Ordered(q) /\ NameAt(q, BondAt(q, i)) = q.bonds[i].name
      /\ \A i \in DOMAIN q.vlans : VlanAt(q, i) \in DOMAIN Ordered(q) /\ NameAt(q, VlanAt(q, i)) = VlanName(q.vlans[i])
  BY Sections, Zenon
<1>3. \A i, k \in DOMAIN Ordered(q) : NameAt(q, i) = NameAt(q, k) => i = k
  BY DevicesApart
<1> QED
  BY <1>1, <1>2, <1>3, Zenon

LEMMA PlacesApart ==
  ASSUME NEW q \in Request
  PROVE  /\ \A i, k \in DOMAIN q.bonds : BondAt(q, i) = BondAt(q, k) => i = k
         /\ \A i, k \in DOMAIN q.vlans : VlanAt(q, i) = VlanAt(q, k) => i = k
         /\ \A i \in DOMAIN q.bonds : \A k \in DOMAIN q.vlans : BondAt(q, i) # VlanAt(q, k)
         /\ \A i \in DOMAIN q.bonds : \A k \in DOMAIN q.bridges : BondAt(q, i) # BridgeAt(q, k)
         /\ \A i \in DOMAIN q.vlans : \A k \in DOMAIN q.bridges : VlanAt(q, i) # BridgeAt(q, k)
<1>1. /\ DOMAIN q.bonds = 1..Len(q.bonds) /\ DOMAIN q.vlans = 1..Len(q.vlans)
      /\ DOMAIN q.bridges = 1..Len(q.bridges)
      /\ Len(q.interfaces) \in Nat /\ Len(q.bonds) \in Nat
      /\ Len(q.vlans) \in Nat /\ Len(q.bridges) \in Nat
  BY RequestIs, Zenon
<1> DEFINE a == Len(q.interfaces)
           b == Len(q.bonds)
           c == Len(q.vlans)
           d == Len(q.bridges)
<1>2. /\ \A i : BondAt(q, i) = a + i /\ VlanAt(q, i) = a + b + i /\ BridgeAt(q, i) = a + b + c + i
      /\ DOMAIN q.bonds = 1..b /\ DOMAIN q.vlans = 1..c /\ DOMAIN q.bridges = 1..d
      /\ a \in Nat /\ b \in Nat /\ c \in Nat /\ d \in Nat
  BY <1>1 DEF BondAt, VlanAt, BridgeAt
<1> HIDE DEF a, b, c, d
<1> QED
  BY <1>2

\* Where the bond and the VLAN of a name are.
LEMMA WhereVirtual ==
  ASSUME NEW q \in Request, NamesOnce(q), NEW k \in Own(q)
  PROVE  /\ \A b \in ToSet(q.bonds) : b.name = NameAt(q, k) =>
              \E i \in DOMAIN q.bonds : b = q.bonds[i] /\ k = BondAt(q, i)
         /\ \A v \in ToSet(q.vlans) : VlanName(v) = NameAt(q, k) =>
              \E i \in DOMAIN q.vlans : v = q.vlans[i] /\ k = VlanAt(q, i)
<1>1. /\ \A b \in ToSet(q.bonds) : \E i \in DOMAIN q.bonds : b = q.bonds[i]
      /\ \A v \in ToSet(q.vlans) : \E i \in DOMAIN q.vlans : v = q.vlans[i]
  BY DEF ToSet
<1>2. /\ \A i \in DOMAIN q.bonds : NameAt(q, k) = q.bonds[i].name => k = BondAt(q, i)
      /\ \A i \in DOMAIN q.vlans : NameAt(q, k) = VlanName(q.vlans[i]) => k = VlanAt(q, i)
  BY VirtualApart, Zenon
<1> QED
  BY <1>1, <1>2, Zenon

LEMMA OnlyVirtual ==
  ASSUME NEW q \in Request, NamesOnce(q)
  PROVE  /\ \A i \in DOMAIN q.bonds :
              /\ \A b \in ToSet(q.bonds) : b.name = NameAt(q, BondAt(q, i)) => b = q.bonds[i]
              /\ \A v \in ToSet(q.vlans) : VlanName(v) # NameAt(q, BondAt(q, i))
         /\ \A i \in DOMAIN q.vlans :
              /\ \A v \in ToSet(q.vlans) : VlanName(v) = NameAt(q, VlanAt(q, i)) => v = q.vlans[i]
              /\ \A b \in ToSet(q.bonds) : b.name # NameAt(q, VlanAt(q, i))
<1>1. ASSUME NEW k \in Own(q)
      PROVE  /\ \A b \in ToSet(q.bonds) : b.name = NameAt(q, k) =>
                  \E i \in DOMAIN q.bonds : b = q.bonds[i] /\ k = BondAt(q, i)
             /\ \A v \in ToSet(q.vlans) : VlanName(v) = NameAt(q, k) =>
                  \E i \in DOMAIN q.vlans : v = q.vlans[i] /\ k = VlanAt(q, i)
  BY WhereVirtual, Zenon
<1>2. /\ \A i \in DOMAIN q.bonds : BondAt(q, i) \in Own(q)
      /\ \A i \in DOMAIN q.vlans : VlanAt(q, i) \in Own(q)
  BY OwnIs, Zenon
<1>3. /\ \A i, k \in DOMAIN q.bonds : BondAt(q, i) = BondAt(q, k) => i = k
      /\ \A i, k \in DOMAIN q.vlans : VlanAt(q, i) = VlanAt(q, k) => i = k
      /\ \A i \in DOMAIN q.bonds : \A k \in DOMAIN q.vlans : BondAt(q, i) # VlanAt(q, k)
  BY PlacesApart, Zenon
<1>4. ASSUME NEW i \in DOMAIN q.bonds
      PROVE  /\ \A b \in ToSet(q.bonds) : b.name = NameAt(q, BondAt(q, i)) => b = q.bonds[i]
             /\ \A v \in ToSet(q.vlans) : VlanName(v) # NameAt(q, BondAt(q, i))
  BY <1>1, <1>2, <1>3
<1>5. ASSUME NEW i \in DOMAIN q.vlans
      PROVE  /\ \A v \in ToSet(q.vlans) : VlanName(v) = NameAt(q, VlanAt(q, i)) => v = q.vlans[i]
             /\ \A b \in ToSet(q.bonds) : b.name # NameAt(q, VlanAt(q, i))
  BY <1>1, <1>2, <1>3
<1> QED
  BY <1>4, <1>5

LEMMA TypeJoins ==
  ASSUME NEW q \in Request, NamesOnce(q), NEW k \in Own(q), NEW x, \A f \in x : f[1] = "type",
         \A i \in DOMAIN q.bonds : k # BondAt(q, i), \A i \in DOMAIN q.vlans : k # VlanAt(q, i)
  PROVE  Joins(q, k, x)
BY WhereVirtual, Zenon DEF Joins

LEMMA BondJoins ==
  ASSUME NEW q \in Request, NamesOnce(q), NEW i \in DOMAIN q.bonds, NEW t, t[1] = "type", NEW x,
         \A f : f \in x <=> f = t \/ f = WrittenBond(q.bonds[i])
  PROVE  Joins(q, BondAt(q, i), x)
<1> DEFINE k == BondAt(q, i)
           o == q.bonds[i]
<1>1. k \in Own(q) /\ o \in ToSet(q.bonds)
  BY OwnIs, Zenon DEF ToSet
<1>2. <<"bond", o.name, <<o.level, o.primary>> >> \in JoinedOf(q)
  BY <1>1, JoinedIs
<1>3. CASE o.level = 0
  <2>1. PICK f : f = WrittenBond(o)
    OBVIOUS
  <2>2. f = <<"bond", o.name, <<1, o.primary>> >>
    BY <1>3, <2>1 DEF WrittenBond
  <2>3. f[1] = "bond" /\ f[2] = o.name /\ f[3] = <<1, o.primary>>
    BY <2>2
  <2>5. f[3][1] = 1 /\ f[3][2] = o.primary
    BY <2>3
  <2>4. f[1] = "bond" /\ f[3][1] = 1 /\ <<"bond", f[2], <<0, f[3][2]>> >> \in JoinedOf(q)
    BY <1>2, <1>3, <2>3, <2>5
  <2>6. \A b \in ToSet(q.bonds) : b.name = NameAt(q, k) => b = o
    BY OnlyVirtual, Zenon
  <2>7. \A v \in ToSet(q.vlans) : VlanName(v) # NameAt(q, k)
    BY OnlyVirtual, Zenon
  <2>8. \A g \in x : g[1] = "type" \/ g = f
    BY <2>1
  <2> HIDE DEF k, o
  <2>9. Joins(q, k, x)
    BY <1>3, <2>4, <2>6, <2>7, <2>8 DEF Joins
  <2> QED
    BY <2>9 DEF k
<1>4. CASE o.level # 0
  <2>1. WrittenBond(o) = BondFact(o) /\ BondFact(o) \in JoinedOf(q)
    BY <1>2, <1>4 DEF WrittenBond, BondFact
  <2>6. \A b \in ToSet(q.bonds) : b.name = NameAt(q, k) => b = o
    BY OnlyVirtual, Zenon
  <2>7. \A v \in ToSet(q.vlans) : VlanName(v) # NameAt(q, k)
    BY OnlyVirtual, Zenon
  <2>8. BondFact(o) \in x /\ \A g \in x : g[1] = "type" \/ g \in JoinedOf(q)
    BY <2>1
  <2> HIDE DEF k, o
  <2>9. Joins(q, k, x)
    BY <2>6, <2>7, <2>8 DEF Joins
  <2> QED
    BY <2>9 DEF k
<1> QED
  BY <1>3, <1>4

LEMMA VlanJoins ==
  ASSUME NEW q \in Request, NamesOnce(q), NEW i \in DOMAIN q.vlans, NEW t, t[1] = "type", NEW x,
         \A f : f \in x <=> f = t \/ f = LinkFact(q.vlans[i])
  PROVE  Joins(q, VlanAt(q, i), x)
<1> DEFINE k == VlanAt(q, i)
           o == q.vlans[i]
<1>1. k \in Own(q) /\ o \in ToSet(q.vlans)
  BY OwnIs, Zenon DEF ToSet
<1>2. LinkFact(o) \in JoinedOf(q)
  BY <1>1, JoinedIs DEF LinkFact
<1>6. \A v \in ToSet(q.vlans) : VlanName(v) = NameAt(q, k) => v = o
  BY OnlyVirtual, Zenon
<1>7. \A b \in ToSet(q.bonds) : b.name # NameAt(q, k)
  BY OnlyVirtual, Zenon
<1>8. LinkFact(o) \in x /\ \A g \in x : g[1] = "type" \/ g \in JoinedOf(q)
  BY <1>2
<1> HIDE DEF k, o
<1>9. Joins(q, k, x)
  BY <1>6, <1>7, <1>8 DEF Joins
<1> QED
  BY <1>9 DEF k

\* The file of a device that has settings says how it is made, and has the settings.
LEMMA DeviceFiles ==
  ASSUME NEW q \in Request, NamesOnce(q), q.format = "ifcfg"
  PROVE  /\ \A i \in DOMAIN q.interfaces : q.interfaces[i].name \notin Ports(q) =>
              MadeRight(q, i, IfcfgIface(q, q.interfaces[i]))
         /\ \A i \in DOMAIN q.bonds : MadeRight(q, BondAt(q, i), IfcfgBond(q, q.bonds[i]))
         /\ \A i \in DOMAIN q.vlans : MadeRight(q, VlanAt(q, i), VlanFile(q, q.vlans[i]))
         /\ \A i \in DOMAIN q.bridges : MadeRight(q, BridgeAt(q, i), BridgeFile(q, q.bridges[i]))
<1>1. ASSUME NEW i \in DOMAIN q.interfaces, q.interfaces[i].name \notin Ports(q)
      PROVE  MadeRight(q, i, IfcfgIface(q, q.interfaces[i]))
  <2>1. i \in DOMAIN Ordered(q) /\ NameAt(q, i) = q.interfaces[i].name /\ L3At(q, i) = q.interfaces[i].l3
    BY Sections, Zenon
  <2>2. /\ i \in Own(q)
        /\ \A k \in DOMAIN q.bonds : i # BondAt(q, k)
        /\ \A k \in DOMAIN q.vlans : i # VlanAt(q, k)
    BY <1>1, OwnIs, Zenon
  <2>3. PICK x : x = {<<"type", q.interfaces[i].name, "ethernet">>}
    OBVIOUS
  <2>4. IfcfgIface(q, q.interfaces[i]) = IfcfgDevice(q, NameAt(q, i), L3At(q, i), x)
    BY <1>1, <2>1, <2>3 DEF IfcfgIface
  <2>5. IfcfgIface(q, q.interfaces[i]) = Made(q, i, x)
    BY <2>1, <2>4, IfcfgIsMade
  <2>6. \A f \in x : f[1] = "type"
    BY <2>3
  <2>7. Joins(q, i, x)
    BY <2>2, <2>6, TypeJoins
  <2> QED
    BY <2>5, <2>7 DEF MadeRight
<1>2. ASSUME NEW i \in DOMAIN q.bonds
      PROVE  MadeRight(q, BondAt(q, i), IfcfgBond(q, q.bonds[i]))
  <2> DEFINE k == BondAt(q, i)
  <2>1. k \in DOMAIN Ordered(q) /\ NameAt(q, k) = q.bonds[i].name /\ L3At(q, k) = q.bonds[i].l3
    BY Sections, Zenon
  <2>2. k \notin DOMAIN q.interfaces
    BY OwnIs, Zenon
  <2>3. PICK x : x = {<<"type", q.bonds[i].name, "bond">>, WrittenBond(q.bonds[i])}
    OBVIOUS
  <2>4. IfcfgBond(q, q.bonds[i]) = IfcfgDevice(q, NameAt(q, k), Passed(L3At(q, k)), x)
    BY <2>1, <2>3 DEF IfcfgBond, WrittenBond
  <2>5. IfcfgBond(q, q.bonds[i]) = Made(q, k, x)
    BY <2>1, <2>2, <2>4, IfcfgIsMade
  <2>8. PICK t : t = <<"type", q.bonds[i].name, "bond">>
    OBVIOUS
  <2>6. t[1] = "type" /\ \A f : f \in x <=> f = t \/ f = WrittenBond(q.bonds[i])
    BY <2>3, <2>8
  <2>7. Joins(q, k, x)
    BY <2>6, BondJoins
  <2> QED
    BY <2>5, <2>7 DEF MadeRight
<1>3. ASSUME NEW i \in DOMAIN q.vlans
      PROVE  MadeRight(q, VlanAt(q, i), VlanFile(q, q.vlans[i]))
  <2> DEFINE k == VlanAt(q, i)
  <2>1. k \in DOMAIN Ordered(q) /\ NameAt(q, k) = VlanName(q.vlans[i]) /\ L3At(q, k) = q.vlans[i].l3
    BY Sections, Zenon
  <2>2. k \notin DOMAIN q.interfaces
    BY OwnIs, Zenon
  <2>3. PICK x : x = {<<"type", VlanName(q.vlans[i]), "vlan">>, LinkFact(q.vlans[i])}
    OBVIOUS
  <2>4. VlanFile(q, q.vlans[i]) = IfcfgDevice(q, NameAt(q, k), Passed(L3At(q, k)), x)
    BY <2>1, <2>3 DEF VlanFile, LinkFact
  <2>5. VlanFile(q, q.vlans[i]) = Made(q, k, x)
    BY <2>1, <2>2, <2>4, IfcfgIsMade
  <2>8. PICK t : t = <<"type", VlanName(q.vlans[i]), "vlan">>
    OBVIOUS
  <2>6. t[1] = "type" /\ \A f : f \in x <=> f = t \/ f = LinkFact(q.vlans[i])
    BY <2>3, <2>8
  <2>7. Joins(q, k, x)
    BY <2>6, VlanJoins
  <2> QED
    BY <2>5, <2>7 DEF MadeRight
<1>4. ASSUME NEW i \in DOMAIN q.bridges
      PROVE  MadeRight(q, BridgeAt(q, i), BridgeFile(q, q.bridges[i]))
  <2> DEFINE k == BridgeAt(q, i)
  <2>1. k \in DOMAIN Ordered(q) /\ NameAt(q, k) = q.bridges[i].name /\ L3At(q, k) = q.bridges[i].l3
    BY Sections, Zenon
  <2>2. /\ k \in Own(q) /\ k \notin DOMAIN q.interfaces
        /\ \A l \in DOMAIN q.bonds : k # BondAt(q, l)
        /\ \A l \in DOMAIN q.vlans : k # VlanAt(q, l)
    BY OwnIs, PlacesApart, Zenon
  <2>3. PICK x : x = {<<"type", q.bridges[i].name, "bridge">>}
    OBVIOUS
  <2>4. BridgeFile(q, q.bridges[i]) = IfcfgDevice(q, NameAt(q, k), Passed(L3At(q, k)), x)
    BY <2>1, <2>3 DEF BridgeFile
  <2>5. BridgeFile(q, q.bridges[i]) = Made(q, k, x)
    BY <2>1, <2>2, <2>4, IfcfgIsMade
  <2>6. \A f \in x : f[1] = "type"
    BY <2>3
  <2>7. Joins(q, k, x)
    BY <2>2, <2>6, TypeJoins
  <2> QED
    BY <2>5, <2>7 DEF MadeRight
<1> QED
  BY <1>1, <1>2, <1>3, <1>4

\* The file w[j] is the last of its name.
Lasts(w, j) == j \in DOMAIN w /\ \A k \in DOMAIN w : w[k][1] = w[j][1] => k <= j

LEMMA IfcfgIs ==
  ASSUME NEW q, NEW f
  PROVE  f \in Ifcfg(q) <=> \E j : Lasts(IfcfgWrites(q), j) /\ f \in IfcfgWrites(q)[j][2]
<1> PICK w : w = IfcfgWrites(q)
  OBVIOUS
<1>1. PICK K : K = {j \in DOMAIN w : \A k \in DOMAIN w : w[k][1] = w[j][1] => k <= j}
  OBVIOUS
<1>2. \A j : j \in K <=> Lasts(w, j)
  BY <1>1 DEF Lasts
<1>3. Ifcfg(q) = UNION {w[j][2] : j \in K}
  BY <1>1, Zenon DEF Ifcfg
<1>4. f \in UNION {w[j][2] : j \in K} <=> \E j \in K : f \in w[j][2]
  OBVIOUS
<1> QED
  BY <1>2, <1>3, <1>4, Zenon

LEMMA LastOfName ==
  ASSUME NEW n \in Nat, NEW w, DOMAIN w = 1..n, NEW i \in DOMAIN w
  PROVE  \E j : Lasts(w, j) /\ w[j][1] = w[i][1] /\ i <= j
<1> DEFINE d == {k \in 1..n : w[k][1] = w[i][1]}
<1>1. d \in SUBSET (1..n) /\ i \in d
  OBVIOUS
<1>2. Max(d) \in d /\ \A k \in d : k <= Max(d)
  BY <1>1, GreatestOf
<1> PICK j : j = Max(d)
  OBVIOUS
<1>3. j \in DOMAIN w /\ w[j][1] = w[i][1] /\ i <= j
  BY <1>1, <1>2
<1>4. \A k \in DOMAIN w : w[k][1] = w[j][1] => k <= j
  BY <1>2, <1>3
<1> QED
  BY <1>3, <1>4 DEF Lasts

\* The files, by what they are the files of.
FilesRight(q, w, e) ==
  /\ \A j \in DOMAIN w :
       \/ \E i \in Own(q) : MadeRight(q, i, w[j])
       \/ \E p \in Ports(q) : w[j] = IfcfgPort(q, p) /\ (p \in ToSet(VirtualNames(q)) => j <= e)
  /\ \A i \in Own(q) : \E j \in DOMAIN w :
       MadeRight(q, i, w[j]) /\ (NameAt(q, i) \in ToSet(VirtualNames(q)) => ~(j <= e))
  /\ \A p \in Ports(q) : \E j \in DOMAIN w : w[j] = IfcfgPort(q, p)

LEMMA InterfaceNotVirtual ==
  ASSUME NEW q \in Request, NamesOnce(q), NEW i \in DOMAIN q.interfaces
  PROVE  q.interfaces[i].name \notin ToSet(VirtualNames(q))
<1>1. \A k \in Own(q) : NameAt(q, k) = q.interfaces[i].name => k = i
  BY VirtualApart, Zenon
<1> QED
  BY <1>1, VirtualIs

LEMMA FilesAreRight ==
  ASSUME NEW q \in Request, NamesOnce(q), q.format = "ifcfg", NEW w, NEW e, Files(q, w, e)
  PROVE  FilesRight(q, w, e)
<1>1. /\ \A i \in DOMAIN q.interfaces : q.interfaces[i].name \notin Ports(q) =>
           i \in Own(q) /\ MadeRight(q, i, IfcfgIface(q, q.interfaces[i]))
      /\ \A i \in DOMAIN q.bonds :
           BondAt(q, i) \in Own(q) /\ MadeRight(q, BondAt(q, i), IfcfgBond(q, q.bonds[i]))
      /\ \A i \in DOMAIN q.vlans :
           VlanAt(q, i) \in Own(q) /\ MadeRight(q, VlanAt(q, i), VlanFile(q, q.vlans[i]))
      /\ \A i \in DOMAIN q.bridges :
           BridgeAt(q, i) \in Own(q) /\ MadeRight(q, BridgeAt(q, i), BridgeFile(q, q.bridges[i]))
  BY DeviceFiles, OwnIs, Zenon
<1>2. \A i \in DOMAIN q.interfaces : q.interfaces[i].name \in Ports(q) =>
        /\ IfcfgIface(q, q.interfaces[i]) = IfcfgPort(q, q.interfaces[i].name)
        /\ q.interfaces[i].name \notin ToSet(VirtualNames(q))
  BY InterfaceNotVirtual DEF IfcfgIface
<1>3. ASSUME NEW j \in DOMAIN w
      PROVE  \/ \E i \in Own(q) : MadeRight(q, i, w[j])
             \/ \E p \in Ports(q) : w[j] = IfcfgPort(q, p) /\ (p \in ToSet(VirtualNames(q)) => j <= e)
  <2>1. \/ \E i \in DOMAIN q.interfaces : w[j] = IfcfgIface(q, q.interfaces[i])
        \/ j <= e /\ \E p \in Implied(q) : w[j] = IfcfgPort(q, p)
        \/ \E i \in DOMAIN q.bonds : w[j] = IfcfgBond(q, q.bonds[i])
        \/ \E i \in DOMAIN q.vlans : w[j] = VlanFile(q, q.vlans[i])
        \/ \E i \in DOMAIN q.bridges : w[j] = BridgeFile(q, q.bridges[i])
    BY Zenon DEF Files
  <2>2. \A p \in Implied(q) : p \in Ports(q)
    BY DEF Implied
  <2>3. CASE \E i \in DOMAIN q.interfaces : w[j] = IfcfgIface(q, q.interfaces[i])
    BY <1>1, <1>2, <2>3
  <2>4. CASE j <= e /\ \E p \in Implied(q) : w[j] = IfcfgPort(q, p)
    BY <2>2, <2>4
  <2>5. CASE \E i \in DOMAIN q.bonds : w[j] = IfcfgBond(q, q.bonds[i])
    BY <1>1, <2>5
  <2>6. CASE \E i \in DOMAIN q.vlans : w[j] = VlanFile(q, q.vlans[i])
    BY <1>1, <2>6
  <2>7. CASE \E i \in DOMAIN q.bridges : w[j] = BridgeFile(q, q.bridges[i])
    BY <1>1, <2>7
  <2> QED
    BY <2>1, <2>3, <2>4, <2>5, <2>6, <2>7
<1>4. ASSUME NEW i \in Own(q)
      PROVE  \E j \in DOMAIN w :
               MadeRight(q, i, w[j]) /\ (NameAt(q, i) \in ToSet(VirtualNames(q)) => ~(j <= e))
  <2>1. i \in DOMAIN Ordered(q)
    BY DEF Own
  <2>2. \/ i \in DOMAIN q.interfaces
        \/ \E k \in DOMAIN q.bonds : i = BondAt(q, k)
        \/ \E k \in DOMAIN q.vlans : i = VlanAt(q, k)
        \/ \E k \in DOMAIN q.bridges : i = BridgeAt(q, k)
    BY <2>1, Sections, Zenon
  <2>3. CASE i \in DOMAIN q.interfaces
    <3>1. q.interfaces[i].name \notin Ports(q) /\ NameAt(q, i) = q.interfaces[i].name
      <4>1. q.interfaces[i].name \notin Ports(q)
        BY <2>3, OwnIs, Zenon
      <4>2. NameAt(q, i) = q.interfaces[i].name
        BY <2>3, Sections, Zenon
      <4> QED
        BY <4>1, <4>2
    <3>2. PICK j \in DOMAIN w : w[j] = IfcfgIface(q, q.interfaces[i])
      BY <2>3, Zenon DEF Files
    <3> QED
      BY <1>1, <2>3, <3>1, <3>2, InterfaceNotVirtual
  <2>4. CASE \E k \in DOMAIN q.bonds : i = BondAt(q, k)
    <3>1. PICK k \in DOMAIN q.bonds : i = BondAt(q, k)
      BY <2>4
    <3>2. PICK j \in DOMAIN w : ~(j <= e) /\ w[j] = IfcfgBond(q, q.bonds[k])
      BY Zenon DEF Files
    <3> QED
      BY <1>1, <3>1, <3>2
  <2>5. CASE \E k \in DOMAIN q.vlans : i = VlanAt(q, k)
    <3>1. PICK k \in DOMAIN q.vlans : i = VlanAt(q, k)
      BY <2>5
    <3>2. PICK j \in DOMAIN w : ~(j <= e) /\ w[j] = VlanFile(q, q.vlans[k])
      BY Zenon DEF Files
    <3> QED
      BY <1>1, <3>1, <3>2
  <2>6. CASE \E k \in DOMAIN q.bridges : i = BridgeAt(q, k)
    <3>1. PICK k \in DOMAIN q.bridges : i = BridgeAt(q, k)
      BY <2>6
    <3>2. PICK j \in DOMAIN w : ~(j <= e) /\ w[j] = BridgeFile(q, q.bridges[k])
      BY Zenon DEF Files
    <3> QED
      BY <1>1, <3>1, <3>2
  <2> QED
    BY <2>2, <2>3, <2>4, <2>5, <2>6
<1>5. ASSUME NEW p \in Ports(q) PROVE \E j \in DOMAIN w : w[j] = IfcfgPort(q, p)
  <2>1. CASE p \in Implied(q)
    BY <2>1, Zenon DEF Files
  <2>2. CASE p \notin Implied(q)
    <3>1. PICK i \in DOMAIN q.interfaces : p = q.interfaces[i].name
      BY <2>2 DEF Implied, ToSet, NamesOf
    <3>2. PICK j \in DOMAIN w : w[j] = IfcfgIface(q, q.interfaces[i])
      BY Zenon DEF Files
    <3> QED
      BY <1>2, <3>1, <3>2
  <2> QED
    BY <2>1, <2>2
<1> QED
  BY <1>3, <1>4, <1>5 DEF FilesRight

\* The file that stays of a device with settings is its own, that of a port the port's.
LEMMA OwnFileStays ==
  ASSUME NEW q \in Request, NamesOnce(q), NEW n \in Nat, NEW w, DOMAIN w = 1..n, NEW e \in Nat,
         FilesRight(q, w, e)
  PROVE  /\ \A i \in Own(q) : \E j : Lasts(w, j) /\ MadeRight(q, i, w[j])
         /\ \A p \in Ports(q) : p \notin ToSet(VirtualNames(q)) =>
              \E j : Lasts(w, j) /\ w[j] = IfcfgPort(q, p)
<1>1. \A i, d : MadeRight(q, i, d) => d[1] = NameAt(q, i)
  BY DEF MadeRight, Made
<1>2. \A p : IfcfgPort(q, p)[1] = p
  BY DEF IfcfgPort
<1>3. \A i, k \in Own(q) : NameAt(q, i) = NameAt(q, k) => i = k
  <2>1. \A i \in Own(q) : i \in DOMAIN Ordered(q)
    BY DEF Own
  <2> QED
    BY <2>1, DevicesApart
<1>4. \A i \in Own(q) : NameAt(q, i) \in Ports(q) => NameAt(q, i) \in ToSet(VirtualNames(q))
  <2>1. \A i \in DOMAIN q.interfaces : i \in Own(q) => NameAt(q, i) \notin Ports(q)
    <3>1. \A i \in DOMAIN q.interfaces : i \in Own(q) => q.interfaces[i].name \notin Ports(q)
      BY OwnIs, Zenon
    <3>2. \A i \in DOMAIN q.interfaces : NameAt(q, i) = q.interfaces[i].name
      BY Sections, Zenon
    <3> QED
      BY <3>1, <3>2
  <2> QED
    BY <2>1, VirtualIs
<1>5. ASSUME NEW i \in Own(q) PROVE \E j : Lasts(w, j) /\ MadeRight(q, i, w[j])
  <2>1. PICK j0 \in DOMAIN w :
          MadeRight(q, i, w[j0]) /\ (NameAt(q, i) \in ToSet(VirtualNames(q)) => ~(j0 <= e))
    BY Zenon DEF FilesRight
  <2>2. PICK j : Lasts(w, j) /\ w[j][1] = w[j0][1] /\ j0 <= j
    BY LastOfName
  <2>3. j \in DOMAIN w /\ w[j][1] = NameAt(q, i)
    BY <1>1, <2>1, <2>2 DEF Lasts
  <2>4. \/ \E k \in Own(q) : MadeRight(q, k, w[j])
        \/ \E p \in Ports(q) : w[j] = IfcfgPort(q, p) /\ (p \in ToSet(VirtualNames(q)) => j <= e)
    BY <2>3, Zenon DEF FilesRight
  <2>5. CASE \E k \in Own(q) : MadeRight(q, k, w[j])
    BY <1>1, <1>3, <2>2, <2>3, <2>5
  <2>6. CASE \E p \in Ports(q) : w[j] = IfcfgPort(q, p) /\ (p \in ToSet(VirtualNames(q)) => j <= e)
    <3>1. NameAt(q, i) \in Ports(q) /\ (NameAt(q, i) \in ToSet(VirtualNames(q)) => j <= e)
      BY <1>2, <2>3, <2>6
    <3>2. j <= e /\ ~(j0 <= e)
      BY <1>4, <2>1, <3>1
    <3>3. j \in Nat /\ j0 \in Nat
      BY <2>3
    <3> QED
      BY <2>2, <3>2, <3>3
  <2> QED
    BY <2>4, <2>5, <2>6
<1>6. ASSUME NEW p \in Ports(q), p \notin ToSet(VirtualNames(q))
      PROVE  \E j : Lasts(w, j) /\ w[j] = IfcfgPort(q, p)
  <2>1. PICK j0 \in DOMAIN w : w[j0] = IfcfgPort(q, p)
    BY Zenon DEF FilesRight
  <2>2. PICK j : Lasts(w, j) /\ w[j][1] = w[j0][1]
    BY LastOfName
  <2>3. j \in DOMAIN w /\ w[j][1] = p
    BY <1>2, <2>1, <2>2 DEF Lasts
  <2>4. \/ \E k \in Own(q) : MadeRight(q, k, w[j])
        \/ \E r \in Ports(q) : w[j] = IfcfgPort(q, r)
    BY <2>3, Zenon DEF FilesRight
  <2>5. ASSUME NEW k \in Own(q), MadeRight(q, k, w[j]) PROVE FALSE
    BY <1>1, <1>4, <1>6, <2>3, <2>5
  <2> QED
    BY <1>2, <2>2, <2>3, <2>4, <2>5
<1> QED
  BY <1>5, <1>6

\* A port has the master that lists it.
LEMMA MasterOfPort ==
  ASSUME NEW q \in Request, OnePortOneMaster(q), NEW b \in ToSet(Masters(q)), NEW p \in ToSet(b.ports)
  PROVE  p \in Ports(q) /\ MasterOf(q, p) = b.name
<1>1. PICK i \in DOMAIN Masters(q) : b = Masters(q)[i]
  BY DEF ToSet
<1>2. p \in Ports(q)
  BY <1>1 DEF Ports
<1>3. PICK k \in DOMAIN Masters(q) : p \in ToSet(Masters(q)[k].ports) /\ MasterOf(q, p) = Masters(q)[k].name
  BY <1>2, MasterIs
<1>4. i = k
  BY <1>1, <1>3 DEF OnePortOneMaster
<1> QED
  BY <1>1, <1>2, <1>3, <1>4

LEMMA PortFile ==
  ASSUME NEW q \in Request, NEW p \in Ports(q), NEW f \in IfcfgPort(q, p)[2]
  PROVE  f[1] = "type" \/ f \in JoinedOf(q)
<1>1. f = <<"type", p, "ethernet">> \/ f = <<"master", p, MasterOf(q, p)>>
  BY DEF IfcfgPort
<1>2. CASE f = <<"type", p, "ethernet">>
  BY <1>2
<1>3. CASE f = <<"master", p, MasterOf(q, p)>>
  <2>1. PICK i \in DOMAIN Masters(q) :
          p \in ToSet(Masters(q)[i].ports) /\ MasterOf(q, p) = Masters(q)[i].name
    BY MasterIs
  <2>2. Masters(q)[i] \in ToSet(q.bonds) \cup ToSet(q.bridges)
    BY MastersAre DEF ToSet
  <2>3. f \in NetplanPorts(Masters(q)[i])
    BY <1>3, <2>1 DEF NetplanPorts
  <2> QED
    BY <2>2, <2>3, JoinedIs
<1> QED
  BY <1>1, <1>2, <1>3

LEMMA IfcfgSettles ==
  ASSUME NEW q \in Request, Accepts(q), q.format = "ifcfg"
  PROVE  Settled(q, Ifcfg(q)) /\ Joined(q, Ifcfg(q)) /\ OnlyJoined(q, Ifcfg(q))
<1>1. NamesOnce(q) /\ OnePortOneMaster(q)
  BY DEF Accepts, CheckReferences
<1>2. PICK w : w = IfcfgWrites(q)
  OBVIOUS
<1>3. PICK e \in Nat : Files(q, w, e)
  BY <1>2, FilesAre
<1>4. FilesRight(q, w, e)
  BY <1>1, <1>3, FilesAreRight
<1>5. PICK n \in Nat : DOMAIN w = 1..n
  BY <1>3, Zenon DEF Files
<1>6. /\ \A i \in Own(q) : \E j : Lasts(w, j) /\ MadeRight(q, i, w[j])
      /\ \A p \in Ports(q) : p \notin ToSet(VirtualNames(q)) =>
           \E j : Lasts(w, j) /\ w[j] = IfcfgPort(q, p)
  BY <1>1, <1>4, <1>5, OwnFileStays
<1>7. \A f : f \in Ifcfg(q) <=> \E j : Lasts(w, j) /\ f \in w[j][2]
  BY <1>2, IfcfgIs, Zenon
<1>8. \A i, d : MadeRight(q, i, d) => \E x : Joins(q, i, x) /\ d[2] = x \cup Written(q, i)
  BY DEF MadeRight, Made
<1>9. Settled(q, Ifcfg(q))
  <2> SUFFICES ASSUME NEW i \in Own(q), NEW f \in Written(q, i) PROVE f \in Ifcfg(q)
    BY DEF Settled
  <2>1. PICK j : Lasts(w, j) /\ MadeRight(q, i, w[j])
    BY <1>6
  <2>2. f \in w[j][2]
    BY <1>8, <2>1
  <2> QED
    BY <1>7, <2>1, <2>2
<1>10. OnlyJoined(q, Ifcfg(q))
  <2> SUFFICES ASSUME NEW f \in Ifcfg(q)
               PROVE  \/ f[1] = "type" \/ f \in JoinedOf(q) \/ \E i \in Own(q) : f \in Written(q, i)
                      \/ /\ f[1] = "bond" /\ f[3][1] = 1
                         /\ <<"bond", f[2], <<0, f[3][2]>> >> \in JoinedOf(q)
    BY DEF OnlyJoined, Belongs
  <2>1. PICK j : Lasts(w, j) /\ f \in w[j][2]
    BY <1>7
  <2>2. \/ \E i \in Own(q) : MadeRight(q, i, w[j])
        \/ \E p \in Ports(q) : w[j] = IfcfgPort(q, p)
    BY <1>4, <2>1, Zenon DEF FilesRight, Lasts
  <2>3. ASSUME NEW i \in Own(q), MadeRight(q, i, w[j])
        PROVE  \/ f[1] = "type" \/ f \in JoinedOf(q) \/ f \in Written(q, i)
               \/ /\ f[1] = "bond" /\ f[3][1] = 1
                  /\ <<"bond", f[2], <<0, f[3][2]>> >> \in JoinedOf(q)
    <3>1. PICK x : Joins(q, i, x) /\ w[j][2] = x \cup Written(q, i)
      BY <1>8, <2>3
    <3>2. f \in x \/ f \in Written(q, i)
      BY <2>1, <3>1
    <3> QED
      BY <3>1, <3>2, Zenon DEF Joins
  <2>4. ASSUME NEW p \in Ports(q), w[j] = IfcfgPort(q, p)
        PROVE  f[1] = "type" \/ f \in JoinedOf(q)
    BY <2>1, <2>4, PortFile
  <2> QED
    BY <2>2, <2>3, <2>4, Zenon
<1>11. Joined(q, Ifcfg(q))
  <2> SUFFICES ASSUME NEW f \in JoinedOf(q)
               PROVE  \/ f \in Ifcfg(q)
                      \/ f[1] = "master" /\ f[2] \in ToSet(VirtualNames(q))
                      \/ f[1] = "bond" /\ f[3][1] = 0
    BY DEF Joined
  <2>1. \/ \E b \in ToSet(Masters(q)) : f \in NetplanPorts(b)
        \/ \E b \in ToSet(q.bonds) : f = BondFact(b)
        \/ \E v \in ToSet(q.vlans) : f = LinkFact(v)
    <3>1. \/ \E b \in ToSet(q.bonds) : f \in NetplanPorts(b)
          \/ \E b \in ToSet(q.bridges) : f \in NetplanPorts(b)
          \/ \E b \in ToSet(q.bonds) : f = BondFact(b)
          \/ \E v \in ToSet(q.vlans) : f = LinkFact(v)
      BY JoinedIs, Zenon DEF BondFact, LinkFact
    <3> QED
      BY <3>1, MastersAre
  <2>2. ASSUME NEW b \in ToSet(Masters(q)), f \in NetplanPorts(b)
        PROVE  f \in Ifcfg(q) \/ (f[1] = "master" /\ f[2] \in ToSet(VirtualNames(q)))
    <3>1. PICK p \in ToSet(b.ports) : f = <<"master", p, b.name>>
      BY <2>2 DEF NetplanPorts
    <3>2. p \in Ports(q) /\ MasterOf(q, p) = b.name
      BY <1>1, MasterOfPort
    <3>3. f[1] = "master" /\ f[2] = p
      BY <3>1
    <3>4. f \in IfcfgPort(q, p)[2]
      BY <3>1, <3>2 DEF IfcfgPort
    <3>5. p \notin ToSet(VirtualNames(q)) => \E j : Lasts(w, j) /\ w[j] = IfcfgPort(q, p)
      BY <1>6, <3>2
    <3> QED
      BY <1>7, <3>3, <3>4, <3>5
  <2>3. ASSUME NEW b \in ToSet(q.bonds), f = BondFact(b)
        PROVE  f \in Ifcfg(q) \/ (f[1] = "bond" /\ f[3][1] = 0)
    <3>1. PICK i \in DOMAIN q.bonds : b = q.bonds[i]
      BY DEF ToSet
    <3>2. BondAt(q, i) \in Own(q) /\ NameAt(q, BondAt(q, i)) = b.name
      <4>1. BondAt(q, i) \in Own(q)
        BY OwnIs, Zenon
      <4>2. NameAt(q, BondAt(q, i)) = q.bonds[i].name
        BY Sections, Zenon
      <4> QED
        BY <3>1, <4>1, <4>2
    <3>3. PICK j : Lasts(w, j) /\ MadeRight(q, BondAt(q, i), w[j])
      BY <1>6, <3>2
    <3>4. PICK x : Joins(q, BondAt(q, i), x) /\ w[j][2] = x \cup Written(q, BondAt(q, i))
      BY <1>8, <3>3
    <3>5. b.level # 0 => BondFact(b) \in x
      BY <3>2, <3>4, Zenon DEF Joins
    <3>6. b.level # 0 => f \in Ifcfg(q)
      BY <1>7, <2>3, <3>3, <3>4, <3>5
    <3>7. f = <<"bond", b.name, <<b.level, b.primary>> >>
      BY <2>3 DEF BondFact
    <3>8. f[1] = "bond" /\ f[3] = <<b.level, b.primary>>
      BY <3>7
    <3>9. f[3][1] = b.level
      BY <3>8
    <3> QED
      BY <3>6, <3>8, <3>9
  <2>4. ASSUME NEW v \in ToSet(q.vlans), f = LinkFact(v)
        PROVE  f \in Ifcfg(q)
    <3>1. PICK i \in DOMAIN q.vlans : v = q.vlans[i]
      BY DEF ToSet
    <3>2. VlanAt(q, i) \in Own(q) /\ NameAt(q, VlanAt(q, i)) = VlanName(v)
      <4>1. VlanAt(q, i) \in Own(q)
        BY OwnIs, Zenon
      <4>2. NameAt(q, VlanAt(q, i)) = VlanName(q.vlans[i])
        BY Sections, Zenon
      <4> QED
        BY <3>1, <4>1, <4>2
    <3>3. PICK j : Lasts(w, j) /\ MadeRight(q, VlanAt(q, i), w[j])
      BY <1>6, <3>2
    <3>4. PICK x : Joins(q, VlanAt(q, i), x) /\ w[j][2] = x \cup Written(q, VlanAt(q, i))
      BY <1>8, <3>3
    <3>5. LinkFact(v) \in x
      BY <3>2, <3>4, Zenon DEF Joins
    <3> QED
      BY <1>7, <2>4, <3>3, <3>4, <3>5
  <2> QED
    BY <2>1, <2>2, <2>3, <2>4, Zenon
<1> QED
  BY <1>9, <1>10, <1>11

-----------------------------------------------------------------------------
(* The whole configuration *)

\* What is asked for: settings, and how devices are joined.
LEMMA AskedParts ==
  ASSUME NEW q, NEW f
  PROVE  f \in Asked(q) <=>
           (\E i \in Own(q) : f \in AskedOf(NameAt(q, i), L3At(q, i))) \/ f \in JoinedOf(q)
<1> PICK S : S = UNION {AskedOf(Ordered(q)[i].name, Ordered(q)[i].l3) : i \in Own(q)}
  OBVIOUS
<1>1. f \in S <=> \E i \in Own(q) : f \in AskedOf(NameAt(q, i), L3At(q, i))
  BY DEF NameAt, L3At
<1> DEFINE A == UNION {{<<"master", p, Masters(q)[i].name>> : p \in ToSet(Masters(q)[i].ports)} :
                         i \in DOMAIN Masters(q)}
           B == {<<"bond", b.name, <<b.level, b.primary>> >> : b \in ToSet(q.bonds)}
           C == {<<"link", VlanName(v), v.parent>> : v \in ToSet(q.vlans)}
<1>2. Asked(q) = UNION {S, A, B, C} /\ JoinedOf(q) = UNION {A, B, C}
  BY Zenon DEF Asked, JoinedOf
<1> HIDE DEF A, B, C
<1>3. f \in Asked(q) <=> f \in S \/ f \in JoinedOf(q)
  BY <1>2
<1> QED
  BY <1>1, <1>3

LEMMA SettingsAt ==
  ASSUME NEW q \in Request, NamesOnce(q), NEW i \in Own(q)
  PROVE  SettingsOf(q, NameAt(q, i)) = L3At(q, i)
<1>1. i \in DOMAIN Ordered(q)
  BY DEF Own
<1> QED
  BY <1>1, PlaceIs DEF SettingsOf, L3At

LEMMA LeftOutIs ==
  ASSUME NEW q \in Request, NamesOnce(q), NEW i \in Own(q), NEW f,
         f[2] = NameAt(q, i), LeftOut(q, i, f)
  PROVE  IfcfgLeavesOut(q, f)
<1>1. f[2] \notin ToSet(NamesOf(q.interfaces))
  <2>1. \A k \in DOMAIN q.interfaces : NameAt(q, i) = q.interfaces[k].name => i = k
    BY VirtualApart, Zenon
  <2>2. i \notin DOMAIN q.interfaces
    BY DEF LeftOut
  <2> QED
    BY <2>1, <2>2 DEF ToSet, NamesOf
<1>2. SettingsOf(q, f[2]) = L3At(q, i)
  BY SettingsAt
<1> QED
  BY <1>1, <1>2 DEF LeftOut, IfcfgLeavesOut

\* A configuration that has the settings and joins the devices has all that is asked.
LEMMA SettledIsAsked ==
  ASSUME request \in Request, Accepts(request), Settled(request, Given), Joined(request, Given)
  PROVE  WhatIsAskedIsSet
<1>1. NamesOnce(request)
  BY DEF Accepts, CheckReferences
<1> SUFFICES ASSUME NEW f \in Asked(request)
             PROVE  f \in Given \/ IfcfgLeavesOut(request, f) \/ AddSkipped(request, f)
                      \/ (f[1] = "ip" /\ PrefixZero(request, f[2]))
  BY DEF WhatIsAskedIsSet
<1>2. ASSUME NEW i \in Own(request), f \in AskedOf(NameAt(request, i), L3At(request, i))
      PROVE  f \in Given \/ IfcfgLeavesOut(request, f) \/ AddSkipped(request, f)
                      \/ (f[1] = "ip" /\ PrefixZero(request, f[2]))
  <2>1. f[2] = NameAt(request, i)
    BY <1>2, OneOf
  <2>2. \/ f \in Written(request, i) \/ LeftOut(request, i, f)
        \/ f[1] = "ip" /\ L3At(request, i).cidr = 0
    BY <1>2, AskedIsWritten
  <2>3. f \in Written(request, i) => f \in Given
    BY DEF Settled
  <2>4. LeftOut(request, i, f) => IfcfgLeavesOut(request, f)
    BY <1>1, <2>1, LeftOutIs
  <2>5. SettingsOf(request, f[2]) = L3At(request, i)
    BY <1>1, <2>1, SettingsAt
  <2> QED
    BY <2>2, <2>3, <2>4, <2>5 DEF PrefixZero
<1>3. ASSUME f \in JoinedOf(request) PROVE f \in Given \/ IfcfgLeavesOut(request, f) \/ AddSkipped(request, f)
  BY <1>3, Zenon DEF Joined, IfcfgLeavesOut
<1> QED
  BY <1>2, <1>3, AskedParts

\* What is about a device of a request, or how it is made or joined, may be set for it.
LEMMA PartMayBe ==
  ASSUME NEW q \in Request, Accepts(q), NEW f, Belongs(q, f)
  PROVE  MayBeSet(q, f)
<1>1. NamesOnce(q)
  BY DEF Accepts, CheckReferences
<1> DEFINE Owned == \E i \in Own(q) : f[2] = Ordered(q)[i].name
           Besides == LET o == SettingsOf(q, f[2])
                      IN \/ f[1] = "method4" /\ f[3] = "auto" /\ ~o.ip
                         \/ f[1] = "dns" /\ o.dns
                         \/ f[1] = "gateway" /\ ~o.ip /\ q.format = "netplan"
                         \/ f[1] = "ip" /\ PrefixZero(q, f[2])
                         \/ IfcfgLeavesOut(q, f)
           Raised == /\ q.format = "ifcfg" /\ f[1] = "bond" /\ f[3][1] = 1
                     /\ <<"bond", f[2], <<0, f[3][2]>> >> \in Asked(q)
<1> SUFFICES ASSUME f \notin Asked(q)
             PROVE  f[1] \in {"type", "metric"} \/ (Owned /\ Besides) \/ Raised
  BY DEF MayBeSet
<1>2. ASSUME NEW i \in Own(q), f \in Written(q, i)
      PROVE  f[1] = "metric" \/ (Owned /\ Besides)
  <2>1. /\ f[2] = NameAt(q, i)
        /\ f \in AskedOf(NameAt(q, i), L3At(q, i)) \/ MayBe(q, i, f)
    BY <1>2, WrittenIsAsked
  <2>2. MayBe(q, i, f)
    BY <2>1, AskedParts
  <2>3. SettingsOf(q, f[2]) = L3At(q, i)
    BY <1>1, <2>1, SettingsAt
  <2>4. Owned
    BY <2>1 DEF NameAt
  <2>5. LeftOut(q, i, f) => IfcfgLeavesOut(q, f)
    BY <1>1, <2>1, LeftOutIs
  <2> HIDE DEF Owned
  <2> QED
    BY <2>2, <2>3, <2>4, <2>5 DEF MayBe, PrefixZero
<1>3. f \notin JoinedOf(q)
  BY AskedParts
<1>4. \A g : g \in JoinedOf(q) => g \in Asked(q)
  BY AskedParts
<1>6. \/ f[1] = "type" \/ Raised \/ \E i \in Own(q) : f \in Written(q, i)
  BY <1>3, <1>4, Zenon DEF Belongs
<1> HIDE DEF Owned, Besides, Raised
<1> QED
  BY <1>2, <1>6

\* A line of a script sets nothing but what its request may set.
LEMMA LineMayBe ==
  ASSUME NEW q \in Request, Accepts(q), q.format = "nmcli",
         NEW l \in ToSet(Script(q)), NEW f \in l.facts
  PROVE  MayBeSet(q, f)
<1>1. CASE l.do = "add"
  BY <1>1, KindsApart, PartMayBe DEF Belongs
<1>2. CASE l.do = "modify"
  <2>1. PICK i \in Own(q) : l = Modify(NameAt(q, i), Written(q, i))
    BY <1>2, ModifiesAre
  <2>2. Belongs(q, f)
    BY <2>1 DEF Modify, Belongs
  <2> QED
    BY <2>2, PartMayBe
<1>3. CASE l.do \notin {"add", "modify"}
  BY <1>3, OthersAreEmpty
<1> QED
  BY <1>1, <1>2, <1>3

\* A script replaces what it sets: what an older one has set in the same connection is
\* of another kind, or its request asks for nothing of that kind.
LEMMA AskedReplaces ==
  ASSUME NEW q \in Request, Accepts(q), q.format = "nmcli", NEW i \in Own(q), NEW facts,
         Overwrites(Modify(NameAt(q, i), Written(q, i)), facts), NEW f \in facts, f[1] # "route",
         NEW g \in AskedOf(NameAt(q, i), L3At(q, i)), g[1] = f[1]
  PROVE  f \in Written(q, i)
<1>1. \A h \in Written(q, i) : f \in Written(q, i) \/ ~Replaces(h, f)
  BY DEF Overwrites, Modify
<1>2. \E h \in Written(q, i) : h[1] = f[1]
  <2>1. CASE g \in Written(q, i)
    BY <2>1
  <2>2. CASE g \notin Written(q, i)
    <3>1. g[1] = "ip"
      BY <2>2, AskedIsWritten DEF LeftOut
    <3> PICK n : n = NameAt(q, i)
      OBVIOUS
    <3> PICK o : o = L3At(q, i)
      OBVIOUS
    <3>2. o.ip
      <4>1. g \notin RoutesOf(n, o)
        BY <3>1 DEF RoutesOf
      <4>2. \/ o.ip
            \/ g = <<"method4", n, "auto">> \/ g = <<"dns", n, 1>> \/ g = <<"method6", n, "manual">>
            \/ g = <<"addr6", n, V6Addrs(o)>> \/ g = <<"gateway6", n, 1>> \/ g = <<"method6", n, o.mode6>>
        BY <4>1, AskedIs, Zenon
      <4> QED
        BY <3>1, <4>2
    <3>3. Written(q, i) = Ipv4Lines(n, o, Metric(q, n))
      BY DEF Written
    <3>4. <<"ip", n, Prefix(o)>> \in Written(q, i)
      BY <3>2, <3>3, LinesIs
    <3> QED
      BY <3>1, <3>4
  <2> QED
    BY <2>1, <2>2
<1> QED
  BY <1>1, <1>2 DEF Replaces

\* What a script that has come to its end finds in the profiles it may have set itself, or
\* it was left behind by the one before the correction.
LEMMA ScriptMayBe ==
  ASSUME NetInv, Told, outcome \in {"failed", "ok"}, NEW c \in DOMAIN profiles, NEW f \in profiles[c]
  PROVE  MayBeSet(request, f) \/ LeftBehind(f)
<1>1. /\ HasScript /\ request \in Request /\ Accepts(request) /\ request.format = "nmcli"
      /\ script = Script(request)
      /\ fixed => /\ former \in Request /\ former.format = "nmcli" /\ Accepts(former)
                  /\ SameDevices(request, former) /\ SameDevices(former, request)
  BY SameBack DEF HasScript, Told, NetInv
<1>0. PICK q \in Scripted : \E l \in ToSet(Script(q)) : l.con = c /\ f \in l.facts
  BY <1>1 DEF Told, GivenBy
<1>2. PICK l \in ToSet(Script(q)) : l.con = c /\ f \in l.facts
  BY <1>0
<1>3. CASE q = request
  BY <1>1, <1>2, <1>3, LineMayBe
<1>4. CASE q # request
  <2>1. fixed /\ q = former /\ MayBeSet(former, f)
    BY <1>1, <1>2, <1>4, LineMayBe DEF Scripted
  <2>2. CASE l.do = "add" /\ f[1] # "bond"
    <3>1. PICK m \in ToSet(Script(request)) : SameButBond(l, m)
      BY <1>1, <1>2, <2>1, <2>2, SameAdds
    <3>2. f \in m.facts
      BY <1>2, <2>2, <3>1 DEF SameButBond
    <3> QED
      BY <1>1, <3>2, LineMayBe
  <2>3. CASE f[1] \in {"bond", "route"}
    BY <2>1, <2>3 DEF LeftBehind
  <2>4. CASE l.do = "modify" /\ f[1] # "route"
    <3>1. PICK k \in Own(former) : l = Modify(NameAt(former, k), Written(former, k))
      BY <1>1, <1>2, <2>1, <2>4, ModifiesAre
    <3>2. c = NameAt(former, k) /\ f[2] = c /\ ~OfStructure(f)
      BY <1>1, <1>2, <2>1, <2>4, <3>1, WrittenIsAsked, KindsApart DEF Modify
    <3>3. ASSUME NEW g \in Asked(request), g[1] = f[1], g[2] = f[2]
          PROVE  MayBeSet(request, f)
      <4>1. g \notin JoinedOf(request)
        BY <1>1, <3>2, <3>3, JoinedKinds DEF OfStructure
      <4>2. PICK i \in Own(request) : g \in AskedOf(NameAt(request, i), L3At(request, i))
        BY <4>1, AskedParts
      <4>3. NameAt(request, i) = c
        BY <3>2, <3>3, <4>2, OneOf
      <4> PICK m : m = Modify(NameAt(request, i), Written(request, i))
        OBVIOUS
      <4>4. m.do = "modify" /\ m.con = c
        BY <4>3 DEF Modify
      <4>5. m \in ToSet(script)
        BY <1>1, <4>4, ModifiesAre
      <4>6. PICK j \in DOMAIN script : m = script[j]
        BY <4>5 DEF ToSet
      <4>7. Reached(j)
        BY DEF Reached
      <4>8. Overwrites(m, profiles[c])
        BY <4>4, <4>6, <4>7 DEF Told
      <4>9. f \in Written(request, i)
        BY <1>1, <2>4, <3>3, <4>2, <4>8, AskedReplaces
      <4>10. Belongs(request, f)
        BY <4>9 DEF Belongs
      <4> QED
        BY <1>1, <4>10, PartMayBe
    <3> QED
      BY <2>1, <3>3 DEF LeftBehind
  <2>5. CASE l.do \notin {"add", "modify"}
    BY <1>1, <1>2, <2>1, <2>5, OthersAreEmpty
  <2> QED
    BY <2>2, <2>3, <2>4, <2>5
<1> QED
  BY <1>3, <1>4

\* The whole configuration of an accepted request.
LEMMA GivenSettles ==
  ASSUME NetTypeOK, NetInv, Told, Whole
  PROVE  /\ request \in Request /\ Accepts(request) /\ Settled(request, Given)
         /\ ~fixed => OnlyJoined(request, Given)
         /\ Added => Joined(request, Given)
         /\ \A f \in Given : MayBeSet(request, f) \/ LeftBehind(f)
<1>1. request \in Request /\ request.format \in {"nmcli", "netplan", "ifcfg"}
  BY DEF NetInv, Request
<1>2. CASE outcome = "file"
  <2>1. Accepts(request) /\ request.format \in {"netplan", "ifcfg"}
    BY <1>1, <1>2 DEF Told
  <2>2. CASE request.format = "netplan"
    <3>1. Given = Netplan(request)
      BY <2>2 DEF Given
    <3>2. OnlyJoined(request, Given) /\ Settled(request, Given) /\ Joined(request, Given)
      BY <1>1, <2>1, <2>2, <3>1, NetplanSettles
    <3>3. \A f \in Given : MayBeSet(request, f)
      BY <1>1, <2>1, <3>2, PartMayBe DEF OnlyJoined
    <3> QED
      BY <1>1, <2>1, <3>2, <3>3
  <2>3. CASE request.format = "ifcfg"
    <3>1. Given = Ifcfg(request)
      BY <2>3 DEF Given
    <3>2. OnlyJoined(request, Given) /\ Settled(request, Given) /\ Joined(request, Given)
      BY <1>1, <2>1, <2>3, <3>1, IfcfgSettles
    <3>3. \A f \in Given : MayBeSet(request, f)
      BY <1>1, <2>1, <3>2, PartMayBe DEF OnlyJoined
    <3> QED
      BY <1>1, <2>1, <3>2, <3>3
  <2> QED
    BY <2>1, <2>2, <2>3
<1>3. CASE outcome \in {"failed", "ok"}
  <2>1. Accepts(request) /\ request.format = "nmcli"
    BY <1>3 DEF Told, HasScript
  <2>2. Given = UNION {profiles[c] : c \in DOMAIN profiles}
    BY <2>1 DEF Given
  <2>3. \A f \in Given : MayBeSet(request, f) \/ LeftBehind(f)
    <3> SUFFICES ASSUME NEW f \in Given PROVE MayBeSet(request, f) \/ LeftBehind(f)
      OBVIOUS
    <3>1. PICK c \in DOMAIN profiles : f \in profiles[c]
      BY <2>2
    <3> QED
      BY <1>3, <3>1, ScriptMayBe
  <2> QED
    BY <1>1, <1>3, <2>1, <2>2, <2>3, ScriptSettles
<1> QED
  BY <1>2, <1>3 DEF Whole

\* Gateways and their metrics: in every configuration that the generator writes or that a
\* script leaves behind, the gateway of a device is reached from its address, and of
\* several default routes each has a metric, in the order of the request (_route_metrics,
\* _ipv4_lines, _netplan_routes, _check_l3): whatever devices there are.
THEOREM RoutesWork == NetSpec => []DefaultRoutesWork
<1>1. ASSUME NetTypeOK, NetInv, Told PROVE DefaultRoutesWork
  <2>1. CASE Whole /\ ~fixed
    <3>1. request \in Request /\ Accepts(request) /\ Settled(request, Given) /\ OnlyJoined(request, Given)
      BY <1>1, <2>1, GivenSettles
    <3>2. OnlySettled(request, Given)
      BY <3>1, JoinedIsStructure
    <3>3. RoutesIn(request, Given)
      BY <3>1, <3>2, RoutesFollow
    <3> QED
      BY <3>3, RoutesAre
  <2>2. CASE ~(Whole /\ ~fixed)
    BY <2>2, Zenon DEF DefaultRoutesWork
  <2> QED
    BY <2>1, <2>2
<1> QED
  BY <1>1, ToldHolds, PTL

\* What an accepted request asks for is in its files (_build_netplan, _build_ifcfg), or in
\* the profiles once its script (_build_nmcli) has come to its end, whatever devices there
\* are and whatever they are called, however often the script failed, was cut and run again;
\* and what is asked for anew after a correction replaces what was there.  The exceptions
\* are named: what _idem_add takes for done (AddSkipped), and what a correction leaves of
\* the request before it (LeftBehind).
THEOREM ConfigurationsAreExact == NetSpec => []ExactlyWhatIsAsked
<1>1. ASSUME NetTypeOK, NetInv, Told, Added PROVE ExactlyWhatIsAsked
  <2>1. CASE Whole
    <3>1. /\ request \in Request /\ Accepts(request) /\ Settled(request, Given)
          /\ Joined(request, Given)
          /\ \A f \in Given : MayBeSet(request, f) \/ LeftBehind(f)
      BY <1>1, <2>1, GivenSettles
    <3> QED
      BY <3>1, SettledIsAsked DEF ExactlyWhatIsAsked, NothingElseIsSet
  <2>2. CASE ~Whole
    BY <2>2 DEF ExactlyWhatIsAsked, WhatIsAskedIsSet, NothingElseIsSet
  <2> QED
    BY <2>1, <2>2
<1> QED
  BY <1>1, AddedHolds, PTL
=============================================================================
