------------------------ MODULE NodeLifecycleProofs ------------------------
(***************************************************************************)
(* Of a node of any pipes, processors, settings and faults, each pipe      *)
(* started any number of times: the types, the lists of a running pipe,    *)
(* what a pipe that is marked COMPLETED has over, and the limits of the    *)
(* autoscaler.                                                             *)
(***************************************************************************)
EXTENDS NodeLifecycle, FiniteSetTheorems, TLAPS

States == {"none", "LAUNCHED", "READY", "DONE"}
Numbers(p) == {p} \X (1..MaxLaunches)

\* The types of what the proof follows.
Types ==
    /\ starts \in [Pipes -> Nat] /\ launched \in [Procs -> 0..MaxLaunches]
    /\ instances \in [Procs -> Seq(Instance)]
    /\ \A p \in Procs : ToSet(instances[p]) \subseteq Numbers(p)
    /\ state \in [Instance -> States]
    /\ DOMAIN worker = Instance /\ DOMAIN procStatus = Procs

\* Nothing is known of an instance before its process is spawned.
FreshInv ==
    /\ \A p \in Procs : \A k \in 1..MaxLaunches :
          k > launched[p] => state[<<p, k>>] = "none" /\ worker[<<p, k>>] = "none"
    /\ \A i \in Instance : loop = Registering(i) => state[i] # "none"

-----------------------------------------------------------------------------
(* Lists from which instances are taken *)

\* Counting the members of a set of positions up to each of them.
LEMMA CountUpto ==
    ASSUME NEW n \in Nat, NEW kept \in SUBSET (1..n)
    PROVE  /\ \A m \in kept : Cardinality({l \in kept : l <= m}) \in 1..Cardinality(kept)
           /\ \A j, m \in kept : Cardinality({l \in kept : l <= j}) = Cardinality({l \in kept : l <= m})
                                    => j = m
  <1> DEFINE Upto(m) == {l \in kept : l <= m}
             N == Cardinality(kept)
  <1>1. IsFiniteSet(kept) /\ N \in Nat
    <2>1. IsFiniteSet(1..n)
      BY FS_Interval
    <2>2. IsFiniteSet(kept)
      BY <2>1, FS_Subset
    <2> QED BY <2>2, FS_CardinalityType
  <1>2. \A m \in kept : IsFiniteSet(Upto(m)) /\ Cardinality(Upto(m)) \in 1..N
    <2> TAKE m \in kept
    <2>1. Upto(m) \in SUBSET kept /\ m \in Upto(m)
      OBVIOUS
    <2>2. IsFiniteSet(Upto(m)) /\ Cardinality(Upto(m)) <= N
      BY <1>1, <2>1, FS_Subset
    <2>3. Cardinality(Upto(m)) # 0
      BY <2>1, <2>2, FS_EmptySet
    <2>4. Cardinality(Upto(m)) \in Nat
      BY <2>2, FS_CardinalityType
    <2> HIDE DEF Upto, N
    <2> QED BY <1>1, <2>2, <2>3, <2>4
  <1>3. \A j, m \in kept : j < m => Cardinality(Upto(j)) # Cardinality(Upto(m))
    <2> SUFFICES ASSUME NEW j \in kept, NEW m \in kept, j < m
                 PROVE  Cardinality(Upto(j)) # Cardinality(Upto(m))
      OBVIOUS
    <2>1. Upto(j) \in SUBSET Upto(m) /\ m \in Upto(m) /\ m \notin Upto(j)
      <3>1. j \in Int /\ m \in Int /\ \A k1 \in kept : k1 \in Int
        OBVIOUS
      <3>2. \A k1 \in kept : k1 <= j => k1 <= m
        BY <3>1
      <3>3. m <= m /\ ~(m <= j)
        BY <3>1
      <3> QED BY <3>2, <3>3
    <2> HIDE DEF Upto
    <2> QED BY <1>2, <2>1, FS_Subset
  <1>4. \A j, m \in kept : j < m \/ m < j \/ j = m
    OBVIOUS
  <1>5. \A j, m \in kept : Cardinality(Upto(j)) = Cardinality(Upto(m)) => j = m
    <2> HIDE DEF Upto
    <2> QED BY <1>3, <1>4
  <1> QED BY <1>2, <1>5

LEMMA PositionKept ==
    ASSUME NEW n \in Nat, NEW kept \in SUBSET (1..n), NEW k \in 1..Cardinality(kept)
    PROVE  Position(kept, k) \in kept
  <1> DEFINE f == [m \in kept |-> Cardinality({l \in kept : l <= m})]
             N == Cardinality(kept)
  <1>1. IsFiniteSet(kept) /\ N \in Nat
    <2>1. IsFiniteSet(1..n)
      BY FS_Interval
    <2>2. IsFiniteSet(kept)
      BY <2>1, FS_Subset
    <2> QED BY <2>2, FS_CardinalityType
  <1>2. f \in [kept -> 1..N]
    BY CountUpto
  <1>3. \A l, m \in kept : f[l] = f[m] => l = m
    <2>1. \A j, m \in kept : Cardinality({l \in kept : l <= j}) = Cardinality({l \in kept : l <= m})
                                => j = m
      BY CountUpto
    <2> QED BY <2>1
  <1>4. f \in Injection(kept, 1..N)
    <2> HIDE DEF f, N
    <2> QED BY <1>2, <1>3 DEF Injection, IsInjective
  <1>5. f \in Surjection(kept, 1..N)
    <2> HIDE DEF f
    <2>1. IsFiniteSet(1..N) /\ Cardinality(1..N) = N
      BY <1>1, FS_Interval
    <2> QED BY <1>4, <2>1, FS_Injection
  <1>6. PICK m \in kept : f[m] = k
    <2> HIDE DEF f
    <2> QED BY <1>5 DEF Surjection
  <1>7. Cardinality({l \in kept : l <= m}) = k
    BY <1>6
  <1> QED BY <1>7 DEF Position

LEMMA PositionAll ==
    ASSUME NEW n \in Nat, NEW k \in 1..n
    PROVE  Position(1..n, k) = k
  <1>1. \A m \in 1..n : Cardinality({l \in 1..n : l <= m}) = m
    <2> TAKE m \in 1..n
    <2>1. {l \in 1..n : l <= m} = 1..m
      OBVIOUS
    <2>2. Cardinality(1..m) = m
      BY FS_Interval
    <2> QED BY <2>1, <2>2
  <1> QED BY <1>1 DEF Position

LEMMA KeepingFacts ==
    ASSUME NEW S, NEW s \in Seq(S), NEW kept \in SUBSET (1..Len(s))
    PROVE  /\ Keeping(s, kept) \in Seq(S) /\ Len(Keeping(s, kept)) <= Len(s)
           /\ ToSet(Keeping(s, kept)) \subseteq ToSet(s)
           /\ kept = 1..Len(s) => Keeping(s, kept) = s
  <1> DEFINE N == Cardinality(kept)
             t == Keeping(s, kept)
  <1>0. Len(s) \in Nat
    OBVIOUS
  <1>1. N \in Nat /\ N <= Len(s) /\ (kept = 1..Len(s) => N = Len(s))
    <2>1. IsFiniteSet(1..Len(s)) /\ Cardinality(1..Len(s)) = Len(s)
      <3>1. 1 \in Int /\ Len(s) \in Int /\ (1 > Len(s) => Len(s) = 0)
        BY <1>0
      <3>2. IsFiniteSet(1..Len(s)) /\
            Cardinality(1..Len(s)) = IF 1 > Len(s) THEN 0 ELSE Len(s) - 1 + 1
        BY <3>1, FS_Interval
      <3> QED BY <1>0, <3>1, <3>2
    <2> QED BY <2>1, FS_Subset, FS_CardinalityType
  <1>2. t = [k \in 1..N |-> s[Position(kept, k)]]
    BY DEF Keeping
  <1>3. \A k \in 1..N : Position(kept, k) \in 1..Len(s)
    BY <1>0, PositionKept
  <1> HIDE DEF N
  <1>4. t \in [1..N -> S]
    <2>1. \A m \in 1..Len(s) : s[m] \in S
      OBVIOUS
    <2> QED BY <1>2, <1>3, <2>1
  <1>5. t \in Seq(S) /\ Len(t) = N
    <2> HIDE DEF t
    <2> QED BY <1>1, <1>4
  <1>6. ToSet(t) \subseteq ToSet(s)
    <2>1. DOMAIN t = 1..N /\ DOMAIN s = 1..Len(s)
      BY <1>2
    <2>2. \A k \in 1..N : t[k] = s[Position(kept, k)]
      BY <1>2
    <2> HIDE DEF t
    <2> QED BY <1>3, <2>1, <2>2 DEF ToSet
  <1>7. ASSUME kept = 1..Len(s) PROVE t = s
    <2>1. \A k \in 1..Len(s) : Position(1..Len(s), k) = k
      BY PositionAll
    <2>2. N = Len(s) /\ \A k \in 1..Len(s) : t[k] = s[k]
      BY <1>1, <1>2, <1>7, <2>1
    <2> HIDE DEF t
    <2> QED BY <1>5, <2>2
  <1> QED BY <1>1, <1>5, <1>6, <1>7

LEMMA KeepingAll ==
    ASSUME NEW S, NEW s \in Seq(S), NEW kept \in SUBSET (1..Len(s)), NEW m \in kept
    PROVE  s[m] \in ToSet(Keeping(s, kept))
  <1> DEFINE k == Cardinality({l \in kept : l <= m})
  <1>1. Len(s) \in Nat
    OBVIOUS
  <1>2. k \in 1..Cardinality(kept)
    BY <1>1, CountUpto
  <1>3. \A j \in kept : Cardinality({l \in kept : l <= j}) = k => j = m
    <2>1. \A j, h \in kept : Cardinality({l \in kept : l <= j}) = Cardinality({l \in kept : l <= h})
                                => j = h
      BY <1>1, CountUpto
    <2> QED BY <2>1
  <1> HIDE DEF k
  <1>4. Position(kept, k) = m
    <2>1. \E j \in kept : Cardinality({l \in kept : l <= j}) = k
      BY DEF k
    <2> QED BY <1>3, <2>1 DEF Position
  <1>5. Keeping(s, kept)[k] = s[m] /\ k \in DOMAIN Keeping(s, kept)
    BY <1>2, <1>4 DEF Keeping
  <1> QED BY <1>5 DEF ToSet

LEMMA ConcatFacts ==
    \A S : \A s, t \in Seq(S) :
        /\ Len(s \o t) = Len(s) + Len(t)
        /\ \A k \in 1..Len(s \o t) : (s \o t)[k] = IF k <= Len(s) THEN s[k] ELSE t[k - Len(s)]
  OBVIOUS

LEMMA AppendFacts ==
    ASSUME NEW S, NEW s \in Seq(S), NEW e \in S
    PROVE  /\ Append(s, e) \in Seq(S) /\ Len(s) \in Nat /\ Len(Append(s, e)) = Len(s) + 1
           /\ ToSet(Append(s, e)) = ToSet(s) \cup {e}
  <1>1. /\ Append(s, e) \in Seq(S) /\ Len(s) \in Nat /\ Len(Append(s, e)) = Len(s) + 1
        /\ Append(s, e)[Len(s) + 1] = e
        /\ \A k \in 1..Len(s) : Append(s, e)[k] = s[k]
    OBVIOUS
  <1>2. DOMAIN s = 1..Len(s) /\ DOMAIN Append(s, e) = 1..(Len(s) + 1)
    BY <1>1
  <1>3. 1..(Len(s) + 1) = (1..Len(s)) \cup {Len(s) + 1}
    BY <1>1
  <1>4. ToSet(Append(s, e)) = ToSet(s) \cup {e}
    BY <1>1, <1>2, <1>3 DEF ToSet
  <1> QED BY <1>1, <1>4

-----------------------------------------------------------------------------
(* Types, and instances that are not there yet *)

LEMMA Turns == /\ Free # Scaling
               /\ \A i : Registering(i) # Free /\ Registering(i) # Scaling
               /\ \A i, j : Registering(i) = Registering(j) => i = j
  BY DEF Free, Scaling, Registering

LEMMA BoundTypes == MaxLaunches \in Nat /\ Autoscale \in [Procs -> Nat]
  BY BoundsAssumption

LEMMA LaunchFacts ==
    ASSUME Types, NEW spawned \in SUBSET Procs, NEW listed \in SUBSET spawned,
           Launch(spawned, listed)
    PROVE  /\ launched' \in [Procs -> 0..MaxLaunches]
           /\ \A p \in spawned : NewInstance(p) \in Numbers(p) \cap Instance
           /\ instances' \in [Procs -> Seq(Instance)]
           /\ \A p \in Procs : /\ ToSet(instances'[p]) \subseteq Numbers(p)
                               /\ launched'[p] = launched[p] + (IF p \in spawned THEN 1 ELSE 0)
           /\ \A p \in listed : /\ Len(instances'[p]) = Len(instances[p]) + 1
                                /\ ToSet(instances'[p]) = ToSet(instances[p]) \cup {NewInstance(p)}
           /\ \A p \in Procs \ listed : instances'[p] = instances[p]
           /\ \A p \in Procs : \A k \in 1..MaxLaunches :
                 IF p \in spawned /\ k = launched[p] + 1
                 THEN state'[<<p, k>>] = "LAUNCHED"
                 ELSE /\ state'[<<p, k>>] = state[<<p, k>>]
                      /\ worker'[<<p, k>>] = worker[<<p, k>>]
           /\ state' \in [Instance -> States] /\ DOMAIN worker' = Instance
           /\ procStatus' = procStatus
  <1> DEFINE new == {NewInstance(p) : p \in spawned}
  <1>1. /\ \A p \in spawned : launched[p] < MaxLaunches
        /\ launched' = [p \in Procs |-> IF p \in spawned THEN launched[p] + 1 ELSE launched[p]]
        /\ instances' = [p \in Procs |-> IF p \in listed THEN Append(instances[p], NewInstance(p))
                                                         ELSE instances[p]]
        /\ state' = [i \in Instance |-> IF i \in new THEN "LAUNCHED" ELSE state[i]]
        /\ worker' = [i \in Instance |-> IF i \in new THEN "starting" ELSE worker[i]]
        /\ procStatus' = procStatus
    BY DEF Launch
  <1>2. \A p \in Procs : launched[p] \in 0..MaxLaunches
    BY DEF Types
  <1>3. \A p \in spawned : NewInstance(p) \in Numbers(p) \cap Instance
    <2> TAKE p \in spawned
    <2>1. launched[p] + 1 \in 1..MaxLaunches /\ p \in Procs
      BY <1>1, <1>2, BoundTypes
    <2> QED BY <2>1 DEF NewInstance, Numbers, Instance
  <1>4. /\ launched' \in [Procs -> 0..MaxLaunches]
        /\ \A p \in Procs : launched'[p] = launched[p] + (IF p \in spawned THEN 1 ELSE 0)
    BY <1>1, <1>2, BoundTypes
  <1>5. \A p \in listed : /\ instances'[p] \in Seq(Instance)
                          /\ Len(instances'[p]) = Len(instances[p]) + 1
                          /\ ToSet(instances'[p]) = ToSet(instances[p]) \cup {NewInstance(p)}
    <2> TAKE p \in listed
    <2>1. instances[p] \in Seq(Instance) /\ NewInstance(p) \in Instance
      BY <1>3 DEF Types
    <2>2. instances'[p] = Append(instances[p], NewInstance(p))
      BY <1>1
    <2> QED BY <2>1, <2>2, AppendFacts
  <1>6. \A p \in Procs \ listed : instances'[p] = instances[p]
    BY <1>1
  <1>7. instances' \in [Procs -> Seq(Instance)]
    <2>1. \A p \in Procs : instances'[p] \in Seq(Instance)
      BY <1>5, <1>6 DEF Types
    <2> QED BY <1>1, <2>1
  <1>8. \A p \in Procs : ToSet(instances'[p]) \subseteq Numbers(p)
    <2> TAKE p \in Procs
    <2>1. ToSet(instances[p]) \subseteq Numbers(p)
      BY DEF Types
    <2>2. CASE p \in listed
      BY <1>3, <1>5, <2>1, <2>2
    <2>3. CASE p \notin listed
      BY <1>6, <2>1, <2>3
    <2> QED BY <2>2, <2>3
  <1>9. \A p \in Procs : \A k \in 1..MaxLaunches :
          <<p, k>> \in Instance /\ (<<p, k>> \in new <=> p \in spawned /\ k = launched[p] + 1)
    BY DEF NewInstance, Instance
  <1>10. state' \in [Instance -> States] /\ DOMAIN worker' = Instance
    BY <1>1 DEF Types, States
  <1> HIDE DEF new
  <1> QED BY <1>1, <1>3, <1>4, <1>5, <1>6, <1>7, <1>8, <1>9, <1>10

\* The part of it that speaks of the lists.
LEMMA LaunchLists ==
    ASSUME Types, NEW spawned \in SUBSET Procs, NEW listed \in SUBSET spawned,
           Launch(spawned, listed)
    PROVE  /\ \A p \in listed : /\ Len(instances'[p]) = Len(instances[p]) + 1
                                /\ ToSet(instances'[p]) = ToSet(instances[p]) \cup {NewInstance(p)}
           /\ \A p \in Procs \ listed : instances'[p] = instances[p]
  <1>1. \A p \in listed : /\ Len(instances'[p]) = Len(instances[p]) + 1
                          /\ ToSet(instances'[p]) = ToSet(instances[p]) \cup {NewInstance(p)}
    <2> SUFFICES ASSUME NEW p \in listed
                 PROVE  /\ Len(instances'[p]) = Len(instances[p]) + 1
                        /\ ToSet(instances'[p]) = ToSet(instances[p]) \cup {NewInstance(p)}
      OBVIOUS
    <2>1. /\ instances' = [q \in Procs |-> IF q \in listed THEN Append(instances[q], NewInstance(q))
                                                           ELSE instances[q]]
          /\ instances[p] \in Seq(Instance)
      BY DEF Launch, Types
    <2>2. NewInstance(p) \in Instance
      BY LaunchFacts
    <2>3. instances'[p] = Append(instances[p], NewInstance(p))
      BY <2>1
    <2> QED BY <2>1, <2>2, <2>3, AppendFacts
  <1>2. instances' = [p \in Procs |-> IF p \in listed THEN Append(instances[p], NewInstance(p))
                                                      ELSE instances[p]]
    BY DEF Launch
  <1>3. \A p \in Procs \ listed : instances'[p] = instances[p]
    BY <1>2
  <1> QED BY <1>1, <1>3

LEMMA LaunchKept ==
    ASSUME Types, FreshInv, NEW spawned \in SUBSET Procs, NEW listed \in SUBSET spawned,
           Launch(spawned, listed), starts' \in [Pipes -> Nat], loop' \in {loop, Free}
    PROVE  Types' /\ FreshInv'
  <1>a. \A p \in Procs :
           /\ ToSet(instances'[p]) \subseteq Numbers(p)
           /\ launched'[p] = launched[p] + (IF p \in spawned THEN 1 ELSE 0)
    BY LaunchFacts
  <1>b. \A p \in Procs : \A k \in 1..MaxLaunches :
           IF p \in spawned /\ k = launched[p] + 1
           THEN state'[<<p, k>>] = "LAUNCHED"
           ELSE /\ state'[<<p, k>>] = state[<<p, k>>]
                /\ worker'[<<p, k>>] = worker[<<p, k>>]
    BY LaunchFacts
  <1>1. Types'
    BY LaunchFacts DEF Types
  <1>2. \A p \in Procs : \A k \in 1..MaxLaunches :
          k > launched'[p] => state'[<<p, k>>] = "none" /\ worker'[<<p, k>>] = "none"
    <2> SUFFICES ASSUME NEW p \in Procs, NEW k \in 1..MaxLaunches, k > launched'[p]
                 PROVE  state'[<<p, k>>] = "none" /\ worker'[<<p, k>>] = "none"
      OBVIOUS
    <2>1. launched[p] \in Nat /\ launched'[p] = launched[p] + (IF p \in spawned THEN 1 ELSE 0)
      BY <1>a DEF Types
    <2>2. k > launched[p] /\ ~(p \in spawned /\ k = launched[p] + 1)
      BY <2>1
    <2>3. state'[<<p, k>>] = state[<<p, k>>] /\ worker'[<<p, k>>] = worker[<<p, k>>]
      BY <1>b, <2>2
    <2> QED BY <2>2, <2>3 DEF FreshInv
  <1>3. \A i \in Instance : loop' = Registering(i) => state'[i] # "none"
    <2> SUFFICES ASSUME NEW i \in Instance, loop' = Registering(i) PROVE state'[i] # "none"
      OBVIOUS
    <2>1. state[i] # "none"
      BY Turns DEF FreshInv
    <2>2. PICK p \in Procs, k \in 1..MaxLaunches : i = <<p, k>>
      BY DEF Instance
    <2>3. state'[i] = state[i] \/ state'[i] = "LAUNCHED"
      BY <1>b, <2>2
    <2> QED BY <2>1, <2>3
  <1> QED BY <1>1, <1>2, <1>3 DEF FreshInv

LEMMA ProcsFacts ==
    \A n \in Pipes : /\ ToSet(ProcsOf[n]) \subseteq Procs
                    /\ \A k \in 1..Len(ProcsOf[n]) : ProcsOf[n][k] \in ToSet(ProcsOf[n])
  <1> TAKE n \in Pipes
  <1>1. ToSet(ProcsOf[n]) \subseteq Procs
    BY DEF Procs
  <1>2. DOMAIN ProcsOf[n] = 1..Len(ProcsOf[n])
    BY PipesAssumption
  <1> QED BY <1>1, <1>2 DEF ToSet

\* What a launch that fails has spawned, and what it has listed.
LEMMA FailsFacts ==
    ASSUME NEW n \in Pipes, HandleStartFails(n)
    PROVE  \E spawned, listed \in SUBSET ToSet(ProcsOf[n]) :
              /\ listed \in SUBSET spawned /\ Launch(spawned, listed)
              /\ \E p : spawned \subseteq listed \cup {p}
  <1>1. PICK k \in 1..Len(ProcsOf[n]) : \/ Launch(BeforeProc(n, k), BeforeProc(n, k))
                                       \/ Launch(BeforeProc(n, k + 1), BeforeProc(n, k))
    BY DEF HandleStartFails
  <1>2. Len(ProcsOf[n]) \in Nat
    BY PipesAssumption
  <1>3. /\ BeforeProc(n, k) \subseteq BeforeProc(n, k + 1)
        /\ BeforeProc(n, k + 1) \subseteq ToSet(ProcsOf[n])
    <2>1. 1..(k - 1) \subseteq 1..(k + 1 - 1) /\ 1..(k + 1 - 1) \subseteq 1..Len(ProcsOf[n])
      BY <1>2
    <2> QED BY <2>1, ProcsFacts DEF BeforeProc
  <1>4. BeforeProc(n, k + 1) \subseteq BeforeProc(n, k) \cup {ProcsOf[n][k]}
    <2>1. \A m \in 1..(k + 1 - 1) : m \in 1..(k - 1) \/ m = k
      BY <1>2
    <2> QED BY <2>1 DEF BeforeProc
  <1>5. ASSUME NEW A \in SUBSET ToSet(ProcsOf[n]), NEW B \in SUBSET A, Launch(A, B),
               A \subseteq B \cup {ProcsOf[n][k]}
        PROVE  \E spawned, listed \in SUBSET ToSet(ProcsOf[n]) :
                  /\ listed \in SUBSET spawned /\ Launch(spawned, listed)
                  /\ \E p : spawned \subseteq listed \cup {p}
    <2>1. \E p : A \subseteq B \cup {p}
      BY <1>5
    <2>2. B \in SUBSET ToSet(ProcsOf[n]) /\ B \in SUBSET A
      BY <1>5
    <2> WITNESS A \in SUBSET ToSet(ProcsOf[n]), B \in SUBSET ToSet(ProcsOf[n])
    <2> QED BY <1>5, <2>1, <2>2
  <1>6. CASE Launch(BeforeProc(n, k), BeforeProc(n, k))
    <2>1. BeforeProc(n, k) \in SUBSET ToSet(ProcsOf[n]) /\ BeforeProc(n, k) \in SUBSET BeforeProc(n, k)
      BY <1>3
    <2> QED BY <1>5, <1>6, <2>1
  <1>7. CASE Launch(BeforeProc(n, k + 1), BeforeProc(n, k))
    <2>1. BeforeProc(n, k + 1) \in SUBSET ToSet(ProcsOf[n]) /\ BeforeProc(n, k) \in SUBSET BeforeProc(n, k + 1)
      BY <1>3
    <2> QED BY <1>4, <1>5, <1>7, <2>1
  <1> QED BY <1>1, <1>6, <1>7

\* A step of one worker, of its monitor thread, or of the handler that serves it.
LEMMA WorkerKept ==
    ASSUME Types, FreshInv, NEW i \in Instance, state[i] # "none" \/ worker[i] # "none",
           UNCHANGED <<starts, procVars>>, loop' \in {loop, Free},
           worker' = worker \/ \E w : worker' = [worker EXCEPT ![i] = w],
           state' = state \/ \E s \in States \ {"none"} : state' = [state EXCEPT ![i] = s]
    PROVE  Types' /\ FreshInv'
  <1>1. Types'
    BY DEF Types, procVars
  <1>2. PICK q \in Procs, m \in 1..MaxLaunches : i = <<q, m>>
    BY DEF Instance
  <1>3. m <= launched[q]
    <2>1. m > launched[q] \/ m <= launched[q]
      BY DEF Types
    <2> QED BY <1>2, <2>1 DEF FreshInv
  <1>4. \A p \in Procs : \A k \in 1..MaxLaunches :
          k > launched'[p] => state'[<<p, k>>] = "none" /\ worker'[<<p, k>>] = "none"
    <2> SUFFICES ASSUME NEW p \in Procs, NEW k \in 1..MaxLaunches, k > launched'[p]
                 PROVE  state'[<<p, k>>] = "none" /\ worker'[<<p, k>>] = "none"
      OBVIOUS
    <2>1. k > launched[p] /\ launched[p] \in Nat
      BY DEF procVars, Types
    <2>2. <<p, k>> \in Instance /\ <<p, k>> # i
      <3>1. <<p, k>> \in Instance
        BY DEF Instance
      <3>2. ASSUME <<p, k>> = i PROVE FALSE
        <4>1. p = q /\ k = m
          BY <1>2, <3>2
        <4> QED BY <1>3, <2>1, <4>1
      <3> QED BY <3>1, <3>2
    <2>3. state'[<<p, k>>] = state[<<p, k>>] /\ worker'[<<p, k>>] = worker[<<p, k>>]
      BY <2>2 DEF Types
    <2> QED BY <2>1, <2>3 DEF FreshInv
  <1>5. \A j \in Instance : loop' = Registering(j) => state'[j] # "none"
    <2> TAKE j \in Instance
    <2>1. loop' = Registering(j) => state[j] # "none"
      BY Turns DEF FreshInv
    <2>2. state'[j] = state[j] \/ state'[j] # "none"
      BY DEF Types
    <2> QED BY <2>1, <2>2
  <1> QED BY <1>1, <1>4, <1>5 DEF FreshInv

\* The positions that stay on a processor's list.
Kept(p) == {k \in DOMAIN instances[p] : ~(k \in Visited(p) /\ Removed(instances[p][k]))}

LEMMA LeftFacts ==
    ASSUME Types, NEW p \in Procs
    PROVE  /\ Left(p) \in Seq(Instance) /\ Len(Left(p)) <= Len(instances[p])
           /\ ToSet(Left(p)) \subseteq ToSet(instances[p])
           /\ ~Finished(p) => Left(p) = instances[p]
  <1>1. instances[p] \in Seq(Instance) /\ DOMAIN instances[p] = 1..Len(instances[p])
    BY DEF Types
  <1>2. Left(p) = Keeping(instances[p], Kept(p))
    BY DEF Left, Kept
  <1>3. Kept(p) \in SUBSET (1..Len(instances[p]))
    BY <1>1 DEF Kept
  <1>4. ~Finished(p) => Kept(p) = 1..Len(instances[p])
    BY <1>1 DEF Kept, Finished, Removed
  <1> QED BY <1>1, <1>2, <1>3, <1>4, KeepingFacts

LEMMA LoadedFacts ==
    ASSUME loaded \in Seq(Pipes)
    PROVE  /\ \A n \in ToSet(loaded) : n \in Pipes
           /\ \A k \in 1..Len(loaded) : loaded[k] \in ToSet(loaded)
  BY DEF ToSet

LEMMA BaseKept == loaded \in Seq(Pipes) /\ Types /\ FreshInv /\ [Next]_vars => Types' /\ FreshInv'
  <1> SUFFICES ASSUME loaded \in Seq(Pipes), Types, FreshInv, [Next]_vars
               PROVE  Types' /\ FreshInv'
    OBVIOUS
  <1>1. ASSUME UNCHANGED <<starts, procVars, workerVars, loop>>
        PROVE  Types' /\ FreshInv'
    BY <1>1 DEF Types, FreshInv, procVars, workerVars
  <1>2. ASSUME NEW n \in Pipes, LoadPipe(n) \/ HandlePause(n) PROVE Types' /\ FreshInv'
    BY <1>1, <1>2 DEF LoadPipe, HandlePause, envVars
  <1>3. ASSUME NEW n \in Pipes, HandleStart(n) PROVE Types' /\ FreshInv'
    <2>1. starts' \in [Pipes -> Nat] /\ loop' = loop
      BY <1>3 DEF HandleStart, StartCalled, Types
    <2>2. Launch(ToSet(ProcsOf[n]), ToSet(ProcsOf[n])) /\ ToSet(ProcsOf[n]) \in SUBSET Procs
      BY <1>3, ProcsFacts DEF HandleStart
    <2> QED BY <2>1, <2>2, LaunchKept
  <1>4. ASSUME NEW n \in Pipes, HandleStartFails(n) PROVE Types' /\ FreshInv'
    <2>1. starts' \in [Pipes -> Nat] /\ loop' = loop
      BY <1>4 DEF HandleStartFails, StartCalled, Types
    <2>2. PICK spawned, listed \in SUBSET ToSet(ProcsOf[n]) :
             listed \in SUBSET spawned /\ Launch(spawned, listed)
      BY <1>4, FailsFacts
    <2>3. spawned \in SUBSET Procs
      BY ProcsFacts
    <2> QED BY <2>1, <2>2, <2>3, LaunchKept
  <1>5. CASE SetPipeStatus \/ UNCHANGED vars
    BY <1>1, <1>5 DEF SetPipeStatus, envVars, vars
  <1>6. ASSUME NEW i \in Instance, RegisterRefused(i) \/ Connect(i) \/ WorkerEnds(i) \/ Monitor(i)
                                   \/ RegisterSet(i)
        PROVE  Types' /\ FreshInv'
    <2>1. /\ UNCHANGED <<starts, procVars>> /\ loop' \in {loop, Free}
      BY <1>6 DEF RegisterRefused, Connect, WorkerEnds, Monitor, RegisterSet, envVars
    <2>2. state[i] # "none" \/ worker[i] # "none"
      BY <1>6 DEF RegisterRefused, Connect, WorkerEnds, Monitor, RegisterSet, MayEnd, Alive, Ended,
                  FreshInv
    <2>3. worker' = worker \/ \E w : worker' = [worker EXCEPT ![i] = w]
      BY <1>6 DEF RegisterRefused, Connect, WorkerEnds, Monitor, RegisterSet, FailedAttempt, Becomes
    <2>4. state' = state \/ \E s \in States \ {"none"} : state' = [state EXCEPT ![i] = s]
      <3>1. state' = state \/ state' = [state EXCEPT ![i] = "READY"]
                          \/ state' = [state EXCEPT ![i] = "DONE"]
        BY <1>6 DEF RegisterRefused, Connect, WorkerEnds, Monitor, RegisterSet
      <3> QED BY <3>1 DEF States
    <2> QED BY <2>1, <2>2, <2>3, <2>4, WorkerKept
  <1>7. ASSUME NEW i \in Instance, RegisterChecked(i) PROVE Types' /\ FreshInv'
    BY <1>7, Turns DEF RegisterChecked, Registrable, Types, FreshInv, procVars, workerVars, envVars
  <1>8. CASE MonitorPipes
    <2>1. /\ instances' = [p \in Procs |-> IF p \in LoadedProcs THEN Left(p) ELSE <<>>]
          /\ DOMAIN procStatus' = Procs /\ loop' = Scaling
          /\ UNCHANGED <<starts, launched, workerVars>>
      BY <1>8 DEF MonitorPipes, envVars
    <2>2. \A p \in Procs : /\ instances'[p] \in Seq(Instance)
                           /\ ToSet(instances'[p]) \subseteq Numbers(p)
      <3> TAKE p \in Procs
      <3>1. CASE p \in LoadedProcs
        BY <2>1, <3>1, LeftFacts DEF Types
      <3>2. CASE p \notin LoadedProcs
        <4>1. instances'[p] = <<>>
          BY <2>1, <3>2
        <4>2. <<>> \in Seq(Instance) /\ DOMAIN <<>> = {}
          OBVIOUS
        <4> QED BY <4>1, <4>2 DEF ToSet
      <3> QED BY <3>1, <3>2
    <2>3. instances' \in [Procs -> Seq(Instance)]
      BY <2>1, <2>2
    <2>4. Types'
      BY <2>1, <2>2, <2>3 DEF Types, workerVars
    <2>5. FreshInv'
      BY <2>1, Turns DEF FreshInv, workerVars
    <2> QED BY <2>4, <2>5
  <1>9. CASE CheckAutoscale
    <2>1. starts' = starts /\ loop' = Free
      BY <1>9 DEF CheckAutoscale, envVars
    <2>2. CASE UNCHANGED <<procVars, workerVars>>
      BY <2>1, <2>2, Turns DEF Types, FreshInv, procVars, workerVars
    <2>3. ASSUME NEW n \in ToSet(loaded), ScaleUp(n), n \in Pipes PROVE Types' /\ FreshInv'
      <3>1. PICK p \in ToSet(ProcsOf[n]) : Launch({p}, {p}) \/ Launch({}, {}) \/ Launch({p}, {})
        BY <2>3 DEF ScaleUp
      <3>2. {p} \in SUBSET Procs /\ {} \in SUBSET Procs
        BY <2>3, ProcsFacts
      <3>3. starts' \in [Pipes -> Nat] /\ loop' \in {loop, Free}
        BY <2>1 DEF Types
      <3>4. {p} \in SUBSET {p} /\ {} \in SUBSET {} /\ {} \in SUBSET {p}
        OBVIOUS
      <3> QED BY <3>1, <3>2, <3>3, <3>4, LaunchKept
    <2>4. \A n \in ToSet(loaded) : n \in Pipes
      BY LoadedFacts
    <2> QED BY <1>9, <2>2, <2>3, <2>4 DEF CheckAutoscale, SitterDies, NoScaling
  <1> QED BY <1>2, <1>3, <1>4, <1>5, <1>6, <1>7, <1>8, <1>9 DEF Next

-----------------------------------------------------------------------------
(* Types *)

WorkerStates == {"none", "starting", "registered", "joined", "stuck", "ok", "failed"}

\* The pipes are loaded once each, and the scheduled tasks name a pipe and a status.
PipesInv ==
    /\ loaded \in Seq(Pipes)
    /\ \A j, k \in 1..Len(loaded) : loaded[j] = loaded[k] => j = k
    /\ pipeStatus \in [Pipes -> Statuses]
    /\ tasks \in Seq(Pipes \X Statuses)

\* A worker that has not begun its join has not failed, and one that is in it has
\* an attempt left.
TriesInv ==
    /\ reaped \in [Instance -> BOOLEAN]
    /\ worker \in [Instance -> WorkerStates]
    /\ tries \in [Instance -> 0..Attempts]
    /\ \A i \in Instance : /\ worker[i] = "none" => tries[i] = 0
                           /\ worker[i] = "starting" => tries[i] < Attempts

SpawnedInv == \A p \in Procs : ToSet(instances[p]) \subseteq {p} \X (1..launched[p])

CountersInv ==
    /\ procStatus \in [Procs -> {"INIT", "COMPLETED"}]
    /\ loop \in {Free, Scaling} \cup {Registering(i) : i \in Instance}
    /\ sitter \in {"up", "checkFailed", "launchFailed"}
    /\ starts \in [Pipes -> 0..MaxStarts]
    /\ pauses \in 0..MaxPauses /\ lost \in 0..MaxLost

TypesInv == Types /\ FreshInv /\ PipesInv /\ TriesInv /\ SpawnedInv /\ CountersInv

\* A sequence of different elements is no longer than their set is large.
LEMMA NoLongerThanSet ==
    ASSUME NEW S, IsFiniteSet(S), NEW s \in Seq(S),
           \A j, k \in 1..Len(s) : s[j] = s[k] => j = k
    PROVE  Len(s) <= Cardinality(S)
  <1>1. Len(s) \in Nat /\ s \in [1..Len(s) -> S]
    OBVIOUS
  <1>2. s \in Injection(1..Len(s), S)
    BY <1>1 DEF Injection, IsInjective
  <1>3. IsFiniteSet(1..Len(s)) /\ Cardinality(1..Len(s)) = Len(s)
    BY <1>1, FS_Interval
  <1> QED BY <1>2, <1>3, FS_Injection

LEMMA TypesMean ==
    ASSUME IsFiniteSet(Pipes), TypesInv
    PROVE  TypeOK
  <1>1. Len(loaded) <= Cardinality(Pipes) /\ Len(loaded) \in Nat /\ Cardinality(Pipes) \in Nat
    BY NoLongerThanSet, FS_CardinalityType DEF TypesInv, PipesInv
  <1>2. loaded \in SeqOf(Pipes, Cardinality(Pipes))
    <2>1. Len(loaded) \in 0..Cardinality(Pipes) /\ loaded \in [1..Len(loaded) -> Pipes]
      BY <1>1 DEF TypesInv, PipesInv
    <2> QED BY <2>1 DEF SeqOf
  <1>3. \A k \in 1..Len(tasks) : tasks[k] \in Pipes \X Statuses
    BY DEF TypesInv, PipesInv
  <1> QED BY <1>2, <1>3 DEF TypesInv, PipesInv, TriesInv, SpawnedInv, CountersInv, Types, States,
              TypeOK, WorkerStates

LEMMA TypesStart == Init => TypesInv
  <1> SUFFICES ASSUME Init PROVE TypesInv
    OBVIOUS
  <1>1. Types /\ FreshInv
    <2>1. \A p \in Procs : instances[p] = <<>>
      BY DEF Init
    <2>2. <<>> \in Seq(Instance) /\ DOMAIN <<>> = {}
      OBVIOUS
    <2>3. /\ instances \in [Procs -> Seq(Instance)]
          /\ \A p \in Procs : ToSet(instances[p]) \subseteq Numbers(p)
      BY <2>1, <2>2 DEF Init, ToSet
    <2>4. Types
      BY <2>3, BoundTypes DEF Init, Types, States
    <2>5. FreshInv
      BY Turns DEF Init, FreshInv, Instance
    <2> QED BY <2>4, <2>5
  <1>2. PipesInv
    <2>1. loaded = <<>> /\ tasks = <<>> /\ pipeStatus = [n \in Pipes |-> "none"]
      BY DEF Init
    <2> QED BY <2>1 DEF PipesInv, Statuses
  <1>3. TriesInv
    BY BoundsAssumption DEF Init, TriesInv, WorkerStates
  <1>4. SpawnedInv
    <2>1. \A p \in Procs : instances[p] = <<>>
      BY DEF Init
    <2>2. DOMAIN <<>> = {}
      OBVIOUS
    <2> QED BY <2>1, <2>2 DEF SpawnedInv, ToSet
  <1>5. CountersInv
    BY BoundsAssumption DEF Init, CountersInv
  <1> QED BY <1>1, <1>2, <1>3, <1>4, <1>5 DEF TypesInv

LEMMA PipesKept == PipesInv /\ [Next]_vars => PipesInv'
  <1> SUFFICES ASSUME PipesInv, [Next]_vars PROVE PipesInv'
    OBVIOUS
  <1>0. /\ loaded \in Seq(Pipes) /\ pipeStatus \in [Pipes -> Statuses]
        /\ tasks \in Seq(Pipes \X Statuses)
        /\ \A j, k \in 1..Len(loaded) : loaded[j] = loaded[k] => j = k
    BY DEF PipesInv
  <1>1. CASE UNCHANGED pipeVars
    BY <1>1 DEF PipesInv, pipeVars
  <1>2. ASSUME NEW n \in Pipes, NEW s \in Statuses, Schedule(n, s), UNCHANGED <<loaded, pipeStatus>>
        PROVE  PipesInv'
    <2>1. <<n, s>> \in Pipes \X Statuses
      OBVIOUS
    <2>2. tasks' \in Seq(Pipes \X Statuses)
      BY <1>0, <1>2, <2>1, AppendFacts DEF Schedule
    <2> QED BY <1>0, <1>2, <2>2 DEF PipesInv
  <1>3. ASSUME NEW n \in Pipes, LoadPipe(n) PROVE PipesInv'
    <2>1. /\ loaded' = Append(loaded, n) /\ n \notin ToSet(loaded) /\ tasks' = tasks
          /\ pipeStatus' = [pipeStatus EXCEPT ![n] = "READY"]
      BY <1>3 DEF LoadPipe, IsLoaded
    <2>2. loaded' \in Seq(Pipes) /\ Len(loaded) \in Nat /\ Len(loaded') = Len(loaded) + 1
      BY <1>0, <2>1, AppendFacts
    <2>3. loaded'[Len(loaded) + 1] = n /\ \A k \in 1..Len(loaded) : loaded'[k] = loaded[k] /\ loaded[k] # n
      BY <1>0, <2>1, LoadedFacts
    <2>4. \A j, k \in 1..Len(loaded') : loaded'[j] = loaded'[k] => j = k
      <3> SUFFICES ASSUME NEW j \in 1..Len(loaded'), NEW k \in 1..Len(loaded'), loaded'[j] = loaded'[k]
                   PROVE  j = k
        OBVIOUS
      <3>1. /\ j \in 1..Len(loaded) \/ j = Len(loaded) + 1
            /\ k \in 1..Len(loaded) \/ k = Len(loaded) + 1
        BY <2>2
      <3> QED BY <1>0, <2>3, <3>1
    <2>5. pipeStatus' \in [Pipes -> Statuses]
      BY <1>0, <2>1 DEF Statuses
    <2> QED BY <1>0, <2>1, <2>2, <2>4, <2>5 DEF PipesInv
  <1>4. ASSUME NEW n \in Pipes, HandleStart(n) \/ HandleStartFails(n) \/ HandlePause(n)
        PROVE  PipesInv'
    BY <1>1, <1>2, <1>4 DEF HandleStart, HandleStartFails, HandlePause, StartCalled, Statuses, pipeVars
  <1>5. CASE SetPipeStatus
    <2>1. /\ tasks # <<>> /\ tasks' = Tail(tasks) /\ loaded' = loaded
          /\ pipeStatus' = [pipeStatus EXCEPT ![Head(tasks)[1]] = Head(tasks)[2]]
      BY <1>5 DEF SetPipeStatus
    <2>2. Head(tasks) \in Pipes \X Statuses /\ tasks' \in Seq(Pipes \X Statuses)
      BY <1>0, <2>1
    <2>3. pipeStatus' \in [Pipes -> Statuses]
      BY <1>0, <2>1, <2>2
    <2> QED BY <1>0, <2>1, <2>2, <2>3 DEF PipesInv
  <1>6. CASE MonitorPipes
    <2> DEFINE kept == {k \in DOMAIN loaded : ~Running(loaded[k])}
               over == Keeping(loaded, kept)
               marks == [k \in 1..Len(over) |-> <<over[k], "COMPLETED">>]
    <2>1. tasks' = tasks \o marks /\ UNCHANGED <<loaded, pipeStatus>>
      BY <1>6 DEF MonitorPipes
    <2>2. kept \in SUBSET (1..Len(loaded))
      BY <1>0
    <2> HIDE DEF kept
    <2>3. over \in Seq(Pipes)
      BY <1>0, <2>2, KeepingFacts
    <2> HIDE DEF over
    <2>4. \A k \in 1..Len(over) : over[k] \in Pipes /\ Len(over) \in Nat
      BY <2>3
    <2>5. marks \in Seq(Pipes \X Statuses)
      <3>1. \A k \in 1..Len(over) : <<over[k], "COMPLETED">> \in Pipes \X Statuses
        BY <2>4 DEF Statuses
      <3>2. Len(over) \in Nat
        BY <2>3
      <3>3. marks \in [1..Len(over) -> Pipes \X Statuses]
        BY <3>1
      <3> HIDE DEF marks
      <3> QED BY <3>2, <3>3
    <2> HIDE DEF marks
    <2>6. tasks' \in Seq(Pipes \X Statuses)
      BY <1>0, <2>1, <2>5
    <2> QED BY <1>0, <2>1, <2>6 DEF PipesInv
  <1>7. CASE CheckAutoscale
    BY <1>1, <1>7 DEF CheckAutoscale
  <1>8. ASSUME NEW i \in Instance, RegisterRefused(i) \/ RegisterChecked(i) \/ RegisterSet(i)
                                   \/ Connect(i) \/ WorkerEnds(i) \/ Monitor(i)
        PROVE  PipesInv'
    BY <1>1, <1>8 DEF RegisterRefused, RegisterChecked, RegisterSet, Connect, WorkerEnds, Monitor
  <1>9. CASE UNCHANGED vars
    BY <1>1, <1>9 DEF vars
  <1> QED BY <1>3, <1>4, <1>5, <1>6, <1>7, <1>8, <1>9 DEF Next

\* What a launch leaves of the workers' types and of the lists.
LEMMA LaunchTypes ==
    ASSUME Types, FreshInv, TriesInv, SpawnedInv,
           NEW spawned \in SUBSET Procs, NEW listed \in SUBSET spawned, Launch(spawned, listed)
    PROVE  TriesInv' /\ SpawnedInv'
  <1> DEFINE new == {NewInstance(p) : p \in spawned}
  <1>1. /\ worker' = [i \in Instance |-> IF i \in new THEN "starting" ELSE worker[i]]
        /\ UNCHANGED <<reaped, tries>>
    BY DEF Launch
  <1>2. \A i \in new : i \in Instance /\ worker[i] = "none"
    <2> SUFFICES ASSUME NEW p \in spawned
                 PROVE  NewInstance(p) \in Instance /\ worker[NewInstance(p)] = "none"
      OBVIOUS
    <2>1. NewInstance(p) \in Numbers(p) \cap Instance
      BY LaunchFacts
    <2>2. launched[p] + 1 \in 1..MaxLaunches /\ launched[p] \in Nat /\ p \in Procs
      BY <2>1 DEF NewInstance, Numbers, Types
    <2>3. launched[p] + 1 > launched[p]
      BY <2>2
    <2> QED BY <2>1, <2>2, <2>3 DEF FreshInv, NewInstance
  <1>3. TriesInv'
    <2> HIDE DEF new
    <2>1. Attempts \in Nat /\ 0 < Attempts
      BY BoundsAssumption
    <2>2. worker' \in [Instance -> WorkerStates]
      BY <1>1 DEF TriesInv, WorkerStates
    <2>3. \A i \in Instance : /\ worker'[i] = "none" => tries[i] = 0
                              /\ worker'[i] = "starting" => tries[i] < Attempts
      BY <1>1, <1>2, <2>1 DEF TriesInv
    <2> QED BY <1>1, <2>2, <2>3 DEF TriesInv
  <1>4. SpawnedInv'
    <2> SUFFICES ASSUME NEW p \in Procs
                 PROVE  ToSet(instances'[p]) \subseteq {p} \X (1..launched'[p])
      BY DEF SpawnedInv
    <2>0. \A q \in Procs : /\ ToSet(instances'[q]) \subseteq Numbers(q)
                           /\ launched'[q] = launched[q] + (IF q \in spawned THEN 1 ELSE 0)
      BY LaunchFacts
    <2>1. launched'[p] = launched[p] + (IF p \in spawned THEN 1 ELSE 0) /\ launched[p] \in Nat
      BY <2>0 DEF Types
    <2>2. {p} \X (1..launched[p]) \subseteq {p} \X (1..launched'[p])
      BY <2>1
    <2>3. CASE p \in listed
      <3>1. ToSet(instances'[p]) = ToSet(instances[p]) \cup {NewInstance(p)}
        BY <2>3, LaunchLists
      <3>2. NewInstance(p) \in {p} \X (1..launched'[p])
        BY <2>1, <2>3 DEF NewInstance
      <3> QED BY <2>2, <3>1, <3>2 DEF SpawnedInv
    <2>4. CASE p \notin listed
      <3>1. instances'[p] = instances[p]
        BY <2>4, LaunchFacts
      <3> QED BY <2>2, <3>1 DEF SpawnedInv
    <2> QED BY <2>3, <2>4
  <1> QED BY <1>3, <1>4

LEMMA WorkersKept ==
    ASSUME Types, FreshInv, PipesInv, TriesInv, SpawnedInv, [Next]_vars
    PROVE  TriesInv' /\ SpawnedInv'
  <1>0. loaded \in Seq(Pipes)
    BY DEF PipesInv
  <1>1. UNCHANGED <<procVars, workerVars>> => TriesInv' /\ SpawnedInv'
    BY DEF TriesInv, SpawnedInv, procVars, workerVars
  <1>2. ASSUME NEW n \in Pipes, HandleStart(n) PROVE TriesInv' /\ SpawnedInv'
    <2>1. Launch(ToSet(ProcsOf[n]), ToSet(ProcsOf[n])) /\ ToSet(ProcsOf[n]) \in SUBSET Procs
      BY <1>2, ProcsFacts DEF HandleStart
    <2> QED BY <2>1, LaunchTypes
  <1>3. ASSUME NEW n \in Pipes, HandleStartFails(n) PROVE TriesInv' /\ SpawnedInv'
    <2>1. PICK spawned, listed \in SUBSET ToSet(ProcsOf[n]) :
             listed \in SUBSET spawned /\ Launch(spawned, listed)
      BY <1>3, FailsFacts
    <2>2. spawned \in SUBSET Procs
      BY ProcsFacts
    <2> QED BY <2>1, <2>2, LaunchTypes
  <1>4. ASSUME NEW i \in Instance, worker[i] = "starting", FailedAttempt(i),
               UNCHANGED <<procVars, reaped>>
        PROVE  TriesInv' /\ SpawnedInv'
    <2>1. tries[i] \in Nat /\ Attempts \in Nat /\ tries[i] < Attempts
      BY <1>4, BoundsAssumption DEF TriesInv
    <2>2. tries' \in [Instance -> 0..Attempts]
      BY <1>4, <2>1 DEF FailedAttempt, TriesInv
    <2>3. worker' \in [Instance -> WorkerStates]
      BY <1>4 DEF FailedAttempt, Becomes, TriesInv, WorkerStates
    <2>4. ASSUME NEW j \in Instance
          PROVE  /\ worker'[j] = "none" => tries'[j] = 0
                 /\ worker'[j] = "starting" => tries'[j] < Attempts
      <3>1. CASE j = i
        BY <1>4, <2>1, <3>1 DEF FailedAttempt, Becomes, TriesInv
      <3>2. CASE j # i
        BY <1>4, <3>2 DEF FailedAttempt, Becomes, TriesInv
      <3> QED BY <3>1, <3>2
    <2> QED BY <1>4, <2>2, <2>3, <2>4 DEF TriesInv, SpawnedInv, procVars
  <1>5. ASSUME NEW i \in Instance, NEW w \in WorkerStates \ {"none", "starting"},
               worker' = [worker EXCEPT ![i] = w], UNCHANGED <<procVars, reaped, tries>>
        PROVE  TriesInv' /\ SpawnedInv'
    <2>1. worker' \in [Instance -> WorkerStates]
      BY <1>5 DEF TriesInv
    <2> QED BY <1>5, <2>1 DEF TriesInv, SpawnedInv, procVars
  <1>6. ASSUME NEW i \in Instance, RegisterRefused(i) \/ RegisterChecked(i) \/ RegisterSet(i)
                                   \/ Connect(i) \/ WorkerEnds(i)
        PROVE  TriesInv' /\ SpawnedInv'
    <2>1. CASE RegisterRefused(i)
      BY <1>4, <2>1 DEF RegisterRefused
    <2>2. CASE RegisterChecked(i)
      BY <1>1, <2>2 DEF RegisterChecked
    <2>3. CASE RegisterSet(i)
      <3>1. UNCHANGED <<procVars, reaped>>
        BY <2>3 DEF RegisterSet
      <3>2. CASE worker[i] = "starting" /\ FailedAttempt(i)
        BY <1>4, <3>1, <3>2
      <3>3. CASE UNCHANGED <<worker, tries>>
        BY <3>1, <3>3 DEF TriesInv, SpawnedInv, procVars
      <3>4. CASE Becomes(i, "registered") /\ UNCHANGED tries
        BY <1>5, <3>1, <3>4 DEF Becomes, WorkerStates
      <3> QED BY <2>3, <3>2, <3>3, <3>4 DEF RegisterSet
    <2>4. CASE Connect(i)
      <3>1. PICK w \in {"joined", "stuck"} : Becomes(i, w)
        BY <2>4 DEF Connect
      <3> QED BY <1>5, <2>4, <3>1 DEF Connect, Becomes, WorkerStates
    <2>5. CASE WorkerEnds(i)
      <3>1. PICK w \in {"ok", "failed"} : Becomes(i, w)
        BY <2>5, BoundsAssumption DEF WorkerEnds
      <3> QED BY <1>5, <2>5, <3>1 DEF WorkerEnds, Becomes, WorkerStates
    <2> QED BY <1>6, <2>1, <2>2, <2>3, <2>4, <2>5
  <1>7. ASSUME NEW i \in Instance, Monitor(i) PROVE TriesInv' /\ SpawnedInv'
    BY <1>7 DEF Monitor, TriesInv, SpawnedInv, procVars
  <1>8. CASE MonitorPipes
    <2>1. /\ instances' = [p \in Procs |-> IF p \in LoadedProcs THEN Left(p) ELSE <<>>]
          /\ UNCHANGED <<launched, workerVars>>
      BY <1>8 DEF MonitorPipes
    <2>2. \A p \in Procs : ToSet(instances'[p]) \subseteq ToSet(instances[p])
      <3> TAKE p \in Procs
      <3>1. CASE p \in LoadedProcs
        BY <2>1, <3>1, LeftFacts
      <3>2. CASE p \notin LoadedProcs
        <4>1. instances'[p] = <<>> /\ DOMAIN <<>> = {}
          BY <2>1, <3>2
        <4> QED BY <4>1 DEF ToSet
      <3> QED BY <3>1, <3>2
    <2>3. TriesInv'
      BY <2>1 DEF TriesInv, workerVars
    <2>4. SpawnedInv'
      BY <2>1, <2>2 DEF SpawnedInv
    <2> QED BY <2>3, <2>4
  <1>9. CASE CheckAutoscale
    <2>1. ASSUME NEW n \in ToSet(loaded), ScaleUp(n) PROVE TriesInv' /\ SpawnedInv'
      <3>1. PICK p \in ToSet(ProcsOf[n]) : Launch({p}, {p}) \/ Launch({}, {}) \/ Launch({p}, {})
        BY <2>1 DEF ScaleUp
      <3>2. {p} \in SUBSET Procs /\ {} \in SUBSET Procs
        BY <1>0, LoadedFacts, ProcsFacts
      <3>3. {p} \in SUBSET {p} /\ {} \in SUBSET {} /\ {} \in SUBSET {p}
        OBVIOUS
      <3> QED BY <3>1, <3>2, <3>3, LaunchTypes
    <2> QED BY <1>1, <1>9, <2>1 DEF CheckAutoscale, SitterDies, NoScaling
  <1>10. ASSUME NEW n \in Pipes, LoadPipe(n) \/ HandlePause(n) PROVE TriesInv' /\ SpawnedInv'
    BY <1>1, <1>10 DEF LoadPipe, HandlePause
  <1>11. CASE SetPipeStatus \/ UNCHANGED vars
    BY <1>1, <1>11 DEF SetPipeStatus, vars
  <1> QED BY <1>2, <1>3, <1>6, <1>7, <1>8, <1>9, <1>10, <1>11 DEF Next

LEMMA CountersKept == CountersInv /\ [Next]_vars => CountersInv'
  <1> SUFFICES ASSUME CountersInv, [Next]_vars PROVE CountersInv'
    OBVIOUS
  <1>0. MaxStarts \in Nat /\ MaxPauses \in Nat /\ MaxLost \in Nat
    BY BoundsAssumption
  <1>1. UNCHANGED <<procStatus, loop, sitter, envVars>> => CountersInv'
    BY DEF CountersInv, envVars
  <1>2. ASSUME NEW n \in Pipes, StartCalled(n), UNCHANGED procStatus PROVE CountersInv'
    BY <1>0, <1>2 DEF StartCalled, CountersInv
  <1>3. ASSUME NEW n \in Pipes, HandleStart(n) \/ HandleStartFails(n) PROVE CountersInv'
    BY <1>2, <1>3 DEF HandleStart, HandleStartFails, Launch
  <1>4. ASSUME NEW n \in Pipes, HandlePause(n) PROVE CountersInv'
    BY <1>0, <1>4 DEF HandlePause, CountersInv, procVars
  <1>5. ASSUME NEW i \in Instance, RegisterRefused(i) \/ Connect(i) \/ WorkerEnds(i) \/ Monitor(i)
        PROVE  CountersInv'
    BY <1>1, <1>5 DEF RegisterRefused, Connect, WorkerEnds, Monitor, procVars
  <1>6. ASSUME NEW i \in Instance, RegisterChecked(i) PROVE CountersInv'
    BY <1>6 DEF RegisterChecked, CountersInv, procVars, envVars
  <1>7. ASSUME NEW i \in Instance, RegisterSet(i) PROVE CountersInv'
    <2>1. lost' = lost \/ (lost < MaxLost /\ lost' = lost + 1)
      BY <1>7 DEF RegisterSet
    <2>2. /\ loop' = Free /\ UNCHANGED <<procStatus, sitter, starts, pauses>>
      BY <1>7 DEF RegisterSet, procVars
    <2> QED BY <1>0, <2>1, <2>2 DEF CountersInv
  <1>8. CASE MonitorPipes
    <2>1. procStatus' \in [Procs -> {"INIT", "COMPLETED"}]
      BY <1>8 DEF MonitorPipes, CountersInv
    <2> QED BY <1>8, <2>1 DEF MonitorPipes, CountersInv, envVars
  <1>9. CASE CheckAutoscale
    <2>1. loop' = Free /\ envVars' = envVars
      BY <1>9 DEF CheckAutoscale
    <2>2. procStatus' = procStatus /\ sitter' \in {"up", "checkFailed", "launchFailed"}
      BY <1>9 DEF CheckAutoscale, SitterDies, NoScaling, ScaleUp, Launch, procVars, CountersInv
    <2> QED BY <2>1, <2>2 DEF CountersInv, envVars
  <1>10. CASE SetPipeStatus \/ UNCHANGED vars
    BY <1>1, <1>10 DEF SetPipeStatus, vars, procVars
  <1>11. ASSUME NEW n \in Pipes, LoadPipe(n) PROVE CountersInv'
    BY <1>1, <1>11 DEF LoadPipe, procVars
  <1> QED BY <1>3, <1>4, <1>5, <1>6, <1>7, <1>8, <1>9, <1>10, <1>11 DEF Next

LEMMA TypesKept == TypesInv /\ [Next]_vars => TypesInv'
  <1> SUFFICES ASSUME TypesInv, [Next]_vars PROVE TypesInv'
    OBVIOUS
  <1>1. loaded \in Seq(Pipes)
    BY DEF TypesInv, PipesInv
  <1> QED BY <1>1, BaseKept, PipesKept, WorkersKept, CountersKept DEF TypesInv

\* The inductive form of the types, with what is not known yet of instances that
\* are not spawned, and the attempts that workers have left.
LEMMA TypesAlways == Spec => []TypesInv
  BY TypesStart, TypesKept, PTL DEF Spec

\* Every variable of the node keeps within its type, for any finite number of pipes
\* and of starts: no list names an instance that was not spawned for its processor,
\* and no worker attempts its registration more often than @retry allows.
THEOREM TypeCorrect == IsFiniteSet(Pipes) => (Spec => []TypeOK)
  <1> SUFFICES ASSUME IsFiniteSet(Pipes) PROVE Spec => []TypeOK
    OBVIOUS
  <1>1. TypesInv => TypeOK
    BY TypesMean
  <1> QED BY <1>1, TypesAlways, PTL

-----------------------------------------------------------------------------
(* The lists of a running pipe *)

\* Start has launched the whole pipe, or is about to have its status set.
Coming(n) ==
    pipeStatus[n] = "RUNNING" \/ \E k \in 1..Len(tasks) : tasks[k] = <<n, "RUNNING">>

\* A start that was not cut short has launched every processor of its pipe.
StartedInv ==
    \A n \in Pipes : Coming(n) =>
        starts[n] > 0 /\ \A p \in ToSet(ProcsOf[n]) : launched[p] > 0

\* A start leaves at most one living worker off the lists, and one that was not cut
\* short leaves none.
UntrackedInv ==
    sitter # "launchFailed" => \A n \in Pipes :
        /\ Cardinality(Untracked(n)) <= starts[n]
        /\ Coming(n) => Cardinality(Untracked(n)) < starts[n]

\* Nothing is launched for a pipe that is not loaded.
UnloadedInv ==
    \A n \in Pipes : ~IsLoaded(n) => \A p \in ToSet(ProcsOf[n]) : launched[p] = 0

\* From the tick to the autoscaler a pipe runs, and the baby sitter is there.
TurnInv == loop = Scaling => sitter = "up" /\ AnyPipeRunning

\* What is on a list was launched once.
LengthInv == \A p \in Procs : Len(instances[p]) <= launched[p]

\* The only process of a processor is the one that start has put on the list.
FirstInv ==
    \A n \in Pipes : Coming(n) => \A p \in ToSet(ProcsOf[n]) :
        launched[p] = 1 /\ Alive(<<p, 1>>) => <<p, 1>> \in ToSet(instances[p])

PlacesInv == StartedInv /\ UntrackedInv /\ UnloadedInv /\ TurnInv /\ LengthInv /\ FirstInv

\* What most steps are to the lists: they bring no worker to life.
Quiet ==
    /\ UNCHANGED <<starts, launched>> /\ (sitter' # "launchFailed" => sitter # "launchFailed")
    /\ \A i \in Instance : Alive(i)' => Alive(i)
    /\ \A i \in Instance : state'[i] = "LAUNCHED" => state[i] = "LAUNCHED"
    /\ UNCHANGED <<instances, procStatus>> \/ MonitorPipes

\* The autoscaler launches a process of p, or an exception ends the baby sitter.
Grow(n, p) ==
    /\ UNCHANGED <<starts, tasks, pipeStatus, loaded>>
    /\ loop = Scaling /\ ~IsScaling /\ Available(p) /\ sitter' # "checkFailed"
    /\ \E spawned \in SUBSET {p} : \E listed \in SUBSET spawned :
          /\ Launch(spawned, listed)
          /\ sitter' # "launchFailed" => listed = spawned

\* Only an instance that has exited is taken off its list.
LEMMA LivingStay ==
    ASSUME Types, NEW p \in Procs, NEW i \in ToSet(instances[p]), Alive(i)
    PROVE  i \in ToSet(Left(p))
  <1>1. instances[p] \in Seq(Instance) /\ DOMAIN instances[p] = 1..Len(instances[p])
    BY DEF Types
  <1>2. PICK m \in 1..Len(instances[p]) : instances[p][m] = i
    BY <1>1 DEF ToSet
  <1>3. ~Removed(i)
    BY DEF Removed, Alive
  <1>4. m \in Kept(p) /\ Kept(p) \in SUBSET (1..Len(instances[p]))
    BY <1>1, <1>2, <1>3 DEF Kept
  <1>5. i \in ToSet(Keeping(instances[p], Kept(p)))
    BY <1>1, <1>2, <1>4, KeepingAll
  <1> QED BY <1>5 DEF Left, Kept

LEMMA OneOwner ==
    \A m, n \in Pipes : \A p \in ToSet(ProcsOf[m]) : p \in ToSet(ProcsOf[n]) => m = n
  BY PipesAssumption

\* A step is quiet, starts a pipe, or scales a processor up.
LEMMA StepKinds ==
    ASSUME loaded \in Seq(Pipes), Types, TriesInv, TurnInv, [Next]_vars
    PROVE  \/ Quiet
           \/ \E n \in Pipes : HandleStart(n) \/ HandleStartFails(n)
           \/ \E n \in ToSet(loaded) : \E p \in ToSet(ProcsOf[n]) : Grow(n, p)
  <1>1. UNCHANGED <<starts, procVars, state, worker, sitter>> => Quiet
    BY DEF Quiet, Alive, procVars
  <1>2. ASSUME NEW n \in Pipes, LoadPipe(n) \/ HandlePause(n) PROVE Quiet
    BY <1>1, <1>2 DEF LoadPipe, HandlePause, envVars, workerVars
  <1>3. CASE SetPipeStatus \/ UNCHANGED vars
    BY <1>1, <1>3 DEF SetPipeStatus, vars, envVars, workerVars
  <1>4. ASSUME NEW i \in Instance, Alive(i), \E w : worker' = [worker EXCEPT ![i] = w],
               UNCHANGED <<starts, procVars, sitter>>,
               \A j \in Instance : state'[j] = "LAUNCHED" => state[j] = "LAUNCHED"
        PROVE  Quiet
    <2>1. \A j \in Instance : j = i \/ worker'[j] = worker[j]
      BY <1>4 DEF TriesInv
    <2>2. \A j \in Instance : Alive(j)' => Alive(j)
      BY <1>4, <2>1 DEF Alive
    <2> QED BY <1>4, <2>2 DEF Quiet, procVars
  <1>5. ASSUME NEW i \in Instance, RegisterRefused(i) \/ RegisterChecked(i) \/ RegisterSet(i)
                                   \/ Connect(i) \/ WorkerEnds(i) \/ Monitor(i)
        PROVE  Quiet
    <2>1. UNCHANGED <<starts, procVars, sitter>>
      BY <1>5 DEF RegisterRefused, RegisterChecked, RegisterSet, Connect, WorkerEnds, Monitor, envVars
    <2>4. \A j \in Instance : state'[j] = "LAUNCHED" => state[j] = "LAUNCHED"
      <3>1. \/ state' = state \/ state' = [state EXCEPT ![i] = "READY"]
            \/ state' = [state EXCEPT ![i] = "DONE"]
        BY <1>5 DEF RegisterRefused, RegisterChecked, RegisterSet, Connect, WorkerEnds, Monitor,
                    workerVars
      <3> QED BY <3>1 DEF Types
    <2>2. CASE worker' = worker
      BY <2>1, <2>2, <2>4 DEF Quiet, Alive, procVars
    <2>3. CASE worker' # worker
      <3>1. Alive(i)
        BY <1>5, <2>3 DEF RegisterRefused, RegisterChecked, RegisterSet, Connect, WorkerEnds, Monitor,
                          MayEnd, Alive, workerVars
      <3>2. \E w : worker' = [worker EXCEPT ![i] = w]
        BY <1>5, <2>3 DEF RegisterRefused, RegisterChecked, RegisterSet, Connect, WorkerEnds, Monitor,
                          FailedAttempt, Becomes, workerVars
      <3> QED BY <1>4, <2>1, <2>4, <3>1, <3>2
    <2> QED BY <2>2, <2>3
  <1>6. CASE MonitorPipes
    <2>1. UNCHANGED <<starts, launched, sitter, state, worker>>
      BY <1>6 DEF MonitorPipes, workerVars, envVars
    <2> QED BY <1>6, <2>1 DEF Quiet, Alive
  <1>7. CASE CheckAutoscale
    <2>1. UNCHANGED <<starts, tasks, pipeStatus, loaded>> /\ loop = Scaling /\ sitter = "up"
      BY <1>7 DEF CheckAutoscale, pipeVars, envVars, TurnInv
    <2>2. CASE UNCHANGED <<procVars, workerVars>> /\ sitter' = sitter
      BY <1>1, <2>1, <2>2 DEF workerVars
    <2>3. CASE SitterDies
      BY <2>1, <2>3 DEF SitterDies, Quiet, Alive, procVars, workerVars
    <2>4. ASSUME NEW n \in ToSet(loaded), ScaleUp(n), ~IsScaling
          PROVE  \E p \in ToSet(ProcsOf[n]) : Grow(n, p)
      <3>1. PICK p \in ToSet(ProcsOf[n]) :
               /\ Available(p)
               /\ \/ Launch({p}, {p}) /\ UNCHANGED sitter
                  \/ Launch({}, {}) /\ sitter' = "launchFailed"
                  \/ Launch({p}, {}) /\ sitter' = "launchFailed"
        BY <2>4 DEF ScaleUp
      <3>2. {p} \in SUBSET {p} /\ {} \in SUBSET {p} /\ {} \in SUBSET {}
        OBVIOUS
      <3>3. sitter' # "checkFailed"
        BY <2>1, <3>1
      <3> QED BY <2>1, <2>4, <3>1, <3>2, <3>3 DEF Grow
    <2> QED BY <1>7, <2>2, <2>3, <2>4 DEF CheckAutoscale, NoScaling
  <1> QED BY <1>2, <1>3, <1>5, <1>6, <1>7 DEF Next

\* Where a scheduled status comes from, and what its place becomes.
LEMMA TaskSources ==
    ASSUME PipesInv, [Next]_vars, NEW k \in 1..Len(tasks')
    PROVE  \/ ~SetPipeStatus /\ k \in 1..Len(tasks) /\ tasks'[k] = tasks[k]
           \/ SetPipeStatus /\ k + 1 \in 1..Len(tasks) /\ tasks'[k] = tasks[k + 1]
           \/ /\ k > Len(tasks) /\ ~SetPipeStatus
              /\ \/ \E m \in Pipes : HandleStart(m) /\ tasks'[k] = <<m, "RUNNING">>
                 \/ \E m \in Pipes : HandlePause(m) /\ tasks'[k] = <<m, "PAUSED">>
                 \/ \E m \in Pipes : MonitorPipes /\ ~Running(m) /\ tasks'[k] = <<m, "COMPLETED">>
  <1>0. tasks \in Seq(Pipes \X Statuses) /\ loaded \in Seq(Pipes) /\ Len(tasks) \in Nat
    BY DEF PipesInv
  <1>1. CASE SetPipeStatus
    <2>1. tasks # <<>> /\ tasks' = Tail(tasks)
      BY <1>1 DEF SetPipeStatus
    <2>2. /\ Len(tasks') = Len(tasks) - 1
          /\ \A j \in 1..Len(tasks') : tasks'[j] = tasks[j + 1]
      BY <1>0, <2>1
    <2>3. k + 1 \in 1..Len(tasks)
      BY <1>0, <2>2
    <2> QED BY <1>1, <2>2, <2>3
  <1> SUFFICES ASSUME ~SetPipeStatus
               PROVE  \/ k \in 1..Len(tasks) /\ tasks'[k] = tasks[k]
                      \/ /\ k > Len(tasks)
                         /\ \/ \E m \in Pipes : HandleStart(m) /\ tasks'[k] = <<m, "RUNNING">>
                            \/ \E m \in Pipes : HandlePause(m) /\ tasks'[k] = <<m, "PAUSED">>
                            \/ \E m \in Pipes : /\ MonitorPipes /\ ~Running(m)
                                               /\ tasks'[k] = <<m, "COMPLETED">>
    BY <1>1
  <1>2. ASSUME NEW m \in Pipes, NEW s \in Statuses, Schedule(m, s)
        PROVE  (k \in 1..Len(tasks) /\ tasks'[k] = tasks[k]) \/ (k > Len(tasks) /\ tasks'[k] = <<m, s>>)
    <2>1. tasks' = Append(tasks, <<m, s>>) /\ <<m, s>> \in Pipes \X Statuses
      BY <1>2 DEF Schedule
    <2>2. /\ Len(tasks') = Len(tasks) + 1 /\ tasks'[Len(tasks) + 1] = <<m, s>>
          /\ \A j \in 1..Len(tasks) : tasks'[j] = tasks[j]
      BY <1>0, <2>1
    <2>3. k \in 1..Len(tasks) \/ (k = Len(tasks) + 1 /\ k > Len(tasks))
      BY <1>0, <2>2
    <2> QED BY <2>2, <2>3
  <1>3. ASSUME NEW m \in Pipes, LoadPipe(m) \/ HandleStartFails(m) PROVE tasks' = tasks
    BY <1>3 DEF LoadPipe, HandleStartFails
  <1>4. ASSUME NEW m \in Pipes, HandleStart(m)
        PROVE  (k \in 1..Len(tasks) /\ tasks'[k] = tasks[k]) \/ (k > Len(tasks) /\ tasks'[k] = <<m, "RUNNING">>)
    BY <1>2, <1>4 DEF HandleStart, Statuses
  <1>5. ASSUME NEW m \in Pipes, HandlePause(m)
        PROVE  (k \in 1..Len(tasks) /\ tasks'[k] = tasks[k]) \/ (k > Len(tasks) /\ tasks'[k] = <<m, "PAUSED">>)
    BY <1>2, <1>5 DEF HandlePause, Statuses
  <1>7. CASE MonitorPipes
    <2> DEFINE kept == {j \in DOMAIN loaded : ~Running(loaded[j])}
               over == Keeping(loaded, kept)
               marks == [j \in 1..Len(over) |-> <<over[j], "COMPLETED">>]
    <2>1. tasks' = tasks \o marks
      BY <1>7 DEF MonitorPipes
    <2>2. kept \in SUBSET (1..Len(loaded)) /\ Len(loaded) \in Nat
      BY <1>0
    <2>3. \A j \in 1..Cardinality(kept) : ~Running(loaded[Position(kept, j)])
      <3>1. \A j \in 1..Cardinality(kept) : Position(kept, j) \in kept
        <4> HIDE DEF kept
        <4> QED BY <2>2, PositionKept
      <3> QED BY <3>1
    <2> HIDE DEF kept
    <2>4. over \in Seq(Pipes) /\ Len(over) \in Nat
      BY <1>0, <2>2, KeepingFacts
    <2>5. \A j \in 1..Len(over) : over[j] \in Pipes /\ ~Running(over[j])
      <3>1. DOMAIN over = 1..Cardinality(kept)
        BY DEF Keeping
      <3>2. DOMAIN over = 1..Len(over)
        <4> HIDE DEF over
        <4> QED BY <2>4
      <3>3. \A j \in 1..Len(over) : over[j] = loaded[Position(kept, j)]
        BY <3>1, <3>2 DEF Keeping
      <3>4. \A j \in 1..Len(over) : ~Running(loaded[Position(kept, j)])
        BY <2>3, <3>1, <3>2
      <3> HIDE DEF over
      <3> QED BY <2>4, <3>3, <3>4
    <2> HIDE DEF over
    <2>6. marks \in Seq(Pipes \X Statuses) /\ Len(marks) = Len(over)
      <3>1. \A j \in 1..Len(over) : <<over[j], "COMPLETED">> \in Pipes \X Statuses
        BY <2>5 DEF Statuses
      <3>2. marks \in [1..Len(over) -> Pipes \X Statuses]
        BY <3>1
      <3> HIDE DEF marks
      <3> QED BY <2>4, <3>2
    <2>7. \A j \in 1..Len(over) : marks[j] = <<over[j], "COMPLETED">>
      OBVIOUS
    <2> HIDE DEF marks
    <2>8. /\ Len(tasks') = Len(tasks) + Len(over)
          /\ tasks'[k] = IF k <= Len(tasks) THEN tasks[k] ELSE marks[k - Len(tasks)]
      BY <1>0, <2>1, <2>6, ConcatFacts
    <2>9. k \in 1..Len(tasks) \/ (~(k <= Len(tasks)) /\ k > Len(tasks) /\ k - Len(tasks) \in 1..Len(over))
      BY <1>0, <2>4, <2>8
    <2>10. CASE k \in 1..Len(tasks)
      BY <1>0, <2>8, <2>10
    <2>11. CASE ~(k <= Len(tasks)) /\ k > Len(tasks) /\ k - Len(tasks) \in 1..Len(over)
      BY <1>7, <2>5, <2>7, <2>8, <2>11
    <2> QED BY <2>9, <2>10, <2>11
  <1>8. CASE CheckAutoscale
    BY <1>8 DEF CheckAutoscale, pipeVars
  <1>9. ASSUME NEW i \in Instance, RegisterRefused(i) \/ RegisterChecked(i) \/ RegisterSet(i)
                                   \/ Connect(i) \/ WorkerEnds(i) \/ Monitor(i)
        PROVE  tasks' = tasks
    BY <1>9 DEF RegisterRefused, RegisterChecked, RegisterSet, Connect, WorkerEnds, Monitor, pipeVars
  <1>10. CASE UNCHANGED vars
    BY <1>10 DEF vars, pipeVars
  <1>11. CASE tasks' = tasks
    BY <1>11
  <1> QED BY <1>3, <1>4, <1>5, <1>7, <1>8, <1>9, <1>10, <1>11 DEF Next

\* Where the status of a pipe comes from.
LEMMA StatusSources ==
    ASSUME PipesInv, [Next]_vars, NEW n \in Pipes
    PROVE  \/ pipeStatus'[n] = pipeStatus[n]
           \/ pipeStatus'[n] = "READY"
           \/ 1 \in 1..Len(tasks) /\ tasks[1] = <<n, pipeStatus'[n]>>
  <1>0. pipeStatus \in [Pipes -> Statuses] /\ tasks \in Seq(Pipes \X Statuses)
    BY DEF PipesInv
  <1>1. CASE SetPipeStatus
    <2>1. tasks # <<>> /\ pipeStatus' = [pipeStatus EXCEPT ![Head(tasks)[1]] = Head(tasks)[2]]
      BY <1>1 DEF SetPipeStatus
    <2>2. 1 \in 1..Len(tasks) /\ Head(tasks) = tasks[1] /\ tasks[1] \in Pipes \X Statuses
      BY <1>0, <2>1
    <2> QED BY <1>0, <2>1, <2>2
  <1>2. ASSUME NEW m \in Pipes, LoadPipe(m)
        PROVE  pipeStatus'[n] = pipeStatus[n] \/ pipeStatus'[n] = "READY"
    BY <1>0, <1>2 DEF LoadPipe
  <1>3. CASE ~SetPipeStatus /\ \A m \in Pipes : ~LoadPipe(m)
    BY <1>3 DEF Next, HandleStart, HandleStartFails, StartCalled, HandlePause,
           RegisterRefused, RegisterChecked, RegisterSet, Connect, WorkerEnds, Monitor, MonitorPipes,
           CheckAutoscale, vars, pipeVars
  <1> QED BY <1>1, <1>2, <1>3

\* Only the start of a pipe schedules its status to be RUNNING.
LEMMA ComesFromStart ==
    ASSUME PipesInv, [Next]_vars, NEW n \in Pipes, Coming(n)'
    PROVE  Coming(n) \/ HandleStart(n)
  <1>1. CASE pipeStatus'[n] = "RUNNING"
    BY <1>1, StatusSources DEF Coming
  <1>2. ASSUME NEW k \in 1..Len(tasks'), tasks'[k] = <<n, "RUNNING">>
        PROVE  Coming(n) \/ HandleStart(n)
    <2>1. \A m \in Pipes : /\ <<m, "RUNNING">> = <<n, "RUNNING">> => m = n
                           /\ <<m, "PAUSED">> # <<n, "RUNNING">>
                           /\ <<m, "COMPLETED">> # <<n, "RUNNING">>
      OBVIOUS
    <2>2. \/ \E j \in 1..Len(tasks) : tasks'[k] = tasks[j]
          \/ \E m \in Pipes : HandleStart(m) /\ tasks'[k] = <<m, "RUNNING">>
          \/ \E m \in Pipes : HandlePause(m) /\ tasks'[k] = <<m, "PAUSED">>
          \/ \E m \in Pipes : MonitorPipes /\ ~Running(m) /\ tasks'[k] = <<m, "COMPLETED">>
      BY TaskSources
    <2> QED BY <1>2, <2>1, <2>2 DEF Coming
  <1> QED BY <1>1, <1>2 DEF Coming

LEMMA TurnKept == TurnInv /\ [Next]_vars => TurnInv'
  <1> SUFFICES ASSUME TurnInv, [Next]_vars, loop' = Scaling
               PROVE  sitter' = "up" /\ AnyPipeRunning'
    BY DEF TurnInv
  <1>1. loop = Scaling /\ UNCHANGED <<sitter, pipeStatus>> => sitter' = "up" /\ AnyPipeRunning'
    BY DEF TurnInv, AnyPipeRunning
  <1>2. ASSUME NEW n \in Pipes, LoadPipe(n) \/ HandleStart(n) \/ HandleStartFails(n) \/ HandlePause(n)
        PROVE  FALSE
    BY <1>2, Turns DEF LoadPipe, HandleStart, HandleStartFails, HandlePause, StartCalled
  <1>3. CASE SetPipeStatus \/ CheckAutoscale
    BY <1>3, Turns DEF SetPipeStatus, CheckAutoscale
  <1>4. CASE MonitorPipes
    BY <1>4 DEF MonitorPipes, AnyPipeRunning
  <1>5. ASSUME NEW i \in Instance, RegisterRefused(i) \/ RegisterChecked(i) \/ RegisterSet(i) \/ Connect(i)
        PROVE  FALSE
    BY <1>5, Turns DEF RegisterRefused, RegisterChecked, RegisterSet, Connect
  <1>6. ASSUME NEW i \in Instance, WorkerEnds(i) \/ Monitor(i)
        PROVE  loop = Scaling /\ UNCHANGED <<sitter, pipeStatus>>
    BY <1>6 DEF WorkerEnds, Monitor, pipeVars
  <1>7. CASE UNCHANGED vars
    BY <1>1, <1>7 DEF vars, pipeVars
  <1> QED BY <1>1, <1>2, <1>3, <1>4, <1>5, <1>6, <1>7 DEF Next

\* The workers of a pipe are finitely many.
LEMMA UntrackedFinite ==
    ASSUME NEW n \in Pipes
    PROVE  IsFiniteSet(Untracked(n)) /\ IsFiniteSet(Untracked(n)')
  <1> DEFINE order == ProcsOf[n]
             numbers == 1..MaxLaunches
  <1>1. IsFiniteSet(ToSet(order))
    <2>1. Len(order) \in Nat /\ DOMAIN order = 1..Len(order)
      BY PipesAssumption
    <2>2. IsFiniteSet(1..Len(order))
      BY <2>1, FS_Interval
    <2>3. order \in Surjection(1..Len(order), ToSet(order))
      <3> HIDE DEF order
      <3>1. order \in [1..Len(order) -> ToSet(order)]
        BY <2>1, PipesAssumption DEF ToSet, order
      <3> QED BY <2>1, <3>1 DEF Surjection, ToSet
    <2> HIDE DEF order
    <2> QED BY <2>2, <2>3, FS_Surjection
  <1>2. IsFiniteSet(numbers)
    BY BoundTypes, FS_Interval
  <1>3. IsFiniteSet(ToSet(order) \X numbers)
    <2> HIDE DEF order, numbers
    <2> QED BY <1>1, <1>2, FS_Product
  <1>4. Untracked(n) \in SUBSET (ToSet(order) \X numbers) /\ Untracked(n)' \in SUBSET (ToSet(order) \X numbers)
    BY DEF Untracked, WorkersOf, InstancesOf
  <1> HIDE DEF order, numbers
  <1> QED BY <1>3, <1>4, FS_Subset

LEMMA AtMostOneMore ==
    ASSUME NEW A, IsFiniteSet(A), NEW x, NEW B \in SUBSET (A \cup {x})
    PROVE  Cardinality(B) <= Cardinality(A) + 1 /\ Cardinality(A) \in Nat /\ Cardinality(B) \in Nat
  <1>1. IsFiniteSet(A \cup {x}) /\ Cardinality(A \cup {x}) \in {Cardinality(A), Cardinality(A) + 1}
    BY FS_AddElement
  <1>2. IsFiniteSet(B) /\ Cardinality(B) <= Cardinality(A \cup {x})
    BY <1>1, FS_Subset
  <1>3. Cardinality(A) \in Nat /\ Cardinality(B) \in Nat /\ Cardinality(A \cup {x}) \in Nat
    BY <1>1, <1>2, FS_CardinalityType
  <1> QED BY <1>1, <1>2, <1>3

\* A launch leaves off the lists what it spawned and did not list.
LEMMA LaunchUntracked ==
    ASSUME Types, NEW m \in Pipes, NEW spawned \in SUBSET ToSet(ProcsOf[m]),
           NEW listed \in SUBSET spawned, Launch(spawned, listed),
           NEW n \in Pipes, NEW i \in Untracked(n)'
    PROVE  i \in Untracked(n) \/ (m = n /\ \E p \in spawned \ listed : i = NewInstance(p))
  <1>0. spawned \in SUBSET Procs
    BY ProcsFacts
  <1>1. PICK p \in ToSet(ProcsOf[n]), k \in 1..MaxLaunches : i = <<p, k>>
    BY DEF Untracked, WorkersOf, InstancesOf
  <1>2. p \in Procs /\ Alive(<<p, k>>)' /\ <<p, k>> \notin ToSet(instances'[p])
    BY <1>1, ProcsFacts DEF Untracked, WorkersOf
  <1>3. /\ \A q \in listed : ToSet(instances'[q]) = ToSet(instances[q]) \cup {NewInstance(q)}
        /\ \A q \in Procs \ listed : instances'[q] = instances[q]
    BY <1>0, LaunchLists
  <1>4. \A q \in Procs : \A j \in 1..MaxLaunches :
             IF q \in spawned /\ j = launched[q] + 1
             THEN state'[<<q, j>>] = "LAUNCHED"
             ELSE /\ state'[<<q, j>>] = state[<<q, j>>]
                  /\ worker'[<<q, j>>] = worker[<<q, j>>]
    BY <1>0, LaunchFacts
  <1>5. <<p, k>> \notin ToSet(instances[p])
    BY <1>2, <1>3
  <1>6. CASE p \in spawned /\ k = launched[p] + 1
    <2>1. p \notin listed
      BY <1>2, <1>3, <1>6 DEF NewInstance
    <2>2. m = n
      BY <1>6, OneOwner
    <2> QED BY <1>1, <1>6, <2>1, <2>2 DEF NewInstance
  <1>7. CASE ~(p \in spawned /\ k = launched[p] + 1)
    <2>1. Alive(<<p, k>>)
      BY <1>2, <1>4, <1>7 DEF Alive
    <2>2. <<p, k>> \in InstancesOf(n)
      BY DEF InstancesOf
    <2> QED BY <1>1, <1>5, <2>1, <2>2 DEF Untracked, WorkersOf
  <1> QED BY <1>6, <1>7

\* A living worker stays on its list when a step brings none to life.
LEMMA QuietStay ==
    ASSUME Types, FreshInv, UnloadedInv, Quiet, NEW n \in Pipes, NEW p \in ToSet(ProcsOf[n]),
           NEW k \in 1..MaxLaunches, Alive(<<p, k>>)', <<p, k>> \in ToSet(instances[p])
    PROVE  <<p, k>> \in ToSet(instances'[p])
  <1>1. p \in Procs /\ <<p, k>> \in Instance
    BY ProcsFacts DEF Instance
  <1>2. Alive(<<p, k>>)
    BY <1>1 DEF Quiet
  <1>3. CASE MonitorPipes
    <2>1. launched[p] # 0
      <3>1. worker[<<p, k>>] # "none"
        BY <1>2 DEF Alive
      <3> QED BY <1>1, <3>1 DEF FreshInv, Types
    <2>2. p \in LoadedProcs
      BY <2>1 DEF UnloadedInv, LoadedProcs, IsLoaded
    <2>3. instances'[p] = Left(p)
      BY <1>1, <1>3, <2>2 DEF MonitorPipes
    <2> QED BY <1>1, <1>2, <2>3, LivingStay
  <1> QED BY <1>3 DEF Quiet

LEMMA QuietUntracked ==
    ASSUME Types, FreshInv, UnloadedInv, Quiet, NEW n \in Pipes
    PROVE  Untracked(n)' \subseteq Untracked(n)
  <1> SUFFICES ASSUME NEW i \in Untracked(n)' PROVE i \in Untracked(n)
    OBVIOUS
  <1>1. PICK p \in ToSet(ProcsOf[n]), k \in 1..MaxLaunches : i = <<p, k>>
    BY DEF Untracked, WorkersOf, InstancesOf
  <1>2. Alive(<<p, k>>)' /\ <<p, k>> \notin ToSet(instances'[p])
    BY <1>1 DEF Untracked, WorkersOf
  <1>3. <<p, k>> \notin ToSet(instances[p])
    BY <1>2, QuietStay
  <1>4. <<p, k>> \in Instance /\ <<p, k>> \in InstancesOf(n)
    BY ProcsFacts DEF Instance, InstancesOf
  <1>5. Alive(<<p, k>>)
    BY <1>2, <1>4 DEF Quiet
  <1> QED BY <1>1, <1>3, <1>4, <1>5 DEF Untracked, WorkersOf

\* The counts of one processor before and after a launch.
Counts(p, spawned, listed) ==
    /\ launched[p] \in Nat /\ launched'[p] \in Nat
    /\ launched'[p] = launched[p] + (IF p \in spawned THEN 1 ELSE 0)
    /\ Len(instances'[p]) = Len(instances[p]) + (IF p \in listed THEN 1 ELSE 0)

LEMMA LaunchCounts ==
    ASSUME Types, NEW m \in Pipes, NEW spawned \in SUBSET ToSet(ProcsOf[m]),
           NEW listed \in SUBSET spawned, Launch(spawned, listed)
    PROVE  /\ \A p \in Procs : Counts(p, spawned, listed)
           /\ \A p \in Procs \ ToSet(ProcsOf[m]) : launched'[p] = launched[p]
  <1>0. spawned \in SUBSET Procs
    BY ProcsFacts
  <1>1. \A p \in Procs : /\ ToSet(instances'[p]) \subseteq Numbers(p)
                         /\ launched'[p] = launched[p] + (IF p \in spawned THEN 1 ELSE 0)
    BY <1>0, LaunchFacts
  <1>2. \A p \in Procs : launched[p] \in Nat /\ Len(instances[p]) \in Nat
    BY DEF Types
  <1>3. /\ \A p \in listed : /\ Len(instances'[p]) = Len(instances[p]) + 1
                             /\ ToSet(instances'[p]) = ToSet(instances[p]) \cup {NewInstance(p)}
        /\ \A p \in Procs \ listed : instances'[p] = instances[p]
    BY <1>0, LaunchLists
  <1>4. \A p \in Procs : launched'[p] \in Nat
    BY <1>1, <1>2
  <1>5. \A p \in Procs : Len(instances'[p]) = Len(instances[p]) + (IF p \in listed THEN 1 ELSE 0)
    <2> TAKE p \in Procs
    <2>1. CASE p \in listed
      BY <1>3, <2>1
    <2>2. CASE p \notin listed
      <3>1. instances'[p] = instances[p] /\ Len(instances[p]) \in Nat
        BY <1>2, <1>3, <2>2
      <3> QED BY <2>2, <3>1
    <2> QED BY <2>1, <2>2
  <1>6. \A p \in Procs \ ToSet(ProcsOf[m]) : launched'[p] = launched[p]
    BY <1>1, <1>2
  <1> QED BY <1>1, <1>2, <1>4, <1>5, <1>6 DEF Counts

LEMMA LoadedStay == loaded \in Seq(Pipes) /\ [Next]_vars => \A n \in Pipes : IsLoaded(n) => IsLoaded(n)'
  <1> SUFFICES ASSUME loaded \in Seq(Pipes), [Next]_vars PROVE \A n \in Pipes : IsLoaded(n) => IsLoaded(n)'
    OBVIOUS
  <1>1. loaded' = loaded \/ \E m \in Pipes : loaded' = Append(loaded, m)
    BY DEF Next, LoadPipe, HandleStart, HandleStartFails, StartCalled, HandlePause, SetPipeStatus,
           RegisterRefused, RegisterChecked, RegisterSet, Connect, WorkerEnds, Monitor, MonitorPipes,
           CheckAutoscale, vars, pipeVars
  <1>2. ASSUME NEW m \in Pipes, loaded' = Append(loaded, m)
        PROVE  ToSet(loaded) \subseteq ToSet(loaded')
    BY <1>2, AppendFacts
  <1> QED BY <1>1, <1>2 DEF IsLoaded

\* The steps that bring no worker to life.
LEMMA PlacesQuiet ==
    ASSUME TypesInv, PlacesInv, [Next]_vars, Quiet
    PROVE  PlacesInv'
  <1>1. /\ Types /\ FreshInv /\ PipesInv /\ loaded \in Seq(Pipes)
        /\ starts \in [Pipes -> Nat]
        /\ StartedInv /\ UntrackedInv /\ UnloadedInv /\ TurnInv /\ LengthInv /\ FirstInv
    BY DEF TypesInv, PlacesInv, PipesInv, Types
  <1>2. UNCHANGED <<starts, launched>> /\ (sitter' # "launchFailed" => sitter # "launchFailed")
    BY DEF Quiet
  <1>3. \A n \in Pipes : Coming(n)' => Coming(n)
    <2> SUFFICES ASSUME NEW n \in Pipes, Coming(n)', HandleStart(n) PROVE FALSE
      BY <1>1, ComesFromStart
    <2>1. starts'[n] = starts[n] + 1 /\ starts[n] \in Nat
      BY <1>1 DEF HandleStart, StartCalled
    <2> QED BY <1>2, <2>1
  <1>4. StartedInv'
    BY <1>1, <1>2, <1>3 DEF StartedInv
  <1>5. UntrackedInv'
    <2> SUFFICES ASSUME sitter' # "launchFailed", NEW n \in Pipes
                 PROVE  /\ Cardinality(Untracked(n)') <= starts'[n]
                        /\ Coming(n)' => Cardinality(Untracked(n)') < starts'[n]
      BY DEF UntrackedInv
    <2>1. Untracked(n)' \subseteq Untracked(n)
      BY <1>1, QuietUntracked
    <2>2. IsFiniteSet(Untracked(n)) /\ IsFiniteSet(Untracked(n)')
      BY UntrackedFinite
    <2>3. PICK old, new : old = Untracked(n) /\ new = Untracked(n)'
      OBVIOUS
    <2>4. Cardinality(new) <= Cardinality(old) /\ Cardinality(new) \in Nat /\ Cardinality(old) \in Nat
      BY <2>1, <2>2, <2>3, FS_Subset, FS_CardinalityType
    <2>5. Cardinality(old) <= starts[n] /\ (Coming(n) => Cardinality(old) < starts[n])
      BY <1>1, <1>2, <2>3 DEF UntrackedInv
    <2>6. starts'[n] = starts[n] /\ starts[n] \in Nat
      BY <1>1, <1>2
    <2>7. Cardinality(new) <= starts'[n] /\ (Coming(n)' => Cardinality(new) < starts'[n])
      BY <1>3, <2>4, <2>5, <2>6
    <2> QED BY <2>3, <2>7
  <1>6. UnloadedInv'
    BY <1>1, <1>2, LoadedStay DEF UnloadedInv
  <1>7. LengthInv'
    <2> SUFFICES ASSUME NEW p \in Procs PROVE Len(instances'[p]) <= launched'[p]
      BY DEF LengthInv
    <2>1. Len(instances[p]) <= launched[p] /\ Len(instances[p]) \in Nat /\ launched[p] \in Nat
      BY <1>1 DEF LengthInv, Types
    <2>2. CASE instances' = instances
      BY <1>2, <2>1, <2>2
    <2>3. CASE MonitorPipes
      <3>1. instances'[p] = IF p \in LoadedProcs THEN Left(p) ELSE <<>>
        BY <2>3 DEF MonitorPipes
      <3>2. CASE p \in LoadedProcs
        <4>1. Left(p) \in Seq(Instance) /\ Len(Left(p)) <= Len(instances[p])
          BY <1>1, LeftFacts
        <4>2. Len(Left(p)) \in Nat
          BY <4>1
        <4> QED BY <1>2, <2>1, <3>1, <3>2, <4>1, <4>2
      <3>3. CASE p \notin LoadedProcs
        BY <1>2, <2>1, <3>1, <3>3
      <3> QED BY <3>2, <3>3
    <2> QED BY <2>2, <2>3 DEF Quiet
  <1>8. FirstInv'
    <2> SUFFICES ASSUME NEW n \in Pipes, Coming(n)', NEW p \in ToSet(ProcsOf[n]),
                        launched'[p] = 1, Alive(<<p, 1>>)'
                 PROVE  <<p, 1>> \in ToSet(instances'[p])
      BY DEF FirstInv
    <2>1. p \in Procs /\ 1 \in 1..MaxLaunches /\ launched[p] = 1
      <3>1. launched[p] = 1 /\ p \in Procs
        BY <1>2, ProcsFacts
      <3>2. launched[p] \in 0..MaxLaunches /\ MaxLaunches \in Nat
        BY <1>1, <3>1, BoundTypes DEF Types
      <3> QED BY <3>1, <3>2
    <2>2. <<p, 1>> \in Instance
      BY <2>1 DEF Instance
    <2>3. Alive(<<p, 1>>)
      BY <2>2 DEF Quiet
    <2>4. <<p, 1>> \in ToSet(instances[p])
      BY <1>1, <1>3, <2>1, <2>3 DEF FirstInv
    <2> QED BY <1>1, <2>1, <2>4, QuietStay
  <1>9. TurnInv'
    BY <1>1, TurnKept
  <1> QED BY <1>4, <1>5, <1>6, <1>7, <1>8, <1>9 DEF PlacesInv

\* A launch for pipe m, by a start or by the autoscaler.
LEMMA PlacesLaunch ==
    ASSUME TypesInv, PlacesInv, [Next]_vars,
           NEW m \in Pipes, NEW spawned \in SUBSET ToSet(ProcsOf[m]), NEW listed \in SUBSET spawned,
           Launch(spawned, listed), IsLoaded(m),
           \A n \in Pipes \ {m} : starts'[n] = starts[n] /\ (Coming(n)' => Coming(n)),
           sitter' # "launchFailed" => sitter # "launchFailed",
           \/ starts'[m] = starts[m] + 1
           \/ starts'[m] = starts[m] /\ (sitter' # "launchFailed" => listed = spawned),
           \E x : spawned \subseteq listed \cup {x},
           Coming(m)' => \/ Coming(m)
                         \/ starts'[m] = starts[m] + 1 /\ listed = ToSet(ProcsOf[m])
    PROVE  PlacesInv'
  <1>1. /\ Types /\ FreshInv /\ PipesInv /\ loaded \in Seq(Pipes)
        /\ \A n \in Pipes : starts[n] \in Nat
        /\ StartedInv /\ UntrackedInv /\ UnloadedInv /\ TurnInv /\ LengthInv /\ FirstInv
    BY DEF TypesInv, PlacesInv, PipesInv, Types
  <1>2. /\ \A p \in Procs : /\ launched[p] \in Nat /\ launched'[p] \in Nat
                            /\ launched'[p] = launched[p] + (IF p \in spawned THEN 1 ELSE 0)
        /\ \A p \in Procs \ ToSet(ProcsOf[m]) : launched'[p] = launched[p]
        /\ \A p \in Procs : Len(instances'[p]) = Len(instances[p]) + (IF p \in listed THEN 1 ELSE 0)
    <2>1. /\ \A p \in Procs : Counts(p, spawned, listed)
          /\ \A p \in Procs \ ToSet(ProcsOf[m]) : launched'[p] = launched[p]
      BY <1>1, LaunchCounts
    <2> QED BY <2>1 DEF Counts
  <1>3. starts'[m] >= starts[m] /\ starts'[m] \in Nat
    BY <1>1
  <1>4. StartedInv'
    <2> SUFFICES ASSUME NEW n \in Pipes, Coming(n)'
                 PROVE  starts'[n] > 0 /\ \A p \in ToSet(ProcsOf[n]) : launched'[p] > 0
      BY DEF StartedInv
    <2>1. CASE Coming(n)
      <3>1. starts[n] > 0 /\ starts[n] \in Nat /\ \A p \in ToSet(ProcsOf[n]) : launched[p] > 0
        BY <1>1, <2>1 DEF StartedInv
      <3>2. starts'[n] > 0
        BY <1>3, <3>1
      <3>3. ASSUME NEW p \in ToSet(ProcsOf[n]) PROVE launched'[p] > 0
        BY <1>2, <3>1, ProcsFacts
      <3> QED BY <3>2, <3>3
    <2>2. CASE ~Coming(n)
      <3>1. n = m /\ starts'[m] = starts[m] + 1 /\ listed = ToSet(ProcsOf[m])
        BY <2>2
      <3>2. \A p \in ToSet(ProcsOf[n]) : p \in Procs /\ p \in spawned
        BY <3>1, ProcsFacts
      <3>3. \A p \in ToSet(ProcsOf[n]) : launched'[p] > 0
        BY <1>2, <3>2
      <3> QED BY <1>1, <3>1, <3>3
    <2> QED BY <2>1, <2>2
  <1>5. UntrackedInv'
    <2> SUFFICES ASSUME sitter' # "launchFailed", NEW n \in Pipes
                 PROVE  /\ Cardinality(Untracked(n)') <= starts'[n]
                        /\ Coming(n)' => Cardinality(Untracked(n)') < starts'[n]
      BY DEF UntrackedInv
    <2>1. PICK old, new : old = Untracked(n) /\ new = Untracked(n)'
      OBVIOUS
    <2>2. IsFiniteSet(old) /\ IsFiniteSet(new)
      BY <2>1, UntrackedFinite
    <2>3. Cardinality(old) \in Nat /\ Cardinality(new) \in Nat
      BY <2>2, FS_CardinalityType
    <2>4. Cardinality(old) <= starts[n] /\ (Coming(n) => Cardinality(old) < starts[n])
      BY <1>1, <2>1 DEF UntrackedInv
    <2>5. \A i \in new : i \in old \/ (m = n /\ \E p \in spawned \ listed : i = NewInstance(p))
      BY <1>1, <2>1, LaunchUntracked
    <2>6. CASE m # n \/ listed = spawned
      <3>1. new \in SUBSET old
        BY <2>5, <2>6
      <3>2. Cardinality(new) <= Cardinality(old)
        BY <2>2, <3>1, FS_Subset
      <3>3. starts'[n] \in Nat /\ starts[n] \in Nat /\ starts'[n] >= starts[n]
        BY <1>1, <1>3
      <3>4. CASE Coming(n)' => Coming(n)
        <4>1. Cardinality(new) <= starts'[n] /\ (Coming(n)' => Cardinality(new) < starts'[n])
          BY <2>3, <2>4, <3>2, <3>3, <3>4
        <4> QED BY <2>1, <4>1
      <3>5. CASE ~(Coming(n)' => Coming(n))
        <4>1. starts'[n] = starts[n] + 1
          BY <3>5
        <4>2. Cardinality(new) <= starts'[n] /\ Cardinality(new) < starts'[n]
          BY <2>3, <2>4, <3>2, <3>3, <4>1
        <4> QED BY <2>1, <4>2
      <3> QED BY <3>4, <3>5
    <2>7. CASE m = n /\ listed # spawned
      <3>1. starts'[n] = starts[n] + 1 /\ starts[n] \in Nat
        BY <1>1, <2>7
      <3>2. PICK x : spawned \subseteq listed \cup {x}
        OBVIOUS
      <3>3. new \in SUBSET (old \cup {NewInstance(x)})
        BY <2>5, <3>2
      <3>4. Cardinality(new) <= Cardinality(old) + 1
        BY <2>2, <3>3, AtMostOneMore
      <3>5. Coming(n)' => Coming(n)
        BY <2>7
      <3>6. Cardinality(new) <= starts'[n] /\ (Coming(n)' => Cardinality(new) < starts'[n])
        BY <2>3, <2>4, <3>1, <3>4, <3>5
      <3> QED BY <2>1, <3>6
    <2> QED BY <2>6, <2>7
  <1>6. UnloadedInv'
    <2> SUFFICES ASSUME NEW n \in Pipes, ~IsLoaded(n)', NEW p \in ToSet(ProcsOf[n])
                 PROVE  launched'[p] = 0
      BY DEF UnloadedInv
    <2>1. ~IsLoaded(n) /\ n # m
      BY <1>1, LoadedStay
    <2>2. p \in Procs /\ p \notin ToSet(ProcsOf[m])
      BY <2>1, OneOwner, ProcsFacts
    <2> QED BY <1>1, <1>2, <2>1, <2>2 DEF UnloadedInv
  <1>7. LengthInv'
    <2> SUFFICES ASSUME NEW p \in Procs PROVE Len(instances'[p]) <= launched'[p]
      BY DEF LengthInv
    <2>1. Len(instances[p]) <= launched[p] /\ Len(instances[p]) \in Nat /\ launched[p] \in Nat
      BY <1>1 DEF LengthInv, Types
    <2>2. /\ launched'[p] = launched[p] + (IF p \in spawned THEN 1 ELSE 0)
          /\ Len(instances'[p]) = Len(instances[p]) + (IF p \in listed THEN 1 ELSE 0)
      BY <1>2
    <2>3. CASE p \in listed
      BY <2>1, <2>2, <2>3
    <2>4. CASE p \notin listed
      BY <2>1, <2>2, <2>4
    <2> QED BY <2>3, <2>4
  <1>8. FirstInv'
    <2> SUFFICES ASSUME NEW n \in Pipes, Coming(n)', NEW p \in ToSet(ProcsOf[n]),
                        launched'[p] = 1, Alive(<<p, 1>>)'
                 PROVE  <<p, 1>> \in ToSet(instances'[p])
      BY DEF FirstInv
    <2>0. p \in Procs
      BY ProcsFacts
    <2>1. spawned \in SUBSET Procs
      BY ProcsFacts
    <2>2. /\ \A q \in listed : /\ Len(instances'[q]) = Len(instances[q]) + 1
                               /\ ToSet(instances'[q]) = ToSet(instances[q]) \cup {NewInstance(q)}
          /\ \A q \in Procs \ listed : instances'[q] = instances[q]
      BY <1>1, <2>1, LaunchLists
    <2>3. CASE Coming(n)
      <3>1. launched[p] > 0
        BY <1>1, <2>3 DEF StartedInv
      <3>2. p \notin spawned /\ launched[p] = 1
        BY <1>2, <2>0, <3>1
      <3>3. \A q \in Procs : \A j \in 1..MaxLaunches :
                 IF q \in spawned /\ j = launched[q] + 1
                 THEN state'[<<q, j>>] = "LAUNCHED"
                 ELSE /\ state'[<<q, j>>] = state[<<q, j>>]
                      /\ worker'[<<q, j>>] = worker[<<q, j>>]
        BY <1>1, <2>1, LaunchFacts
      <3>4. 1 \in 1..MaxLaunches
        <4>1. launched[p] \in 0..MaxLaunches /\ MaxLaunches \in Nat
          BY <1>1, <2>0, BoundTypes DEF Types
        <4> QED BY <3>2, <4>1
      <3>5. Alive(<<p, 1>>)
        BY <2>0, <3>2, <3>3, <3>4 DEF Alive
      <3>6. <<p, 1>> \in ToSet(instances[p])
        BY <1>1, <2>3, <3>2, <3>5 DEF FirstInv
      <3> QED BY <2>0, <2>2, <3>2, <3>6
    <2>4. CASE ~Coming(n)
      <3>1. n = m /\ listed = ToSet(ProcsOf[m])
        BY <2>4
      <3>2. p \in listed /\ p \in spawned
        BY <3>1
      <3>3. launched[p] = 0
        BY <1>2, <2>0, <3>2
      <3> QED BY <2>2, <3>2, <3>3 DEF NewInstance
    <2> QED BY <2>3, <2>4
  <1>9. TurnInv'
    BY <1>1, TurnKept
  <1> QED BY <1>4, <1>5, <1>6, <1>7, <1>8, <1>9 DEF PlacesInv

LEMMA PlacesKept == TypesInv /\ PlacesInv /\ [Next]_vars => PlacesInv'
  <1> SUFFICES ASSUME TypesInv, PlacesInv, [Next]_vars PROVE PlacesInv'
    OBVIOUS
  <1>1. /\ Types /\ PipesInv /\ TriesInv /\ loaded \in Seq(Pipes) /\ TurnInv
        /\ starts \in [Pipes -> Nat]
    BY DEF TypesInv, PlacesInv, PipesInv, Types
  <1>2. ASSUME NEW m \in Pipes, HandleStart(m) \/ HandleStartFails(m) PROVE PlacesInv'
    <2>1. /\ IsLoaded(m) /\ sitter' = sitter /\ starts'[m] = starts[m] + 1
          /\ \A n \in Pipes \ {m} : starts'[n] = starts[n]
      BY <1>1, <1>2 DEF HandleStart, HandleStartFails, StartCalled
    <2>2. \A n \in Pipes \ {m} : Coming(n)' => Coming(n)
      <3> SUFFICES ASSUME NEW n \in Pipes \ {m}, Coming(n)', HandleStart(n) PROVE FALSE
        BY <1>1, ComesFromStart
      <3>1. starts'[n] = starts[n] + 1 /\ starts[n] \in Nat
        BY <1>1 DEF HandleStart, StartCalled
      <3> QED BY <2>1, <3>1
    <2>3. CASE HandleStart(m)
      <3>1. Launch(ToSet(ProcsOf[m]), ToSet(ProcsOf[m]))
        BY <2>3 DEF HandleStart
      <3>2. \E x : ToSet(ProcsOf[m]) \subseteq ToSet(ProcsOf[m]) \cup {x}
        OBVIOUS
      <3>3. ToSet(ProcsOf[m]) \in SUBSET ToSet(ProcsOf[m])
        OBVIOUS
      <3> QED BY <2>1, <2>2, <3>1, <3>2, <3>3, PlacesLaunch
    <2>4. CASE ~HandleStart(m)
      <3>1. PICK spawned, listed \in SUBSET ToSet(ProcsOf[m]) :
               /\ listed \in SUBSET spawned /\ Launch(spawned, listed)
               /\ \E x : spawned \subseteq listed \cup {x}
        BY <1>2, <2>4, FailsFacts
      <3>2. Coming(m)' => Coming(m)
        BY <1>1, <2>4, ComesFromStart
      <3> QED BY <2>1, <2>2, <3>1, <3>2, PlacesLaunch
    <2> QED BY <2>3, <2>4
  <1>3. ASSUME NEW m \in ToSet(loaded), NEW p \in ToSet(ProcsOf[m]), Grow(m, p) PROVE PlacesInv'
    <2>1. m \in Pipes /\ IsLoaded(m)
      BY <1>1, LoadedFacts DEF IsLoaded
    <2>2. PICK spawned \in SUBSET {p} : \E listed \in SUBSET spawned :
             Launch(spawned, listed) /\ (sitter' # "launchFailed" => listed = spawned)
      BY <1>3 DEF Grow
    <2>3. PICK listed \in SUBSET spawned :
             Launch(spawned, listed) /\ (sitter' # "launchFailed" => listed = spawned)
      BY <2>2
    <2>4. \A n \in Pipes : starts'[n] = starts[n] /\ (Coming(n)' => Coming(n))
      BY <1>3 DEF Grow, Coming
    <2>5. spawned \in SUBSET ToSet(ProcsOf[m]) /\ \E x : spawned \subseteq listed \cup {x}
      <3>1. spawned \subseteq listed \cup {p}
        OBVIOUS
      <3> QED BY <2>1, <3>1
    <2>6. sitter # "launchFailed"
      BY <1>1, <1>3 DEF Grow, TurnInv
    <2> QED BY <2>1, <2>3, <2>4, <2>5, <2>6, PlacesLaunch
  <1>4. CASE Quiet
    BY <1>4, PlacesQuiet
  <1> QED BY <1>1, <1>2, <1>3, <1>4, StepKinds

LEMMA PlacesStart == Init => PlacesInv
  <1> SUFFICES ASSUME Init PROVE PlacesInv
    OBVIOUS
  <1>1. \A n \in Pipes : ~Coming(n)
    BY DEF Init, Coming
  <1>2. \A p \in Procs : launched[p] = 0 /\ instances[p] = <<>>
    BY DEF Init
  <1>3. \A n \in Pipes : Untracked(n) = {} /\ starts[n] = 0
    <2> SUFFICES ASSUME NEW n \in Pipes PROVE Untracked(n) = {} /\ starts[n] = 0
      OBVIOUS
    <2>1. \A i \in InstancesOf(n) : i \in Instance
      BY ProcsFacts DEF InstancesOf, Instance
    <2> QED BY <2>1 DEF Init, Untracked, WorkersOf, Alive
  <1>4. UntrackedInv
    BY <1>1, <1>3, FS_EmptySet DEF UntrackedInv
  <1>5. LengthInv
    BY <1>2 DEF LengthInv
  <1>6. TurnInv
    BY Turns DEF Init, TurnInv
  <1> QED BY <1>1, <1>2, <1>4, <1>5, <1>6, ProcsFacts DEF PlacesInv, StartedInv, UnloadedInv, FirstInv

LEMMA PlacesMean == PlacesInv => RunningIsWhole
  BY DEF PlacesInv, StartedInv, UntrackedInv, Coming, RunningIsWhole

\* What the types and the places have in common is that every step keeps them.
LEMMA PlacesAlways == Spec => [](TypesInv /\ PlacesInv)
  <1>1. TypesInv /\ PlacesInv /\ [Next]_vars => (TypesInv /\ PlacesInv)'
    BY TypesKept, PlacesKept
  <1>2. Init => TypesInv /\ PlacesInv
    BY TypesStart, PlacesStart
  <1> QED BY <1>1, <1>2, PTL DEF Spec

\* On a node of any pipes, started any number of times, a pipe that is RUNNING has
\* had every processor launched, and until a launch of the autoscaler fails fewer of
\* its living workers than it was started times are off its processors' lists, where
\* the registration does not find them: although launch_instance may raise at any
\* point, monitor_pipe changes the lists while it goes over them, and all pipes share
\* the handlers.
THEOREM RunningPipesAreWhole == Spec => []RunningIsWhole
  BY PlacesAlways, PlacesMean, PTL

-----------------------------------------------------------------------------
(* Completion *)

\* The processor was launched again, or the only process it ever had has ended.
Over(p) == launched[p] > 1 \/ (launched[p] = 1 /\ ~Alive(<<p, 1>>))

\* The pipe runs when the k-th of the scheduled tasks comes to its turn.
Before(n, k) ==
    pipeStatus[n] = "RUNNING" \/ \E j \in 1..(k - 1) : tasks[j] = <<n, "RUNNING">>

\* The monitor thread has seen its process end.
DoneInv == \A i \in Instance : state[i] = "DONE" => Ended(i)

\* The processors of a running pipe that is about to be marked COMPLETED are over.
OverInv ==
    \A n \in Pipes : \A k \in 1..Len(tasks) : tasks[k] = <<n, "COMPLETED">> /\ Before(n, k) =>
        \A p \in ToSet(ProcsOf[n]) : Over(p)

CompletionInv == TypesInv /\ PlacesInv /\ DoneInv /\ OverInv

LEMMA DoneKept ==
    ASSUME Types, FreshInv, TriesInv, loaded \in Seq(Pipes), DoneInv, [Next]_vars
    PROVE  DoneInv'
  <1> SUFFICES ASSUME NEW i \in Instance, state'[i] = "DONE" PROVE Ended(i)'
    BY DEF DoneInv
  <1>1. PICK p \in Procs, k \in 1..MaxLaunches : i = <<p, k>>
    BY DEF Instance
  <1>2. ASSUME NEW spawned \in SUBSET Procs, NEW listed \in SUBSET spawned, Launch(spawned, listed)
        PROVE  Ended(i)'
    <2>1. \A q \in Procs : \A j \in 1..MaxLaunches :
             IF q \in spawned /\ j = launched[q] + 1
             THEN state'[<<q, j>>] = "LAUNCHED"
             ELSE /\ state'[<<q, j>>] = state[<<q, j>>]
                  /\ worker'[<<q, j>>] = worker[<<q, j>>]
      BY <1>2, LaunchFacts
    <2>2. state'[i] = state[i] /\ worker'[i] = worker[i]
      BY <1>1, <2>1
    <2> QED BY <2>2 DEF DoneInv, Ended
  <1>3. UNCHANGED <<state, worker>> => Ended(i)'
    BY DEF DoneInv, Ended
  <1>4. ASSUME NEW n \in Pipes, HandleStart(n) \/ HandleStartFails(n) PROVE Ended(i)'
    <2>1. PICK spawned, listed \in SUBSET ToSet(ProcsOf[n]) :
             listed \in SUBSET spawned /\ Launch(spawned, listed)
      BY <1>4, FailsFacts DEF HandleStart
    <2> QED BY <1>2, <2>1, ProcsFacts
  <1>5. ASSUME NEW n \in Pipes, LoadPipe(n) \/ HandlePause(n) PROVE Ended(i)'
    BY <1>3, <1>5 DEF LoadPipe, HandlePause, workerVars
  <1>6. CASE SetPipeStatus \/ MonitorPipes \/ UNCHANGED vars
    BY <1>3, <1>6 DEF SetPipeStatus, MonitorPipes, workerVars, vars
  <1>7. CASE CheckAutoscale
    <2>1. ASSUME NEW n \in ToSet(loaded), ScaleUp(n) PROVE Ended(i)'
      <3>1. PICK q \in ToSet(ProcsOf[n]) : Launch({q}, {q}) \/ Launch({}, {}) \/ Launch({q}, {})
        BY <2>1 DEF ScaleUp
      <3>2. {q} \in SUBSET Procs /\ {} \in SUBSET Procs
        BY LoadedFacts, ProcsFacts
      <3>3. {q} \in SUBSET {q} /\ {} \in SUBSET {} /\ {} \in SUBSET {q}
        OBVIOUS
      <3> QED BY <1>2, <3>1, <3>2, <3>3
    <2> QED BY <1>3, <1>7, <2>1 DEF CheckAutoscale, SitterDies, NoScaling, workerVars
  <1>8. ASSUME NEW j \in Instance, RegisterRefused(j) \/ RegisterChecked(j) \/ RegisterSet(j)
                                   \/ Connect(j)
        PROVE  Ended(i)'
    <2>1. worker' = worker \/ (~Ended(j) /\ \E w : worker' = [worker EXCEPT ![j] = w])
      BY <1>8 DEF RegisterRefused, RegisterChecked, RegisterSet, Connect, FailedAttempt, Becomes,
                  Ended, workerVars
    <2>2. state' = state \/ state' = [state EXCEPT ![j] = "READY"]
      BY <1>8 DEF RegisterRefused, RegisterChecked, RegisterSet, Connect, workerVars
    <2>3. state[i] = "DONE"
      BY <2>2 DEF Types
    <2>4. Ended(i) /\ worker'[i] = worker[i]
      BY <2>1, <2>3 DEF DoneInv, TriesInv
    <2> QED BY <2>4 DEF Ended
  <1>9. ASSUME NEW j \in Instance, WorkerEnds(j) PROVE Ended(i)'
    <2>1. state[i] = "DONE" /\ ~Ended(j) /\ \E w : worker' = [worker EXCEPT ![j] = w]
      BY <1>9 DEF WorkerEnds, MayEnd, Alive, Ended, Becomes
    <2>2. Ended(i) /\ worker'[i] = worker[i]
      BY <2>1 DEF DoneInv, TriesInv
    <2> QED BY <2>2 DEF Ended
  <1>10. ASSUME NEW j \in Instance, Monitor(j) PROVE Ended(i)'
    <2>1. worker' = worker /\ (i = j \/ state'[i] = state[i]) /\ Ended(j)
      BY <1>10 DEF Monitor, Types
    <2> QED BY <2>1 DEF DoneInv, Ended
  <1> QED BY <1>4, <1>5, <1>6, <1>7, <1>8, <1>9, <1>10 DEF Next

\* The first instance of a list is always looked at, and of one instance no other.
LEMMA FirstVisited ==
    ASSUME Types, NEW p \in Procs, Len(instances[p]) = 1
    PROVE  1 \in Visited(p)
  <1> DEFINE s == instances[p]
             step(v) == [k \in 0..Len(s) |-> k < 2 \/ ~(v[k - 1] /\ Removed(s[k - 1]))]
             visited == CHOOSE v : v = step(v)
             all == [k \in 0..1 |-> TRUE]
  <1>1. all = step(all)
    <2>1. \A k \in 0..1 : k < 2
      OBVIOUS
    <2> QED BY <2>1
  <1>2. visited = step(visited)
    <2> HIDE DEF step, all
    <2> QED BY <1>1
  <1>3. visited[1] = TRUE
    <2>1. 1 \in 0..Len(s) /\ 1 < 2
      OBVIOUS
    <2>2. step(visited)[1] = TRUE
      <3> HIDE DEF visited
      <3> QED BY <2>1
    <2> HIDE DEF step, visited
    <2> QED BY <1>2, <2>2
  <1>4. Visited(p) = {k \in 1..Len(s) : visited[k]}
    BY DEF Visited
  <1> QED BY <1>3, <1>4

\* The tick that finds no running instance of a pipe that was started finds its
\* processors over.
LEMMA MonitorSeesOver ==
    ASSUME CompletionInv, NEW n \in Pipes, Coming(n), ~Running(n), NEW p \in ToSet(ProcsOf[n])
    PROVE  Over(p)
  <1>0. Types /\ FreshInv /\ DoneInv /\ StartedInv /\ LengthInv /\ FirstInv
    BY DEF CompletionInv, TypesInv, PlacesInv
  <1>1. p \in Procs
    BY ProcsFacts
  <1>2. launched[p] > 0 /\ launched[p] \in 0..MaxLaunches /\ MaxLaunches \in Nat
    BY <1>0, <1>1, BoundTypes DEF StartedInv, Types
  <1>3. ASSUME launched[p] = 1, Alive(<<p, 1>>) PROVE FALSE
    <2>1. <<p, 1>> \in Instance
      <3>1. 1 \in 1..MaxLaunches
        BY <1>2, <1>3
      <3> QED BY <1>1, <3>1 DEF Instance
    <2>2. <<p, 1>> \in ToSet(instances[p])
      BY <1>0, <1>3 DEF FirstInv
    <2>3. /\ instances[p] \in Seq(Instance) /\ Len(instances[p]) \in Nat
          /\ DOMAIN instances[p] = 1..Len(instances[p])
      BY <1>0, <1>1 DEF Types
    <2>4. Len(instances[p]) <= 1
      BY <1>0, <1>1, <1>3 DEF LengthInv
    <2>5. PICK m \in 1..Len(instances[p]) : instances[p][m] = <<p, 1>>
      BY <2>2, <2>3 DEF ToSet
    <2>6. m = 1 /\ Len(instances[p]) = 1
      <3>1. \A l \in Nat : l <= 1 => \A j \in 1..l : j = 1 /\ l = 1
        OBVIOUS
      <3> QED BY <2>3, <2>4, <3>1
    <2>7. 1 \in Visited(p)
      BY <1>0, <1>1, <2>6, FirstVisited
    <2>8. state[<<p, 1>>] = "DONE"
      BY <2>5, <2>6, <2>7 DEF Running
    <2> QED BY <1>0, <1>3, <2>1, <2>8 DEF DoneInv, Ended, Alive
  <1>4. launched[p] > 1 \/ launched[p] = 1
    BY <1>2
  <1> QED BY <1>3, <1>4 DEF Over

\* What is over stays over.
LEMMA LaunchOver ==
    ASSUME Types, NEW m \in Pipes, NEW spawned \in SUBSET ToSet(ProcsOf[m]),
           NEW listed \in SUBSET spawned, Launch(spawned, listed), NEW p \in Procs, Over(p)
    PROVE  Over(p)'
  <1>1. /\ launched[p] \in Nat /\ launched'[p] \in Nat
        /\ launched'[p] = launched[p] + (IF p \in spawned THEN 1 ELSE 0)
    <2>1. Counts(p, spawned, listed)
      BY LaunchCounts
    <2> QED BY <2>1 DEF Counts
  <1>2. CASE p \in spawned
    <2>1. launched[p] >= 1
      BY <1>1 DEF Over
    <2> QED BY <1>1, <1>2, <2>1 DEF Over
  <1>3. CASE p \notin spawned
    <2>1. launched'[p] = launched[p]
      BY <1>1, <1>3
    <2>2. ASSUME launched[p] = 1, ~Alive(<<p, 1>>) PROVE ~Alive(<<p, 1>>)'
      <3>1. 1 \in 1..MaxLaunches
        <4>1. launched[p] \in 0..MaxLaunches /\ MaxLaunches \in Nat
          BY BoundTypes DEF Types
        <4> QED BY <2>2, <4>1
      <3>2. spawned \in SUBSET Procs
        BY ProcsFacts
      <3>3. \A q \in Procs : \A j \in 1..MaxLaunches :
                 IF q \in spawned /\ j = launched[q] + 1
                 THEN state'[<<q, j>>] = "LAUNCHED"
                 ELSE /\ state'[<<q, j>>] = state[<<q, j>>]
                      /\ worker'[<<q, j>>] = worker[<<q, j>>]
        BY <3>2, LaunchFacts
      <3>4. worker'[<<p, 1>>] = worker[<<p, 1>>]
        BY <1>3, <3>1, <3>3
      <3> QED BY <2>2, <3>4 DEF Alive
    <2> QED BY <2>1, <2>2 DEF Over
  <1> QED BY <1>2, <1>3

LEMMA StaysOver ==
    ASSUME TypesInv, PlacesInv, [Next]_vars, NEW p \in Procs, Over(p)
    PROVE  Over(p)'
  <1>0. Types /\ TriesInv /\ TurnInv /\ loaded \in Seq(Pipes)
    BY DEF TypesInv, PlacesInv, PipesInv
  <1>1. CASE Quiet
    <2>1. launched' = launched
      BY <1>1 DEF Quiet
    <2>2. ASSUME launched[p] = 1, ~Alive(<<p, 1>>) PROVE ~Alive(<<p, 1>>)'
      <3>1. <<p, 1>> \in Instance
        <4>1. launched[p] \in 0..MaxLaunches /\ MaxLaunches \in Nat
          BY <1>0, BoundTypes DEF Types
        <4>2. 1 \in 1..MaxLaunches
          BY <2>2, <4>1
        <4> QED BY <4>2 DEF Instance
      <3> QED BY <1>1, <2>2, <3>1 DEF Quiet
    <2> QED BY <2>1, <2>2 DEF Over
  <1>2. ASSUME NEW n \in Pipes, HandleStart(n) \/ HandleStartFails(n) PROVE Over(p)'
    <2>1. CASE HandleStart(n)
      <3>1. Launch(ToSet(ProcsOf[n]), ToSet(ProcsOf[n]))
        BY <2>1 DEF HandleStart
      <3>2. ToSet(ProcsOf[n]) \in SUBSET ToSet(ProcsOf[n])
        OBVIOUS
      <3> QED BY <1>0, <3>1, <3>2, LaunchOver
    <2>2. CASE HandleStartFails(n)
      <3>1. PICK spawned, listed \in SUBSET ToSet(ProcsOf[n]) :
               listed \in SUBSET spawned /\ Launch(spawned, listed)
        BY <2>2, FailsFacts
      <3> QED BY <1>0, <3>1, LaunchOver
    <2> QED BY <1>2, <2>1, <2>2
  <1>3. ASSUME NEW n \in ToSet(loaded), NEW q \in ToSet(ProcsOf[n]), Grow(n, q) PROVE Over(p)'
    <2>1. n \in Pipes
      BY <1>0, LoadedFacts
    <2>2. PICK spawned \in SUBSET {q} : \E listed \in SUBSET spawned : Launch(spawned, listed)
      BY <1>3 DEF Grow
    <2>3. PICK listed \in SUBSET spawned : Launch(spawned, listed)
      BY <2>2
    <2>4. spawned \in SUBSET ToSet(ProcsOf[n])
      OBVIOUS
    <2> QED BY <1>0, <2>1, <2>3, <2>4, LaunchOver
  <1> QED BY <1>0, <1>1, <1>2, <1>3, StepKinds

\* Whether the pipe runs at a task's turn is known when the task is scheduled.
LEMMA BeforeKept ==
    ASSUME PipesInv, [Next]_vars, NEW n \in Pipes, NEW k \in 1..Len(tasks'),
           tasks'[k] = <<n, "COMPLETED">>, Before(n, k)'
    PROVE  \/ \E l \in 1..Len(tasks) : tasks[l] = <<n, "COMPLETED">> /\ Before(n, l)
           \/ MonitorPipes /\ ~Running(n)
  <1>0. Len(tasks) \in Nat /\ Len(tasks') \in Nat /\ k \in Nat
    BY PipesKept DEF PipesInv
  <1>1. \A m \in Pipes : /\ <<m, "COMPLETED">> = <<n, "COMPLETED">> => m = n
                         /\ <<m, "RUNNING">> # <<n, "COMPLETED">>
                         /\ <<m, "PAUSED">> # <<n, "COMPLETED">>
    OBVIOUS
  <1>2. CASE pipeStatus'[n] = "RUNNING"
    <2>1. pipeStatus[n] = "RUNNING" \/ (1 \in 1..Len(tasks) /\ tasks[1] = <<n, "RUNNING">>)
      BY <1>2, StatusSources
    <2>2. ASSUME NEW l \in 1..Len(tasks), tasks[l] = <<n, "COMPLETED">> PROVE Before(n, l)
      <3>1. CASE pipeStatus[n] = "RUNNING"
        BY <3>1 DEF Before
      <3>2. CASE tasks[1] = <<n, "RUNNING">>
        <4>1. l # 1
          BY <1>1, <2>2, <3>2
        <4>2. 1 \in 1..(l - 1)
          BY <1>0, <4>1
        <4> QED BY <3>2, <4>2 DEF Before
      <3> QED BY <2>1, <3>1, <3>2
    <2>3. \/ \E l \in 1..Len(tasks) : tasks'[k] = tasks[l]
          \/ \E m \in Pipes : tasks'[k] = <<m, "RUNNING">>
          \/ \E m \in Pipes : tasks'[k] = <<m, "PAUSED">>
          \/ \E m \in Pipes : MonitorPipes /\ ~Running(m) /\ tasks'[k] = <<m, "COMPLETED">>
      BY TaskSources
    <2> QED BY <1>1, <2>2, <2>3
  <1>3. ASSUME NEW j \in 1..(k - 1), tasks'[j] = <<n, "RUNNING">>
        PROVE  \/ \E l \in 1..Len(tasks) : tasks[l] = <<n, "COMPLETED">> /\ Before(n, l)
               \/ MonitorPipes /\ ~Running(n)
    <2>1. j \in 1..Len(tasks') /\ j \in Nat /\ j < k
      BY <1>0
    <2>2. \/ ~SetPipeStatus /\ j \in 1..Len(tasks) /\ tasks'[j] = tasks[j]
          \/ SetPipeStatus /\ j + 1 \in 1..Len(tasks) /\ tasks'[j] = tasks[j + 1]
          \/ j > Len(tasks) /\ ~SetPipeStatus
      BY <2>1, TaskSources
    <2>3. \/ ~SetPipeStatus /\ k \in 1..Len(tasks) /\ tasks'[k] = tasks[k]
          \/ SetPipeStatus /\ k + 1 \in 1..Len(tasks) /\ tasks'[k] = tasks[k + 1]
          \/ /\ k > Len(tasks) /\ ~SetPipeStatus
             /\ \/ \E m \in Pipes : HandleStart(m) /\ tasks'[k] = <<m, "RUNNING">>
                \/ \E m \in Pipes : HandlePause(m) /\ tasks'[k] = <<m, "PAUSED">>
                \/ \E m \in Pipes : MonitorPipes /\ ~Running(m) /\ tasks'[k] = <<m, "COMPLETED">>
      BY TaskSources
    <2>4. CASE ~SetPipeStatus /\ k \in 1..Len(tasks) /\ tasks'[k] = tasks[k]
      <3>1. ~(j > Len(tasks))
        BY <1>0, <2>1, <2>4
      <3>2. tasks[j] = <<n, "RUNNING">>
        BY <1>3, <2>2, <2>4, <3>1
      <3> QED BY <1>3, <2>4, <3>2 DEF Before
    <2>5. CASE SetPipeStatus /\ k + 1 \in 1..Len(tasks) /\ tasks'[k] = tasks[k + 1]
      <3>1. tasks[j + 1] = <<n, "RUNNING">>
        BY <1>3, <2>2, <2>5
      <3>2. j + 1 \in 1..(k + 1 - 1)
        BY <1>0, <2>1
      <3>3. Before(n, k + 1)
        BY <3>1, <3>2 DEF Before
      <3> QED BY <2>5, <3>3
    <2>6. CASE \E m \in Pipes : MonitorPipes /\ ~Running(m) /\ tasks'[k] = <<m, "COMPLETED">>
      BY <1>1, <2>6
    <2> QED BY <1>1, <2>3, <2>4, <2>5, <2>6
  <1> QED BY <1>2, <1>3 DEF Before

LEMMA OverKept ==
    ASSUME CompletionInv, [Next]_vars
    PROVE  OverInv'
  <1>1. SUFFICES ASSUME NEW n \in Pipes, NEW k \in 1..Len(tasks'), tasks'[k] = <<n, "COMPLETED">>,
                        Before(n, k)', NEW p \in ToSet(ProcsOf[n])
                 PROVE  Over(p)'
    BY DEF OverInv
  <1>2. PipesInv /\ TypesInv /\ PlacesInv
    BY DEF CompletionInv, TypesInv
  <1>3. CASE MonitorPipes /\ ~Running(n)
    <2>1. Coming(n)'
      <3>1. \A j \in 1..(k - 1) : j \in 1..Len(tasks')
        <4>1. Len(tasks') \in Nat
          BY <1>2, PipesKept DEF PipesInv
        <4> QED BY <4>1
      <3> QED BY <1>1, <3>1 DEF Coming, Before
    <2>2. ~HandleStart(n)
      BY <1>3, Turns DEF MonitorPipes, HandleStart, StartCalled
    <2>3. Coming(n)
      BY <1>2, <2>1, <2>2, ComesFromStart
    <2>4. Over(p)
      BY <1>3, <2>3, MonitorSeesOver
    <2> QED BY <1>2, <2>4, StaysOver, ProcsFacts
  <1>4. CASE \E l \in 1..Len(tasks) : tasks[l] = <<n, "COMPLETED">> /\ Before(n, l)
    <2>1. Over(p)
      BY <1>4 DEF CompletionInv, OverInv
    <2> QED BY <1>2, <2>1, StaysOver, ProcsFacts
  <1> QED BY <1>1, <1>2, <1>3, <1>4, BeforeKept

LEMMA CompletionKept == CompletionInv /\ [Next]_vars => CompletionInv'
  <1> SUFFICES ASSUME CompletionInv, [Next]_vars PROVE CompletionInv'
    OBVIOUS
  <1>1. TypesInv' /\ PlacesInv'
    BY TypesKept, PlacesKept DEF CompletionInv
  <1>2. DoneInv'
    BY DoneKept DEF CompletionInv, TypesInv, PipesInv
  <1>3. OverInv'
    BY OverKept
  <1> QED BY <1>1, <1>2, <1>3 DEF CompletionInv

LEMMA CompletionStart == Init => CompletionInv
  <1> SUFFICES ASSUME Init PROVE CompletionInv
    OBVIOUS
  <1>1. DoneInv /\ OverInv
    BY DEF Init, DoneInv, OverInv
  <1> QED BY <1>1, TypesStart, PlacesStart DEF CompletionInv

LEMMA CompletionStep ==
    CompletionInv /\ [Next]_vars =>
        \A n \in Pipes : pipeStatus[n] = "RUNNING" /\ pipeStatus'[n] = "COMPLETED" =>
            \A i \in WorkersOf(n) : launched[i[1]] > 1
  <1> SUFFICES ASSUME CompletionInv, [Next]_vars, NEW n \in Pipes,
                      pipeStatus[n] = "RUNNING", pipeStatus'[n] = "COMPLETED",
                      NEW i \in WorkersOf(n)
               PROVE  launched[i[1]] > 1
    OBVIOUS
  <1>1. 1 \in 1..Len(tasks) /\ tasks[1] = <<n, "COMPLETED">>
    BY StatusSources DEF CompletionInv, TypesInv
  <1>2. \A p \in ToSet(ProcsOf[n]) : Over(p)
    BY <1>1 DEF CompletionInv, OverInv, Before
  <1>3. PICK p \in ToSet(ProcsOf[n]), k \in 1..MaxLaunches : i = <<p, k>>
    BY DEF WorkersOf, InstancesOf
  <1>4. Alive(<<p, k>>) /\ p \in Procs
    BY <1>3, ProcsFacts DEF WorkersOf
  <1>5. CASE launched[p] = 1
    <2>1. k > launched[p] => ~Alive(<<p, k>>)
      BY <1>4 DEF CompletionInv, TypesInv, FreshInv, Alive
    <2>2. k = 1
      BY <1>4, <1>5, <2>1
    <2> QED BY <1>2, <1>4, <1>5, <2>2 DEF Over
  <1>6. CASE launched[p] > 1
    BY <1>3, <1>6
  <1> QED BY <1>2, <1>5, <1>6 DEF Over

\* On a node of any pipes, whatever the order of the STARTs and of the ends: when a
\* running pipe is marked COMPLETED, no processor whose only process it was has it
\* still alive.  What monitor_pipe skips is only the instance after one that it
\* removes; the tick of one pipe also looks at the others, and a START that comes
\* between the tick and the scheduled change of the status has launched every
\* processor again.
THEOREM CompletedAreOver == Spec => CompletedWhenSinglesOver
  <1>1. CompletionInv /\ [Next]_vars =>
          [\A n \in Pipes : pipeStatus[n] = "RUNNING" /\ pipeStatus'[n] = "COMPLETED"
                               => \A i \in WorkersOf(n) : launched[i[1]] > 1]_vars
    BY CompletionStep
  <1> QED BY CompletionStart, CompletionKept, <1>1, PTL DEF Spec, CompletedWhenSinglesOver

-----------------------------------------------------------------------------
(* The limits of the autoscaler *)

\* No two instances of a processor wait for their registration.
OneLaunched(p) ==
    \A j, k \in 1..MaxLaunches :
        state[<<p, j>>] = "LAUNCHED" /\ state[<<p, k>>] = "LAUNCHED" => j = k

Within(n, p) == launched[p] > 0 => launched[p] <= Autoscale[p] + Restarts(n)

\* As long as none of its instances has finished, a processor's list misses at most
\* one for each start that was cut short.
Missing(n, p) ==
    procStatus[p] # "COMPLETED" /\ sitter # "launchFailed" =>
        /\ launched[p] <= Len(instances[p]) + starts[n]
        /\ Coming(n) => launched[p] < Len(instances[p]) + starts[n]

\* A list that is as long as there were launches has all of them.
Complete(p) ==
    procStatus[p] # "COMPLETED" /\ Len(instances[p]) = launched[p] =>
        \A k \in 1..launched[p] : <<p, k>> \in ToSet(instances[p])

\* The only pipe has no process before its first start, and no two that wait for
\* their registration before the second.
Alone(n, p) ==
    Pipes = {n} => /\ launched[p] > 0 => starts[n] > 0
                   /\ starts[n] <= 1 => OneLaunched(p)

Limits(n, p) == Within(n, p) /\ Missing(n, p) /\ Complete(p) /\ Alone(n, p)

LimitsInv == \A n \in Pipes : \A p \in ToSet(ProcsOf[n]) : Limits(n, p)

CheckedInv == sitter = "checkFailed" => \E n \in Pipes : Restarts(n) > 0

AutoscaleInv == TypesInv /\ PlacesInv /\ LimitsInv /\ CheckedInv

LEMMA NoTwoLaunched ==
    ASSUME Types, NEW p \in Procs, OneLaunched(p)
    PROVE  ~TwoLaunched(p)
  <1>1. \A i \in LaunchedOf(p) : \E k \in 1..MaxLaunches : i = <<p, k>> /\ state[<<p, k>>] = "LAUNCHED"
    <2> TAKE i \in LaunchedOf(p)
    <2>1. i \in Numbers(p) /\ state[i] = "LAUNCHED"
      BY DEF LaunchedOf, Types
    <2>2. PICK k \in 1..MaxLaunches : i = <<p, k>>
      BY <2>1 DEF Numbers
    <2> QED BY <2>1, <2>2
  <1>2. \A i, j \in LaunchedOf(p) : i = j
    BY <1>1 DEF OneLaunched
  <1>3. LaunchedOf(p) = {} \/ \E i : LaunchedOf(p) = {i}
    BY <1>2
  <1>4. Cardinality(LaunchedOf(p)) \in {0, 1}
    BY <1>3, FS_EmptySet, FS_Singleton
  <1> QED BY <1>4 DEF TwoLaunched

\* Of the only pipe, before its second start, the checks of the autoscaler pass.
LEMMA ChecksPass ==
    ASSUME TypesInv, PlacesInv, LimitsInv, NEW n \in Pipes, Pipes = {n}, starts[n] = 1
    PROVE  ~DuplicateSeen /\ \A m \in Pipes : ~OverScaledSeen(m) /\ ~OverScaledPick(m)
  <1>0. Types /\ LengthInv /\ loaded \in Seq(Pipes)
    BY DEF TypesInv, PlacesInv, PipesInv
  <1>1. \A p \in ToSet(ProcsOf[n]) : p \in Procs /\ Limits(n, p)
    BY ProcsFacts DEF LimitsInv
  <1>2. \A p \in ToSet(ProcsOf[n]) : ~TwoLaunched(p)
    <2> TAKE p \in ToSet(ProcsOf[n])
    <2>1. OneLaunched(p)
      BY <1>1 DEF Limits, Alone
    <2> QED BY <1>0, <1>1, <2>1, NoTwoLaunched
  <1>3. \A p \in ToSet(ProcsOf[n]) : ~Unavailable(p)
    <2> TAKE p \in ToSet(ProcsOf[n])
    <2>1. /\ Len(instances[p]) \in Nat /\ Autoscale[p] \in Nat /\ launched[p] \in Nat
          /\ Len(instances[p]) <= launched[p]
      BY <1>0, <1>1, BoundTypes DEF Types, LengthInv
    <2>2. launched[p] > 0 => launched[p] <= Autoscale[p]
      <3>1. Restarts(n) = 0
        BY DEF Restarts
      <3>2. Within(n, p)
        BY <1>1 DEF Limits
      <3> QED BY <2>1, <3>1, <3>2 DEF Within
    <2>3. Len(instances[p]) <= Autoscale[p]
      BY <2>1, <2>2
    <2> QED BY <2>1, <2>3 DEF Unavailable, Room
  <1>4. \A m \in Pipes : m = n /\ \A k \in 1..Len(ProcsOf[m]) : ProcsOf[m][k] \in ToSet(ProcsOf[n])
    BY ProcsFacts
  <1>5. \A m \in Pipes : ~DuplicateSeenIn(m)
    BY <1>2, <1>4 DEF DuplicateSeenIn, FirstSuch
  <1>6. ~DuplicateSeen
    <2>1. \A k \in 1..Len(loaded) : loaded[k] \in Pipes
      BY <1>0
    <2> QED BY <1>5, <2>1 DEF DuplicateSeen, FirstSuch
  <1>7. \A m \in Pipes : ~OverScaledSeen(m)
    BY <1>3, <1>4 DEF OverScaledSeen, FirstSuch
  <1>8. \A m \in Pipes : ~OverScaledPick(m)
    BY <1>3, <1>4 DEF OverScaledPick
  <1> QED BY <1>6, <1>7, <1>8

\* A processor that a step does not touch.
LEMMA SameLimits ==
    ASSUME NEW n \in Pipes, NEW p \in ToSet(ProcsOf[n]), Limits(n, p), starts'[n] = starts[n],
           launched'[p] = launched[p], instances'[p] = instances[p], procStatus'[p] = procStatus[p],
           sitter' # "launchFailed" => sitter # "launchFailed", Coming(n)' => Coming(n),
           \A k \in 1..MaxLaunches : state'[<<p, k>>] = "LAUNCHED" => state[<<p, k>>] = "LAUNCHED"
    PROVE  Limits(n, p)'
  <1>1. Within(n, p)'
    BY DEF Limits, Within, Restarts
  <1>2. Missing(n, p)'
    BY DEF Limits, Missing
  <1>3. Complete(p)'
    BY DEF Limits, Complete
  <1>4. Alone(n, p)'
    BY DEF Limits, Alone, OneLaunched
  <1> QED BY <1>1, <1>2, <1>3, <1>4 DEF Limits

LEMMA LimitsQuiet ==
    ASSUME TypesInv, PlacesInv, LimitsInv, [Next]_vars, Quiet
    PROVE  LimitsInv'
  <1> SUFFICES ASSUME NEW n \in Pipes, NEW p \in ToSet(ProcsOf[n]) PROVE Limits(n, p)'
    BY DEF LimitsInv
  <1>0. Types /\ PipesInv /\ UnloadedInv /\ StartedInv /\ starts \in [Pipes -> Nat]
    BY DEF TypesInv, PlacesInv, Types
  <1>1. /\ UNCHANGED <<starts, launched>> /\ (sitter' # "launchFailed" => sitter # "launchFailed")
        /\ \A k \in 1..MaxLaunches : state'[<<p, k>>] = "LAUNCHED" => state[<<p, k>>] = "LAUNCHED"
    <2>1. \A k \in 1..MaxLaunches : <<p, k>> \in Instance
      BY ProcsFacts DEF Instance
    <2> QED BY <2>1 DEF Quiet
  <1>2. p \in Procs /\ Limits(n, p)
    BY ProcsFacts DEF LimitsInv
  <1>3. Coming(n)' => Coming(n)
    <2> SUFFICES ASSUME Coming(n)', HandleStart(n) PROVE FALSE
      BY <1>0, ComesFromStart
    <2>1. starts'[n] = starts[n] + 1 /\ starts[n] \in Nat
      BY <1>0 DEF HandleStart, StartCalled
    <2> QED BY <1>1, <2>1
  <1>4. CASE instances'[p] = instances[p] /\ procStatus'[p] = procStatus[p]
    BY <1>1, <1>2, <1>3, <1>4, SameLimits
  <1>5. Within(n, p)' /\ Alone(n, p)'
    BY <1>1, <1>2 DEF Limits, Within, Restarts, Alone, OneLaunched
  <1>6. CASE MonitorPipes
    <2>1. /\ instances'[p] = IF p \in LoadedProcs THEN Left(p) ELSE <<>>
          /\ procStatus'[p] = IF p \in LoadedProcs /\ Finished(p) THEN "COMPLETED" ELSE procStatus[p]
      BY <1>2, <1>6 DEF MonitorPipes
    <2>2. CASE p \in LoadedProcs /\ Finished(p)
      BY <1>5, <2>1, <2>2 DEF Limits, Missing, Complete
    <2>3. CASE p \in LoadedProcs /\ ~Finished(p)
      BY <1>0, <1>2, <1>4, <2>1, <2>3, LeftFacts
    <2>4. CASE p \notin LoadedProcs
      <3>1. ~IsLoaded(n)
        BY <2>4 DEF LoadedProcs, IsLoaded
      <3>2. launched'[p] = 0 /\ Len(instances'[p]) = 0
        BY <1>0, <1>1, <2>1, <2>4, <3>1 DEF UnloadedInv
      <3>3. ~Coming(n)'
        BY <1>0, <1>1, <1>3, <3>2 DEF StartedInv
      <3>4. starts'[n] \in Nat
        BY <1>0, <1>1
      <3>5. Missing(n, p)'
        BY <3>2, <3>3, <3>4 DEF Missing
      <3>6. Complete(p)'
        BY <3>2 DEF Complete
      <3> QED BY <1>5, <3>5, <3>6 DEF Limits
    <2> QED BY <2>2, <2>3, <2>4
  <1> QED BY <1>4, <1>6 DEF Quiet

\* The new instance is listed or makes the list shorter than the number of launches.
LEMMA CompleteKept ==
    ASSUME Types, LengthInv, NEW m \in Pipes, NEW spawned \in SUBSET ToSet(ProcsOf[m]),
           NEW listed \in SUBSET spawned, Launch(spawned, listed), NEW p \in Procs, Complete(p)
    PROVE  Complete(p)'
  <1>0. spawned \in SUBSET Procs
    BY ProcsFacts
  <1>a. Counts(p, spawned, listed)
    BY LaunchCounts
  <1>1. /\ launched[p] \in Nat /\ launched'[p] \in Nat
        /\ launched'[p] = launched[p] + (IF p \in spawned THEN 1 ELSE 0)
        /\ Len(instances'[p]) = Len(instances[p]) + (IF p \in listed THEN 1 ELSE 0)
    BY <1>a DEF Counts
  <1>2. Len(instances[p]) \in Nat /\ Len(instances[p]) <= launched[p]
    BY DEF Types, LengthInv
  <1>3. procStatus' = procStatus
    BY DEF Launch
  <1>4. SUFFICES ASSUME procStatus[p] # "COMPLETED", Len(instances'[p]) = launched'[p],
                        NEW k \in 1..launched'[p]
                 PROVE  <<p, k>> \in ToSet(instances'[p])
    BY <1>3 DEF Complete
  <1>5. CASE p \in listed
    <2>1. ToSet(instances'[p]) = ToSet(instances[p]) \cup {NewInstance(p)}
      BY <1>0, <1>5, LaunchLists
    <2>2. Len(instances[p]) = launched[p] /\ launched'[p] = launched[p] + 1
      BY <1>1, <1>2, <1>4, <1>5
    <2>3. k \in 1..launched[p] \/ k = launched[p] + 1
      BY <1>1, <2>2
    <2> QED BY <1>4, <2>1, <2>2, <2>3 DEF Complete, NewInstance
  <1>6. CASE p \notin listed
    <2>1. p \notin spawned /\ Len(instances[p]) = launched[p] /\ launched'[p] = launched[p]
      BY <1>1, <1>2, <1>4, <1>6
    <2>2. instances'[p] = instances[p]
      BY <1>0, <1>6, LaunchLists
    <2> QED BY <1>4, <2>1, <2>2 DEF Complete
  <1> QED BY <1>5, <1>6

\* The processor that has had no LAUNCHED instance has one at most after a launch.
LEMMA OneLaunchedKept ==
    ASSUME Types, NEW m \in Pipes, NEW spawned \in SUBSET ToSet(ProcsOf[m]),
           NEW listed \in SUBSET spawned, Launch(spawned, listed), NEW p \in Procs,
           \A k \in 1..MaxLaunches : state[<<p, k>>] # "LAUNCHED"
    PROVE  OneLaunched(p)'
  <1>0. spawned \in SUBSET Procs
    BY ProcsFacts
  <1>1. \A q \in Procs : \A j \in 1..MaxLaunches :
             IF q \in spawned /\ j = launched[q] + 1
             THEN state'[<<q, j>>] = "LAUNCHED"
             ELSE /\ state'[<<q, j>>] = state[<<q, j>>]
                  /\ worker'[<<q, j>>] = worker[<<q, j>>]
    BY <1>0, LaunchFacts
  <1>2. \A k \in 1..MaxLaunches : state'[<<p, k>>] = "LAUNCHED" => k = launched[p] + 1
    BY <1>1
  <1> QED BY <1>2 DEF OneLaunched

\* The processors of other pipes than the one for which a launch is made.
LEMMA LimitsOthers ==
    ASSUME TypesInv, LimitsInv, NEW m \in Pipes, NEW spawned \in SUBSET ToSet(ProcsOf[m]),
           NEW listed \in SUBSET spawned, Launch(spawned, listed),
           sitter' # "launchFailed" => sitter # "launchFailed",
           NEW n \in Pipes, NEW p \in ToSet(ProcsOf[n]), p \notin spawned,
           starts'[n] = starts[n], Coming(n)' => Coming(n)
    PROVE  Limits(n, p)'
  <1>0. Types /\ p \in Procs /\ Limits(n, p) /\ spawned \in SUBSET Procs
    BY ProcsFacts DEF TypesInv, LimitsInv
  <1>1. launched'[p] = launched[p] /\ procStatus' = procStatus
    BY <1>0 DEF Launch
  <1>2. instances'[p] = instances[p]
    BY <1>0, LaunchLists
  <1>3. \A q \in Procs : \A j \in 1..MaxLaunches :
             IF q \in spawned /\ j = launched[q] + 1
             THEN state'[<<q, j>>] = "LAUNCHED"
             ELSE /\ state'[<<q, j>>] = state[<<q, j>>]
                  /\ worker'[<<q, j>>] = worker[<<q, j>>]
    BY <1>0, LaunchFacts
  <1>4. \A k \in 1..MaxLaunches : state'[<<p, k>>] = "LAUNCHED" => state[<<p, k>>] = "LAUNCHED"
    BY <1>0, <1>3
  <1> QED BY <1>0, <1>1, <1>2, <1>4, SameLimits

\* A start of the pipe, which may be cut short.
LEMMA LimitsStart ==
    ASSUME TypesInv, PlacesInv, LimitsInv, \A q \in Procs : Autoscale[q] > 0,
           NEW n \in Pipes, NEW spawned \in SUBSET ToSet(ProcsOf[n]),
           NEW listed \in SUBSET spawned, Launch(spawned, listed), NEW p \in ToSet(ProcsOf[n]),
           starts'[n] = starts[n] + 1, sitter' = sitter, Coming(n)' => Coming(n) \/ p \in listed
    PROVE  Limits(n, p)'
  <1>0. Types /\ FreshInv /\ LengthInv /\ p \in Procs /\ Limits(n, p) /\ procStatus' = procStatus
    BY ProcsFacts DEF TypesInv, PlacesInv, LimitsInv, Launch
  <1>a. Counts(p, spawned, listed)
    BY <1>0, LaunchCounts
  <1>1. /\ launched[p] \in Nat /\ launched'[p] \in Nat
        /\ launched'[p] = launched[p] + (IF p \in spawned THEN 1 ELSE 0)
        /\ Len(instances'[p]) = Len(instances[p]) + (IF p \in listed THEN 1 ELSE 0)
    BY <1>a DEF Counts
  <1>2. Len(instances[p]) \in Nat /\ starts[n] \in Nat /\ Autoscale[p] \in Nat /\ Autoscale[p] > 0
    BY <1>0, BoundTypes DEF Types
  <1>3. Within(n, p)'
    <2>1. Restarts(n)' = Restarts(n) + 1 /\ Restarts(n)' >= 0 /\ Restarts(n) \in Int
      BY <1>2 DEF Restarts
    <2>2. launched[p] > 0 => launched[p] <= Autoscale[p] + Restarts(n)
      BY <1>0 DEF Limits, Within
    <2>3. launched'[p] = launched[p] \/ launched'[p] = launched[p] + 1
      BY <1>1
    <2>4. launched'[p] > 0 => launched'[p] <= Autoscale[p] + (Restarts(n) + 1)
      BY <1>1, <1>2, <2>1, <2>2, <2>3
    <2> QED BY <2>1, <2>4 DEF Within
  <1>4. Missing(n, p)'
    <2> SUFFICES ASSUME procStatus[p] # "COMPLETED", sitter # "launchFailed"
                 PROVE  /\ launched'[p] <= Len(instances'[p]) + starts'[n]
                        /\ Coming(n)' => launched'[p] < Len(instances'[p]) + starts'[n]
      BY <1>0 DEF Missing
    <2>1. /\ launched[p] <= Len(instances[p]) + starts[n]
          /\ Coming(n) => launched[p] < Len(instances[p]) + starts[n]
      BY <1>0 DEF Limits, Missing
    <2>2. CASE p \in listed
      BY <1>1, <1>2, <2>1, <2>2
    <2>3. CASE p \notin listed
      <3>1. launched'[p] <= launched[p] + 1 /\ Len(instances'[p]) = Len(instances[p])
        BY <1>1, <1>2, <2>3
      <3> QED BY <1>1, <1>2, <2>1, <2>3, <3>1
    <2> QED BY <2>2, <2>3
  <1>5. Complete(p)'
    BY <1>0, CompleteKept DEF Limits
  <1>6. Alone(n, p)'
    <2> SUFFICES ASSUME Pipes = {n} PROVE starts'[n] > 0 /\ (starts'[n] <= 1 => OneLaunched(p)')
      BY DEF Alone
    <2>1. ASSUME starts'[n] <= 1 PROVE OneLaunched(p)'
      <3>1. launched[p] = 0
        BY <1>0, <1>1, <1>2, <2>1 DEF Limits, Alone
      <3>2. \A k \in 1..MaxLaunches : state[<<p, k>>] # "LAUNCHED"
        BY <1>0, <3>1 DEF FreshInv
      <3> QED BY <1>0, <3>2, OneLaunchedKept
    <2> QED BY <1>2, <2>1
  <1> QED BY <1>3, <1>4, <1>5, <1>6 DEF Limits

\* The autoscaler launches where the list is shorter than the setting.
LEMMA LimitsGrow ==
    ASSUME TypesInv, PlacesInv, LimitsInv, NEW n \in ToSet(loaded), NEW p \in ToSet(ProcsOf[n]),
           n \in Pipes, Available(p), ~IsScaling, loop = Scaling,
           NEW spawned \in SUBSET {p}, NEW listed \in SUBSET spawned, Launch(spawned, listed),
           sitter' # "launchFailed" => listed = spawned, starts' = starts,
           Coming(n)' => Coming(n)
    PROVE  Limits(n, p)'
  <1>0. /\ Types /\ FreshInv /\ LengthInv /\ StartedInv /\ TurnInv
        /\ p \in Procs /\ Limits(n, p) /\ procStatus' = procStatus
        /\ spawned \in SUBSET ToSet(ProcsOf[n])
    BY ProcsFacts DEF TypesInv, PlacesInv, LimitsInv, Launch
  <1>a. Counts(p, spawned, listed)
    BY <1>0, LaunchCounts
  <1>1. /\ launched[p] \in Nat /\ launched'[p] \in Nat
        /\ launched'[p] = launched[p] + (IF p \in spawned THEN 1 ELSE 0)
        /\ Len(instances'[p]) = Len(instances[p]) + (IF p \in listed THEN 1 ELSE 0)
    BY <1>a DEF Counts
  <1>2. Len(instances[p]) \in Nat /\ starts[n] \in Nat /\ Autoscale[p] \in Nat
    BY <1>0, BoundTypes DEF Types
  <1>3. procStatus[p] # "COMPLETED" /\ Len(instances[p]) < Autoscale[p]
    BY <1>2 DEF Available, Room
  <1>4. sitter = "up" /\ (Pipes = {n} => Coming(n))
    BY <1>0 DEF TurnInv, AnyPipeRunning, Coming
  <1>5. /\ launched[p] <= Len(instances[p]) + starts[n]
        /\ Coming(n) => launched[p] < Len(instances[p]) + starts[n]
    BY <1>0, <1>3, <1>4 DEF Limits, Missing
  <1>6. Within(n, p)'
    <2>1. Restarts(n)' = Restarts(n) /\ Restarts(n) = IF Pipes = {n} THEN starts[n] - 1 ELSE starts[n]
      BY DEF Restarts
    <2>2. launched'[p] <= launched[p] + 1
      BY <1>1
    <2>3. launched[p] + 1 <= Autoscale[p] + Restarts(n)
      <3>1. CASE Pipes = {n}
        BY <1>1, <1>2, <1>3, <1>4, <1>5, <2>1, <3>1
      <3>2. CASE Pipes # {n}
        BY <1>1, <1>2, <1>3, <1>5, <2>1, <3>2
      <3> QED BY <3>1, <3>2
    <2>4. Restarts(n) \in Int
      BY <1>2, <2>1
    <2>5. launched'[p] <= Autoscale[p] + Restarts(n)
      BY <1>1, <1>2, <2>2, <2>3, <2>4
    <2> QED BY <2>1, <2>5 DEF Within
  <1>7. Missing(n, p)'
    <2> SUFFICES ASSUME listed = spawned
                 PROVE  /\ launched'[p] <= Len(instances'[p]) + starts'[n]
                        /\ Coming(n)' => launched'[p] < Len(instances'[p]) + starts'[n]
      BY DEF Missing
    <2>1. starts'[n] = starts[n]
      OBVIOUS
    <2>2. CASE p \in listed
      BY <1>1, <1>2, <1>5, <2>1, <2>2
    <2>3. CASE p \notin listed
      BY <1>1, <1>2, <1>5, <2>1, <2>3
    <2> QED BY <2>2, <2>3
  <1>8. Complete(p)'
    BY <1>0, CompleteKept DEF Limits
  <1>9. Alone(n, p)'
    <2> SUFFICES ASSUME Pipes = {n} PROVE starts[n] > 0 /\ (starts[n] <= 1 => OneLaunched(p)')
      BY DEF Alone
    <2>1. starts[n] > 0
      BY <1>0, <1>4 DEF StartedInv
    <2>2. ASSUME starts[n] <= 1 PROVE OneLaunched(p)'
      <3>1. Len(instances[p]) = launched[p]
        <4>1. launched[p] < Len(instances[p]) + 1
          BY <1>2, <1>4, <1>5, <2>1, <2>2
        <4>2. Len(instances[p]) <= launched[p]
          BY <1>0 DEF LengthInv
        <4> QED BY <1>1, <1>2, <4>1, <4>2
      <3>2. \A k \in 1..launched[p] : <<p, k>> \in ToSet(instances[p])
        BY <1>0, <1>3, <3>1 DEF Limits, Complete
      <3>3. \A k \in 1..MaxLaunches : state[<<p, k>>] # "LAUNCHED"
        <4> SUFFICES ASSUME NEW k \in 1..MaxLaunches, state[<<p, k>>] = "LAUNCHED" PROVE FALSE
          OBVIOUS
        <4>1. ~(k > launched[p])
          BY <1>0 DEF FreshInv
        <4>2. <<p, k>> \in LaunchedOf(p)
          <5>1. k \in 1..launched[p]
            BY <1>1, <4>1
          <5> QED BY <3>2, <5>1 DEF LaunchedOf
        <4> QED BY <4>2 DEF IsScaling, PipeScaling, HasLaunched
      <3> QED BY <1>0, <3>3, OneLaunchedKept
    <2> QED BY <2>1, <2>2
  <1> QED BY <1>6, <1>7, <1>8, <1>9 DEF Limits

LEMMA LimitsKept ==
    ASSUME \A q \in Procs : Autoscale[q] > 0, TypesInv, PlacesInv, LimitsInv, [Next]_vars
    PROVE  LimitsInv'
  <1>1. /\ Types /\ PipesInv /\ TriesInv /\ loaded \in Seq(Pipes) /\ TurnInv
        /\ starts \in [Pipes -> Nat]
    BY DEF TypesInv, PlacesInv, PipesInv, Types
  <1>2. ASSUME NEW m \in Pipes, HandleStart(m) \/ HandleStartFails(m),
               NEW n \in Pipes, NEW p \in ToSet(ProcsOf[n])
        PROVE  Limits(n, p)'
    <2>1. PICK spawned, listed \in SUBSET ToSet(ProcsOf[m]) :
             /\ listed \in SUBSET spawned /\ Launch(spawned, listed)
             /\ HandleStart(m) => listed = ToSet(ProcsOf[m])
      <3>1. CASE HandleStart(m)
        BY <3>1 DEF HandleStart
      <3>2. CASE ~HandleStart(m)
        BY <1>2, <3>2, FailsFacts
      <3> QED BY <3>1, <3>2
    <2>2. /\ sitter' = sitter /\ starts'[m] = starts[m] + 1
          /\ \A k \in Pipes \ {m} : starts'[k] = starts[k]
      BY <1>1, <1>2 DEF HandleStart, HandleStartFails, StartCalled
    <2>3. CASE n = m
      <3>1. Coming(n)' => Coming(n) \/ p \in listed
        BY <1>1, <2>1, <2>3, ComesFromStart
      <3> QED BY <2>1, <2>2, <2>3, <3>1, LimitsStart
    <2>4. CASE n # m
      <3>1. Coming(n)' => Coming(n)
        <4> SUFFICES ASSUME Coming(n)', HandleStart(n) PROVE FALSE
          BY <1>1, ComesFromStart
        <4>1. starts'[n] = starts[n] + 1 /\ starts[n] \in Nat
          BY <1>1 DEF HandleStart, StartCalled
        <4> QED BY <2>2, <2>4, <4>1
      <3>2. p \notin spawned
        BY <2>4, OneOwner
      <3>3. starts'[n] = starts[n]
        BY <2>2, <2>4
      <3> QED BY <2>1, <2>2, <3>1, <3>2, <3>3, LimitsOthers
    <2> QED BY <2>3, <2>4
  <1>3. ASSUME NEW m \in ToSet(loaded), NEW q \in ToSet(ProcsOf[m]), Grow(m, q),
               NEW n \in Pipes, NEW p \in ToSet(ProcsOf[n])
        PROVE  Limits(n, p)'
    <2>1. m \in Pipes
      BY <1>1, LoadedFacts
    <2>2. PICK spawned \in SUBSET {q} : \E listed \in SUBSET spawned :
             Launch(spawned, listed) /\ (sitter' # "launchFailed" => listed = spawned)
      BY <1>3 DEF Grow
    <2>3. PICK listed \in SUBSET spawned :
             Launch(spawned, listed) /\ (sitter' # "launchFailed" => listed = spawned)
      BY <2>2
    <2>4. starts' = starts /\ (Coming(n)' => Coming(n)) /\ (sitter' # "launchFailed" => sitter # "launchFailed")
      BY <1>1, <1>3 DEF Grow, Coming, TurnInv
    <2>5. CASE p = q
      <3>1. n = m
        BY <2>1, <2>5, OneOwner
      <3>2. Available(p) /\ ~IsScaling /\ loop = Scaling
        BY <1>3, <2>5 DEF Grow
      <3> QED BY <2>3, <2>4, <2>5, <3>1, <3>2, LimitsGrow
    <2>6. CASE p # q
      <3>1. spawned \in SUBSET ToSet(ProcsOf[m]) /\ p \notin spawned /\ starts'[n] = starts[n]
        BY <2>4, <2>6
      <3> QED BY <2>1, <2>3, <2>4, <3>1, LimitsOthers
    <2> QED BY <2>5, <2>6
  <1>4. CASE Quiet
    BY <1>4, LimitsQuiet
  <1>5. ASSUME NEW m \in Pipes, HandleStart(m) \/ HandleStartFails(m) PROVE LimitsInv'
    BY <1>2, <1>5 DEF LimitsInv
  <1>6. ASSUME NEW m \in ToSet(loaded), NEW q \in ToSet(ProcsOf[m]), Grow(m, q) PROVE LimitsInv'
    BY <1>3, <1>6 DEF LimitsInv
  <1> QED BY <1>1, <1>4, <1>5, <1>6, StepKinds

\* Where the exception of a check comes from.
LEMMA CheckSources ==
    ASSUME [Next]_vars, sitter' = "checkFailed", sitter # "checkFailed"
    PROVE  /\ loop = Scaling /\ starts' = starts
           /\ DuplicateSeen \/ \E n \in ToSet(loaded) : OverScaledSeen(n) \/ OverScaledPick(n)
  <1>1. CheckAutoscale
    BY DEF Next, LoadPipe, HandleStart, HandleStartFails, StartCalled, HandlePause, SetPipeStatus,
           RegisterRefused, RegisterChecked, RegisterSet, Connect, WorkerEnds, Monitor, MonitorPipes,
           vars
  <1>2. loop = Scaling /\ starts' = starts
    BY <1>1 DEF CheckAutoscale, envVars
  <1>3. \A n \in ToSet(loaded) : ~ScaleUp(n)
    BY DEF ScaleUp
  <1>4. DuplicateSeen \/ \E n \in ToSet(loaded) : OverScaledSeen(n) \/ OverScaledPick(n)
    BY <1>1, <1>3 DEF CheckAutoscale, NoScaling
  <1> QED BY <1>2, <1>4

LEMMA CheckedKept ==
    ASSUME AutoscaleInv, [Next]_vars
    PROVE  CheckedInv'
  <1> SUFFICES ASSUME sitter' = "checkFailed" PROVE \E n \in Pipes : Restarts(n)' > 0
    BY DEF CheckedInv
  <1>1. /\ Types /\ TypesInv /\ PlacesInv /\ LimitsInv /\ StartedInv /\ TurnInv
        /\ loaded \in Seq(Pipes) /\ starts \in [Pipes -> Nat]
    BY DEF AutoscaleInv, TypesInv, PlacesInv, PipesInv, Types
  <1>2. CASE sitter = "checkFailed"
    <2>1. PICK n \in Pipes : Restarts(n) > 0
      BY <1>2 DEF AutoscaleInv, CheckedInv
    <2>2. starts'[n] = starts[n] \/ starts'[n] = starts[n] + 1
      <3>1. starts' = starts \/ \E m \in Pipes : starts' = [starts EXCEPT ![m] = starts[m] + 1]
        BY DEF Next, LoadPipe, HandleStart, HandleStartFails, StartCalled, HandlePause, SetPipeStatus,
               RegisterRefused, RegisterChecked, RegisterSet, Connect, WorkerEnds, Monitor, MonitorPipes,
               CheckAutoscale, vars, envVars
      <3> QED BY <1>1, <3>1
    <2>3. starts[n] \in Nat
      BY <1>1
    <2>4. Restarts(n)' > 0
      BY <2>1, <2>2, <2>3 DEF Restarts
    <2> QED BY <2>4
  <1>3. CASE sitter # "checkFailed"
    <2>1. /\ loop = Scaling /\ starts' = starts
          /\ DuplicateSeen \/ \E n \in ToSet(loaded) : OverScaledSeen(n) \/ OverScaledPick(n)
      BY <1>3, CheckSources
    <2>2. PICK n \in Pipes : pipeStatus[n] = "RUNNING"
      BY <1>1, <2>1 DEF TurnInv, AnyPipeRunning
    <2>3. starts[n] \in Nat /\ starts[n] > 0
      BY <1>1, <2>2 DEF StartedInv, Coming
    <2>4. ~(Pipes = {n} /\ starts[n] = 1)
      BY <1>1, <2>1, ChecksPass, LoadedFacts
    <2>5. Restarts(n) > 0 /\ Restarts(n)' = Restarts(n)
      BY <2>1, <2>3, <2>4 DEF Restarts
    <2> QED BY <2>5
  <1> QED BY <1>2, <1>3

LEMMA AutoscaleKept ==
    ASSUME \A q \in Procs : Autoscale[q] > 0, AutoscaleInv, [Next]_vars
    PROVE  AutoscaleInv'
  BY TypesKept, PlacesKept, LimitsKept, CheckedKept DEF AutoscaleInv

LEMMA AutoscaleStart == Init => AutoscaleInv
  <1> SUFFICES ASSUME Init PROVE AutoscaleInv
    OBVIOUS
  <1>1. \A n \in Pipes : starts[n] = 0 /\ ~Coming(n)
    BY DEF Init, Coming
  <1>2. \A p \in Procs : launched[p] = 0 /\ Len(instances[p]) = 0
    BY DEF Init
  <1>3. \A p \in Procs : OneLaunched(p)
    BY DEF Init, OneLaunched, Instance
  <1>4. \A n \in Pipes : \A p \in ToSet(ProcsOf[n]) : Limits(n, p)
    BY <1>1, <1>2, <1>3, ProcsFacts DEF Limits, Within, Missing, Complete, Alone
  <1>5. CheckedInv
    BY DEF Init, CheckedInv
  <1> QED BY <1>4, <1>5, TypesStart, PlacesStart DEF AutoscaleInv, LimitsInv

\* On a node of any pipes, whose settings allow every processor a worker, started any
\* number of times: no processor ever has more processes than its setting and one for
\* each repeated START, and without a repeated START the consistency checks of
\* launched_instances and available_instances never end the baby sitter: whatever
\* the order in which workers register, fail and end, and whichever launches fail.
THEOREM KeepsToLimits ==
    (\A p \in Procs : Autoscale[p] > 0) => (Spec => []WithinAutoscale)
  <1> SUFFICES ASSUME \A p \in Procs : Autoscale[p] > 0 PROVE Spec => []WithinAutoscale
    OBVIOUS
  <1>1. AutoscaleInv /\ [Next]_vars => AutoscaleInv'
    BY AutoscaleKept
  <1>2. AutoscaleInv => WithinAutoscale
    BY DEF AutoscaleInv, LimitsInv, Limits, Within, CheckedInv, WithinAutoscale
  <1> QED BY AutoscaleStart, <1>1, <1>2, PTL DEF Spec
=============================================================================
