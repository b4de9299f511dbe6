-------------------------- MODULE SessionLogProofs --------------------------
(***************************************************************************)
(* What SessionLog promises of the log files, proved for every number of   *)
(* files to keep, of launches and of seconds.                              *)
(***************************************************************************)
EXTENDS SessionLog, FiniteSetTheorems, WellFoundedInduction, FunctionTheorems, TLAPS

-----------------------------------------------------------------------------
(* Finite sets of times.                                                   *)

LEMMA Smallest ==
  ASSUME NEW S \in SUBSET Nat, IsFiniteSet(S), S # {}
  PROVE  \E m \in S : \A r \in S : m <= r
<1> DEFINE Below(n) == {r \in S : r <= n}
           Cuts == {Below(n) : n \in S}
<1>1. Cuts \subseteq FiniteSubsetsOf(S) /\ Cuts # {}
  <2>1. \A n \in S : Below(n) \in SUBSET S /\ IsFiniteSet(Below(n))
    BY FS_Subset
  <2> QED BY <2>1 DEF FiniteSubsetsOf
<1>2. PICK U \in Cuts : \A V \in Cuts : ~ (<<V, U>> \in StrictSubsetOrdering(S))
  <2> HIDE DEF Cuts
  <2> QED BY <1>1, FS_StrictSubsetOrderingWellFounded, WFMin
<1>3. PICK m \in S : U = Below(m)
  OBVIOUS
<1>4. ASSUME NEW r \in S PROVE m <= r
  <2>1. CASE r <= m
    <3>1. \A q \in S : q <= r => q <= m
      <4>1. ASSUME NEW q \in S, q <= r PROVE q <= m
        <5>1. q \in Nat /\ r \in Nat /\ m \in Nat
          OBVIOUS
        <5> QED BY <2>1, <4>1, <5>1
      <4> QED BY <4>1
    <3>2. Below(r) \subseteq U /\ Below(r) \in Cuts
      BY <1>3, <3>1
    <3>3. Below(r) = U
      BY <1>2, <1>3, <3>2 DEF StrictSubsetOrdering
    <3>4. m \in Below(r)
      BY <1>3, <3>3
    <3> QED BY <3>4
  <2> QED BY <2>1
<1> QED BY <1>4

\* Fewer than k + 1 elements of a set have fewer than k above them.
LEMMA TopOfSet ==
  ASSUME NEW S \in SUBSET Nat, IsFiniteSet(S), NEW k \in Nat
  PROVE  Cardinality({t \in S : ~ (Cardinality({r \in S : r > t}) >= k)}) <= k
<1> DEFINE T == {t \in S : ~ (Cardinality({r \in S : r > t}) >= k)}
<1> SUFFICES Cardinality(T) <= k
  OBVIOUS
<1>1. T \in SUBSET S /\ IsFiniteSet(T) /\ Cardinality(T) \in Nat
  BY FS_Subset, FS_CardinalityType
<1>2. CASE T = {}
  <2> HIDE DEF T
  <2> QED BY <1>2, FS_EmptySet
<1>3. CASE T # {}
  <2>1. PICK m \in T : \A t \in T : m <= t
    <3> HIDE DEF T
    <3> QED BY <1>1, <1>3, Smallest
  <2> DEFINE Above == {r \in S : r > m}
  <2>2. Above \in SUBSET S /\ IsFiniteSet(Above) /\ Cardinality(Above) \in Nat
    BY FS_Subset, FS_CardinalityType
  <2>3. Cardinality(Above) < k
    <3>1. ~ (Cardinality(Above) >= k)
      BY <2>1
    <3> HIDE DEF Above
    <3> QED BY <2>2, <3>1
  <2>4. T \ {m} \in SUBSET Above
    <3>1. ASSUME NEW t \in T \ {m} PROVE t \in S /\ t > m
      <4>1. t \in Nat /\ m \in Nat /\ m <= t /\ t # m /\ t \in S
        BY <2>1
      <4> QED BY <4>1
    <3> HIDE DEF T
    <3> QED BY <3>1
  <2> HIDE DEF T, Above
  <2>5. Cardinality(T \ {m}) <= Cardinality(Above)
    BY <2>2, <2>4, FS_Subset
  <2>6. Cardinality(T \ {m}) = Cardinality(T) - 1
    BY <1>1, <2>1, FS_RemoveElement
  <2> QED BY <1>1, <2>2, <2>3, <2>5, <2>6
<1> QED BY <1>2, <1>3

LEMMA Finite ==
  ASSUME TypeOK, NEW S \in SUBSET Times
  PROVE  S \in SUBSET Nat /\ IsFiniteSet(S) /\ Cardinality(S) \in Nat
<1>1. IsFiniteSet(Times) /\ Times \subseteq Nat
  BY FS_Interval, BoundsAssumption DEF Times
<1> QED BY <1>1, FS_Subset, FS_CardinalityType

LEMMA KeepType == KeepOld \in Nat
  BY BoundsAssumption DEF KeepOld

-----------------------------------------------------------------------------
(* PruneOld.                                                               *)

\* What List leaves are KeepOld files at most.
LEMMA EnoughDoomed ==
  ASSUME TypeOK
  PROVE  Cardinality(Sessions \ Doomed) <= KeepOld
<1>1. Sessions \in SUBSET Nat /\ IsFiniteSet(Sessions)
  BY Finite DEF Sessions
<1>2. Sessions \ Doomed = {t \in Sessions : ~ (Cardinality({r \in Sessions : r > t}) >= KeepOld)}
  BY DEF Doomed
<1> HIDE DEF Sessions
<1>3. Cardinality({t \in Sessions : ~ (Cardinality({r \in Sessions : r > t}) >= KeepOld)})
        <= KeepOld
  BY <1>1, KeepType, TopOfSet
<1> QED BY <1>2, <1>3

\* As long as the clock has not been set back, what List takes was written by
\* launches with KeepOld others between them and the running one.
LEMMA DoomedAreOld ==
  ASSUME TypeOK, Dated, step = "list", InOrder, NEW t \in Doomed, NEW l \in log[t]
  PROVE  l + KeepOld + 1 <= launch
<1> DEFINE Above == {r \in Sessions : r > t}
           f == [r \in Above |-> CHOOSE m \in Launches : m \in log[r]]
           Between == (l + 1) .. (launch - 1)
<1>0. /\ t \in Times /\ log[t] \subseteq Launches /\ Launches \subseteq Nat
      /\ launch \in Launches /\ launch \in Nat /\ l \in Launches /\ l \in Nat
  BY BoundsAssumption DEF TypeOK, Dated, Doomed, Sessions, Launches
<1>1. /\ Above \in SUBSET Times /\ IsFiniteSet(Above) /\ Cardinality(Above) \in Nat
      /\ Cardinality(Above) >= KeepOld
  <2>1. Above \in SUBSET Times
    BY DEF Sessions
  <2>2. Cardinality(Above) >= KeepOld
    BY DEF Doomed
  <2> HIDE DEF Above
  <2> QED BY <2>1, <2>2, Finite
<1>2. stamp[l] = t /\ l <= launch /\ stamp[launch] = NoTime
  BY <1>0 DEF Dated
<1>3. l < launch
  <2>1. NoTime # t
    BY <1>0, BoundsAssumption DEF NoTime, Times
  <2> QED BY <1>0, <1>2, <2>1
<1>4. ASSUME NEW r \in Above
      PROVE  f[r] \in log[r] /\ f[r] \in Between /\ stamp[f[r]] = r
  <2>1. log[r] # {} /\ log[r] \subseteq Launches /\ r \in Times
    BY DEF Sessions, TypeOK
  <2>2. f[r] \in Launches /\ f[r] \in log[r]
    BY <2>1
  <2> HIDE DEF f
  <2>3. stamp[f[r]] = r /\ f[r] <= launch
    BY <2>1, <2>2 DEF Dated
  <2>4. r # NoTime /\ r > t /\ r \in Nat /\ t \in Nat /\ f[r] \in Nat
    BY <1>0, <2>1, <2>2, BoundsAssumption DEF NoTime, Times, Launches
  <2>5. f[r] # launch
    BY <1>2, <2>3, <2>4
  <2>6. ~ (f[r] < l)
    <3>1. f[r] < l => stamp[f[r]] <= stamp[l]
      BY <1>0, <1>2, <2>2, <2>4, <2>1, BoundsAssumption DEF InOrder, NoTime, Times
    <3> QED BY <1>2, <2>3, <2>4, <3>1
  <2>7. f[r] # l
    BY <1>2, <2>3, <2>4
  <2>8. l < f[r] /\ f[r] < launch
    BY <1>0, <2>3, <2>4, <2>5, <2>6, <2>7
  <2> QED BY <1>0, <2>2, <2>3, <2>4, <2>8
<1>5. f \in [Above -> Between] /\ \A r, s \in Above : f[r] = f[s] => r = s
  <2>1. f = [r \in Above |-> f[r]]
    OBVIOUS
  <2> HIDE DEF f, Between, Above
  <2> QED BY <1>4, <2>1
<1>6. IsFiniteSet(Between) /\ Cardinality(Between) = launch - 1 - l
  <2>1. l + 1 \in Int /\ launch - 1 \in Int
    BY <1>0
  <2>2. /\ IsFiniteSet(Between)
        /\ Cardinality(Between) = IF l + 1 > launch - 1 THEN 0 ELSE (launch - 1) - (l + 1) + 1
    BY <2>1, FS_Interval
  <2> HIDE DEF Between
  <2> QED BY <1>0, <1>3, <2>2
<1> HIDE DEF f, Between, Above
<1>7. f \in Injection(Above, Between)
  BY <1>5 DEF Injection, IsInjective
<1>8. Cardinality(Above) <= Cardinality(Between)
  BY <1>6, <1>7, FS_Injection
<1> QED BY <1>0, <1>1, <1>6, <1>8, KeepType

-----------------------------------------------------------------------------
(* The invariant.                                                          *)

LEMMA IInit == Init => IInv
<1> SUFFICES ASSUME Init PROVE IInv
  OBVIOUS
<1>1. Sessions = {}
  BY DEF Init, Sessions
<1>2. TypeOK
  BY <1>1, BoundsAssumption DEF Init, TypeOK, Times, Launches
<1>3. Dated
  BY DEF Init, Dated, Launches
<1> QED BY <1>2, <1>3 DEF Init, IInv, Spared, Aged, KeepsNewest

\* A launch that has no name yet may take one: what was in order before it
\* then was in order.
LEMMA OrderKept ==
  ASSUME TypeOK, Dated, step \in {"list", "delete"}, NEW t \in Times,
         stamp' = [stamp EXCEPT ![launch] = t], InOrder'
  PROVE  InOrder
<1> SUFFICES ASSUME NEW l \in Launches, NEW m \in Launches, l < m, stamp[m] # NoTime
             PROVE  stamp[l] <= stamp[m]
  BY DEF InOrder
<1>1. /\ stamp[launch] = NoTime /\ launch \in Launches
      /\ \A k \in Launches : stamp[k] \in Times \cup {NoTime}
  BY DEF Dated, TypeOK
<1>2. stamp'[m] = stamp[m] /\ m # launch
  BY <1>1 DEF TypeOK
<1>3. stamp'[l] <= stamp'[m]
  BY <1>2 DEF InOrder
<1>4. CASE l # launch
  BY <1>2, <1>3, <1>4 DEF TypeOK
<1>5. CASE l = launch
  BY <1>1, <1>2, <1>5, BoundsAssumption DEF NoTime, Times
<1> QED BY <1>4, <1>5

LEMMA LaunchStep == IInv /\ Launch => IInv'
<1> SUFFICES ASSUME IInv, Launch PROVE IInv'
  OBVIOUS
<1>1. Sessions' = Sessions
  BY DEF Launch, files, Sessions
<1>2. TypeOK'
  BY <1>1, BoundsAssumption DEF IInv, TypeOK, Launch, files, Times, Launches
<1>3. Dated'
  <2>1. launch \in Nat /\ launch' = launch + 1 /\ launch' \in Launches /\ Launches \subseteq Nat
    BY BoundsAssumption DEF IInv, TypeOK, Launch, Launches
  <2>2. \A t \in Times : log[t] \subseteq Launches
    BY DEF IInv, TypeOK
  <2> QED BY <2>1, <2>2 DEF IInv, Dated, Launch, files
<1>4. KeepsNewest'
  <2>1. /\ InOrder' = InOrder /\ pruned' = pruned /\ launch' = launch + 1 /\ launch \in Nat
        /\ pruned \subseteq Nat
    BY BoundsAssumption DEF IInv, TypeOK, Launch, InOrder, Launches
  <2> QED BY <2>1, KeepType DEF IInv, KeepsNewest, KeepOld
<1>5. Aged' /\ Spared'
  BY DEF IInv, Dated, Launch, Aged, Spared
<1> QED BY <1>2, <1>3, <1>4, <1>5 DEF IInv

LEMMA ListStep == IInv /\ List => IInv'
<1> SUFFICES ASSUME IInv, List PROVE IInv'
  OBVIOUS
<1>1. Sessions' = Sessions /\ Doomed \subseteq Sessions
  BY DEF List, files, Sessions, Doomed
<1>2. TypeOK'
  BY <1>1 DEF IInv, TypeOK, List, files
<1>3. Dated'
  BY DEF IInv, Dated, List, files
<1>4. Spared'
  <2>1. /\ Sessions' \ (doomed' \cup stuck' \cup {path'}) = (Sessions \ Doomed) \ {path}
        /\ (Sessions \ Doomed) \ {path} \in SUBSET (Sessions \ Doomed)
        /\ Sessions \ Doomed \in SUBSET Times /\ KeepOld' = KeepOld
    BY <1>1 DEF List, Sessions, KeepOld
  <2>2. IsFiniteSet(Sessions \ Doomed) /\ Cardinality(Sessions \ Doomed) \in Nat
    BY <2>1, Finite DEF IInv
  <2>3. /\ Cardinality((Sessions \ Doomed) \ {path}) <= Cardinality(Sessions \ Doomed)
        /\ Cardinality((Sessions \ Doomed) \ {path}) \in Nat
    BY <2>1, <2>2, FS_Subset, FS_CardinalityType
  <2>4. Cardinality(Sessions \ Doomed) <= KeepOld
    BY EnoughDoomed DEF IInv
  <2>5. Cardinality(Sessions' \ (doomed' \cup stuck' \cup {path'})) <= KeepOld'
    BY <2>1, <2>2, <2>3, <2>4, KeepType
  <2> QED BY <2>5 DEF Spared
<1>5. Aged'
  <2> SUFFICES ASSUME InOrder, NEW t \in Doomed, NEW l \in log[t]
               PROVE  l + KeepOld + 1 <= launch
    BY DEF Aged, List, InOrder, files, KeepOld
  <2> QED BY DoomedAreOld DEF IInv, List
<1>6. KeepsNewest'
  BY DEF IInv, KeepsNewest, List, InOrder, KeepOld
<1> QED BY <1>2, <1>3, <1>4, <1>5, <1>6 DEF IInv

LEMMA DeleteStep == IInv /\ Delete => IInv'
<1> SUFFICES ASSUME IInv, Delete PROVE IInv'
  OBVIOUS
<1>1. PICK t \in doomed :
        /\ doomed' = doomed \ {t}
        /\ \/ /\ log' = [log EXCEPT ![t] = {}]
              /\ full' = full \ {t}
              /\ pruned' = pruned \cup log[t]
              /\ stuck' = stuck
           \/ /\ stuck' = stuck \cup {t}
              /\ log' = log /\ full' = full /\ pruned' = pruned
  BY DEF Delete
<1>2. /\ step = "delete" /\ t \in Times /\ t \in Sessions
      /\ UNCHANGED <<now, launch, step, path, backups, stamp>>
  BY <1>1 DEF Delete, IInv, TypeOK, Sessions
<1>3. \A r \in Times : log'[r] = log[r] \/ (r = t /\ log'[r] = {})
  BY <1>1, <1>2 DEF IInv, TypeOK
<1>4. \/ stuck' = stuck /\ Sessions' = Sessions \ {t}
      \/ stuck' = stuck \cup {t} /\ Sessions' = Sessions
  <2>1. CASE log' = log /\ stuck' = stuck \cup {t}
    BY <2>1 DEF Sessions
  <2>2. CASE log' = [log EXCEPT ![t] = {}] /\ stuck' = stuck
    BY <1>2, <2>2 DEF Sessions, IInv, TypeOK
  <2> QED BY <1>1, <2>1, <2>2
<1>5. TypeOK'
  <2>1. doomed' \subseteq Sessions' /\ full' \subseteq Sessions' /\ stuck' \subseteq Times
    <3>1. CASE log' = log /\ full' = full /\ stuck' = stuck \cup {t}
      BY <1>1, <1>2, <3>1 DEF Sessions, IInv, TypeOK
    <3>2. CASE log' = [log EXCEPT ![t] = {}] /\ full' = full \ {t} /\ stuck' = stuck
      BY <1>1, <1>2, <1>3, <3>2 DEF Sessions, IInv, TypeOK
    <3> QED BY <1>1, <3>1, <3>2
  <2>2. log' \in [Times -> SUBSET Launches] /\ pruned' \subseteq Launches
    BY <1>1, <1>2 DEF IInv, TypeOK
  <2> QED BY <1>2, <2>1, <2>2 DEF IInv, TypeOK
<1>6. Dated'
  BY <1>1, <1>2, <1>3 DEF IInv, Dated
<1>7. Spared'
  <2>1. Sessions' \ (doomed' \cup stuck' \cup {path'})
          = Sessions \ (doomed \cup stuck \cup {path})
    BY <1>1, <1>2, <1>4
  <2> QED BY <1>2, <2>1 DEF IInv, Spared, KeepOld
<1>8. Aged'
  BY <1>1, <1>2, <1>3 DEF IInv, Aged, InOrder, KeepOld, TypeOK, Sessions
<1>9. KeepsNewest'
  BY <1>1, <1>2 DEF IInv, Aged, KeepsNewest, InOrder, KeepOld
<1> QED BY <1>5, <1>6, <1>7, <1>8, <1>9 DEF IInv

LEMMA NameStep == IInv /\ Name => IInv'
<1> SUFFICES ASSUME IInv, Name PROVE IInv'
  OBVIOUS
<1>1. /\ step = "delete" /\ doomed = {} /\ now \in Times /\ launch \in Launches
      /\ path = NoTime /\ stamp[launch] = NoTime /\ path' = now /\ step' = "log"
      /\ stamp' = [stamp EXCEPT ![launch] = now]
      /\ UNCHANGED <<now, launch, doomed, log, full, backups, stuck, pruned>>
  BY DEF IInv, TypeOK, Dated, Name, files
<1>2. Sessions' = Sessions
  BY <1>1 DEF Sessions
<1>3. TypeOK'
  BY <1>1, <1>2 DEF IInv, TypeOK
<1>4. Dated'
  <2>1. \A t \in Times : launch \notin log[t]
    BY <1>1, BoundsAssumption DEF IInv, Dated, NoTime, Times
  <2>2. \A l \in Launches : l # launch => stamp'[l] = stamp[l]
    BY <1>1 DEF IInv, TypeOK
  <2>3. \A t \in Times : log[t] \subseteq Launches
    BY DEF IInv, TypeOK
  <2>4. stamp'[launch] = now /\ ~ (launch > launch)
    BY <1>1, BoundsAssumption DEF IInv, TypeOK, Launches
  <2>5. \A t \in Times : \A l \in log'[t] : l <= launch' /\ stamp'[l] = t
    BY <1>1, <2>1, <2>2, <2>3 DEF IInv, Dated
  <2>6. \A l \in Launches : l > launch' => stamp'[l] = NoTime
    BY <1>1, <2>2, <2>4 DEF IInv, Dated
  <2> QED BY <1>1, <2>4, <2>5, <2>6 DEF Dated
<1>5. Spared'
  <2>1. /\ Sessions' \ (doomed' \cup stuck' \cup {path'})
             \in SUBSET (Sessions \ (doomed \cup stuck \cup {path}))
        /\ Sessions \ (doomed \cup stuck \cup {path}) \in SUBSET Times
    <3>1. NoTime \notin Times
      BY BoundsAssumption DEF NoTime, Times
    <3> QED BY <1>1, <1>2, <3>1 DEF Sessions
  <2> DEFINE L == Sessions \ (doomed \cup stuck \cup {path})
             M == Sessions' \ (doomed' \cup stuck' \cup {path'})
  <2>2. IsFiniteSet(L) /\ Cardinality(L) \in Nat
    BY <2>1, Finite DEF IInv
  <2>3. Cardinality(L) <= KeepOld
    BY <1>1 DEF IInv, Spared
  <2>4. M \in SUBSET L
    BY <2>1
  <2> HIDE DEF L, M
  <2>5. Cardinality(M) <= Cardinality(L) /\ Cardinality(M) \in Nat
    BY <2>2, <2>4, FS_Subset, FS_CardinalityType
  <2>6. Cardinality(M) <= KeepOld
    BY <2>2, <2>3, <2>5, KeepType
  <2> QED BY <2>6 DEF Spared, KeepOld, M
<1>6. InOrder' => InOrder
  BY <1>1, OrderKept DEF IInv
<1>7. Aged' /\ KeepsNewest'
  BY <1>1, <1>6 DEF IInv, Aged, KeepsNewest, KeepOld
<1> QED BY <1>3, <1>4, <1>5, <1>7 DEF IInv

LEMMA LogStep == IInv /\ Log => IInv'
<1> SUFFICES ASSUME IInv, Log PROVE IInv'
  OBVIOUS
<1>1. /\ step = "log" /\ path \in Times
      /\ launch \in Launches /\ stamp[launch] = path /\ doomed = {}
      /\ UNCHANGED <<now, launch, step, doomed, path, stamp, stuck, pruned>>
  BY DEF IInv, Dated, Log
<1>2. PICK moved \in BOOLEAN, wrote \in BOOLEAN :
        /\ log' = [log EXCEPT ![path] = (IF moved THEN {} ELSE log[path]) \cup
                                        (IF wrote THEN {launch} ELSE {})]
        /\ backups' = IF moved THEN backups \cup {path} ELSE backups
        /\ \/ full' = IF moved THEN full \ {path} ELSE full
           \/ wrote /\ full' = (IF moved THEN full \ {path} ELSE full) \cup {path}
  BY DEF Log
<1>3. /\ \A r \in Times : r # path => log'[r] = log[r]
      /\ log'[path] = (IF moved THEN {} ELSE log[path]) \cup (IF wrote THEN {launch} ELSE {})
  BY <1>1, <1>2 DEF IInv, TypeOK
<1>4. Sessions' \ {path} = Sessions \ {path} /\ (path \in Sessions' <=> log'[path] # {})
  BY <1>1, <1>3 DEF Sessions
<1>5. TypeOK'
  <2>1. log' \in [Times -> SUBSET Launches] /\ backups' \subseteq Times
    BY <1>1, <1>2 DEF IInv, TypeOK
  <2>2. full' \subseteq Sessions'
    <3>1. ASSUME NEW r \in full', r # path PROVE r \in Sessions'
      BY <1>2, <1>4, <3>1 DEF IInv, TypeOK
    <3>2. CASE wrote
      <4>1. path \in Sessions'
        BY <1>3, <1>4, <3>2
      <4> QED BY <3>1, <4>1
    <3>3. CASE ~ wrote /\ ~ moved
      <4>1. path \in Sessions' <=> path \in Sessions
        BY <1>1, <1>3, <1>4, <3>3 DEF Sessions
      <4> QED BY <1>2, <3>1, <3>3, <4>1 DEF IInv, TypeOK
    <3>4. CASE ~ wrote /\ moved
      BY <1>2, <3>1, <3>4
    <3> QED BY <3>2, <3>3, <3>4
  <2> QED BY <1>1, <2>1, <2>2 DEF IInv, TypeOK
<1>6. Dated'
  <2>1. launch <= launch
    BY BoundsAssumption DEF IInv, TypeOK
  <2>2. ASSUME NEW r \in Times, NEW l \in log'[r] PROVE l <= launch /\ stamp[l] = r
    <3>1. CASE r # path
      BY <1>3, <3>1, <2>2 DEF IInv, Dated
    <3>2. CASE r = path
      <4>1. l \in log[path] \/ l = launch
        BY <1>3, <2>2, <3>2
      <4> QED BY <1>1, <2>1, <3>2, <4>1 DEF IInv, Dated
    <3> QED BY <3>1, <3>2
  <2> QED BY <1>1, <2>2 DEF IInv, Dated
<1>7. Spared'
  <2>1. Sessions' \ (doomed' \cup stuck' \cup {path'})
          = Sessions \ (doomed \cup stuck \cup {path})
    BY <1>1, <1>4
  <2> QED BY <1>1, <2>1 DEF IInv, Spared, KeepOld
<1>8. Aged' /\ KeepsNewest'
  BY <1>1 DEF IInv, Aged, KeepsNewest, InOrder, KeepOld
<1> QED BY <1>5, <1>6, <1>7, <1>8 DEF IInv

LEMMA OtherStep == IInv /\ (End \/ Clock \/ UNCHANGED vars) => IInv'
<1> SUFFICES ASSUME IInv, End \/ Clock \/ UNCHANGED vars PROVE IInv'
  OBVIOUS
<1>1. /\ UNCHANGED <<launch, path, log, full, backups, stamp, stuck, pruned>>
      /\ now' \in Times
      /\ \/ UNCHANGED <<step, doomed>>
         \/ step' = "down" /\ doomed' = {}
  BY DEF IInv, TypeOK, End, Clock, vars, files
<1>2. Sessions' = Sessions
  BY <1>1 DEF Sessions
<1>3. TypeOK'
  BY <1>1, <1>2 DEF IInv, TypeOK
<1>4. Dated'
  BY <1>1 DEF IInv, Dated
<1>5. Spared' /\ Aged' /\ KeepsNewest'
  BY <1>1, <1>2 DEF IInv, Spared, Aged, KeepsNewest, InOrder, KeepOld
<1> QED BY <1>3, <1>4, <1>5 DEF IInv

-----------------------------------------------------------------------------
(* The theorems.                                                           *)

\* Between any two steps of the launches (log.h:46-135) the files are named,
\* counted and spared as the invariant says.
THEOREM Invariant == Spec => []IInv
<1>1. IInv /\ [Next]_vars => IInv'
  BY LaunchStep, ListStep, DeleteStep, NameStep, LogStep, OtherStep DEF Next
<1> QED BY <1>1, IInit, PTL DEF Spec

\* What PruneOld has listed, and what is over the limit, exists.
THEOREM TypeCorrect == Spec => []TypeOK
<1>1. IInv => TypeOK
  BY DEF IInv
<1> QED BY <1>1, Invariant, PTL

\* "at most `keep` session logs exist" (log.h:100) and those that could not
\* be deleted, whatever the clock does and for every keep.
THEOREM FilesAreBounded == Spec => []CountBounded
<1>1. IInv => CountBounded
  <2> SUFFICES ASSUME IInv, step = "log"
               PROVE  Cardinality(Sessions) <= KeepOld + 1 + Cardinality(stuck)
    BY DEF CountBounded
  <2> DEFINE L == Sessions \ (doomed \cup stuck \cup {path})
             M == L \cup {path}
  <2>1. /\ L \in SUBSET Times /\ M \in SUBSET Times /\ stuck \in SUBSET Times
        /\ Sessions \in SUBSET (M \cup stuck) /\ Cardinality(L) <= KeepOld
    BY DEF IInv, TypeOK, Dated, Spared, Sessions
  <2>2. /\ IsFiniteSet(L) /\ Cardinality(L) \in Nat
        /\ IsFiniteSet(M) /\ Cardinality(M) \in Nat
        /\ IsFiniteSet(stuck) /\ Cardinality(stuck) \in Nat
    <3> HIDE DEF L, M
    <3> QED BY <2>1, Finite DEF IInv
  <2> HIDE DEF L
  <2>3. Cardinality(M) <= KeepOld + 1
    BY <2>1, <2>2, KeepType, FS_AddElement
  <2> HIDE DEF M
  <2>4. /\ IsFiniteSet(M \cup stuck)
        /\ Cardinality(M \cup stuck) = Cardinality(M) + Cardinality(stuck) - Cardinality(M \cap stuck)
    BY <2>2, FS_Union
  <2>5. M \cap stuck \in SUBSET M /\ Cardinality(M \cap stuck) \in Nat
    BY <2>2, FS_Subset, FS_CardinalityType
  <2>6. Cardinality(Sessions) <= Cardinality(M \cup stuck) /\ Cardinality(Sessions) \in Nat
    BY <2>1, <2>4, FS_Subset, FS_CardinalityType
  <2> QED BY <2>2, <2>3, <2>4, <2>5, <2>6, KeepType
<1> QED BY <1>1, Invariant, PTL

\* "the 15 most recent are kept": unless the clock is set back, PruneOld
\* (log.h:101-120) never takes one of the last Keep launches, those within
\* one second included.
THEOREM NewestAreKept == Spec => []KeepsNewest
<1>1. IInv => KeepsNewest
  BY DEF IInv
<1> QED BY <1>1, Invariant, PTL

=============================================================================
