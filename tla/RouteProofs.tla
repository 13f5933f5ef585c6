---------------------------- MODULE RouteProofs ----------------------------
(***************************************************************************)
(* Theorems about Route and RouteDriver for every set of nodes, every      *)
(* submitted graph and every budget.                                       *)
(*                                                                         *)
(* A node holds its units exactly while it runs, so the units held and the *)
(* units left always add up to the parent's budget.  The route that was    *)
(* accepted has no circle, so as long as it runs and nothing is running, a *)
(* pending node whose predecessors are all settled can be found; this is   *)
(* what execute_route counts on when it looks for the next round.          *)
(***************************************************************************)
EXTENDS RouteDriver, FiniteSetTheorems, WellFoundedInduction, TLAPS

\* The part of the type invariant that is not about the fold.
ShapeOK ==
  /\ state \in [Nodes -> NodeStates]
  /\ attempts \in [Nodes -> Nat]
  /\ retried \subseteq Nodes \X RetryIntents
  /\ reserved \in [Nodes -> Nat]
  /\ status \in Statuses

\* The retries that node n has used up.
Used(n) == {p \in retried : p[1] = n}

AttemptLimit == IF MaxAttempts = 0 THEN 1 ELSE MaxAttempts

\* A node that may still be started has an attempt left for it.
RetriesLeft ==
  \A n \in Nodes :
    LET due == IF state[n] = "Pending" THEN 1 ELSE 0
    IN  /\ attempts[n] + due <= 1 + Cardinality(Used(n))
        /\ attempts[n] + due <= AttemptLimit

\* The inductive invariant.
RouteInv ==
  /\ ShapeOK
  /\ ReservedIffRunning
  /\ StoppedMeansQuiet
  /\ IsFiniteSet(retried)
  /\ RetriesLeft

-----------------------------------------------------------------------------
\* RouteRuntime::new establishes the invariant.
LEMMA InitRoute == Init => RouteInv
<1> SUFFICES ASSUME Init PROVE RouteInv
  OBVIOUS
<1>1. ShapeOK
  BY DEF Init, ShapeOK, NodeStates, Statuses
<1>2. ReservedIffRunning
  BY DEF Init, ReservedIffRunning
<1>3. StoppedMeansQuiet
  BY DEF Init, StoppedMeansQuiet, Unfinished
<1>4. IsFiniteSet(retried)
  BY FS_EmptySet DEF Init
<1>5. RetriesLeft
  <2> SUFFICES ASSUME NEW n \in Nodes
               PROVE  attempts[n] + 1 <= 1 + Cardinality(Used(n)) /\ attempts[n] + 1 <= AttemptLimit
    BY DEF RetriesLeft, Init
  <2>1. Used(n) = {}
    BY DEF Used, Init
  <2>2. Cardinality(Used(n)) = 0
    BY <2>1, FS_EmptySet
  <2> QED
    BY <2>2, RouteAssumption DEF Init, AttemptLimit
<1> QED
  BY <1>1, <1>2, <1>3, <1>4, <1>5 DEF RouteInv

\* Every operation keeps the maps' types.
LEMMA StepKeepsShape == RouteInv /\ [Next]_vars => ShapeOK'
<1> SUFFICES ASSUME RouteInv, [Next]_vars PROVE ShapeOK'
  OBVIOUS
<1> USE DEF RouteInv, ShapeOK, NodeStates, Statuses
<1>1. ASSUME NEW n \in Nodes, Start(n) PROVE ShapeOK'
  <2>1. Cost[n] \in Nat /\ attempts[n] + 1 \in Nat
    BY RouteAssumption
  <2>2. reserved' \in [Nodes -> Nat] /\ attempts' \in [Nodes -> Nat]
    BY <1>1, <2>1 DEF Start
  <2> QED
    BY <1>1, <2>2 DEF Start
<1>2. ASSUME NEW n \in Nodes, Complete(n) PROVE ShapeOK'
  BY <1>2 DEF Complete, Release
<1>3. ASSUME NEW n \in Nodes, Fail(n) PROVE ShapeOK'
  BY <1>3 DEF Fail, Release, CancelUnfinished
<1>4. ASSUME NEW n \in Nodes, RetryUnknown(n) PROVE ShapeOK'
  BY <1>4 DEF RetryUnknown
<1>5. ASSUME NEW n \in Nodes, NEW i \in RetryIntents, Retry(n, i) PROVE ShapeOK'
  BY <1>5 DEF Retry
<1>6. ASSUME CancelParent PROVE ShapeOK'
  BY <1>6 DEF CancelParent, Release, CancelUnfinished
<1>7. CASE UNCHANGED vars
  BY <1>7 DEF vars
<1> QED
  BY <1>1, <1>2, <1>3, <1>4, <1>5, <1>6, <1>7 DEF Next

\* Every operation gives back the units of the nodes it stops, and of no
\* other.
LEMMA StepKeepsReservations == RouteInv /\ [Next]_vars => ReservedIffRunning'
<1> SUFFICES ASSUME RouteInv, [Next]_vars PROVE ReservedIffRunning'
  OBVIOUS
<1> USE DEF RouteInv, ShapeOK, ReservedIffRunning
<1>1. ASSUME NEW n \in Nodes, Start(n) PROVE ReservedIffRunning'
  BY <1>1 DEF Start, Runnable
<1>2. ASSUME NEW n \in Nodes, Complete(n) PROVE ReservedIffRunning'
  BY <1>2 DEF Complete, Release
<1>3. ASSUME NEW n \in Nodes, Fail(n) PROVE ReservedIffRunning'
  BY <1>3 DEF Fail, Release, CancelUnfinished, Unfinished
<1>4. ASSUME NEW n \in Nodes, RetryUnknown(n) PROVE ReservedIffRunning'
  BY <1>4 DEF RetryUnknown
<1>5. ASSUME NEW n \in Nodes, NEW i \in RetryIntents, Retry(n, i) PROVE ReservedIffRunning'
  BY <1>5 DEF Retry
<1>6. ASSUME CancelParent PROVE ReservedIffRunning'
  BY <1>6 DEF CancelParent, Release, CancelUnfinished, Unfinished
<1>7. CASE UNCHANGED vars
  BY <1>7 DEF vars
<1> QED
  BY <1>1, <1>2, <1>3, <1>4, <1>5, <1>6, <1>7 DEF Next

\* A route that stopped has nothing left to run, and what would run again
\* reopens the route.
LEMMA StepKeepsQuiet == RouteInv /\ [Next]_vars => StoppedMeansQuiet'
<1> SUFFICES ASSUME RouteInv, [Next]_vars PROVE StoppedMeansQuiet'
  OBVIOUS
<1> USE DEF RouteInv, ShapeOK, StoppedMeansQuiet, Unfinished
<1>1. ASSUME NEW n \in Nodes, Start(n) PROVE StoppedMeansQuiet'
  BY <1>1 DEF Start, Runnable
<1>2. ASSUME NEW n \in Nodes, Complete(n) PROVE StoppedMeansQuiet'
  BY <1>2 DEF Complete, AllTolerated
<1>3. ASSUME NEW n \in Nodes, Fail(n) PROVE StoppedMeansQuiet'
  BY <1>3 DEF Fail, CancelUnfinished
<1>4. ASSUME NEW n \in Nodes, RetryUnknown(n) PROVE StoppedMeansQuiet'
  BY <1>4 DEF RetryUnknown
<1>5. ASSUME NEW n \in Nodes, NEW i \in RetryIntents, Retry(n, i) PROVE StoppedMeansQuiet'
  BY <1>5 DEF Retry
<1>6. ASSUME CancelParent PROVE StoppedMeansQuiet'
  BY <1>6 DEF CancelParent, CancelUnfinished
<1>7. CASE UNCHANGED vars
  BY <1>7 DEF vars
<1> QED
  BY <1>1, <1>2, <1>3, <1>4, <1>5, <1>6, <1>7 DEF Next

\* A retry uses up one intent of its node and opens at most one attempt.
LEMMA RetryKeepsLeft ==
  ASSUME RouteInv, NEW n \in Nodes, NEW i \in RetryIntents, Retry(n, i)
  PROVE  IsFiniteSet(retried') /\ RetriesLeft'
<1> USE DEF RouteInv, ShapeOK
<1>1. IsFiniteSet(retried')
  BY FS_AddElement DEF Retry
<1>2. ASSUME NEW m \in Nodes
      PROVE  LET due == IF state'[m] = "Pending" THEN 1 ELSE 0
             IN  /\ attempts'[m] + due <= 1 + Cardinality(Used(m)')
                 /\ attempts'[m] + due <= AttemptLimit
  <2>1. IsFiniteSet(Used(m)) /\ IsFiniteSet(Used(m)')
    BY <1>1, FS_Subset DEF Used
  <2>2. Cardinality(Used(m)) \in Nat /\ Cardinality(Used(m)') \in Nat
    BY <2>1, FS_CardinalityType
  <2>3. Cardinality(Used(m)) <= Cardinality(Used(m)')
    <3>1. Used(m) \subseteq Used(m)'
      BY DEF Used, Retry
    <3> QED
      BY <3>1, <2>1, FS_Subset
  <2>4. CASE m = n /\ NewIntent(n, i) /\ attempts[n] < MaxAttempts
    <3>1. Used(m)' = Used(m) \cup {<<n, i>>} /\ <<n, i>> \notin Used(m)
      BY <2>4 DEF Used, Retry, NewIntent
    <3>2. Cardinality(Used(m)') = Cardinality(Used(m)) + 1
      BY <3>1, <2>1, FS_AddElement
    <3>3. state[n] = "Failed" /\ attempts' = attempts
      BY DEF Retry
    <3>4. attempts[n] <= 1 + Cardinality(Used(n)) /\ attempts[n] \in Nat
      BY <3>3, <2>2, <2>4 DEF RetriesLeft
    <3>5. attempts[n] + 1 <= AttemptLimit
      BY <3>4, <2>4, RouteAssumption DEF AttemptLimit
    <3> QED
      BY <3>2, <3>3, <3>4, <3>5, <2>2, <2>4, RouteAssumption DEF AttemptLimit
  <2>5. CASE ~(m = n /\ NewIntent(n, i) /\ attempts[n] < MaxAttempts)
    <3>1. state'[m] = state[m] /\ attempts'[m] = attempts[m]
      BY <2>5 DEF Retry
    <3> QED
      BY <3>1, <2>2, <2>3, RouteAssumption DEF RetriesLeft, AttemptLimit
  <2> QED
    BY <2>4, <2>5
<1> QED
  BY <1>1, <1>2 DEF RetriesLeft, AttemptLimit

\* No other operation adds an attempt that was not due.
LEMMA StepKeepsLeft == RouteInv /\ [Next]_vars => IsFiniteSet(retried') /\ RetriesLeft'
<1> SUFFICES ASSUME RouteInv, [Next]_vars PROVE IsFiniteSet(retried') /\ RetriesLeft'
  OBVIOUS
<1>c. \A n \in Nodes : Cardinality(Used(n)) \in Nat
  <2> TAKE n \in Nodes
  <2>1. IsFiniteSet(Used(n))
    BY FS_Subset DEF RouteInv, Used
  <2> QED
    BY <2>1, FS_CardinalityType
<1> DEFINE Keeps == /\ retried' = retried
                    /\ \A n \in Nodes : LET due == IF state[n] = "Pending" THEN 1 ELSE 0
                                            next == IF state'[n] = "Pending" THEN 1 ELSE 0
                                        IN  attempts'[n] + next <= attempts[n] + due /\ attempts'[n] \in Nat
<1>k. ASSUME Keeps PROVE IsFiniteSet(retried') /\ RetriesLeft'
  <2>1. \A n \in Nodes : Used(n)' = Used(n)
    BY <1>k DEF Used
  <2>2. AttemptLimit \in Nat
    BY RouteAssumption DEF AttemptLimit
  <2> QED
    BY <1>k, <2>1, <2>2, <1>c DEF RouteInv, ShapeOK, RetriesLeft, AttemptLimit
<1> USE DEF RouteInv, ShapeOK
<1>1. ASSUME NEW n \in Nodes, Start(n) PROVE Keeps
  BY <1>1 DEF Start, Runnable
<1>2. ASSUME NEW n \in Nodes, Complete(n) PROVE Keeps
  BY <1>2 DEF Complete
<1>3. ASSUME NEW n \in Nodes, Fail(n) PROVE Keeps
  BY <1>3 DEF Fail, CancelUnfinished
<1>4. ASSUME NEW n \in Nodes, RetryUnknown(n) PROVE Keeps
  BY <1>4 DEF RetryUnknown
<1>5. ASSUME NEW n \in Nodes, NEW i \in RetryIntents, Retry(n, i)
      PROVE  IsFiniteSet(retried') /\ RetriesLeft'
  BY <1>5, RetryKeepsLeft
<1>6. ASSUME CancelParent PROVE Keeps
  BY <1>6 DEF CancelParent, CancelUnfinished
<1>7. ASSUME UNCHANGED vars PROVE Keeps
  BY <1>7 DEF vars
<1> HIDE DEF Keeps
<1> QED
  BY <1>1, <1>2, <1>3, <1>4, <1>5, <1>6, <1>7, <1>k DEF Next

\* RouteInv is an invariant of every route.
LEMMA RouteInvariant == Spec => []RouteInv
<1>1. RouteInv /\ [Next]_vars => RouteInv'
  BY StepKeepsShape, StepKeepsReservations, StepKeepsQuiet, StepKeepsLeft DEF RouteInv
<1> QED
  BY <1>1, InitRoute, PTL DEF Spec

-----------------------------------------------------------------------------
(* The ledger                                                              *)

LedgerOK ==
  /\ remaining \in Nat /\ IsFiniteSet(Units(Nodes))
  /\ BudgetConserved

\* Sets that share nothing.
LEMMA DisjointSizes ==
  ASSUME NEW S, NEW T, IsFiniteSet(S), IsFiniteSet(T), S \cap T = {}
  PROVE  IsFiniteSet(S \cup T) /\ Cardinality(S \cup T) = Cardinality(S) + Cardinality(T)
<1>1. IsFiniteSet(S \cup T) /\ Cardinality(S \cup T) = Cardinality(S) + Cardinality(T) - Cardinality(S \cap T)
  BY FS_Union
<1>2. Cardinality(S \cap T) = 0
  BY FS_EmptySet
<1>3. Cardinality(S) \in Nat /\ Cardinality(T) \in Nat
  BY FS_CardinalityType
<1> QED BY <1>1, <1>2, <1>3

\* BudgetLedger::release: what a node gives back it no longer holds.
LEMMA ReleaseConserves ==
  ASSUME LedgerOK, reserved \in [Nodes -> Nat], NEW ns \in SUBSET Nodes, Release(ns)
  PROVE  LedgerOK'
<1> DEFINE back == Units(ns)
           kept == Units(Nodes \ ns)
<1>1. Units(Nodes) = back \cup kept /\ back \cap kept = {}
  BY DEF Units
<1>2. Units(Nodes)' = kept
  BY DEF Units, Release
<1>3. IsFiniteSet(back) /\ IsFiniteSet(kept)
  BY <1>1, FS_Subset DEF LedgerOK
<1>4. Cardinality(Units(Nodes)) = Cardinality(back) + Cardinality(kept)
  BY <1>1, <1>3, DisjointSizes
<1>5. Cardinality(back) \in Nat /\ Cardinality(kept) \in Nat
  BY <1>3, FS_CardinalityType
<1>6. remaining' = remaining + Cardinality(back)
  BY DEF Release
<1> QED BY <1>2, <1>3, <1>4, <1>5, <1>6, RouteAssumption DEF LedgerOK, BudgetConserved

\* BudgetLedger::reserve: a node takes units that are there.
LEMMA ReserveConserves ==
  ASSUME LedgerOK, reserved \in [Nodes -> Nat], NEW n \in Nodes, Start(n)
  PROVE  LedgerOK'
<1> DEFINE taken == {n} \X (1..Cost[n])
<1>1. Cost[n] \in Nat /\ reserved[n] = 0 /\ Cost[n] <= remaining /\ remaining' = remaining - Cost[n]
      /\ reserved' = [reserved EXCEPT ![n] = Cost[n]]
  BY RouteAssumption DEF Start, Affordable
<1>2. Units(Nodes)' = Units(Nodes) \cup taken
  <2>1. \A m \in Nodes : reserved'[m] = IF m = n THEN Cost[n] ELSE reserved[m]
    BY <1>1
  <2>2. 1..reserved[n] = {}
    BY <1>1
  <2> QED BY <2>1, <2>2 DEF Units
<1>3. Units(Nodes) \cap taken = {}
  <2>1. 1..reserved[n] = {}
    BY <1>1
  <2>2. \A u \in Units(Nodes) : u[1] # n
    BY <2>1 DEF Units
  <2>3. \A u \in taken : u[1] = n
    OBVIOUS
  <2> HIDE DEF taken
  <2> QED BY <2>2, <2>3
<1>4. IsFiniteSet(taken) /\ Cardinality(taken) = Cost[n]
  <2>1. PICK c \in Nat : c = Cost[n]
    BY <1>1
  <2>2. IsFiniteSet(1..c) /\ Cardinality(1..c) = c
    <3>1. 1 \in Int /\ c \in Int
      OBVIOUS
    <3>2. IsFiniteSet(1..c) /\ Cardinality(1..c) = IF 1 > c THEN 0 ELSE c - 1 + 1
      BY <3>1, FS_Interval
    <3> QED BY <3>2
  <2>3. IsFiniteSet({n}) /\ Cardinality({n}) = 1
    BY FS_Singleton
  <2>4. IsFiniteSet({n} \X (1..c)) /\ Cardinality({n} \X (1..c)) = Cardinality({n}) * Cardinality(1..c)
    BY <2>2, <2>3, FS_Product
  <2>5. Cardinality({n} \X (1..c)) = c
    BY <2>2, <2>3, <2>4
  <2> QED BY <2>1, <2>4, <2>5
<1>5. IsFiniteSet(Units(Nodes) \cup taken) /\ Cardinality(Units(Nodes) \cup taken) = Cardinality(Units(Nodes)) + Cost[n]
  <2> HIDE DEF taken
  <2>1. IsFiniteSet(Units(Nodes))
    BY DEF LedgerOK
  <2> QED BY <1>3, <1>4, <2>1, DisjointSizes
<1>6. Cardinality(Units(Nodes)) \in Nat
  BY FS_CardinalityType DEF LedgerOK
<1>7. remaining \in Nat /\ remaining + Cardinality(Units(Nodes)) = Total
  BY DEF LedgerOK, BudgetConserved
<1>8. remaining' \in Nat /\ remaining' + (Cardinality(Units(Nodes)) + Cost[n]) = Total
  BY <1>1, <1>6, <1>7
<1> HIDE DEF taken
<1>9. IsFiniteSet(Units(Nodes)') /\ Cardinality(Units(Nodes)') = Cardinality(Units(Nodes)) + Cost[n]
  BY <1>2, <1>5
<1> QED BY <1>8, <1>9 DEF LedgerOK, BudgetConserved

\* The units held and the units left add up through every operation.
LEMMA StepConserves == RouteInv /\ LedgerOK /\ [Next]_vars => LedgerOK'
<1> SUFFICES ASSUME RouteInv, LedgerOK, [Next]_vars PROVE LedgerOK'
  OBVIOUS
<1>1. reserved \in [Nodes -> Nat]
  BY DEF RouteInv, ShapeOK
<1>2. ASSUME UNCHANGED <<remaining, reserved>> PROVE LedgerOK'
  BY <1>2 DEF LedgerOK, BudgetConserved, Units
<1>3. ASSUME NEW n \in Nodes, Start(n) PROVE LedgerOK'
  BY <1>1, <1>3, ReserveConserves
<1>4. \A ns : ns \in SUBSET Nodes /\ Release(ns) => LedgerOK'
  BY <1>1, ReleaseConserves
<1>5. PICK ns \in SUBSET Nodes : ns = Unfinished
  BY DEF Unfinished
<1>6. Release(Unfinished) => LedgerOK'
  BY <1>4, <1>5
<1>7. ASSUME NEW n \in Nodes, Complete(n) \/ Fail(n) PROVE LedgerOK'
  <2>1. Release({n}) \/ Release(Unfinished)
    BY <1>7 DEF Complete, Fail
  <2> QED BY <1>4, <1>6, <2>1
<1>8. \/ \E n \in Nodes : Start(n) \/ Complete(n) \/ Fail(n)
      \/ Release(Unfinished)
      \/ UNCHANGED <<remaining, reserved>>
  BY DEF Next, vars, RetryUnknown, Retry, CancelParent
<1> QED BY <1>2, <1>3, <1>6, <1>7, <1>8

\* RouteRuntime::new: nothing is held.
LEMMA InitLedger == Init => LedgerOK
<1> SUFFICES ASSUME Init PROVE LedgerOK
  OBVIOUS
<1>1. Units(Nodes) = {}
  <2>1. \A n \in Nodes : reserved[n] = 0
    BY DEF Init
  <2>2. \A n \in Nodes : 1..reserved[n] = {}
    BY <2>1
  <2> QED BY <2>2 DEF Units
<1>2. IsFiniteSet({}) /\ Cardinality({}) = 0
  BY FS_EmptySet
<1> QED BY <1>1, <1>2, RouteAssumption DEF LedgerOK, BudgetConserved, Init

-----------------------------------------------------------------------------
(* Removing nodes round by round                                           *)

\* A set of naturals has a least member.
LEMMA LeastOf ==
  ASSUME NEW S, S \subseteq Nat, S # {}
  PROVE  \E m \in S : \A n \in S : m <= n
<1>1. PICK m \in S : \A n \in S : ~ (<<n, m>> \in OpToRel(<, Nat))
  BY NatLessThanWellFounded, WFMin
<1>2. \A n \in S : ~ (n < m)
  BY <1>1 DEF OpToRel
<1> QED BY <1>2

\* What is removed after k rounds, if f[k - 1] is after one less.
After(g, f, k) ==
  IF k = 0 THEN {} ELSE {n \in Nodes : \A e \in g : e.to = n => e.from \in f[k - 1]}

Follows(g, f, k) == f = [j \in 0..k |-> After(g, f, j)]

\* The rounds can be gone through one after the other.
LEMMA RoundsExist ==
  ASSUME NEW g, NEW k \in Nat
  PROVE  \E f : Follows(g, f, k)
<1> DEFINE bad == {j \in Nat : ~\E f : Follows(g, f, j)}
<1>1. ASSUME bad # {} PROVE FALSE
  <2>1. PICK m \in bad : \A j \in bad : m <= j
    BY <1>1, LeastOf
  <2>2. m \in Nat /\ ~\E f : Follows(g, f, m)
    OBVIOUS
  <2>3. m # 0
    <3> DEFINE f == [j \in 0..0 |-> {}]
    <3>1. Follows(g, f, 0)
      BY DEF Follows, After
    <3> QED BY <2>2, <3>1
  <2>4. m - 1 \in Nat /\ m - 1 \notin bad
    BY <2>1, <2>2, <2>3
  <2>5. PICK f : Follows(g, f, m - 1)
    BY <2>4
  <2> DEFINE h == [j \in 0..m |-> IF j = m THEN After(g, f, m) ELSE f[j]]
  <2>6. \A j \in 0..m : h[j] = After(g, h, j)
    <3> TAKE j \in 0..m
    <3>1. CASE j = m
      <4>1. h[m - 1] = f[m - 1] /\ m \in 0..m
        BY <2>2, <2>3
      <4> QED BY <2>2, <3>1, <4>1 DEF After
    <3>2. CASE j # m
      <4>1. j \in 0..(m - 1) /\ h[j] = f[j]
        BY <2>2, <3>2
      <4>2. f[j] = After(g, f, j)
        BY <2>5, <4>1 DEF Follows
      <4>3. j # 0 => h[j - 1] = f[j - 1]
        BY <2>2, <3>2
      <4> QED BY <4>1, <4>2, <4>3 DEF After
    <3> QED BY <3>1, <3>2
  <2>7. Follows(g, h, m)
    BY <2>6 DEF Follows
  <2> QED BY <2>2, <2>7
<1> QED BY <1>1

\* validate_route: each round removes what has lost its predecessors.
LEMMA RemovedRounds ==
  ASSUME NEW g, Cardinality(Nodes) \in Nat
  PROVE  \A k \in 0..Cardinality(Nodes) : Removed(g)[k] = After(g, Removed(g), k)
<1> DEFINE Fits(h) == h = [k \in 0..Cardinality(Nodes) |->
                             IF k = 0 THEN {} ELSE {n \in Nodes : \A e \in g : e.to = n => e.from \in h[k - 1]}]
<1>1. Removed(g) = CHOOSE h : Fits(h)
  BY DEF Removed
<1>2. PICK f : Follows(g, f, Cardinality(Nodes))
  BY RoundsExist
<1>3. Fits(f)
  BY <1>2 DEF Follows, After
<1> HIDE DEF Fits
<1>4. Fits(Removed(g))
  BY <1>1, <1>3
<1>5. Removed(g) = [k \in 0..Cardinality(Nodes) |-> After(g, Removed(g), k)]
  BY <1>4 DEF Fits, After
<1> QED BY <1>5

\* Nodes that each have a predecessor among them.
Circle(g, S) == S # {} /\ S \subseteq Nodes /\ \A n \in S : \E e \in g : e.to = n /\ e.from \in S

\* A circle is never removed.
LEMMA CirclesStay ==
  ASSUME NEW g, Cardinality(Nodes) \in Nat, NEW S, Circle(g, S), NEW k \in 0..Cardinality(Nodes)
  PROVE  S \cap Removed(g)[k] = {}
<1> DEFINE bad == {j \in 0..Cardinality(Nodes) : S \cap Removed(g)[j] # {}}
<1>1. ASSUME bad # {} PROVE FALSE
  <2>1. bad \subseteq Nat
    OBVIOUS
  <2>2. PICK m \in bad : \A j \in bad : m <= j
    BY <1>1, <2>1, LeastOf
  <2>3. PICK n \in S : n \in After(g, Removed(g), m)
    BY <2>2, RemovedRounds
  <2>4. m # 0
    BY <2>3 DEF After
  <2>5. PICK e \in g : e.to = n /\ e.from \in S
    BY DEF Circle
  <2>6. e.from \in Removed(g)[m - 1]
    BY <2>3, <2>4, <2>5 DEF After
  <2>7. m - 1 \in bad /\ ~(m <= m - 1)
    BY <2>4, <2>5, <2>6
  <2> QED BY <2>2, <2>7
<1> QED BY <1>1

\* What is removed stays removed.
LEMMA RemovedGrows ==
  ASSUME NEW g, Cardinality(Nodes) \in Nat, NEW k \in 0..Cardinality(Nodes), k # 0
  PROVE  Removed(g)[k - 1] \subseteq Removed(g)[k]
<1> DEFINE bad == {j \in 1..Cardinality(Nodes) : ~(Removed(g)[j - 1] \subseteq Removed(g)[j])}
<1>1. ASSUME bad # {} PROVE FALSE
  <2>1. bad \subseteq Nat
    OBVIOUS
  <2>2. PICK m \in bad : \A j \in bad : m <= j
    BY <1>1, <2>1, LeastOf
  <2>3. /\ m \in 0..Cardinality(Nodes) /\ m - 1 \in 0..Cardinality(Nodes) /\ m # 0
        /\ ~(Removed(g)[m - 1] \subseteq Removed(g)[m])
    OBVIOUS
  <2>4. PICK n : n \in Removed(g)[m - 1] /\ n \notin Removed(g)[m]
    BY <2>3
  <2>5. n \in After(g, Removed(g), m - 1) /\ n \notin After(g, Removed(g), m)
    BY <2>3, <2>4, RemovedRounds
  <2>6. m - 1 # 0
    BY <2>5 DEF After
  <2>7. n \in Nodes /\ \A e \in g : e.to = n => e.from \in Removed(g)[m - 2]
    BY <2>3, <2>5, <2>6 DEF After
  <2>8. PICK e \in g : e.to = n /\ e.from \notin Removed(g)[m - 1]
    BY <2>3, <2>5, <2>7 DEF After
  <2>9. ~(Removed(g)[m - 2] \subseteq Removed(g)[m - 1])
    BY <2>7, <2>8
  <2>10. m - 1 \in bad /\ ~(m <= m - 1)
    BY <2>3, <2>6, <2>9
  <2> QED BY <2>2, <2>10
<1> QED BY <1>1

\* Without a circle each round removes a node, until none is left.
LEMMA RoundsRemove ==
  ASSUME NEW g \in SUBSET Edge, IsFiniteSet(Nodes), \A S : ~Circle(g, S), NEW k \in 0..Cardinality(Nodes)
  PROVE  Removed(g)[k] \subseteq Nodes /\ Cardinality(Removed(g)[k]) >= k
<1>1. Cardinality(Nodes) \in Nat
  BY FS_CardinalityType
<1>2. ASSUME NEW j \in 0..Cardinality(Nodes) PROVE Removed(g)[j] \subseteq Nodes /\ IsFiniteSet(Removed(g)[j]) /\ Cardinality(Removed(g)[j]) \in Nat
  <2>1. Removed(g)[j] = After(g, Removed(g), j)
    BY <1>1, RemovedRounds
  <2>2. Removed(g)[j] \subseteq Nodes
    BY <2>1 DEF After
  <2>3. IsFiniteSet(Removed(g)[j])
    BY <2>2, FS_Subset
  <2> QED BY <2>2, <2>3, FS_CardinalityType
<1> DEFINE bad == {j \in 0..Cardinality(Nodes) : ~(Cardinality(Removed(g)[j]) >= j)}
<1>3. ASSUME bad # {} PROVE FALSE
  <2>1. bad \subseteq Nat
    BY <1>1
  <2>2. PICK m \in bad : \A j \in bad : m <= j
    BY <1>3, <2>1, LeastOf
  <2>3. m \in 0..Cardinality(Nodes) /\ m \in Nat /\ ~(Cardinality(Removed(g)[m]) >= m)
    BY <1>1
  <2>4. m # 0 /\ m - 1 \in 0..Cardinality(Nodes)
    BY <1>1, <1>2, <2>3
  <2>5. Cardinality(Removed(g)[m - 1]) >= m - 1
    BY <2>2, <2>4
  <2> DEFINE before == Removed(g)[m - 1]
             now == Removed(g)[m]
  <2>6. before \subseteq now /\ before \subseteq Nodes /\ now \subseteq Nodes /\ IsFiniteSet(now)
    BY <1>1, <1>2, <2>3, <2>4, RemovedGrows
  <2>7. CASE before = now
    <3>1. \A n \in Nodes \ before : \E e \in g : e.to = n /\ e.from \notin before
      <4>1. now = After(g, Removed(g), m)
        BY <1>1, <2>3, RemovedRounds
      <4> QED BY <2>4, <2>7, <4>1 DEF After
    <3>2. \A e \in g : e.from \in Nodes
      BY DEF Edge
    <3>3. Nodes \ before = {}
      <4> DEFINE rest == Nodes \ before
      <4>1. rest = {} \/ Circle(g, rest)
        BY <3>1, <3>2 DEF Circle
      <4> QED BY <4>1
    <3>4. now = Nodes
      BY <2>6, <2>7, <3>3
    <3> QED BY <1>1, <2>3, <3>4
  <2>8. CASE before # now
    <3>1. Cardinality(before) <= Cardinality(now) /\ Cardinality(before) # Cardinality(now)
      BY <2>6, <2>8, FS_Subset
    <3> QED BY <1>1, <1>2, <2>3, <2>4, <2>5, <3>1
  <2> QED BY <2>7, <2>8
<1> QED BY <1>1, <1>2, <1>3

\* validate_route accepts a graph exactly if it has no circle.
LEMMA ValidIsAcyclic ==
  ASSUME NEW g \in SUBSET Edge
  PROVE  ValidRoute(g) <=> \A S : ~Circle(g, S)
<1>1. IsFiniteSet(Nodes) /\ Cardinality(Nodes) \in Nat
  BY RouteAssumption, FS_CardinalityType DEF RouteAssumption
<1>2. ASSUME ValidRoute(g), NEW S, Circle(g, S) PROVE FALSE
  <2>1. S \cap Removed(g)[Cardinality(Nodes)] = {}
    BY <1>1, <1>2, CirclesStay
  <2> QED BY <1>2, <2>1 DEF ValidRoute, Circle
<1>3. ASSUME \A S : ~Circle(g, S) PROVE ValidRoute(g)
  <2>1. NoSelfLoop(g)
    <3> SUFFICES ASSUME NEW e \in g, e.from = e.to PROVE FALSE
      BY DEF NoSelfLoop
    <3>1. Circle(g, {e.to})
      BY DEF Circle, Edge
    <3> QED BY <1>3, <3>1
  <2>2. Removed(g)[Cardinality(Nodes)] \subseteq Nodes /\ Cardinality(Removed(g)[Cardinality(Nodes)]) >= Cardinality(Nodes)
    BY <1>1, <1>3, RoundsRemove
  <2>3. Removed(g)[Cardinality(Nodes)] = Nodes
    <3> DEFINE last == Removed(g)[Cardinality(Nodes)]
    <3>1. IsFiniteSet(last) /\ Cardinality(last) <= Cardinality(Nodes) /\ (Cardinality(Nodes) = Cardinality(last) => Nodes = last)
      BY <1>1, <2>2, FS_Subset
    <3>2. Cardinality(last) \in Nat
      BY <3>1, FS_CardinalityType
    <3> QED BY <1>1, <2>2, <3>1, <3>2
  <2> QED BY <2>1, <2>3 DEF ValidRoute
<1> QED BY <1>2, <1>3

-----------------------------------------------------------------------------
(* Which routes are accepted                                               *)

\* The edges never change, nor does the verdict on them; a rejected route has
\* no runtime.
GraphOK ==
  /\ edges \in SUBSET Edge
  /\ status = "Rejected" <=> ~ValidRoute(edges)
  /\ status = "Rejected" => \A n \in Nodes : state[n] = "Pending"

\* RouteRuntime::new, validate_route.
LEMMA InitGraph == Init => GraphOK
BY RouteAssumption DEF Init, GraphOK, RouteAssumption

\* No operation makes or unmakes a rejected route.
LEMMA StepKeepsGraph == RouteInv /\ GraphOK /\ [Next]_vars => GraphOK'
<1> SUFFICES ASSUME RouteInv, GraphOK, [Next]_vars PROVE GraphOK'
  OBVIOUS
<1>1. PICK valid \in BOOLEAN : ValidRoute(edges) <=> valid = TRUE
  OBVIOUS
<1>2. edges' = edges
  BY DEF Next, vars, Start, Complete, Fail, RetryUnknown, Retry, CancelParent
<1>3. ValidRoute(edges)' <=> valid = TRUE
  BY <1>1, <1>2
<1>4. /\ status' = "Rejected" <=> status = "Rejected"
      /\ status = "Rejected" => state' = state
  BY DEF RouteInv, GraphOK, Next, vars, Start, Complete, Fail, RetryUnknown, Retry, CancelParent, Runnable
<1> QED BY <1>1, <1>2, <1>3, <1>4 DEF GraphOK

\* validate_route, BudgetLedger: the graph and the ledger at every time.
LEMMA GraphFollows == RouteInv /\ LedgerOK /\ GraphOK => RouteIsSound
<1> SUFFICES ASSUME RouteInv, LedgerOK, GraphOK PROVE RouteIsSound
  OBVIOUS
<1>1. PICK g \in SUBSET Edge : g = edges
  BY DEF GraphOK
<1>2. ValidRoute(g) <=> \A S : ~Circle(g, S)
  BY ValidIsAcyclic
<1>3. (\E S : Circle(g, S)) <=>
        \E S \in (SUBSET Nodes) \ {{}} : \A n \in S : \E e \in g : e.to = n /\ e.from \in S
  BY DEF Circle
<1>4. AcceptsAcyclic
  BY <1>1, <1>2, <1>3 DEF AcceptsAcyclic, GraphOK
<1> QED BY <1>1, <1>4 DEF RouteIsSound, TypeOK, RouteInv, ShapeOK, LedgerOK

-----------------------------------------------------------------------------
\* BudgetLedger: for every route, a node holds its units exactly while it
\* runs.
THEOREM UnitsFollowNodes == Spec => []ReservedIffRunning
<1>1. RouteInv => ReservedIffRunning
  BY DEF RouteInv
<1> QED
  BY <1>1, RouteInvariant, PTL

\* cancel_parent, fail, complete: a route that is cancelled, completed or to
\* be planned again has no node that runs or can be started.
THEOREM StoppedRoutesAreQuiet == Spec => []StoppedMeansQuiet
<1>1. RouteInv => StoppedMeansQuiet
  BY DEF RouteInv
<1> QED
  BY <1>1, RouteInvariant, PTL

\* retry: a node runs at most once per retry intent more than once, and never
\* more often than max_attempts allows.
THEOREM RetriesStayBounded == Spec => []RetriesAreBounded
<1>1. RouteInv => RetriesAreBounded
  <2> SUFFICES ASSUME RouteInv, NEW n \in Nodes
               PROVE  /\ attempts[n] <= 1 + Cardinality(Used(n))
                      /\ attempts[n] <= AttemptLimit
    BY DEF RetriesAreBounded, Used, AttemptLimit
  <2>1. IsFiniteSet(Used(n))
    BY FS_Subset DEF RouteInv, Used
  <2>2. Cardinality(Used(n)) \in Nat
    BY <2>1, FS_CardinalityType
  <2> QED
    BY <2>2, RouteAssumption DEF RouteInv, ShapeOK, RetriesLeft, AttemptLimit
<1> QED
  BY <1>1, RouteInvariant, PTL

\* RouteRuntime: units, stopped routes and retries together.
THEOREM RuntimeStaysSound == Spec => []RuntimeIsSound
BY UnitsFollowNodes, StoppedRoutesAreQuiet, RetriesStayBounded, PTL DEF RuntimeIsSound

\* validate_route, BudgetLedger: for every graph that is submitted, only an
\* acyclic one is accepted, and of the parent's budget no unit is ever lost or
\* made up.
THEOREM RouteStaysSound == Spec => []RouteIsSound
<1>1. Init => LedgerOK /\ GraphOK
  BY InitLedger, InitGraph
<1>2. RouteInv /\ LedgerOK /\ GraphOK /\ [Next]_vars => LedgerOK' /\ GraphOK'
  BY StepConserves, StepKeepsGraph
<1> QED BY <1>1, <1>2, RouteInvariant, GraphFollows, PTL DEF Spec
-----------------------------------------------------------------------------
(* execute_route                                                           *)

\* While the route runs, what failed is tolerated by all that depends on it,
\* and nothing has been cancelled.
Tolerated ==
  \A n \in Nodes :
    /\ state[n] \in {"Pending", "Running", "Done", "Failed"}
    /\ state[n] = "Failed" => \A e \in edges : e.from = n => e.on_failure = "Continue"

Idle == \A n \in Nodes : state[n] # "Running"

\* Where execute_route is, and what it knows of the route there.
DriverOK ==
  /\ status = "Running" => Tolerated
  /\ status = "Rejected" => pc = "returned"
  /\ pc = "round" => Idle
  /\ pc = "round" /\ status = "Running" => \E n \in Nodes : state[n] = "Pending"
  /\ pc \in {"start", "start refused"} => Idle /\ batch # {} /\ batch \subseteq Runnable(state)
  /\ pc = "spawned" =>
       /\ status = "Running" /\ batch # {} /\ batch \subseteq Nodes
       /\ \A n \in Nodes : state[n] = "Running" <=> n = First(batch)
       /\ batch \ {First(batch)} \subseteq Runnable(state)

DriverInv == RouteInv /\ LedgerOK /\ GraphOK /\ DriverOK /\ DriverIsSound

\* A round's nodes come in the order of the route.
LEMMA FirstOfRound ==
  ASSUME NEW ns \in SUBSET Nodes, ns # {}
  PROVE  First(ns) \in ns
<1> DEFINE places == {Order[n] : n \in ns}
<1>1. places \subseteq Nat /\ places # {}
  BY OrderAssumption DEF OrderAssumption
<1> HIDE DEF places
<1>2. PICK m \in places : \A k \in places : m <= k
  BY <1>1, LeastOf
<1> USE DEF places
<1>3. PICK n \in ns : m = Order[n]
  OBVIOUS
<1>4. \A k \in ns : Order[n] <= Order[k]
  BY <1>2, <1>3
<1> QED BY <1>4 DEF First

\* execute_route: of an acyclic route that runs, is idle and has a node pending,
\* some node can be started.
LEMMA RunnableExists ==
  ASSUME edges \in SUBSET Edge, \A S : ~Circle(edges, S), Tolerated, Idle, status = "Running",
         NEW n \in Nodes, state[n] = "Pending"
  PROVE  Runnable(state) # {}
<1> DEFINE pending == {m \in Nodes : state[m] = "Pending"}
<1>1. ASSUME Runnable(state) = {} PROVE Circle(edges, pending)
  <2> SUFFICES ASSUME NEW m \in pending PROVE \E e \in edges : e.to = m /\ e.from \in pending
    BY DEF Circle
  <2>1. ~DependenciesSatisfied(state, m)
    BY <1>1 DEF Runnable
  <2>2. PICK e \in edges : e.to = m /\ state[e.from] # "Done" /\ ~(state[e.from] = "Failed" /\ e.on_failure = "Continue")
    BY <2>1 DEF DependenciesSatisfied
  <2>3. e.from \in Nodes
    BY DEF Edge
  <2>4. state[e.from] = "Pending"
    BY <2>2, <2>3 DEF Tolerated, Idle
  <2> QED BY <2>2, <2>3, <2>4
<1> QED BY <1>1

\* RouteRuntime::new, and the loop's first look at it.
LEMMA InitDriver == DriverInit => DriverOK /\ DriverIsSound
<1> SUFFICES ASSUME DriverInit PROVE DriverOK /\ DriverIsSound
  OBVIOUS
<1>1. state = [n \in Nodes |-> "Pending"] /\ attempts = [n \in Nodes |-> 0]
      /\ (status = "Running" => Nodes # {}) /\ edges \in SUBSET Edge
  BY RouteAssumption DEF DriverInit, Init, RouteAssumption
<1>2. pc \in {"returned", "round"} /\ (status = "Rejected" => pc = "returned")
  BY DEF DriverInit
<1>3. DriverOK
  <2>1. \A n \in Nodes : state[n] = "Pending"
    BY <1>1
  <2>2. Tolerated /\ Idle
    BY <2>1 DEF Tolerated, Idle
  <2>3. Nodes # {} => \E n \in Nodes : state[n] = "Pending"
    BY <2>1
  <2>4. status = "Running" => Nodes # {}
    BY <1>1
  <2>5. pc \notin {"start", "start refused"} /\ pc # "spawned"
    BY <1>2
  <2> QED BY <1>2, <2>2, <2>3, <2>4, <2>5 DEF DriverOK
<1>4. \A e \in edges : attempts[e.to] = 0
  BY <1>1 DEF Edge
<1>5. StartedAfterDependencies
  BY <1>4 DEF StartedAfterDependencies
<1>6. pc # "no runnable node" /\ pc # "start refused"
  BY <1>2
<1> QED BY <1>3, <1>5, <1>6 DEF DriverIsSound, AlwaysRunnable, RefusedOnlyForBudget

\* The top of the loop.
LEMMA RoundStep ==
  ASSUME DriverInv, Round
  PROVE  DriverOK' /\ DriverIsSound'
<1>1. UNCHANGED vars /\ pc = "round" /\ DriverOK /\ DriverIsSound
  BY DEF DriverInv, Round
<1>2. PICK g \in SUBSET Edge : g = edges
  BY DEF DriverInv, GraphOK
<1>3. status # "Rejected" /\ \A S : ~Circle(g, S)
  <2>1. ValidRoute(edges)
    BY <1>1 DEF DriverInv, GraphOK, DriverOK
  <2> QED BY <1>1, <1>2, <2>1, ValidIsAcyclic DEF DriverOK
<1>4. status = "Running" => Runnable(state) # {}
  BY <1>1, <1>2, <1>3, RunnableExists DEF DriverOK
<1>5. pc' = IF status = "Running" THEN "start" ELSE "returned"
  BY <1>4 DEF Round
<1>6. batch' = Runnable(state)
  BY DEF Round
<1>7. Runnable(state)' = Runnable(state)
  BY <1>1 DEF vars, Runnable, DependenciesSatisfied
<1>8. DriverOK'
  BY <1>1, <1>3, <1>4, <1>5, <1>6, <1>7 DEF DriverOK, vars, Tolerated, Idle
<1> QED BY <1>1, <1>5, <1>8 DEF DriverIsSound, AlwaysRunnable, RefusedOnlyForBudget, StartedAfterDependencies, vars

\* start: it is refused only to a node that costs nothing or more than there ever was.
LEMMA StartStep ==
  ASSUME DriverInv, StartNode
  PROVE  DriverOK' /\ DriverIsSound'
<1>1. /\ pc = "start" /\ batch' = batch /\ Idle /\ batch # {} /\ batch \subseteq Runnable(state)
      /\ DriverOK /\ DriverIsSound /\ RouteInv
  BY DEF DriverInv, StartNode, DriverOK
<1>2. batch \subseteq Nodes /\ status = "Running"
  BY <1>1 DEF Runnable
<1>3. PICK n \in Nodes : n = First(batch) /\ n \in batch
  BY <1>1, <1>2, FirstOfRound
<1>4. First(batch)' = n
  BY <1>1, <1>3
<1>5. n \in Runnable(state)
  BY <1>1, <1>3
<1>6. CASE Affordable(n)
  <2>1. Start(n) /\ pc' = "spawned"
    BY <1>3, <1>5, <1>6 DEF StartNode
  <2>2. /\ state \in [Nodes -> NodeStates] /\ attempts \in [Nodes -> Nat] /\ edges \in SUBSET Edge
        /\ state' = [state EXCEPT ![n] = "Running"] /\ attempts' = [attempts EXCEPT ![n] = @ + 1]
        /\ UNCHANGED <<edges, status>>
    BY <2>1 DEF DriverInv, RouteInv, ShapeOK, GraphOK, Start
  <2>3. state[n] = "Pending" /\ DependenciesSatisfied(state, n)
    BY <1>5 DEF Runnable
  <2>4. Tolerated'
    BY <1>1, <1>2, <2>2 DEF DriverOK, Tolerated
  <2>5. \A m \in Nodes : state'[m] = "Running" <=> m = n
    BY <1>1, <2>2 DEF Idle
  <2>6. \A m \in Nodes : m # n /\ m \in Runnable(state) => m \in Runnable(state)'
    <3> SUFFICES ASSUME NEW m \in Nodes, m # n, m \in Runnable(state) PROVE m \in Runnable(state)'
      OBVIOUS
    <3>1. state'[m] = "Pending"
      BY <2>2 DEF Runnable
    <3>2. \A e \in edges : e.to = m => e.from # n /\ e.from \in Nodes /\ state'[e.from] = state[e.from]
      BY <2>2, <2>3 DEF Runnable, DependenciesSatisfied, Edge
    <3>3. DependenciesSatisfied(state, m)'
      BY <2>2, <3>2 DEF Runnable, DependenciesSatisfied
    <3> QED BY <1>2, <2>2, <3>1, <3>3 DEF Runnable
  <2>7. DriverOK'
    BY <1>1, <1>2, <1>4, <2>1, <2>2, <2>4, <2>5, <2>6 DEF DriverOK
  <2>8. StartedAfterDependencies'
    <3> SUFFICES ASSUME NEW e \in edges, attempts'[e.to] > 0
                 PROVE  state'[e.from] = "Done" \/ (state'[e.from] = "Failed" /\ e.on_failure = "Continue")
      BY <2>2 DEF StartedAfterDependencies
    <3>1. e.from \in Nodes /\ e.to \in Nodes
      BY <2>2 DEF Edge
    <3>2. state[e.from] = "Done" \/ (state[e.from] = "Failed" /\ e.on_failure = "Continue")
      <4>1. CASE e.to = n
        BY <2>3, <4>1 DEF DependenciesSatisfied
      <4>2. CASE e.to # n
        BY <1>1, <2>2, <3>1, <4>2 DEF DriverIsSound, StartedAfterDependencies
      <4> QED BY <4>1, <4>2
    <3> QED BY <2>2, <2>3, <3>1, <3>2
  <2> QED BY <2>1, <2>7, <2>8 DEF DriverIsSound, AlwaysRunnable, RefusedOnlyForBudget
<1>7. CASE ~Affordable(n)
  <2>1. UNCHANGED vars /\ pc' = "start refused"
    BY <1>3, <1>7 DEF StartNode
  <2>2. \A m \in Nodes : reserved[m] = 0
    BY <1>1 DEF RouteInv, ReservedIffRunning, Idle
  <2>3. remaining = Total
    <3>1. Units(Nodes) = {}
      BY <2>2 DEF Units
    <3>2. Cardinality(Units(Nodes)) = 0
      BY <3>1, FS_EmptySet
    <3> QED BY <3>2 DEF DriverInv, LedgerOK, BudgetConserved
  <2>4. Cost[n] = 0 \/ Cost[n] > Total
    BY <1>7, <2>2, <2>3, RouteAssumption DEF Affordable
  <2>5. Runnable(state)' = Runnable(state)
    BY <2>1 DEF vars, Runnable, DependenciesSatisfied
  <2>6. DriverOK'
    BY <1>1, <2>1, <2>5 DEF DriverOK, vars, Tolerated, Idle
  <2> QED BY <1>1, <1>4, <2>1, <2>4, <2>6 DEF DriverIsSound, AlwaysRunnable, RefusedOnlyForBudget, StartedAfterDependencies, vars
<1> QED BY <1>6, <1>7

\* complete, fail: what could be started still can, as long as the route runs.
LEMMA ReturnStep ==
  ASSUME DriverInv, ChildReturns
  PROVE  DriverOK' /\ DriverIsSound'
<1>1. /\ pc = "spawned" /\ status = "Running" /\ batch # {} /\ batch \subseteq Nodes
      /\ DriverOK /\ DriverIsSound /\ Tolerated
      /\ \A m \in Nodes : state[m] = "Running" <=> m = First(batch)
      /\ batch \ {First(batch)} \subseteq Runnable(state)
      /\ state \in [Nodes -> NodeStates] /\ attempts \in [Nodes -> Nat] /\ edges \in SUBSET Edge
  BY DEF DriverInv, ChildReturns, DriverOK, RouteInv, ShapeOK, GraphOK
<1>2. PICK n \in Nodes : n = First(batch) /\ n \in batch
  BY <1>1, FirstOfRound
<1>3. /\ batch' = batch \ {n} /\ (Complete(n) \/ Fail(n))
      /\ pc' = IF status' = "Running" /\ batch' # {} THEN "start" ELSE "round"
  BY <1>2 DEF ChildReturns, RoundContinues
<1>4. UNCHANGED <<edges, attempts>> /\ status' # "Rejected"
  BY <1>1, <1>3 DEF Complete, Fail
<1>5. /\ Idle'
      /\ \A m \in Nodes : state[m] \in {"Done", "Failed"} => state'[m] = state[m]
  BY <1>1, <1>2, <1>3 DEF Complete, Fail, CancelUnfinished, Idle
<1>6. status' = "Running" =>
        /\ \A m \in Nodes : m # n => state'[m] = state[m]
        /\ Tolerated' /\ \E m \in Nodes : state'[m] = "Pending"
  <2> SUFFICES ASSUME status' = "Running"
               PROVE  /\ \A m \in Nodes : m # n => state'[m] = state[m]
                      /\ Tolerated' /\ \E m \in Nodes : state'[m] = "Pending"
    OBVIOUS
  <2>1. CASE Complete(n)
    <3>1. state' = [state EXCEPT ![n] = "Done"] /\ ~AllTolerated(state')
      BY <2>1 DEF Complete
    <3>2. Tolerated'
      BY <1>1, <1>4, <3>1 DEF Tolerated
    <3>3. PICK m \in Nodes : state'[m] # "Done" /\ ~(state'[m] = "Failed" /\ \A e \in edges : e.from = m => e.on_failure = "Continue")
      BY <3>1 DEF AllTolerated
    <3>4. state'[m] = "Pending"
      BY <1>4, <1>5, <3>2, <3>3 DEF Tolerated, Idle
    <3> QED BY <1>1, <3>1, <3>2, <3>4
  <2>2. CASE Fail(n)
    <3>1. /\ FailurePolicies(n) \subseteq {"Continue"} /\ state' = [state EXCEPT ![n] = "Failed"]
          /\ Runnable([state EXCEPT ![n] = "Failed"]) # {}
      BY <2>2 DEF Fail
    <3>2. \A e \in edges : e.from = n => e.on_failure = "Continue"
      BY <3>1 DEF FailurePolicies
    <3>3. Tolerated'
      BY <1>1, <1>4, <3>1, <3>2 DEF Tolerated
    <3>4. \E m \in Nodes : state'[m] = "Pending"
      BY <3>1 DEF Runnable
    <3> QED BY <1>1, <3>1, <3>3, <3>4
  <2> QED BY <1>3, <2>1, <2>2
<1>7. status' = "Running" => batch' \subseteq Runnable(state)'
  <2> SUFFICES ASSUME status' = "Running", NEW m \in batch' PROVE m \in Runnable(state)'
    OBVIOUS
  <2>1. m \in Nodes /\ m # n /\ m \in Runnable(state)
    BY <1>1, <1>2, <1>3
  <2>2. state'[m] = "Pending"
    BY <1>6, <2>1 DEF Runnable
  <2>3. \A e \in edges : e.from \in Nodes
    BY <1>1 DEF Edge
  <2>4. DependenciesSatisfied(state, m)'
    BY <1>4, <1>5, <2>1, <2>3 DEF Runnable, DependenciesSatisfied
  <2> QED BY <2>1, <2>2, <2>4 DEF Runnable
<1>8. DriverOK'
  BY <1>3, <1>4, <1>5, <1>6, <1>7 DEF DriverOK
<1>9. StartedAfterDependencies'
  <2>1. \A e \in edges : e.from \in Nodes
    BY <1>1 DEF Edge
  <2> QED BY <1>1, <1>4, <1>5, <2>1 DEF DriverIsSound, StartedAfterDependencies
<1> QED BY <1>3, <1>8, <1>9 DEF DriverIsSound, AlwaysRunnable, RefusedOnlyForBudget

\* execute_route: for every route, every order of its nodes and every outcome of
\* its children there is always a node to start, none is started before what it
\* depends on, and a start is refused only for want of budget.
THEOREM DriverStaysSound == DriverSpec => []DriverIsSound
<1>1. DriverInit => DriverInv
  BY InitRoute, InitLedger, InitGraph, InitDriver DEF DriverInit, DriverInv
<1>2. DriverInv /\ [DriverNext]_driverVars => DriverInv'
  <2> SUFFICES ASSUME DriverInv, [DriverNext]_driverVars PROVE DriverInv'
    OBVIOUS
  <2>1. [Next]_vars
    <3>1. ASSUME StartNode PROVE [Next]_vars
      BY <3>1 DEF StartNode, Next, Runnable
    <3>2. ASSUME ChildReturns PROVE [Next]_vars
      <4>1. First(batch) \in Nodes
        BY <3>2, FirstOfRound DEF DriverInv, DriverOK, ChildReturns
      <4> QED BY <3>2, <4>1 DEF ChildReturns, Next
    <3> QED BY <3>1, <3>2 DEF DriverNext, driverVars, Round
  <2>2. RouteInv' /\ LedgerOK' /\ GraphOK'
    BY <2>1, StepKeepsShape, StepKeepsReservations, StepKeepsQuiet, StepKeepsLeft, StepConserves, StepKeepsGraph
    DEF DriverInv, RouteInv
  <2>3. CASE UNCHANGED driverVars
    <3>3. First(batch)' = First(batch) /\ batch' = batch /\ pc' = pc
      BY <2>3 DEF driverVars
    <3>4. Runnable(state)' = Runnable(state)
      BY <2>3 DEF driverVars, vars, Runnable, DependenciesSatisfied
    <3>1. DriverOK'
      BY <2>3, <3>3, <3>4 DEF driverVars, vars, DriverInv, DriverOK, Tolerated, Idle
    <3>2. DriverIsSound'
      BY <2>3 DEF driverVars, vars, DriverInv, DriverIsSound, AlwaysRunnable, RefusedOnlyForBudget, StartedAfterDependencies
    <3> QED BY <2>2, <3>1, <3>2 DEF DriverInv
  <2> QED BY <2>2, <2>3, RoundStep, StartStep, ReturnStep DEF DriverNext, DriverInv
<1>3. DriverInv => DriverIsSound
  BY DEF DriverInv
<1> QED BY <1>1, <1>2, <1>3, PTL DEF DriverSpec
=============================================================================
