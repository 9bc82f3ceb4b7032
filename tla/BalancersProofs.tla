-------------------------- MODULE BalancersProofs ---------------------------
(***************************************************************************)
(* Proofs about Balancers.  The round robin balancer, for lists of any     *)
(* length and any number of callers: as long as no two calls of Balance    *)
(* have overlapped, indexes are in range and nodes take turns.  Once two   *)
(* have, neither holds.  The weighted balancer: Share and Known, from      *)
(* WeightedRoundRobinProofs.                                               *)
(***************************************************************************)
EXTENDS Balancers, FiniteSetTheorems, TLAPS

WP == INSTANCE WeightedRoundRobinProofs WITH nodes <- wnodes

Busy(u) == pc[u] # "idle"

\* Between calls the index of a picker lies within the list it was last used with,
\* and the indexes of the round are those up to it.
AtRest(p) ==
  /\ lastIndex[p] = 0 \/ lastIndex[p] < length[p]
  /\ round = 1..lastIndex[p]

\* So it is for the list a caller has come with, once the picker is up to date.
Fresh(u, p) ==
  /\ length[p] = nodes[u] /\ lastIndex[p] < nodes[u]
  /\ round = 1..lastIndex[p]

\* What is known of the picker p at each place of the caller u that uses it.
PlaceOK(u, p) ==
  /\ pc[u] \in {"refresh", "store"} => AtRest(p)
  /\ pc[u] = "reset" => length[p] = nodes[u]
  /\ pc[u] \in {"wrap", "zero", "add", "write"} => Fresh(u, p)
  /\ pc[u] = "zero" => lastIndex[p] = nodes[u] - 1
  /\ pc[u] \in {"add", "write"} => lastIndex[p] + 1 < nodes[u]
  /\ pc[u] = "write" => sum[u] = lastIndex[p] + 1
  /\ pc[u] = "index" =>
       /\ length[p] = nodes[u] /\ sum[u] = lastIndex[p]
       /\ lastIndex[p] \in 1..(nodes[u] - 1)
       /\ round = 1..(lastIndex[p] - 1)
  /\ pc[u] # "store" => nodes[u] > 0 /\ result[u] = None

\* A caller that is in Balance is there alone and uses the picker that is stored,
\* or the one it has made if there is none.
Alone ==
  \A u \in Caller : Busy(u) =>
    /\ \A v \in Caller \ {u} : ~Busy(v)
    /\ mine[u] = IF stored = None THEN u ELSE stored
    /\ PlaceOK(u, mine[u])

\* Nobody is in Balance, and the picker rests, or there is none yet.
Quiet ==
  (\A u \in Caller : ~Busy(u)) =>
    IF stored = None THEN round = {} /\ \A p \in Caller : lastIndex[p] = 0 ELSE AtRest(stored)

Idle == \A u \in Caller : ~Busy(u) => result[u] = None

Apart == Alone /\ Quiet /\ Idle /\ InRange

Inv == TypeOK /\ (~overlapped => Apart)
-----------------------------------------------------------------------------
(* Sets of indexes *)

\* The next index extends a round that does not yet have every node.
LEMMA NextIndex ==
  ASSUME NEW n \in Nat, NEW k \in Nat, 0 < k, k < n
  PROVE  /\ (1..(k - 1)) \cup {k} = 1..k
         /\ ~(Cardinality((1..(k - 1)) \cup {k}) >= n)
         /\ k \notin 1..(k - 1)
<1>1. (1..(k - 1)) \cup {k} = 1..k
  OBVIOUS
<1>2. Cardinality(1..k) = IF 1 > k THEN 0 ELSE k - 1 + 1
  <2> 1 \in Int /\ k \in Int
    OBVIOUS
  <2> QED
    BY FS_Interval
<1>3. ~(Cardinality(1..k) >= n) /\ k \notin 1..(k - 1)
  BY <1>2
<1> QED
  BY <1>1, <1>3, Zenon

\* Index 0 completes the round.
LEMMA LastIndex ==
  ASSUME NEW n \in Nat, 0 < n
  PROVE  /\ Cardinality((1..(n - 1)) \cup {0}) >= n
         /\ 0 \notin 1..(n - 1)
<1>1. (1..(n - 1)) \cup {0} = 0..(n - 1)
  OBVIOUS
<1>2. Cardinality(0..(n - 1)) = IF 0 > n - 1 THEN 0 ELSE n - 1 - 0 + 1
  <2> 0 \in Int /\ n - 1 \in Int
    OBVIOUS
  <2> QED
    BY FS_Interval
<1>3. Cardinality(0..(n - 1)) >= n /\ 0 \notin 1..(n - 1)
  BY <1>2
<1> QED
  BY <1>1, <1>3, Zenon
-----------------------------------------------------------------------------
LEMMA InitInv == ASSUME RoundRobinConstants, Init PROVE Inv
<1>1. TypeOK
  <2>1. \A u \in Caller : mine[u] = None <=> pc[u] = "idle"
    BY DEF Init
  <2>2. panic \in BOOLEAN
    BY DEF Init
  <2> QED
    BY <2>1, <2>2 DEF Init, TypeOK, RoundRobinConstants
<1>2. Apart
  BY DEF Init, Apart, Alone, Quiet, Idle, Busy, InRange
<1> QED
  BY <1>1, <1>2 DEF Inv

LEMMA PickTypes ==
  ASSUME round \subseteq Nat, result \in [Caller -> Nat \cup {None}],
         NEW u \in Caller, NEW i \in Nat, Pick(u, i)
  PROVE  round' \subseteq Nat /\ result' \in [Caller -> Nat \cup {None}]
<1>1. round' = {} \/ round' = round \cup {i}
  BY DEF Pick
<1>2. result' = [result EXCEPT ![u] = i]
  BY DEF Pick
<1> QED
  BY <1>1, <1>2

LEMMA TypeStep ==
  ASSUME RoundRobinConstants, TypeOK, NEW u \in Caller, Step(u) PROVE TypeOK'
<1> USE DEF RoundRobinConstants, TypeOK, Goto, Index, picker
<1>1. CASE Balance(u)
  BY <1>1 DEF Balance
<1>2. CASE Refresh(u)
  BY <1>2 DEF Refresh
<1>3. CASE Reset(u)
  BY <1>3 DEF Reset
<1>4. CASE Wrap(u)
  BY <1>4 DEF Wrap
<1>5. CASE Zero(u)
  <2>1. round' \subseteq Nat /\ result' \in [Caller -> Nat \cup {None}]
    BY <1>5, PickTypes DEF Zero
  <2>2. /\ lastIndex' \in [Caller -> Nat]
        /\ pc' = [pc EXCEPT ![u] = "store"] /\ pc[u] # "idle"
        /\ UNCHANGED <<stored, length, mine, nodes, sum, panic>>
    BY <1>5 DEF Zero, Pick
  <2> QED
    BY <2>1, <2>2
<1>6. CASE Add(u)
  BY <1>6 DEF Add
<1>7. CASE Write(u)
  BY <1>7 DEF Write
<1>8. CASE Access(u)
  <2>1. /\ round' \subseteq Nat /\ result' \in [Caller -> Nat \cup {None}]
        /\ panic' \in BOOLEAN
    <3>1. PICK i \in {sum[u], lastIndex[mine[u]]} :
            IF i < nodes[u]
            THEN Pick(u, i) /\ UNCHANGED panic
            ELSE panic' = TRUE /\ UNCHANGED <<pc, result, round>>
      BY <1>8 DEF Access
    <3>2. i \in Nat
      BY <1>8 DEF Access
    <3> QED
      BY <3>1, <3>2, PickTypes
  <2>2. /\ pc' = [pc EXCEPT ![u] = "store"] \/ pc' = pc
        /\ pc[u] # "idle"
        /\ UNCHANGED <<stored, length, lastIndex, mine, nodes, sum>>
    BY <1>8 DEF Access, Pick
  <2> QED
    BY <2>1, <2>2
<1>9. CASE Store(u)
  BY <1>9 DEF Store
<1> QED
  BY <1>1, <1>2, <1>3, <1>4, <1>5, <1>6, <1>7, <1>8, <1>9 DEF Step

\* The step of a caller that stays in Balance, with the picker p.
LEMMA Inside ==
  ASSUME RoundRobinConstants, TypeOK, Alone, NEW u \in Caller, Busy(u), Busy(u)',
         UNCHANGED <<stored, mine>>, \A v \in Caller \ {u} : pc'[v] = pc[v],
         Idle, \A v \in Caller \ {u} : result'[v] = result[v],
         PlaceOK(u, mine[u])', InRange'
  PROVE  Apart'
<1>1. \A v \in Caller \ {u} : ~Busy(v)'
  BY DEF Alone, Busy
<1>2. mine'[u] = IF stored' = None THEN u ELSE stored'
  BY DEF Alone
<1>3. Alone'
  BY <1>1, <1>2 DEF Alone
<1>4. Quiet'
  BY DEF Quiet
<1>5. Idle'
  BY <1>1 DEF Alone, Idle, Busy
<1> QED
  BY <1>3, <1>4, <1>5 DEF Apart

\* A call begins while nobody is in Balance.
LEMMA BalanceApart ==
  ASSUME RoundRobinConstants, TypeOK, TypeOK', Apart, NEW u \in Caller, Balance(u),
         \A v \in Caller : ~Busy(v)
  PROVE  Apart'
<1> USE DEF TypeOK
<1>1. PICK n \in 0..MaxNodes : Balance(u)!2!(n)
  BY DEF Balance
<1>2. /\ UNCHANGED <<stored, lastIndex, result, panic, round>>
      /\ nodes'[u] = n /\ pc'[u] = (IF n = 0 THEN "store" ELSE "refresh")
      /\ \A v \in Caller \ {u} : pc'[v] = "idle"
      /\ result[u] = None
  BY <1>1 DEF Balance, Goto, Busy, Apart, Idle
<1>3. mine'[u] = IF stored' = None THEN u ELSE stored'
  BY <1>1, <1>2
<1>4. AtRest(mine[u])'
  <2>1. CASE stored = None
    <3>1. mine'[u] = u /\ lastIndex'[u] = 0 /\ round' = {}
      BY <1>2, <1>3, <2>1 DEF Apart, Quiet
    <3>2. 1..0 = {}
      OBVIOUS
    <3> QED
      BY <3>1, <3>2 DEF AtRest
  <2>2. CASE stored # None
    BY <1>1, <1>2, <1>3, <2>2 DEF Apart, Quiet, AtRest
  <2> QED
    BY <2>1, <2>2
<1>5. PlaceOK(u, mine[u])'
  BY <1>2, <1>4 DEF PlaceOK
<1>6. Alone' /\ Quiet' /\ Idle' /\ InRange'
  BY <1>2, <1>3, <1>5 DEF Alone, Quiet, Idle, Busy, InRange, Apart
<1> QED
  BY <1>6 DEF Apart

\* A caller that is alone in Balance goes on: the picker stays as PlaceOK says, and
\* an index it returns has not been returned in this round.
Picks(u) == result[u] = None /\ result'[u] # None => result'[u] \notin round
Goes(u) == PlaceOK(u, mine[u])' /\ InRange' /\ Picks(u)
LEMMA GoesOn ==
  ASSUME RoundRobinConstants, TypeOK, InRange, NEW u \in Caller, PlaceOK(u, mine[u]),
         \/ Refresh(u) \/ Reset(u) \/ Wrap(u) \/ Zero(u) \/ Add(u) \/ Write(u) \/ Access(u)
  PROVE  Goes(u)
<1> USE DEF TypeOK, Goto, RoundRobinConstants
<1>1. Busy(u)
  BY DEF Refresh, Reset, Wrap, Zero, Add, Write, Access, Busy
<1> PICK p \in Caller : p = mine[u]
  BY <1>1 DEF Busy
<1>2. CASE Refresh(u)
  BY <1>2 DEF Refresh, Stale, Goes, Picks, PlaceOK, AtRest, Fresh, InRange
<1>3. CASE Reset(u)
  BY <1>3 DEF Reset, Goes, Picks, PlaceOK, Fresh, InRange
<1>4. CASE Wrap(u)
  BY <1>4 DEF Wrap, AtEnd, Index, picker, Goes, Picks, PlaceOK, Fresh, InRange
<1>5. CASE Zero(u)
  <2>1. round' = {} /\ 0 \notin round /\ result' = [result EXCEPT ![u] = 0]
    BY <1>5, LastIndex DEF Zero, Pick, PlaceOK, Fresh
  <2> QED
    BY <1>5, <2>1 DEF Zero, Pick, Goes, Picks, PlaceOK, AtRest, Fresh, InRange
<1>6. CASE Add(u)
  BY <1>6 DEF Add, Index, picker, Goes, Picks, PlaceOK, Fresh, InRange
<1>7. CASE Write(u)
  <2>1. /\ lastIndex' = [lastIndex EXCEPT ![p] = lastIndex[p] + 1]
        /\ lastIndex[p] + 1 < nodes[u] /\ sum[u] = lastIndex[p] + 1
        /\ length[p] = nodes[u] /\ round = 1..lastIndex[p]
    BY <1>7 DEF Write, PlaceOK, Fresh
  <2>2. round = 1..(lastIndex'[p] - 1) /\ lastIndex'[p] \in 1..(nodes[u] - 1)
    <3>1. lastIndex'[p] = lastIndex[p] + 1 /\ lastIndex[p] \in Nat /\ nodes[u] \in Nat
      BY <2>1
    <3>2. lastIndex[p] + 1 - 1 = lastIndex[p]
      BY <3>1
    <3>3. round = 1..(lastIndex'[p] - 1)
      BY <2>1, <3>1, <3>2
    <3>4. 1 <= lastIndex[p] + 1 /\ lastIndex[p] + 1 <= nodes[u] - 1
      BY <2>1, <3>1
    <3> QED
      BY <3>1, <3>3, <3>4
  <2> QED
    BY <1>7, <2>1, <2>2 DEF Write, Goes, Picks, PlaceOK, InRange
<1>8. CASE Access(u)
  <2>1. Pick(u, lastIndex[p]) /\ UNCHANGED panic
    BY <1>8 DEF Access, Index, PlaceOK
  <2>2. /\ lastIndex[p] \in Nat /\ nodes[u] \in Nat
        /\ 0 < lastIndex[p] /\ lastIndex[p] < nodes[u]
        /\ round = 1..(lastIndex[p] - 1) /\ length[p] = nodes[u]
    BY <1>8 DEF Access, PlaceOK
  <2>3. /\ round \cup {lastIndex[p]} = 1..lastIndex[p]
        /\ ~(Cardinality(round \cup {lastIndex[p]}) >= nodes[u])
        /\ lastIndex[p] \notin round
    BY <2>2, NextIndex, Zenon
  <2>4. round' = 1..lastIndex[p] /\ result' = [result EXCEPT ![u] = lastIndex[p]]
    BY <2>1, <2>3 DEF Pick
  <2>5. PlaceOK(u, mine[u])'
    BY <1>8, <2>1, <2>2, <2>4 DEF Access, Pick, picker, PlaceOK, AtRest
  <2> QED
    BY <2>1, <2>3, <2>4, <2>5 DEF Goes, Picks, InRange
<1> QED
  BY <1>2, <1>3, <1>4, <1>5, <1>6, <1>7, <1>8

\* Balance returns, and nobody is in it.
LEMMA StoreApart ==
  ASSUME RoundRobinConstants, TypeOK, Apart, NEW u \in Caller, Store(u)
  PROVE  Apart'
<1> USE DEF TypeOK
<1>1. Busy(u) /\ AtRest(mine[u]) /\ mine[u] # None
  BY DEF Store, Busy, Apart, Alone, PlaceOK
<1>2. \A v \in Caller : ~Busy(v)'
  BY <1>1 DEF Store, Goto, Busy, Apart, Alone
<1>3. stored' = mine[u] /\ AtRest(stored)'
  BY <1>1 DEF Store, AtRest, picker
<1>4. Idle'
  BY <1>1 DEF Store, Idle, Apart, Alone
<1> QED
  BY <1>1, <1>2, <1>3, <1>4 DEF Apart, Alone, Quiet, InRange, Store

\* A step keeps the calls apart in order, and returns nobody out of turn.
LEMMA StepApart ==
  ASSUME RoundRobinConstants, TypeOK, TypeOK', Apart, ~overlapped', NEW u \in Caller, Step(u)
  PROVE  Apart' /\ Turn
<1>1. CASE Balance(u)
  <2>1. \A v \in Caller : ~Busy(v)
    BY <1>1 DEF Balance, Busy
  <2>2. UNCHANGED result
    BY <1>1 DEF Balance
  <2> QED
    BY <1>1, <2>1, <2>2, BalanceApart DEF Turn
<1>2. CASE Store(u)
  <2>1. \A v \in Caller : result'[v] = None \/ result'[v] = result[v]
    BY <1>2 DEF Store, TypeOK
  <2> QED
    BY <1>2, <2>1, StoreApart DEF Turn
<1>3. CASE \/ Refresh(u) \/ Reset(u) \/ Wrap(u) \/ Zero(u) \/ Add(u) \/ Write(u) \/ Access(u)
  <2>1. Busy(u)
    BY <1>3 DEF Refresh, Reset, Wrap, Zero, Add, Write, Access, Busy
  <2>2. PlaceOK(u, mine[u])' /\ InRange' /\ Picks(u)
    BY <1>3, <2>1, GoesOn DEF Goes, Apart, Alone
  <2>3. /\ UNCHANGED <<stored, mine>>
        /\ \A v \in Caller \ {u} : pc'[v] = pc[v] /\ result'[v] = result[v]
    BY <1>3 DEF Refresh, Reset, Wrap, Zero, Add, Write, Access, Pick, Goto, TypeOK
  <2>4. Busy(u)'
    BY <2>1, <2>3 DEF Busy, TypeOK
  <2>5. Apart'
    BY <2>1, <2>2, <2>3, <2>4, Inside DEF Apart
  <2>6. Turn
    BY <2>2, <2>3 DEF Turn, Picks
  <2> QED
    BY <2>5, <2>6
<1> QED
  BY <1>1, <1>2, <1>3 DEF Step

\* Two calls that have overlapped stay so.
LEMMA Overlaps == ASSUME TypeOK, NEW u \in Caller, Step(u), overlapped PROVE overlapped'
BY DEF Step, Balance, Refresh, Reset, Wrap, Zero, Add, Write, Access, Store

LEMMA StepInv ==
  ASSUME RoundRobinConstants, Inv, [Next]_vars
  PROVE  Inv' /\ [~overlapped => Turn]_vars
<1>1. CASE Next
  <2>1. PICK u \in Caller : Step(u)
    BY <1>1 DEF Next
  <2>2. TypeOK /\ TypeOK'
    BY <2>1, TypeStep DEF Inv
  <2>3. ~overlapped' => ~overlapped
    BY <2>1, <2>2, Overlaps
  <2>4. ~overlapped' => Apart' /\ Turn
    BY <2>1, <2>2, <2>3, StepApart DEF Inv
  <2>5. CASE overlapped' /\ ~overlapped
    <3>1. Balance(u)
      BY <2>1, <2>5 DEF Step, Refresh, Reset, Wrap, Zero, Add, Write, Access, Store
    <3>2. Turn
      BY <3>1 DEF Balance, Turn
    <3> QED
      BY <2>2, <2>5, <3>2 DEF Inv
  <2>6. CASE ~overlapped' \/ overlapped
    BY <2>2, <2>3, <2>4, <2>6 DEF Inv
  <2> QED
    BY <2>5, <2>6
<1>2. CASE UNCHANGED vars
  BY <1>2 DEF vars, picker, caller, Inv, TypeOK, Apart, Alone, Quiet, Idle, Busy, PlaceOK,
              AtRest, Fresh, InRange
<1> QED
  BY <1>1, <1>2

LEMMA SpecInv == ASSUME RoundRobinConstants PROVE Spec => []Inv
<1>1. Init => Inv
  BY InitInv
<1>2. Inv /\ [Next]_vars => Inv'
  BY StepInv
<1> QED
  BY <1>1, <1>2, PTL DEF Spec

-----------------------------------------------------------------------------
(* The balancers in use: a step of one leaves the other alone. *)

LEMMA SelectsRoundRobin == SelectSpec => Spec
<1>1. SelectInit => Init
  BY DEF SelectInit
<1>2. [SelectNext]_allVars => [Next]_vars
  BY DEF SelectNext, allVars
<1> QED
  BY <1>1, <1>2, PTL DEF SelectSpec, Spec

LEMMA SelectsWeighted == SelectSpec => WP!Spec
<1>1. SelectInit => WP!Init
  BY DEF SelectInit, W!Init, WP!Init
<1>2. W!Tick => WP!Tick
  BY DEF W!Tick, WP!Tick, W!Later, WP!Later
<1>3. ASSUME NEW ns, NEW cw, NEW rd, W!Pick(ns, cw, rd) PROVE WP!Pick(ns, cw, rd)
  BY <1>3 DEF W!Pick, WP!Pick, W!Heaviest, WP!Heaviest, W!Cost, WP!Cost, W!Zeros, WP!Zeros,
              W!Total, WP!Total, W!Running, WP!Running, W!WeightsOf, WP!WeightsOf
<1>4. ASSUME NEW list, W!Balance(list) PROVE WP!Balance(list)
  BY <1>3, <1>4 DEF W!Balance, WP!Balance, W!Stale, WP!Stale, W!WeightsOf, WP!WeightsOf,
                    W!Zeros, WP!Zeros
<1>5. W!Next => WP!Next
  BY <1>2, <1>4 DEF W!Next, WP!Next, W!Lists, WP!Lists, W!Distinct, WP!Distinct
<1>6. [SelectNext]_allVars => [WP!Next]_(WP!vars)
  BY <1>5 DEF SelectNext, allVars, weighted, WP!vars
<1> QED
  BY <1>1, <1>6, PTL DEF SelectSpec, WP!Spec

\* As long as no two calls of Balance have overlapped, the list is not indexed out of
\* range, whichever callers call, whatever lists they come with and whenever the
\* picker expires.  With the overlap the run of RoundRobin finds a panic.
THEOREM ApartInRange ==
  ASSUME BalancersConstants
  PROVE  SelectSpec => [](~overlapped => InRange)
<1>1. RoundRobinConstants
  BY DEF BalancersConstants
<1>2. Inv => (~overlapped => InRange)
  BY DEF Inv, Apart
<1> QED
  BY <1>1, <1>2, SpecInv, SelectsRoundRobin, PTL

\* Until then every node of an unchanged list is returned once before any twice,
\* however many callers share the picker.
THEOREM ApartTakesTurns ==
  ASSUME BalancersConstants
  PROVE  SelectSpec => TakesTurns
<1>1. RoundRobinConstants
  BY DEF BalancersConstants
<1>2. Inv /\ [Next]_vars => [~overlapped => Turn]_vars
  BY <1>1, StepInv
<1> QED
  BY <1>1, <1>2, SpecInv, SelectsRoundRobin, PTL DEF Spec, TakesTurns

LEMMA ProperWeights == ASSUME BalancersConstants PROVE WP!Proper
  BY DEF WP!Proper, BalancersConstants, RoundRobinConstants

\* In every round of the weighted balancer's picks no node is picked more often
\* than its weight says, whatever lists come, whenever the picker expires.
THEOREM WeightsAreShares ==
  ASSUME BalancersConstants
  PROVE  SelectSpec => []Share
<1>1. Share <=> WP!Share
  BY DEF Share, W!Share, WP!Share, W!Total, WP!Total, W!Running, WP!Running,
         W!WeightsOf, WP!WeightsOf
<1> QED
  BY <1>1, ProperWeights, WP!SharesAreKept, SelectsWeighted, PTL

\* A node that callers no longer list is answered no longer than a picker lives.
THEOREM NodesAreKnown ==
  ASSUME BalancersConstants
  PROVE  SelectSpec => []Known
<1>1. Known <=> WP!Known
  BY DEF Known, W!Known, WP!Known
<1> QED
  BY <1>1, ProperWeights, WP!NodesAreKnown, SelectsWeighted, PTL
=============================================================================
