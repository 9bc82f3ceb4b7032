------------------------- MODULE WeightedRoundRobin -------------------------
(***************************************************************************)
(* weightedRoundRobinBalancer of selector/loadbalance: the picker of one   *)
(* service.  It answers from its own copy of the nodes.  Nothing protects  *)
(* it, and a call of Balance is one step: callers come one at a time.      *)
(***************************************************************************)
EXTENDS Integers, Sequences

CONSTANTS
  Node,      \* nodes, named by their key
  Weights,   \* weights a node may be listed with
  MaxNodes,  \* longest list of nodes
  Duration,  \* time a picker keeps its nodes, in ticks
  None

VARIABLES
  nodes,    \* wr.nodes, without the current weights; empty: no picker yet
  current,  \* their current weights
  age,      \* time since wr.lastUpdateTime
  picked,   \* history: how often each node was picked in this round
  unseen,   \* history: time since a caller came with a list that has the node
  answer    \* the node just returned, None: nil or nothing
vars == <<nodes, current, age, picked, unseen, answer>>

\* A list a caller may come with: nodes have different keys.
Lists ==
  UNION {[1..n -> [node : Node, weight : Weights]] : n \in 0..MaxNodes}
Distinct(list) == \A i, j \in DOMAIN list : list[i].node = list[j].node => i = j

WeightsOf(list) == [i \in DOMAIN list |-> list[i].weight]

\* totalWeight after each round of the loop, over the weights f.
Running(f) == LET sum[n \in 0..Len(f)] == IF n = 0 THEN 0 ELSE sum[n - 1] + f[n] IN sum
Total(list) == Running(WeightsOf(list))[Len(list)]
Zeros(list) == [i \in DOMAIN list |-> 0]

\* Clocks stop mattering beyond Duration.
Later(t) == IF t > Duration THEN t ELSE t + 1
-----------------------------------------------------------------------------
Init ==
  /\ nodes = <<>> /\ current = <<>> /\ picked = <<>>
  /\ age = 0
  /\ unseen = [n \in Node |-> Duration + 1]
  /\ answer = None

\* The first node of those with the greatest weight, if that is not 0.
Heaviest(w) ==
  IF \A i \in DOMAIN w : w[i] <= 0 THEN 1
  ELSE CHOOSE i \in DOMAIN w : \A j \in DOMAIN w : w[j] <= w[i] /\ (j < i => w[j] < w[i])

\* What pick makes of a picker with the nodes ns, current weights cw and the
\* round so far: every node gains its weight, and the heaviest, which is
\* answered, loses what all have gained.
Charge(list) == Total(list) - 1
Cost(list) == Total(list)
Pick(ns, cw, round) ==
  LET raised == [i \in DOMAIN ns |-> cw[i] + ns[i].weight]
      index == Heaviest(raised)
      turn == [round EXCEPT ![index] = @ + 1]
  IN /\ current' = [raised EXCEPT ![index] = @ - Cost(ns)]
     /\ picked' = IF Total(ns) = 0 \/ turn = WeightsOf(ns) THEN Zeros(ns) ELSE turn
     /\ answer' = ns[index].node

\* The picker is out of date.
OnlyLength(list) == Len(list) # Len(nodes)
Stale(list) == age > Duration \/ Len(list) # Len(nodes)

\* Balance: the picker is loaded or made, refreshed when it is out of date, and
\* picks.
Balance(list) ==
  /\ unseen' = [n \in Node |-> IF \E i \in DOMAIN list : list[i].node = n THEN 0 ELSE unseen[n]]
  /\ IF list = <<>>
     THEN answer' = None /\ UNCHANGED <<nodes, current, age, picked>>
     ELSE IF Stale(list)
     THEN nodes' = list /\ age' = 0 /\ Pick(list, WeightsOf(list), Zeros(list))
     ELSE UNCHANGED <<nodes, age>> /\ Pick(nodes, current, picked)

Tick ==
  /\ age' = Later(age)
  /\ unseen' = [n \in Node |-> Later(unseen[n])]
  /\ answer' = None
  /\ UNCHANGED <<nodes, current, picked>>

Next == Tick \/ \E list \in Lists : Distinct(list) /\ Balance(list)

Spec == Init /\ [][Next]_vars
-----------------------------------------------------------------------------
(* Properties *)

\* In a round of as many picks as the weights add up to, no node is picked more
\* often than its weight says, so that each is picked exactly as often: what
\* "a greater weight, more requests" promises.  Nodes that all have weight 0
\* have no round.
Share ==
  Total(nodes) > 0 => \A i \in DOMAIN nodes : picked[i] <= nodes[i].weight

\* A node that a caller's own list no longer has is answered for as long as a
\* picker lives and not longer.
Known == answer # None => unseen[answer] <= Duration
=============================================================================
