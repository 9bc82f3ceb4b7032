----------------------------- MODULE Balancers ------------------------------
(***************************************************************************)
(* Consul.Select: the balancer that balancerName stands for picks among    *)
(* the nodes Resolve has just listed.  The random balancer and the one for *)
(* consistent hashes, which answers nil, keep no state.                    *)
(***************************************************************************)
EXTENDS RoundRobin

CONSTANTS Node, Weights, Duration

BalancersConstants ==
  RoundRobinConstants /\ Weights \subseteq Nat /\ Duration \in Nat

VARIABLES
  balancerName,  \* fixed before the first call
  wnodes, current, age, picked, unseen, answer
weighted == <<wnodes, current, age, picked, unseen, answer>>
allVars == <<vars, balancerName, weighted>>

W == INSTANCE WeightedRoundRobin WITH nodes <- wnodes

\* GetBalancer.  The code assigns balancerName nowhere, and the empty name stands
\* for the random balancer: the two that keep a state are reached by their names
\* only.
SelectInit ==
  /\ balancerName \in {"roundRobin", "weightedRoundRobin"}
  /\ Init /\ W!Init

SelectNext ==
  /\ UNCHANGED balancerName
  /\ \/ balancerName = "roundRobin" /\ Next /\ UNCHANGED weighted
     \/ balancerName = "weightedRoundRobin" /\ W!Next /\ UNCHANGED vars

SelectSpec == SelectInit /\ [][SelectNext]_allVars

Share == W!Share
Known == W!Known
=============================================================================
