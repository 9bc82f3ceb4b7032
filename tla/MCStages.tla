------------------------------ MODULE MCStages ------------------------------
(***************************************************************************)
(* A call goes through Invoke and Send (ClientCall), may have its node     *)
(* picked (Balancers), and is answered (Exchange).  The three share no     *)
(* state, and one run checks them side by side: a behaviour is one of      *)
(* theirs, and the others stay as they begin.                              *)
(***************************************************************************)
EXTENDS Exchange, TLC

CONSTANTS Service, MaxChain, MaxNodes, Node, Weights, Duration

VARIABLES
  stage,                                                         \* what runs
  target, chain, sendTo, frames,                                 \* ClientCall
  stored, length, lastIndex, at, mine, nodes, sum, result,       \* RoundRobin
  panic, round, overlapped,
  balancerName, wnodes, current, age, picked, unseen, answer     \* Balancers

clientCall == <<target, chain, sendTo, frames>>
balancers == <<stored, length, lastIndex, at, mine, nodes, sum, result, panic, round,
  overlapped, balancerName, wnodes, current, age, picked, unseen, answer>>

C == INSTANCE ClientCall
B == INSTANCE Balancers WITH pc <- at

ASSUME B!BalancersConstants

\* Two calls over TCP share a connection and its framer; each call over UDP has a
\* socket of its own.
Calls == [n \in {"tcp", "udp"} |-> IF n = "tcp" THEN 2 ELSE 1]

StagesInit ==
  /\ stage \in {"client", "select", "exchange"}
  /\ Init /\ C!Init /\ B!SelectInit
  /\ stage # "exchange" => network = "tcp"
  /\ stage # "select" => balancerName = "roundRobin"

Client == stage = "client" /\ C!Next /\ UNCHANGED <<stage, vars, balancers>>
Select == stage = "select" /\ B!SelectNext /\ UNCHANGED <<stage, vars, clientCall>>
Exchanges == stage = "exchange" /\ Next /\ UNCHANGED <<stage, clientCall, balancers>>
StagesNext == Client \/ Select \/ Exchanges

StagesSpec == StagesInit /\ [][StagesNext]_<<stage, vars, clientCall, balancers>>

Symmetry == Permutations(Caller) \cup Permutations(Service) \cup Permutations(Node)

OwnPath == C!OwnPath
OwnTargetAlone == C!OwnTargetAlone
TakesTurns == B!TakesTurns
Share == B!Share
Known == B!Known
=============================================================================
