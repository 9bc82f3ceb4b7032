-------------------------------- MODULE Rpc ---------------------------------
(***************************************************************************)
(* What a remote call promises its caller: the server executes it at most  *)
(* once, and an answer that comes back is its own and was computed for it. *)
(* A call that fails may have been executed, may still be, or never will.  *)
(***************************************************************************)
EXTENDS Naturals

CONSTANTS
  Caller,    \* goroutines that call Invoke
  MaxCalls,  \* calls each of them makes
  None

Call == Caller \X (1..MaxCalls)

VARIABLES
  phase,     \* where a caller is: "idle", "pending", "replied", "failed"
  number,    \* how many calls it has started
  answer,    \* the call that the reply it received belongs to
  executed   \* how often the server has executed a call
rpcVars == <<phase, number, answer, executed>>

Current(u) == <<u, number[u]>>

RpcInit ==
  /\ phase = [u \in Caller |-> "idle"]
  /\ number = [u \in Caller |-> 0]
  /\ answer = [u \in Caller |-> None]
  /\ executed = [k \in Call |-> 0]

Begin(u) ==
  /\ phase[u] = "idle" /\ number[u] < MaxCalls
  /\ phase' = [phase EXCEPT ![u] = "pending"]
  /\ number' = [number EXCEPT ![u] = @ + 1]
  /\ UNCHANGED <<answer, executed>>

Execute(k) ==
  /\ k[2] <= number[k[1]] /\ executed[k] = 0
  /\ executed' = [executed EXCEPT ![k] = 1]
  /\ UNCHANGED <<phase, number, answer>>

Replied(u) ==
  /\ phase[u] = "pending" /\ executed[Current(u)] = 1
  /\ phase' = [phase EXCEPT ![u] = "replied"]
  /\ answer' = [answer EXCEPT ![u] = Current(u)]
  /\ UNCHANGED <<number, executed>>

Fail(u) ==
  /\ phase[u] = "pending"
  /\ phase' = [phase EXCEPT ![u] = "failed"]
  /\ UNCHANGED <<number, answer, executed>>

Finish(u) ==
  /\ phase[u] \in {"replied", "failed"}
  /\ phase' = [phase EXCEPT ![u] = "idle"]
  /\ answer' = [answer EXCEPT ![u] = None]
  /\ UNCHANGED <<number, executed>>

RpcNext ==
  \/ \E u \in Caller : Begin(u) \/ Replied(u) \/ Fail(u) \/ Finish(u)
  \/ \E k \in Call : Execute(k)

RpcSpec == RpcInit /\ [][RpcNext]_rpcVars
=============================================================================
