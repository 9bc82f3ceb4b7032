----------------------------- MODULE RoundRobin -----------------------------
(***************************************************************************)
(* roundRobinBalancer of selector/loadbalance: the picker of one service,  *)
(* in a sync.Map, and its fields, which nothing protects.  A step is one   *)
(* access to a field that other goroutines can see.                        *)
(*                                                                         *)
(* Nodes are told apart by their index in the list the caller has just     *)
(* fetched, so a list is its length.                                       *)
(***************************************************************************)
EXTENDS Naturals, FiniteSets

CONSTANTS
  Caller,    \* goroutines that call Balance
  MaxNodes,  \* longest list of nodes
  None

RoundRobinConstants ==
  /\ MaxNodes \in Nat
  /\ None \notin Caller /\ None \notin Nat

VARIABLES
  stored,     \* the picker in r.pickers, named by the caller that made it
  length,     \* of a picker
  lastIndex,  \* of a picker
  pc,         \* of a caller
  mine,       \* the picker it uses
  nodes,      \* the length of its list of nodes
  sum,        \* lastIndex + 1 as its increment computes it
  result,     \* the index it returns, None: the nil node
  panic,      \* an index was out of range
  round,      \* history: the indexes returned since everyone had a turn, or
              \* since the last refresh
  overlapped  \* history: two callers have been in Balance at the same time

picker == <<length, lastIndex>>
caller == <<pc, mine, nodes, sum, result>>
vars == <<stored, picker, caller, panic, round, overlapped>>

Goto(u, label) == pc' = [pc EXCEPT ![u] = label]
Index(u) == lastIndex[mine[u]]
-----------------------------------------------------------------------------
Init ==
  /\ stored = None
  /\ length = [p \in Caller |-> 0]
  /\ lastIndex = [p \in Caller |-> 0]
  /\ pc = [u \in Caller |-> "idle"]
  /\ mine = [u \in Caller |-> None]
  /\ nodes = [u \in Caller |-> 0]
  /\ sum = [u \in Caller |-> 0]
  /\ result = [u \in Caller |-> None]
  /\ panic = FALSE
  /\ round = {}
  /\ overlapped = FALSE

(* Balance *)

\* The picker is loaded, or a new one made, and pick starts.
Balance(u) ==
  /\ pc[u] = "idle"
  /\ \E n \in 0..MaxNodes :
       /\ nodes' = [nodes EXCEPT ![u] = n]
       /\ Goto(u, IF n = 0 THEN "store" ELSE "refresh")
       /\ IF stored = None
          THEN /\ mine' = [mine EXCEPT ![u] = u]
               /\ length' = [length EXCEPT ![u] = n]
          ELSE mine' = [mine EXCEPT ![u] = stored] /\ UNCHANGED length
  /\ overlapped' = (overlapped \/ \E v \in Caller : pc[v] # "idle")
  /\ UNCHANGED <<stored, lastIndex, sum, result, panic, round>>

\* The picker is out of date when the list has another length.  It is refreshed
\* then, or because its time is up.
Stale(u) == nodes[u] # length[mine[u]]
Refresh(u) ==
  /\ pc[u] = "refresh"
  /\ \/ /\ length' = [length EXCEPT ![mine[u]] = nodes[u]]
        /\ Goto(u, "reset")
     \/ ~Stale(u) /\ Goto(u, "wrap") /\ UNCHANGED length
  /\ UNCHANGED <<stored, lastIndex, mine, nodes, sum, result, panic, round, overlapped>>

Reset(u) ==
  /\ pc[u] = "reset"
  /\ lastIndex' = [lastIndex EXCEPT ![mine[u]] = 0]
  /\ round' = {}
  /\ Goto(u, "wrap")
  /\ UNCHANGED <<stored, length, mine, nodes, sum, result, panic, overlapped>>

\* lastIndex is compared with the last index of the list.
AtEndEarly(u) == Index(u) + 2 >= nodes[u]
AtEnd(u) == Index(u) = nodes[u] - 1
Wrap(u) ==
  /\ pc[u] = "wrap"
  /\ Goto(u, IF AtEnd(u) THEN "zero" ELSE "add")
  /\ UNCHANGED <<stored, picker, mine, nodes, sum, result, panic, round, overlapped>>

\* The node at an index is returned.
Pick(u, i) ==
  /\ result' = [result EXCEPT ![u] = i]
  /\ round' = IF Cardinality(round \cup {i}) >= nodes[u] THEN {} ELSE round \cup {i}
  /\ Goto(u, "store")

Zero(u) ==
  /\ pc[u] = "zero"
  /\ lastIndex' = [lastIndex EXCEPT ![mine[u]] = 0]
  /\ Pick(u, 0)
  /\ UNCHANGED <<stored, length, mine, nodes, sum, panic, overlapped>>

\* rp.lastIndex += 1 reads and writes.
Add(u) ==
  /\ pc[u] = "add"
  /\ sum' = [sum EXCEPT ![u] = Index(u) + 1]
  /\ Goto(u, "write")
  /\ UNCHANGED <<stored, picker, mine, nodes, result, panic, round, overlapped>>

Write(u) ==
  /\ pc[u] = "write"
  /\ lastIndex' = [lastIndex EXCEPT ![mine[u]] = sum[u]]
  /\ Goto(u, "index")
  /\ UNCHANGED <<stored, length, mine, nodes, sum, result, panic, round, overlapped>>

\* nodes[rp.lastIndex]: the field is read again, or its value still known.
Access(u) ==
  /\ pc[u] = "index"
  /\ \E i \in {sum[u], Index(u)} :
       IF i < nodes[u]
       THEN Pick(u, i) /\ UNCHANGED panic
       ELSE panic' = TRUE /\ UNCHANGED <<pc, result, round>>
  /\ UNCHANGED <<stored, picker, mine, nodes, sum, overlapped>>

\* Balance stores the picker again and returns.
Store(u) ==
  /\ pc[u] = "store"
  /\ stored' = mine[u]
  /\ mine' = [mine EXCEPT ![u] = None]
  /\ nodes' = [nodes EXCEPT ![u] = 0]
  /\ sum' = [sum EXCEPT ![u] = 0]
  /\ result' = [result EXCEPT ![u] = None]
  /\ Goto(u, "idle")
  /\ UNCHANGED <<picker, panic, round, overlapped>>
-----------------------------------------------------------------------------
Step(u) ==
  \/ Balance(u) \/ Refresh(u) \/ Reset(u) \/ Wrap(u) \/ Zero(u) \/ Add(u) \/ Write(u)
  \/ Access(u) \/ Store(u)

\* A panic ends the process.
Next == ~panic /\ \E u \in Caller : Step(u)

Spec == Init /\ [][Next]_vars
-----------------------------------------------------------------------------
(* Properties *)

TypeOK ==
  /\ stored \in Caller \cup {None}
  /\ length \in [Caller -> 0..MaxNodes]
  /\ lastIndex \in [Caller -> Nat]
  /\ pc \in [Caller -> {"idle", "refresh", "reset", "wrap", "zero", "add", "write",
                        "index", "store"}]
  /\ mine \in [Caller -> Caller \cup {None}]
  /\ \A u \in Caller : mine[u] = None <=> pc[u] = "idle"
  /\ nodes \in [Caller -> 0..MaxNodes]
  /\ sum \in [Caller -> Nat]
  /\ result \in [Caller -> Nat \cup {None}]
  /\ panic \in BOOLEAN
  /\ round \subseteq Nat

\* The list is never indexed out of range, whatever lists the calls come with,
\* whenever the picker expires and whoever calls at the same time.
InRange == ~panic

\* Whoever is picked has not had its turn in this round.
Turn ==
  \A u \in Caller : result[u] = None /\ result'[u] # None => result'[u] \notin round

\* Nobody is picked twice before everyone has been picked once, whichever callers
\* take turns at calling Balance, unless the list has changed, the picker has
\* expired or two calls have overlapped.
TakesTurns == [][~overlapped => Turn]_vars
=============================================================================
