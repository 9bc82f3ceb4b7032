---------------------------- MODULE PoolManager -----------------------------
(***************************************************************************)
(* poolManager of pool/connpool: the table of connection pools by address, *)
(* and NewSonConnPool, which fills a new pool.  poolManager.Get looks the  *)
(* address up and stores a new pool in two steps, with the dialling of the *)
(* initial connections in between, so that callers may build several pools *)
(* for one address.                                                        *)
(*                                                                         *)
(* A pool is the set of connections that nobody has borrowed from it; see  *)
(* ConnPool for what happens inside.                                       *)
(***************************************************************************)
EXTENDS Naturals, FiniteSets

CONSTANTS
  Caller,      \* goroutines that call poolManager.Get
  Address,     \* addresses of servers
  PoolId,      \* identities of the sonConnPools that are made, never reused
  Conn,        \* identities of connections, reused once a connection is gone
  Configured,  \* Options.initialCap as NewConnPool leaves it
  None

ASSUME PoolManagerAssumption ==
  /\ Configured \in Nat
  /\ None \notin Address \cup PoolId \cup Conn

VARIABLES
  table,    \* p.conns: the pool of an address
  initial,  \* p.opts.initialCap
  serves,   \* the address a pool was made for
  idle,     \* the connections a pool has buffered
  checked,  \* pools with a checker goroutine, which never ends
  peer,     \* the address a connection is open to
  pc,       \* of a caller
  want,     \* the address it asks for
  mine,     \* the pool it fills or borrows from
  made,     \* the connections it has dialled for the pool it fills
  hand      \* the connection it has borrowed

pools == <<table, initial, serves, idle, checked>>
caller == <<pc, want, mine, made, hand>>
vars == <<pools, peer, caller>>

Borrowed == {hand[u] : u \in Caller} \ {None}
Free == {c \in Conn : peer[c] = None} \ Borrowed
Published == {table[a] : a \in Address} \ {None}

\* The key of an address in the table.
SharedKey(a) == CHOOSE x \in Address : TRUE
Key(a) == a

Goto(u, label) == pc' = [pc EXCEPT ![u] = label]
-----------------------------------------------------------------------------
Init ==
  /\ table = [a \in Address |-> None]
  /\ initial = Configured
  /\ serves = [p \in PoolId |-> None]
  /\ idle = [p \in PoolId |-> {}]
  /\ checked = {}
  /\ peer = [c \in Conn |-> None]
  /\ pc = [u \in Caller |-> "idle"]
  /\ want = [u \in Caller |-> None]
  /\ mine = [u \in Caller |-> None]
  /\ made = [u \in Caller |-> 0]
  /\ hand = [u \in Caller |-> None]
-----------------------------------------------------------------------------
(* poolManager.Get *)

Load(u) ==
  /\ pc[u] = "idle"
  /\ \E a \in Address :
       /\ want' = [want EXCEPT ![u] = a]
       /\ mine' = [mine EXCEPT ![u] = table[Key(a)]]
       /\ Goto(u, IF table[Key(a)] = None THEN "make" ELSE "get")
  /\ UNCHANGED <<pools, peer, made, hand>>

\* NewSonConnPool makes the pool.  An initialCap of 0 counts as 1, and becomes 1
\* in the options that all pools share.
Make(u) ==
  /\ pc[u] = "make"
  /\ \E p \in PoolId :
       /\ serves[p] = None
       /\ serves' = [serves EXCEPT ![p] = want[u]]
       /\ mine' = [mine EXCEPT ![u] = p]
  /\ made' = [made EXCEPT ![u] = 0]
  /\ initial' = IF initial = 0 THEN 1 ELSE initial
  /\ Goto(u, "fill")
  /\ UNCHANGED <<table, idle, checked, peer, want, hand>>

\* One iteration: a connection is dialled and put into the channel, or the
\* dialling fails and the pool is abandoned with what it holds.
Fill(u) ==
  /\ pc[u] = "fill" /\ made[u] < initial
  /\ \/ /\ \E c \in Free :
             /\ peer' = [peer EXCEPT ![c] = want[u]]
             /\ idle' = [idle EXCEPT ![mine[u]] = @ \cup {c}]
        /\ made' = [made EXCEPT ![u] = @ + 1]
        /\ UNCHANGED <<pc, want, mine>>
     \/ /\ mine' = [mine EXCEPT ![u] = None]
        /\ want' = [want EXCEPT ![u] = None]
        /\ made' = [made EXCEPT ![u] = 0]
        /\ Goto(u, "idle")
        /\ UNCHANGED <<peer, idle>>
  /\ UNCHANGED <<table, initial, serves, checked, hand>>

\* The loop is over and RegisterChecker starts the checker.
NoChecker(u) ==
  /\ pc[u] = "fill" /\ made[u] >= initial
  /\ made' = [made EXCEPT ![u] = 0]
  /\ Goto(u, "store")
  /\ UNCHANGED <<pools, peer, want, mine, hand>>
RegisterChecker(u) ==
  /\ pc[u] = "fill" /\ made[u] >= initial
  /\ checked' = checked \cup {mine[u]}
  /\ made' = [made EXCEPT ![u] = 0]
  /\ Goto(u, "store")
  /\ UNCHANGED <<table, initial, serves, idle, peer, want, mine, hand>>

\* The pool goes into the table, in the place of one that came in meanwhile.
Forget(u) ==
  /\ pc[u] = "store"
  /\ Goto(u, "get")
  /\ UNCHANGED <<pools, peer, want, mine, made, hand>>
Store(u) ==
  /\ pc[u] = "store"
  /\ table' = [table EXCEPT ![Key(want[u])] = mine[u]]
  /\ Goto(u, "get")
  /\ UNCHANGED <<initial, serves, idle, checked, peer, want, mine, made, hand>>

\* sonConnPool.Get: an idle connection, a new one if there is none or if the
\* checker has it in its hands, or an error.
Get(u) ==
  /\ pc[u] = "get"
  /\ \/ \E c \in idle[mine[u]] :
          /\ idle' = [idle EXCEPT ![mine[u]] = @ \ {c}]
          /\ hand' = [hand EXCEPT ![u] = c]
          /\ Goto(u, "use")
          /\ UNCHANGED <<peer, want, mine>>
     \/ \E c \in Free :
          /\ peer' = [peer EXCEPT ![c] = serves[mine[u]]]
          /\ hand' = [hand EXCEPT ![u] = c]
          /\ Goto(u, "use")
          /\ UNCHANGED <<idle, want, mine>>
     \/ /\ want' = [want EXCEPT ![u] = None]
        /\ mine' = [mine EXCEPT ![u] = None]
        /\ Goto(u, "idle")
        /\ UNCHANGED <<idle, peer, hand>>
  /\ UNCHANGED <<table, initial, serves, checked, made>>

\* PoolConn.Close: the connection goes back to the pool it came from, PoolConn.c,
\* or is closed because it has failed.
Keep(u) == UNCHANGED hand
LetGo(u) == hand' = [hand EXCEPT ![u] = None]
Return(u) ==
  /\ pc[u] = "use"
  /\ \/ idle' = [idle EXCEPT ![mine[u]] = @ \cup {hand[u]}] /\ UNCHANGED peer
     \/ peer' = [peer EXCEPT ![hand[u]] = None] /\ UNCHANGED idle
  /\ LetGo(u)
  /\ want' = [want EXCEPT ![u] = None]
  /\ mine' = [mine EXCEPT ![u] = None]
  /\ Goto(u, "idle")
  /\ UNCHANGED <<table, initial, serves, checked, made>>
-----------------------------------------------------------------------------
(* The checkers, and the finalizers of the runtime *)

\* Every buffered connection is past its time some day.
PurgeKeepsOne(p) ==
  /\ p \in checked /\ Cardinality(idle[p]) > 1
  /\ \E c \in idle[p] :
       /\ idle' = [idle EXCEPT ![p] = @ \ {c}]
       /\ peer' = [peer EXCEPT ![c] = None]
  /\ UNCHANGED <<table, initial, serves, checked, caller>>
Purge(p) ==
  /\ p \in checked
  /\ \E c \in idle[p] :
       /\ idle' = [idle EXCEPT ![p] = @ \ {c}]
       /\ peer' = [peer EXCEPT ![c] = None]
  /\ UNCHANGED <<table, initial, serves, checked, caller>>

\* Nothing refers to an abandoned pool: if the garbage collector runs, the
\* sockets in it are closed.
Collect(p) ==
  /\ serves[p] # None /\ p \notin checked /\ \A u \in Caller : mine[u] # p
  /\ \E c \in idle[p] :
       /\ idle' = [idle EXCEPT ![p] = @ \ {c}]
       /\ peer' = [peer EXCEPT ![c] = None]
  /\ UNCHANGED <<table, initial, serves, checked, caller>>
-----------------------------------------------------------------------------
CallerStep(u) ==
  \/ Make(u) \/ Fill(u) \/ RegisterChecker(u) \/ Store(u) \/ Get(u) \/ Return(u)

Next ==
  \/ \E u \in Caller : Load(u) \/ CallerStep(u)
  \/ \E p \in PoolId : Purge(p) \/ Collect(p)

Spec == Init /\ [][Next]_vars

\* Calls end, with an answer or an error, and the checkers keep running.  When
\* the garbage collector runs is nobody's promise.
Fairness ==
  /\ \A u \in Caller : WF_vars(CallerStep(u))
  /\ \A p \in PoolId : WF_vars(Purge(p))

FairSpec == Spec /\ Fairness
-----------------------------------------------------------------------------
(* Properties *)

\* The variables keep their types, and a caller has a pool exactly from the time
\* it has found or made one until its call ends.
TypeOK ==
  /\ table \in [Address -> PoolId \cup {None}]
  /\ initial \in Nat
  /\ serves \in [PoolId -> Address \cup {None}]
  /\ idle \in [PoolId -> SUBSET Conn]
  /\ checked \subseteq PoolId
  /\ peer \in [Conn -> Address \cup {None}]
  /\ pc \in [Caller -> {"idle", "make", "fill", "store", "get", "use"}]
  /\ want \in [Caller -> Address \cup {None}]
  /\ mine \in [Caller -> PoolId \cup {None}]
  /\ made \in [Caller -> Nat]
  /\ hand \in [Caller -> Conn \cup {None}]
  /\ \A u \in Caller :
       /\ want[u] # None <=> pc[u] # "idle"
       /\ mine[u] # None <=> pc[u] \notin {"idle", "make"}
       /\ hand[u] # None <=> pc[u] = "use"

\* A caller gets a connection to the address it asked for, through whichever of
\* the pools of that address, and whoever has filled it.
RightPeer == \A u \in Caller : hand[u] # None => peer[hand[u]] = want[u]

\* Every pool callers find in the table serves the address it is found under and
\* has a checker, which alone ever closes its idle connections: an abandoned
\* pool is never in the table.
PublishedIsChecked ==
  \A a \in Address :
    table[a] # None => table[a] \in checked /\ serves[table[a]] = a

\* The race between Load and Store makes at most one pool per caller and address:
\* the checkers, which never end, are bounded by the number of concurrent calls.
BoundedCheckers ==
  \A a \in Address :
    Cardinality({p \in checked : serves[p] = a}) <= Cardinality(Caller)

\* The pools that lost the race empty themselves for good: some day all idle
\* connections are in pools that callers can find.
LosersDrain ==
  \A p \in PoolId : <>[](p \in checked \ Published => idle[p] = {})
=============================================================================
