----------------------------- MODULE ConnLease ------------------------------
(***************************************************************************)
(* What the connection pool promises: a connection belongs to the pool, to *)
(* one goroutine or to nobody, the pool only keeps open ones, and a        *)
(* connection that belongs to nobody is closed.  Pool, Nobody and the      *)
(* holders are distinct.                                                   *)
(***************************************************************************)
CONSTANTS
  Conn,    \* identities of connections
  Holder,  \* goroutines that use or check connections
  Pool,    \* owner of the idle connections
  Nobody   \* owner of the connections that do not exist

VARIABLES
  owner,  \* whom a connection belongs to
  open    \* its socket is open
leaseVars == <<owner, open>>

LeaseInit ==
  /\ owner \in [Conn -> {Pool, Nobody}]
  /\ open = [c \in Conn |-> owner[c] = Pool]

\* A connection changes hands: created, borrowed, returned.
Moves(c, from, to) == owner[c] = from /\ owner' = [owner EXCEPT ![c] = to]

Create(h, c) == Moves(c, Nobody, h) /\ open' = [open EXCEPT ![c] = TRUE]
Borrow(h, c) == Moves(c, Pool, h) /\ UNCHANGED open
Return(h, c) == open[c] /\ Moves(c, h, Pool) /\ UNCHANGED open

\* The goroutine that has it closes the socket, and keeps what is left of it.
Break(h, c) == owner[c] = h /\ open' = [open EXCEPT ![c] = FALSE] /\ UNCHANGED owner

\* Its owner closes it and lets go of it.
Retire(o, c) == Moves(c, o, Nobody) /\ open' = [open EXCEPT ![c] = FALSE]

LeaseNext ==
  \E c \in Conn :
    \/ \E h \in Holder : Create(h, c) \/ Borrow(h, c) \/ Return(h, c) \/ Break(h, c)
    \/ \E o \in Holder \cup {Pool} : Retire(o, c)

LeaseSpec == LeaseInit /\ [][LeaseNext]_leaseVars
=============================================================================
