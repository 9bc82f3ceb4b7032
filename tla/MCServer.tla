----------------------------- MODULE MCServer -------------------------------
(* Two processes with a server each.  The first server registers a service   *)
(* that it then replaces, one whose methods are not handlers, and the one it *)
(* serves.  The services of both servers have the same method.               *)
EXTENDS Server, TLC

CONSTANTS p1, p2, s1, s2, old, broken, greeter, greeterV2, hello

\* One server in each process.
Apart == s1 :> p1 @@ s2 :> p2

Programs == s1 :> <<old, broken, greeter>> @@ s2 :> <<greeterV2>>
AllPlugins == [s \in {s1, s2} |-> {"consul", "jaeger"}]
SameMethod == [n \in {old, broken, greeter, greeterV2} |-> {hello}]

\* No name begins with another, or "greeterV2" begins with "greeter".
NoPrefix == [n \in {old, broken, greeter, greeterV2} |-> {n}]
Prefix == [NoPrefix EXCEPT ![greeter] = {greeter, greeterV2}]
=============================================================================
