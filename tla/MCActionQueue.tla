---------------------------- MODULE MCActionQueue ----------------------------
(* Instance of ActionQueue for TLC: web waits for db, and takes one of two *)
(* ports.                                                                   *)
EXTENDS ActionQueue

DependsOnOne == [a \in {"web", "db"} |-> IF a = "web" THEN <<"db">> ELSE <<>>]
BaseOne == [a \in {"web", "db"} |-> 1]
SpanOne == [a \in {"web", "db"} |-> IF a = "web" THEN 2 ELSE 1]
=============================================================================
