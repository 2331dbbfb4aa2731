---------------------------- MODULE MCSessionActor ----------------------------
(* Small instances of SessionActor.                                            *)
EXTENDS SessionActor, TLC

CONSTANTS q1, q2, q3, i1, i2, d1

\* One query more than a drive can stash, two interrupts, one disconnect.
BusyCommands == {q1, q2, q3, i1, i2, d1}
BusyKind == [c \in BusyCommands |-> IF c = d1 THEN "disconnect"
                                   ELSE IF c \in {i1, i2} THEN "interrupt"
                                   ELSE "query"]

\* A query and the command that ends it.
PairCommands == {q1, d1}
PairKind == [c \in PairCommands |-> IF c = d1 THEN "disconnect" ELSE "query"]
=============================================================================
