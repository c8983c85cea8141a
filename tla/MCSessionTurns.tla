--------------------------- MODULE MCSessionTurns ---------------------------
(* A small instance of SessionTurns for TLC. *)
EXTENDS SessionTurns

CONSTANTS t1, t2

\* Turns are interchangeable, so the terminal's need not be tried as either;
\* two terminals are as one with a server for what their turns share.
MCKinds == {[t \in {t1, t2} |-> "server"],
            [t \in {t1, t2} |-> IF t = t1 THEN "server" ELSE "cli"]}
=============================================================================
