--------------------------- MODULE MCSessionStore ---------------------------
(* Small instances of SessionStore for TLC. *)
EXTENDS SessionStore, TLC

\* Ids are interchangeable, and so are the locked calls and the summary calls.
Interchangeable == Permutations(Session)
                     \cup Permutations(Call \ SummaryCall)
                     \cup Permutations(SummaryCall)
=============================================================================
