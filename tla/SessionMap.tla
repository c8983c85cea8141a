----------------------------- MODULE SessionMap -----------------------------
(***************************************************************************)
(* What a session store promises to its callers: a map from session ids to *)
(* conversations on which every operation acts at once.  A conversation    *)
(* only grows, a title is replaced as a whole, and an id whose session was *)
(* deleted is never used again.  SessionStore implements this map with     *)
(* files as long as every writer goes through its lock.                    *)
(***************************************************************************)
EXTENDS Sequences

CONSTANTS Session,  \* the ids randomUUID() can return
          Write,    \* the identities of writes: messages and titles
          Absent,   \* the value of an id that has no session yet
          Gone      \* the value of an id whose session was deleted

VARIABLE sessions

Conversation == [msgs    : Seq(Write),
                 title   : Write \cup {Absent},
                 summary : Write \cup {Absent}]

Live(s) == sessions[s] \notin {Absent, Gone}

MapInit == sessions = [s \in Session |-> Absent]

Create(s) ==
  /\ sessions[s] = Absent
  /\ \E t \in Write \cup {Absent} :
       sessions' = [sessions EXCEPT ![s] =
                      [msgs |-> <<>>, title |-> t, summary |-> Absent]]

AddMessage(s) ==
  /\ Live(s)
  /\ \E m \in Write :
       sessions' = [sessions EXCEPT ![s].msgs = Append(@, m)]

SetTitle(s) ==
  /\ Live(s)
  /\ \E t \in Write :
       sessions' = [sessions EXCEPT ![s].title = t]

Delete(s) ==
  /\ Live(s)
  /\ sessions' = [sessions EXCEPT ![s] = Gone]

MapNext == \E s \in Session : Create(s) \/ AddMessage(s) \/ SetTitle(s) \/ Delete(s)

MapSpec == MapInit /\ [][MapNext]_sessions
=============================================================================
