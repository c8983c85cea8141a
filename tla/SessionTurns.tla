---------------------------- MODULE SessionTurns ----------------------------
(***************************************************************************)
(* The turns of a chat session: SessionChat (daemon/server/                *)
(* abbenay-service.ts), POST /api/sessions/:id/chat (daemon/web/server.ts) *)
(* and the terminal (daemon/chat.ts), and the summaries of the session     *)
(* (core/session-summarizer.ts), made after a turn or on request.          *)
(*                                                                         *)
(* The session store is one atomic step per call, what SessionStore shows  *)
(* of the calls that take its lock; updateSummary(), which does not take   *)
(* it, is atomic here, too.  Every call is awaited, so the turns and the   *)
(* summaries of one session interleave between calls.  The language model  *)
(* calls tools or not, and answers or not.  Left out: ownership checks,    *)
(* what messages say, and the writes to the client, which change nothing.  *)
(***************************************************************************)
EXTENDS Naturals, Sequences, FiniteSets, SequencesExt

CONSTANTS Turn,       \* requests for a turn
          Kinds,      \* the ways turns are asked for, functions on Turn
          Ask,        \* clients that ask for a summary, one request at a time
          Interval,   \* SUMMARY_INTERVAL
          MaxTools,   \* bound: tool calls in the session
          MaxFaults,  \* bound: store calls that fail, summaries without text
          Given,      \* the title the session was created with
          None

Kind == {"server", "cli"}

ASSUME TurnAssumption ==
  /\ Kinds \subseteq [Turn -> Kind]
  /\ Turn \cap Ask = {} /\ Given # None /\ {Given, None} \cap Turn = {}
  /\ Interval \in Nat \ {0} /\ MaxTools \in Nat /\ MaxFaults \in Nat

Task == Turn \cup Ask

VARIABLES
  session,    \* the stored session
  kind,       \* kind[t]: how turn t was asked for
  turn,       \* turn[t]: the local state of a turn
  task,       \* task[k]: the local state of a summary
  faults,     \* bounded by MaxFaults
  overlapped, \* history: turns that ran beside another turn
  raced       \* history: summaries were made at the same time

vars == <<session, kind, turn, task, faults, overlapped, raced>>

\* A message, by the turn that stored it.  What a tool was called with and
\* what it returned are stored as two messages.
Message == [role : {"user", "call", "result", "text"}, by : Turn]

\* A summary, the count stored with it and the number of user messages in the
\* text it was made from.
Summary == [count : Nat, covers : Nat]

\* What the store has of the session; not alive: it was deleted.
SessionState == [alive    : BOOLEAN,
                 messages : Seq(Message),
                 title    : Turn \cup {Given, None},
                 summary  : Summary \cup {None}]

\* titled: the title the turn has read.  sent: what the model was sent.
TurnState == [pc     : {"idle", "read", "streaming", "called", "answered",
                        "stored", "done", "failed"},
              read   : Seq(Message),
              titled : Turn \cup {Given, None},
              sent   : Seq(Message),
              text   : BOOLEAN]

\* users: the user messages in what was read.  served: an answer from the cache.
TaskState == [pc : {"idle", "reading", "generating", "done"}, users : Nat, covers : Nat,
              served : Summary \cup {None}]

Idle == [pc |-> "idle", read |-> <<>>, titled |-> None, sent |-> <<>>, text |-> FALSE]
Gone == [alive |-> FALSE, messages |-> <<>>, title |-> None, summary |-> None]

TypeOK ==
  /\ session \in SessionState
  /\ kind \in [Turn -> Kind] /\ turn \in [Turn -> TurnState] /\ task \in [Task -> TaskState]
  /\ \A t \in Turn : turn[t].sent # <<>> <=> turn[t].pc \in {"streaming", "called", "answered", "stored"}
  /\ faults \in 0..MaxFaults /\ overlapped \subseteq Turn /\ raced \in BOOLEAN

Init ==
  /\ session \in [alive : {TRUE}, messages : {<<>>}, title : {None, Given}, summary : {None}]
  /\ kind \in Kinds
  /\ turn = [t \in Turn |-> Idle]
  /\ task = [k \in Task |-> [pc |-> "idle", users |-> 0, covers |-> 0, served |-> None]]
  /\ faults = 0 /\ overlapped = {} /\ raced = FALSE

-----------------------------------------------------------------------------
(* Store calls. *)

Count(role) == Cardinality({i \in DOMAIN session.messages : session.messages[i].role = role})

Stored(t, role) == [session EXCEPT !.messages = Append(@, [role |-> role, by |-> t])]

\* A call of t succeeds and turns the session into new, or throws, which ends
\* the turn: the session is gone, or the store cannot write.
Store(t, new, next) ==
  \/ /\ session.alive
     /\ session' = new /\ turn' = [turn EXCEPT ![t] = next]
     /\ UNCHANGED faults
  \/ /\ session.alive => faults < MaxFaults
     /\ faults' = IF session.alive THEN faults + 1 ELSE faults
     /\ turn' = [turn EXCEPT ![t] = [Idle EXCEPT !.pc = "failed"]]
     /\ UNCHANGED session

Delete ==
  /\ session.alive
  /\ session' = Gone
  /\ UNCHANGED <<kind, turn, task, faults, overlapped, raced>>

-----------------------------------------------------------------------------
(* A turn. *)

\* A turn is under way until the check for a summary that follows it is done.
UnderWay(t) == turn[t].pc \notin {"idle", "done", "failed"} \/ task[t].pc = "reading"

\* getOwned(), or the terminal's get() at its start.
Read(t) ==
  /\ turn[t].pc = "idle"
  /\ turn' = [turn EXCEPT ![t] = IF session.alive
                THEN [@ EXCEPT !.pc = "read", !.read = session.messages, !.titled = session.title]
                ELSE [Idle EXCEPT !.pc = "failed"]]
  /\ overlapped' = overlapped \cup {u \in Turn : \E v \in Turn \ {u} :
                     {u, v} \subseteq {t} \cup {w \in Turn : UnderWay(w)} /\ t \in {u, v}}
  /\ UNCHANGED <<session, kind, task, faults, raced>>

\* The message is stored, and the model gets what was read, with the message.
Send(t) ==
  /\ turn[t].pc = "read"
  /\ Store(t, Stored(t, "user"), [turn[t] EXCEPT !.pc = "streaming",
             !.sent = Append(turn[t].read, [role |-> "user", by |-> t])])
  /\ UNCHANGED <<kind, task, overlapped, raced>>

\* A tool has run: its call is stored, then its result.  Turns of the
\* dashboard differ from those of the RPC in having no tools.
StoreCall(t) ==
  /\ turn[t].pc = "streaming" /\ Count("call") < MaxTools
  /\ Store(t, Stored(t, "call"), [turn[t] EXCEPT !.pc = "called"])
  /\ UNCHANGED <<kind, task, overlapped, raced>>

\* Mutant: the result is not awaited, and the stream goes on.
StoreResultLate(t) ==
  /\ turn[t].pc = "called"
  /\ turn' = [turn EXCEPT ![t].pc = "streaming"]
  /\ UNCHANGED <<session, faults, kind, task, overlapped, raced>>

StoreResult(t) ==
  /\ turn[t].pc = "called"
  /\ Store(t, Stored(t, "result"), [turn[t] EXCEPT !.pc = "streaming"])
  /\ UNCHANGED <<kind, task, overlapped, raced>>

\* Mutant: the answer is passed on to the client only.
EndStreamCut(t) ==
  /\ turn[t].pc = "streaming"
  /\ \E text \in BOOLEAN : turn' = [turn EXCEPT ![t].pc = "stored", ![t].text = text]
  /\ UNCHANGED <<session, kind, task, faults, overlapped, raced>>

\* The stream ends, with or without text.  An error in the stream is passed on
\* to the client and ends it, too; a browser that has left cuts it short.
EndStream(t) ==
  /\ turn[t].pc = "streaming"
  /\ \E text \in BOOLEAN :
       turn' = [turn EXCEPT ![t].pc = IF text THEN "answered" ELSE "stored", ![t].text = text]
  /\ UNCHANGED <<session, kind, task, faults, overlapped, raced>>

StoreText(t) ==
  /\ turn[t].pc = "answered"
  /\ Store(t, Stored(t, "text"), [turn[t] EXCEPT !.pc = "stored"])
  /\ UNCHANGED <<kind, task, overlapped, raced>>

\* The terminal only looks whether the user has written before.
NoUserYet(t) == \A i \in DOMAIN turn[t].read : turn[t].read[i].role # "user"

\* Mutant: the title is not looked at.
TitlesAny(t) == IF kind[t] = "cli" THEN NoUserYet(t) /\ turn[t].text ELSE turn[t].read = <<>>

\* Whether the turn names the session.
Titles(t) == IF kind[t] = "cli" THEN NoUserYet(t) /\ turn[t].text
                                ELSE turn[t].read = <<>> /\ turn[t].titled = None

\* updateTitle() if the turn names the session, and maybeSummarize() is left
\* to itself; the terminal does so only if there was an answer.
Conclude(t) ==
  /\ turn[t].pc = "stored"
  /\ LET done == [Idle EXCEPT !.pc = "done", !.text = turn[t].text]
     IN  IF Titles(t) THEN Store(t, [session EXCEPT !.title = t], done)
         ELSE turn' = [turn EXCEPT ![t] = done] /\ UNCHANGED <<session, faults>>
  /\ task' = IF turn'[t].pc = "done" /\ (kind[t] = "cli" => turn[t].text)
             THEN [task EXCEPT ![t].pc = "reading"] ELSE task
  /\ UNCHANGED <<kind, overlapped, raced>>

-----------------------------------------------------------------------------
(* Summaries. *)

Users == Count("user")

Cached == session.summary # None /\ session.summary.count = Users

\* Mutant: the message the turn has just stored is not counted.
DueLate == Users > Interval /\ Users % Interval = 1 /\ ~Cached

Due == Users >= Interval /\ Users % Interval = 0 /\ ~Cached

\* The session is read.  A summary is made after a turn if one is due, on
\* request if the stored one is of another number of messages.
ReadForSummary(k) ==
  /\ task[k].pc \in IF k \in Turn THEN {"reading"} ELSE {"idle", "done"}
  /\ LET makes == session.alive /\ IF k \in Turn THEN Due ELSE ~Cached
     IN  /\ task' = [task EXCEPT ![k] =
              IF makes THEN [pc |-> "generating", users |-> Users, covers |-> Users, served |-> None]
              ELSE IF k \in Ask /\ session.alive
              THEN [pc |-> "done", users |-> Users, covers |-> 0, served |-> session.summary]
              ELSE [pc |-> "done", users |-> 0, covers |-> 0, served |-> None]]
         /\ raced' = (raced \/ (makes /\ \E j \in Task \ {k} : task[j].pc = "generating"))
  /\ UNCHANGED <<session, kind, turn, faults, overlapped>>

\* Mutant: the messages are counted when the summary is stored.
NewCountLate(k) == [count |-> Users, covers |-> task[k].covers]

NewSummary(k) == [count |-> task[k].users, covers |-> task[k].covers]

\* The model answers and updateSummary() stores it; there is no text, or the
\* store fails; or the session is gone.
WriteSummary(k) ==
  /\ task[k].pc = "generating"
  /\ task' = [task EXCEPT ![k] = [@ EXCEPT !.pc = "done", !.users = 0, !.covers = 0]]
  /\ \/ session.alive /\ session' = [session EXCEPT !.summary = NewSummary(k)] /\ UNCHANGED faults
     \/ session.alive /\ faults < MaxFaults /\ faults' = faults + 1 /\ UNCHANGED session
     \/ ~session.alive /\ UNCHANGED <<session, faults>>
  /\ UNCHANGED <<kind, turn, overlapped, raced>>

-----------------------------------------------------------------------------
TurnStep(t) ==
  Send(t) \/ StoreCall(t) \/ StoreResult(t) \/ EndStream(t) \/ StoreText(t) \/ Conclude(t)

TaskStep(k) == ReadForSummary(k) \/ WriteSummary(k)

Next ==
  \/ \E t \in Turn : Read(t) \/ TurnStep(t)
  \/ \E k \in Task : TaskStep(k)
  \/ Delete

\* Store calls return, streams end.
Spec == /\ Init /\ [][Next]_vars
        /\ \A t \in Turn : WF_vars(TurnStep(t))
        /\ \A k \in Turn : WF_vars(ReadForSummary(k))
        /\ \A k \in Task : WF_vars(WriteSummary(k))

-----------------------------------------------------------------------------
(* Properties. *)

\* In what the model is sent the call of a tool is followed by its result,
\* unless a turn has failed between storing the two or was under way
\* (abbenay-service.ts:1619).
CallsAnswered ==
  \A t \in Turn \ overlapped : \A i \in DOMAIN turn[t].sent :
    LET msg == turn[t].sent[i] IN
    msg.role = "call" /\ msg.by \notin overlapped =>
      \/ turn[msg.by].pc = "failed"
      \/ i < Len(turn[t].sent) /\ turn[t].sent[i + 1] = [role |-> "result", by |-> msg.by]

\* The places of a turn's messages in the session, and next to each other but
\* for the messages of other turns.
Own(t) == {i \in DOMAIN session.messages : session.messages[i].by = t}

Role(i) == session.messages[i].role

Adjacent(t, i, j) == i < j /\ \A k \in Own(t) : k <= i \/ j <= k

\* The turn's one message of the user comes first.
Opened(t) == \E i \in Own(t) : /\ Role(i) = "user"
                               /\ \A j \in Own(t) \ {i} : i < j /\ Role(j) # "user"

LastOwn(t, i) == \A j \in Own(t) : j <= i

CallHasResult(t, i) == \E j \in Own(t) : Adjacent(t, i, j) /\ Role(j) = "result"
ResultHasCall(t, j) == \E i \in Own(t) : Adjacent(t, i, j) /\ Role(i) = "call"

\* A turn that is done has left its message, its tools' calls with their
\* results and its answer in the session, in this order, whatever was stored
\* between them by other turns (abbenay-service.ts:1583-1652).
TurnsStored ==
  \A t \in Turn : session.alive /\ turn[t].pc = "done" =>
    /\ Opened(t)
    /\ \A i \in Own(t) : /\ Role(i) = "call" => CallHasResult(t, i)
                         /\ Role(i) = "result" => ResultHasCall(t, i)
                         /\ Role(i) = "text" => turn[t].text /\ LastOwn(t, i)
    /\ turn[t].text => \E i \in Own(t) : Role(i) = "text"

\* A title stays, the one the session was created with or the first turn's;
\* but turns beside each other both name it, and the terminal does not look
\* at the title (chat.ts:227).
TitleStays ==
  [][session.title # None /\ session'.title \notin {session.title, None} =>
       session'.title \in overlapped \/ kind[session'.title] = "cli"]_vars

\* A summary from the cache is one of all that the user had written by then,
\* whichever summary was stored last (abbenay-service.ts:1698).
CacheIsCurrent ==
  \A k \in Ask : task[k].served # None => task[k].served.covers = task[k].users

\* Every Interval-th message of the user's leads to a summary, unless
\* something fails, turns run beside each other or the terminal got no answer
\* to it; summaries made at the same time may end in the wrong order
\* (session-summarizer.ts:78).
SummaryComes ==
  \A n \in 1..Cardinality(Turn) :
    (Users = n * Interval /\ \A t \in Turn : turn[t].pc = "idle" \/ (turn[t].pc = "done" /\ turn[t].text))
      ~> \/ session.summary # None /\ session.summary.covers >= n * Interval
         \/ overlapped # {} \/ raced \/ faults > 0 \/ ~session.alive
=============================================================================
