------------------------- MODULE SessionTurnsProofs -------------------------
(***************************************************************************)
(* For any number of turns, clients that ask for summaries, tool calls and *)
(* faults: the model sees the results of the tool calls it sees, what a    *)
(* turn leaves in the session is complete and in order, a title stays, and *)
(* a summary from the cache is current.                                    *)
(***************************************************************************)
EXTENDS SessionTurns, TLAPS, SequenceTheorems, FiniteSetTheorems

-----------------------------------------------------------------------------
(* The inductive invariant. *)

Active == {"read", "streaming", "called", "answered", "stored"}

\* Turns that are under way together have noted it.
Apart == \A t, u \in Turn : t # u /\ UnderWay(t) /\ UnderWay(u) => {t, u} \subseteq overlapped

\* A turn that is alone knows the title.
TitleKnown ==
  \A t \in Turn \ overlapped : turn[t].pc \in Active /\ session.alive => turn[t].titled = session.title

\* A summary, stored, served or being made, is of the number of messages that
\* goes with it.
Counted ==
  /\ session.summary # None => session.summary.count = session.summary.covers
  /\ \A k \in Task : task[k].pc = "generating" => task[k].users = task[k].covers /\ task[k].served = None
  /\ \A k \in Ask : task[k].served # None => task[k].served.covers = task[k].users

\* With turns tn, those in ov overlapped: the i-th message of msgs is no call, or
\* not one that should have a result, or its result comes next.
AnsweredAt(msgs, i, tn, ov) ==
  msgs[i].role = "call" /\ msgs[i].by \notin ov =>
    \/ tn[msgs[i].by].pc = "failed"
    \/ i < Len(msgs) /\ msgs[i + 1] = [role |-> "result", by |-> msgs[i].by]

Answered(msgs, tn, ov) == \A i \in DOMAIN msgs : AnsweredAt(msgs, i, tn, ov)

\* ... or it is the last and a call whose turn has yet to store the result.
FollowedAt(msgs, i, tn, ov) ==
  AnsweredAt(msgs, i, tn, ov) \/ (i = Len(msgs) /\ tn[msgs[i].by].pc = "called")

\* Calls are answered in what the model is sent, and in the session but for its
\* last message.
CallsFollowed ==
  /\ \A i \in DOMAIN session.messages : FollowedAt(session.messages, i, turn, overlapped)
  /\ \A t \in Turn \ overlapped : /\ turn[t].pc = "read" => Answered(turn[t].read, turn, overlapped)
                                  /\ Answered(turn[t].sent, turn, overlapped)

IInv == TypeOK /\ Apart /\ TitleKnown /\ Counted /\ CallsFollowed

\* How far the messages of a turn have come, by how far the turn has.
Logged(t) ==
  /\ turn[t].pc \in {"idle", "read"} => Own(t) = {}
  /\ turn[t].pc = "answered" => turn[t].text
  /\ session.alive /\ turn[t].pc \in {"streaming", "called", "answered", "stored", "done"} =>
       /\ Opened(t)
       /\ \A i \in Own(t) :
            /\ Role(i) = "call" => CallHasResult(t, i) \/ (turn[t].pc = "called" /\ LastOwn(t, i))
            /\ Role(i) = "result" => ResultHasCall(t, i)
            /\ Role(i) = "text" => turn[t].pc \in {"stored", "done"} /\ turn[t].text /\ LastOwn(t, i)
       /\ turn[t].pc = "called" => \E i \in Own(t) : Role(i) = "call" /\ LastOwn(t, i)
       /\ turn[t].pc \in {"stored", "done"} /\ turn[t].text => \E i \in Own(t) : Role(i) = "text"

LogInv == \A t \in Turn : Logged(t)

-----------------------------------------------------------------------------
(* The steps of a turn. *)

\* A step of turn t to the local state next: what every step of a turn that is
\* under way has in common.
Moves(t, next) ==
  /\ turn[t].pc \in Active /\ turn' = [turn EXCEPT ![t] = next]
  /\ next \in TurnState /\ next.pc \in (Active \cup {"done", "failed"}) \ {"read"}
  /\ next.sent # <<>> <=> next.pc \in {"streaming", "called", "answered", "stored"}
  /\ \/ next.sent \in {turn[t].sent, <<>>}
     \/ turn[t].pc = "read" /\ next.sent = Append(turn[t].read, [role |-> "user", by |-> t])
  /\ next.pc \in Active => next.titled = turn[t].titled /\ session'.title = session.title
  /\ session' \in SessionState /\ session'.alive = session.alive /\ session'.summary = session.summary
  /\ \/ session'.messages = session.messages /\ (turn[t].pc = "called" => next.pc = "failed")
     \/ \E r \in {"user", "call", "result", "text"} :
          /\ session'.messages = Append(session.messages, [role |-> r, by |-> t])
          /\ turn[t].pc = "called" => r = "result"
          /\ r = "call" => next.pc = "called"
  /\ faults' \in 0..MaxFaults
  /\ task' = task \/ task' = [task EXCEPT ![t].pc = "reading"]
  /\ UNCHANGED <<kind, overlapped, raced>>

\* Appending a message gives a session and its messages.
LEMMA StoredType ==
  ASSUME TypeOK, NEW t \in Turn, NEW r \in {"user", "call", "result", "text"}
  PROVE  /\ Stored(t, r) \in SessionState
         /\ Stored(t, r).alive = session.alive /\ Stored(t, r).summary = session.summary
         /\ Stored(t, r).title = session.title
         /\ Stored(t, r).messages = Append(session.messages, [role |-> r, by |-> t])
<1>1. [role |-> r, by |-> t] \in Message
  BY DEF Message
<1>2. Append(session.messages, [role |-> r, by |-> t]) \in Seq(Message)
  BY <1>1 DEF TypeOK, SessionState
<1> QED BY <1>2 DEF Stored, TypeOK, SessionState

\* A turn that has not begun, or is over.
LEMMA IdleType ==
  ASSUME NEW l \in {"idle", "failed", "done"}, NEW b \in BOOLEAN
  PROVE  /\ Idle \in TurnState
         /\ LET x == [Idle EXCEPT !.pc = l, !.text = b]
            IN x \in TurnState /\ x.pc = l /\ x.sent = <<>>
         /\ [Idle EXCEPT !.pc = l] \in TurnState
         /\ [Idle EXCEPT !.pc = l].pc = l /\ [Idle EXCEPT !.pc = l].sent = <<>>
         /\ Idle.pc = "idle" /\ Idle.sent = <<>>
<1>1. <<>> \in Seq(Message)
  OBVIOUS
<1> QED BY <1>1 DEF Idle, TurnState

\* A store call succeeds or ends the turn.
LEMMA StoreMoves ==
  ASSUME TypeOK, NEW t \in Turn, NEW new \in SessionState, NEW next \in TurnState,
         Store(t, new, next), turn[t].pc \in Active,
         new.alive = session.alive, new.summary = session.summary
  PROVE  /\ faults' \in 0..MaxFaults
         /\ \/ session' = new /\ session.alive /\ turn' = [turn EXCEPT ![t] = next]
            \/ session' = session /\ turn' = [turn EXCEPT ![t] = [Idle EXCEPT !.pc = "failed"]]
<1>1. MaxFaults \in Nat /\ faults \in 0..MaxFaults
  BY TurnAssumption DEF TypeOK
<1> QED BY <1>1 DEF Store

\* Every step of a turn is such a move.
LEMMA TurnMoves ==
  ASSUME TypeOK, NEW t \in Turn, TurnStep(t)
  PROVE  \E next : Moves(t, next)
<1> DEFINE failed == [Idle EXCEPT !.pc = "failed"]
           local == turn[t]
<1>0. /\ failed \in TurnState /\ failed.pc = "failed" /\ failed.sent = <<>>
      /\ session \in SessionState /\ faults \in 0..MaxFaults
      /\ local \in TurnState /\ (local.sent # <<>> <=> local.pc \in {"streaming", "called", "answered", "stored"})
  BY IdleType DEF TypeOK
<1> HIDE DEF failed
<1>a. ASSUME session' = session, turn' = [turn EXCEPT ![t] = failed], faults' \in 0..MaxFaults,
             task' = task, UNCHANGED <<kind, overlapped, raced>>, local.pc \in Active
      PROVE  Moves(t, failed)
  BY <1>0, <1>a DEF Moves, Active
<1>b. ASSUME NEW r \in {"user", "call", "result", "text"}, NEW next \in TurnState,
             Store(t, Stored(t, r), next), local.pc \in Active,
             next.pc \in Active \ {"read"}, next.titled = local.titled,
             next.sent # <<>>, next.pc \in {"streaming", "called", "answered", "stored"},
             \/ next.sent = local.sent
             \/ local.pc = "read" /\ next.sent = Append(local.read, [role |-> "user", by |-> t]),
             local.pc = "called" => r = "result", r = "call" => next.pc = "called",
             UNCHANGED <<kind, task, overlapped, raced>>
      PROVE  \E n : Moves(t, n)
  <2>1. /\ faults' \in 0..MaxFaults
        /\ \/ session' = Stored(t, r) /\ turn' = [turn EXCEPT ![t] = next]
           \/ session' = session /\ turn' = [turn EXCEPT ![t] = failed]
    <3>1. /\ Stored(t, r) \in SessionState
          /\ Stored(t, r).alive = session.alive /\ Stored(t, r).summary = session.summary
      BY StoredType
    <3> QED BY <1>b, <3>1, StoreMoves DEF failed
  <2>2. CASE session' = session /\ turn' = [turn EXCEPT ![t] = failed]
    BY <1>a, <1>b, <2>1, <2>2
  <2>3. CASE session' = Stored(t, r) /\ turn' = [turn EXCEPT ![t] = next]
    <3>1. /\ session' \in SessionState
          /\ session'.alive = session.alive /\ session'.summary = session.summary
          /\ session'.title = session.title
          /\ session'.messages = Append(session.messages, [role |-> r, by |-> t])
      BY <2>3, StoredType
    <3>2. Moves(t, next)
      BY <1>b, <2>1, <2>3, <3>1 DEF Moves
    <3> QED BY <3>2
  <2> QED BY <2>1, <2>2, <2>3
<1>1. CASE Send(t)
  <2> DEFINE msg == [role |-> "user", by |-> t]
             next == [local EXCEPT !.pc = "streaming", !.sent = Append(local.read, msg)]
  <2>1. msg \in Message
    BY DEF Message
  <2>2. local.read \in Seq(Message)
    BY <1>0 DEF TurnState
  <2>3. Append(local.read, msg) \in Seq(Message) /\ Append(local.read, msg) # <<>>
    BY <2>1, <2>2, AppendProperties, EmptySeq
  <2> HIDE DEF msg
  <2>4. /\ next \in TurnState /\ next.pc = "streaming" /\ next.titled = local.titled
        /\ next.sent = Append(local.read, msg)
    BY <1>0, <2>3 DEF TurnState
  <2>5. /\ local.pc = "read" /\ Store(t, Stored(t, "user"), next)
        /\ UNCHANGED <<kind, task, overlapped, raced>>
    BY <1>1 DEF Send, msg
  <2> HIDE DEF next
  <2> QED BY <1>b, <2>3, <2>4, <2>5 DEF Active, msg
<1>2. CASE StoreCall(t)
  <2> DEFINE next == [local EXCEPT !.pc = "called"]
  <2>1. /\ next \in TurnState /\ next.pc = "called" /\ next.titled = local.titled /\ next.sent = local.sent
    BY <1>0 DEF TurnState
  <2>2. /\ local.pc = "streaming" /\ Store(t, Stored(t, "call"), next)
        /\ UNCHANGED <<kind, task, overlapped, raced>>
    BY <1>2 DEF StoreCall
  <2> HIDE DEF next
  <2> QED BY <1>0, <1>b, <2>1, <2>2 DEF Active
<1>3. CASE StoreResult(t)
  <2> DEFINE next == [local EXCEPT !.pc = "streaming"]
  <2>1. /\ next \in TurnState /\ next.pc = "streaming" /\ next.titled = local.titled /\ next.sent = local.sent
    BY <1>0 DEF TurnState
  <2>2. /\ local.pc = "called" /\ Store(t, Stored(t, "result"), next)
        /\ UNCHANGED <<kind, task, overlapped, raced>>
    BY <1>3 DEF StoreResult
  <2> HIDE DEF next
  <2> QED BY <1>0, <1>b, <2>1, <2>2 DEF Active
<1>4. CASE StoreText(t)
  <2> DEFINE next == [local EXCEPT !.pc = "stored"]
  <2>1. /\ next \in TurnState /\ next.pc = "stored" /\ next.titled = local.titled /\ next.sent = local.sent
    BY <1>0 DEF TurnState
  <2>2. /\ local.pc = "answered" /\ Store(t, Stored(t, "text"), next)
        /\ UNCHANGED <<kind, task, overlapped, raced>>
    BY <1>4 DEF StoreText
  <2> HIDE DEF next
  <2> QED BY <1>0, <1>b, <2>1, <2>2 DEF Active
<1>5. CASE EndStream(t)
  <2>1. PICK text \in BOOLEAN :
          turn' = [turn EXCEPT ![t].pc = IF text THEN "answered" ELSE "stored", ![t].text = text]
    BY <1>5 DEF EndStream
  <2> DEFINE next == [local EXCEPT !.pc = IF text THEN "answered" ELSE "stored", !.text = text]
  <2>2. /\ next \in TurnState /\ next.pc \in {"answered", "stored"} /\ next.titled = local.titled
        /\ next.sent = local.sent /\ turn' = [turn EXCEPT ![t] = next]
    BY <1>0, <2>1 DEF TurnState, TypeOK
  <2>3. /\ local.pc = "streaming" /\ UNCHANGED <<session, kind, task, faults, overlapped, raced>>
    BY <1>5 DEF EndStream
  <2> HIDE DEF next
  <2>4. Moves(t, next)
    BY <1>0, <2>2, <2>3 DEF Moves, Active
  <2> QED BY <2>4
<1>6. CASE Conclude(t)
  <2> DEFINE next == [Idle EXCEPT !.pc = "done", !.text = local.text]
             new == [session EXCEPT !.title = t]
  <2>1. next \in TurnState /\ next.pc = "done" /\ next.sent = <<>>
    <3>1. local.text \in BOOLEAN
      BY <1>0 DEF TurnState
    <3> QED BY <3>1, IdleType
  <2>2. /\ new \in SessionState /\ new.alive = session.alive /\ new.summary = session.summary
        /\ new.messages = session.messages
    BY <1>0 DEF SessionState
  <2>3. /\ local.pc = "stored" /\ UNCHANGED <<kind, overlapped, raced>>
        /\ Store(t, new, next) \/ (turn' = [turn EXCEPT ![t] = next] /\ UNCHANGED <<session, faults>>)
        /\ task' = task \/ task' = [task EXCEPT ![t].pc = "reading"]
        /\ task' # task => turn'[t].pc = "done"
    BY <1>6 DEF Conclude
  <2> HIDE DEF next, new
  <2>4. /\ faults' \in 0..MaxFaults
        /\ \/ session' \in {new, session} /\ turn' = [turn EXCEPT ![t] = next]
           \/ session' = session /\ turn' = [turn EXCEPT ![t] = failed]
    <3>1. CASE Store(t, new, next)
      BY <2>1, <2>2, <2>3, <3>1, StoreMoves DEF Active, failed
    <3>2. CASE turn' = [turn EXCEPT ![t] = next] /\ UNCHANGED <<session, faults>>
      BY <1>0, <3>2
    <3> QED BY <2>3, <3>1, <3>2
  <2>5. CASE session' = session /\ turn' = [turn EXCEPT ![t] = failed]
    <3>1. turn'[t].pc = "failed"
      BY <1>0, <2>5 DEF TypeOK
    <3> QED BY <1>a, <2>3, <2>4, <2>5, <3>1 DEF Active
  <2>6. CASE session' \in {new, session} /\ turn' = [turn EXCEPT ![t] = next]
    <3>1. Moves(t, next)
      BY <1>0, <2>1, <2>2, <2>3, <2>4, <2>6 DEF Moves, Active
    <3> QED BY <3>1
  <2> QED BY <2>4, <2>5, <2>6
<1> QED BY <1>1, <1>2, <1>3, <1>4, <1>5, <1>6 DEF TurnStep

-----------------------------------------------------------------------------
(* A move keeps the invariant. *)

\* Types, and what was sent while a turn streams.
LEMMA MovesType ==
  ASSUME TypeOK, NEW t \in Turn, NEW next, Moves(t, next)
  PROVE  TypeOK'
<1>1. turn' \in [Turn -> TurnState]
  BY DEF TypeOK, Moves
<1>2. \A u \in Turn : turn'[u].sent # <<>> <=> turn'[u].pc \in {"streaming", "called", "answered", "stored"}
  BY DEF TypeOK, Moves
<1>3. task' \in [Task -> TaskState]
  <2>1. [task EXCEPT ![t].pc = "reading"] \in [Task -> TaskState]
    BY DEF TypeOK, Task, TaskState
  <2> QED BY <2>1 DEF TypeOK, Moves
<1> QED BY <1>1, <1>2, <1>3 DEF TypeOK, Moves

\* Who is under way after a move was so before.
LEMMA MovesUnderWay ==
  ASSUME TypeOK, NEW t \in Turn, NEW next, Moves(t, next), NEW u \in Turn
  PROVE  /\ UnderWay(t) /\ (UnderWay(u)' => UnderWay(u))
         /\ turn'[u] = IF u = t THEN next ELSE turn[u]
<1>1. turn'[u] = IF u = t THEN next ELSE turn[u]
  BY DEF TypeOK, Moves
<1>2. UnderWay(t)
  BY DEF Moves, UnderWay, Active
<1>3. u # t => task'[u].pc = task[u].pc
  BY DEF TypeOK, Moves, Task
<1>4. u # t => (UnderWay(u)' => UnderWay(u))
  BY <1>1, <1>3 DEF UnderWay
<1> QED BY <1>1, <1>2, <1>4

\* Another turn that is under way beside the one that moves has overlapped.
LEMMA MovesAlone ==
  ASSUME TypeOK, Apart, NEW t \in Turn, NEW next, Moves(t, next),
         NEW u \in Turn, u # t, turn[u].pc \in Active
  PROVE  u \in overlapped /\ t \in overlapped
<1>1. UnderWay(t) /\ UnderWay(u)
  BY MovesUnderWay DEF UnderWay, Active
<1> QED BY <1>1 DEF Apart

\* The calls that are answered stay so when more turns overlap or have failed.
LEMMA AnsweredStays ==
  ASSUME NEW msgs \in Seq(Message), NEW tn1, NEW tn2, NEW ov1, NEW ov2, ov1 \subseteq ov2,
         \A u \in Turn : tn1[u].pc = "failed" => tn2[u].pc = "failed",
         NEW i \in DOMAIN msgs, AnsweredAt(msgs, i, tn1, ov1)
  PROVE  AnsweredAt(msgs, i, tn2, ov2)
<1>1. msgs[i] \in Message
  <2>1. i \in 1..Len(msgs)
    BY LenProperties
  <2> QED BY <2>1, ElementOfSeq
<1>2. msgs[i].by \in Turn
  BY <1>1 DEF Message
<1> QED BY <1>2 DEF AnsweredAt

\* The parts of the invariant about turns and summaries.
LEMMA MovesKeep ==
  ASSUME IInv, NEW t \in Turn, NEW next, Moves(t, next)
  PROVE  Apart' /\ TitleKnown' /\ Counted'
<1>0. TypeOK /\ Apart /\ TitleKnown /\ Counted
  BY DEF IInv
<1>1. Apart'
  <2>1. overlapped' = overlapped
    BY DEF Moves
  <2> QED BY <1>0, <2>1, MovesUnderWay DEF Apart
<1>2. TitleKnown'
  <2> SUFFICES ASSUME NEW u \in Turn \ overlapped, turn'[u].pc \in Active, session'.alive
               PROVE  turn'[u].titled = session'.title
    BY DEF TitleKnown, Moves
  <2>1. CASE u = t
    <3>1. turn'[u] = next
      BY <1>0, <2>1, MovesUnderWay
    <3>2. turn[t].pc \in Active /\ session.alive /\ next.titled = turn[t].titled /\ session'.title = session.title
      BY <3>1 DEF Moves
    <3> QED BY <1>0, <2>1, <3>1, <3>2 DEF TitleKnown
  <2>2. CASE u # t
    <3>1. turn'[u] = turn[u]
      BY <1>0, <2>2, MovesUnderWay
    <3> QED BY <1>0, <2>2, <3>1, MovesAlone
  <2> QED BY <2>1, <2>2
<1>3. Counted'
  <2>1. session'.summary = session.summary
    BY DEF Moves
  <2>2. \A k \in Task : /\ task'[k].users = task[k].users /\ task'[k].covers = task[k].covers
                        /\ task'[k].served = task[k].served
                        /\ task'[k].pc = "generating" => task[k].pc = "generating"
    BY <1>0 DEF TypeOK, Moves, Task, TaskState
  <2>3. Ask \subseteq Task
    BY DEF Task
  <2> QED BY <1>0, <2>1, <2>2, <2>3 DEF Counted
<1> QED BY <1>1, <1>2, <1>3

\* The part about tool calls: a result follows its call at once, unless the turns
\* of both overlap.
LEMMA MovesFollow ==
  ASSUME IInv, NEW t \in Turn, NEW next, Moves(t, next)
  PROVE  CallsFollowed'
<1> DEFINE msgs == session.messages
<1>0. TypeOK /\ Apart /\ CallsFollowed
  BY DEF IInv
<1>1. /\ overlapped' = overlapped /\ msgs \in Seq(Message) /\ session' \in SessionState
      /\ \A u \in Turn : turn'[u] = IF u = t THEN next ELSE turn[u]
  BY <1>0, MovesUnderWay DEF Moves, TypeOK, SessionState
<1>2. \A u \in Turn : turn[u].pc = "failed" => turn'[u].pc = "failed"
  BY <1>1 DEF Moves, Active
<1>m. \A i \in DOMAIN msgs : FollowedAt(msgs, i, turn, overlapped)
  BY <1>0 DEF CallsFollowed
<1>n. \/ session'.messages = msgs /\ (turn[t].pc = "called" => next.pc = "failed")
      \/ \E r \in {"user", "call", "result", "text"} :
           /\ session'.messages = Append(msgs, [role |-> r, by |-> t])
           /\ turn[t].pc = "called" => r = "result"
           /\ r = "call" => next.pc = "called"
  BY DEF Moves
<1> HIDE DEF msgs
<1>3. ASSUME NEW i \in DOMAIN msgs, AnsweredAt(msgs, i, turn, overlapped)
      PROVE  AnsweredAt(msgs, i, turn', overlapped)
  BY <1>1, <1>2, <1>3, AnsweredStays
<1>4. \A i \in DOMAIN msgs : msgs[i] \in Message /\ msgs[i].by \in Turn
  <2>1. \A i \in 1..Len(msgs) : msgs[i] \in Message
    BY <1>1, ElementOfSeq
  <2>2. DOMAIN msgs = 1..Len(msgs)
    BY <1>1, LenProperties
  <2> QED BY <2>1, <2>2 DEF Message
<1>5. ASSUME session'.messages = msgs, turn[t].pc = "called" => next.pc = "failed"
      PROVE  \A i \in DOMAIN session'.messages : FollowedAt(session'.messages, i, turn', overlapped)
  <2>1. ASSUME NEW i \in DOMAIN msgs
        PROVE  FollowedAt(msgs, i, turn', overlapped)
    <3>1. CASE AnsweredAt(msgs, i, turn, overlapped)
      BY <1>3, <3>1 DEF FollowedAt
    <3>2. CASE i = Len(msgs) /\ turn[msgs[i].by].pc = "called"
      <4>1. CASE msgs[i].by = t
        <5>1. turn'[msgs[i].by].pc = "failed"
          BY <1>1, <1>5, <3>2, <4>1
        <5> QED BY <5>1 DEF FollowedAt, AnsweredAt
      <4>2. CASE msgs[i].by # t
        <5>1. turn'[msgs[i].by].pc = "called"
          BY <1>1, <1>4, <3>2, <4>2
        <5> QED BY <3>2, <5>1 DEF FollowedAt
      <4> QED BY <4>1, <4>2
    <3>3. AnsweredAt(msgs, i, turn, overlapped) \/ (i = Len(msgs) /\ turn[msgs[i].by].pc = "called")
      BY <1>m DEF FollowedAt
    <3> QED BY <3>1, <3>2, <3>3
  <2> QED BY <1>5, <2>1
<1>6. ASSUME NEW r \in {"user", "call", "result", "text"},
             session'.messages = Append(msgs, [role |-> r, by |-> t]),
             turn[t].pc = "called" => r = "result", r = "call" => next.pc = "called"
      PROVE  \A i \in DOMAIN session'.messages : FollowedAt(session'.messages, i, turn', overlapped)
  <2> DEFINE new == session'.messages
             n == Len(msgs)
  <2>1. [role |-> r, by |-> t] \in Message
    BY DEF Message
  <2>2. /\ n \in Nat /\ Len(new) = n + 1 /\ DOMAIN new = 1..(n + 1) /\ DOMAIN msgs = 1..n
        /\ new[n + 1] = [role |-> r, by |-> t] /\ \A i \in 1..n : new[i] = msgs[i]
    BY <1>1, <1>6, <2>1, AppendProperties, LenProperties
  <2> HIDE DEF new, n
  <2>3. ASSUME NEW i \in 1..n, AnsweredAt(msgs, i, turn, overlapped)
        PROVE  AnsweredAt(new, i, turn', overlapped)
    <3>1. AnsweredAt(msgs, i, turn', overlapped)
      BY <1>3, <2>2, <2>3
    <3>2. i < n => i + 1 \in 1..n
      BY <2>2
    <3> QED BY <2>2, <3>1, <3>2 DEF AnsweredAt, n
  <2>4. ASSUME NEW i \in 1..n, i = n, turn[msgs[i].by].pc = "called"
        PROVE  AnsweredAt(new, i, turn', overlapped)
    <3>1. msgs[i].by \in Turn /\ i \in Nat /\ new[i] = msgs[i]
      BY <1>4, <2>2
    <3>2. CASE msgs[i].by = t
      <4>1. new[i + 1] = [role |-> "result", by |-> new[i].by] /\ i < Len(new)
        BY <1>6, <2>2, <2>4, <3>1, <3>2
      <4> QED BY <4>1 DEF AnsweredAt
    <3>3. CASE msgs[i].by # t
      <4>1. new[i].by \in overlapped
        BY <1>0, <2>4, <3>1, <3>3, MovesAlone DEF Active
      <4> QED BY <4>1 DEF AnsweredAt
    <3> QED BY <3>2, <3>3
  <2>5. ASSUME NEW i \in 1..n
        PROVE  FollowedAt(new, i, turn', overlapped)
    <3>1. AnsweredAt(msgs, i, turn, overlapped) \/ (i = n /\ turn[msgs[i].by].pc = "called")
      BY <1>m, <2>2 DEF FollowedAt, n
    <3>2. AnsweredAt(new, i, turn', overlapped)
      BY <2>3, <2>4, <3>1
    <3> QED BY <3>2 DEF FollowedAt
  <2>6. FollowedAt(new, n + 1, turn', overlapped)
    <3>1. new[n + 1].role = r /\ new[n + 1].by = t /\ turn'[t] = next
      BY <1>1, <2>2
    <3> QED BY <1>6, <2>2, <3>1 DEF FollowedAt, AnsweredAt
  <2>7. \A i \in DOMAIN new : i \in 1..n \/ i = n + 1
    BY <2>2
  <2>8. \A i \in DOMAIN new : FollowedAt(new, i, turn', overlapped)
    BY <2>5, <2>6, <2>7
  <2> QED BY <2>8 DEF new
<1>7. \A i \in DOMAIN session'.messages : FollowedAt(session'.messages, i, turn', overlapped)
  <2>1. CASE session'.messages = msgs /\ (turn[t].pc = "called" => next.pc = "failed")
    BY <1>5, <2>1
  <2>2. CASE ~(session'.messages = msgs /\ (turn[t].pc = "called" => next.pc = "failed"))
    BY <1>6, <1>n, <2>2
  <2> QED BY <2>1, <2>2
<1>8. ASSUME NEW u \in Turn \ overlapped
      PROVE  /\ turn'[u].pc = "read" => Answered(turn'[u].read, turn', overlapped)
             /\ Answered(turn'[u].sent, turn', overlapped)
  <2>0. turn[u] \in TurnState /\ turn[u].read \in Seq(Message) /\ turn[u].sent \in Seq(Message)
    BY <1>0 DEF TypeOK, TurnState
  <2>1. /\ turn[u].pc = "read" => Answered(turn[u].read, turn', overlapped)
        /\ Answered(turn[u].sent, turn', overlapped)
    <3>1. /\ turn[u].pc = "read" => Answered(turn[u].read, turn, overlapped)
          /\ Answered(turn[u].sent, turn, overlapped)
      BY <1>0 DEF CallsFollowed
    <3>2. ASSUME NEW m \in Seq(Message), Answered(m, turn, overlapped)
          PROVE  Answered(m, turn', overlapped)
      BY <1>2, <3>2, AnsweredStays DEF Answered
    <3> QED BY <2>0, <3>1, <3>2
  <2>2. CASE u # t
    BY <1>1, <2>1, <2>2
  <2>3. CASE u = t
    <3>1. turn'[u] = next /\ next.pc # "read"
      BY <1>1, <2>3 DEF Moves
    <3>2. CASE next.sent = <<>>
      <4>1. DOMAIN <<>> = {}
        OBVIOUS
      <4> QED BY <3>1, <3>2, <4>1 DEF Answered
    <3>3. CASE next.sent = turn[t].sent
      BY <2>1, <2>3, <3>1, <3>3
    <3>4. CASE turn[t].pc = "read" /\ next.sent = Append(turn[t].read, [role |-> "user", by |-> t])
      <4> DEFINE old == turn[t].read
                 n == Len(old)
      <4>1. [role |-> "user", by |-> t] \in Message
        BY DEF Message
      <4>2. /\ n \in Nat /\ Len(next.sent) = n + 1 /\ DOMAIN next.sent = 1..(n + 1) /\ DOMAIN old = 1..n
            /\ next.sent[n + 1] = [role |-> "user", by |-> t] /\ \A i \in 1..n : next.sent[i] = old[i]
        BY <2>0, <2>3, <3>4, <4>1, AppendProperties, LenProperties
      <4>3. Answered(old, turn', overlapped)
        BY <2>1, <2>3, <3>4
      <4> HIDE DEF old, n
      <4>4. ASSUME NEW i \in 1..n
            PROVE  AnsweredAt(next.sent, i, turn', overlapped)
        <5>1. AnsweredAt(old, i, turn', overlapped)
          BY <4>2, <4>3 DEF Answered
        <5>2. i < n => i + 1 \in 1..n
          BY <4>2
        <5> QED BY <4>2, <5>1, <5>2 DEF AnsweredAt, n
      <4>5. AnsweredAt(next.sent, n + 1, turn', overlapped)
        <5>1. next.sent[n + 1].role # "call"
          BY <4>2
        <5> QED BY <5>1 DEF AnsweredAt
      <4>6. \A i \in DOMAIN next.sent : i \in 1..n \/ i = n + 1
        BY <4>2
      <4>7. Answered(next.sent, turn', overlapped)
        BY <4>4, <4>5, <4>6 DEF Answered
      <4> QED BY <3>1, <4>7
    <3> QED BY <3>2, <3>3, <3>4 DEF Moves
  <2> QED BY <2>2, <2>3
<1> QED BY <1>1, <1>7, <1>8 DEF CallsFollowed

-----------------------------------------------------------------------------
(* The other steps. *)

\* The turn that begins.
LEMMA ReadKeeps ==
  ASSUME IInv, NEW t \in Turn, Read(t)
  PROVE  IInv'
<1> DEFINE begun == [turn[t] EXCEPT !.pc = "read", !.read = session.messages, !.titled = session.title]
           failed == [Idle EXCEPT !.pc = "failed"]
           next == IF session.alive THEN begun ELSE failed
<1>0. TypeOK /\ Apart /\ TitleKnown /\ Counted /\ CallsFollowed
  BY DEF IInv
<1>1. /\ turn[t].pc = "idle" /\ turn[t] \in TurnState /\ turn[t].sent = <<>>
      /\ session \in SessionState /\ session.messages \in Seq(Message)
      /\ UNCHANGED <<session, kind, task, faults, raced>>
  BY <1>0 DEF Read, TypeOK, SessionState
<1>2. /\ begun \in TurnState /\ begun.pc = "read" /\ begun.read = session.messages
      /\ begun.titled = session.title /\ begun.sent = <<>>
  BY <1>1 DEF TurnState, SessionState
<1>3. failed \in TurnState /\ failed.pc = "failed" /\ failed.sent = <<>>
  BY IdleType
<1>4. turn' = [turn EXCEPT ![t] = next]
  BY DEF Read
<1>5. /\ overlapped \subseteq overlapped' /\ overlapped' \subseteq Turn
      /\ \A v \in Turn \ {t} : UnderWay(v) => {t, v} \subseteq overlapped'
  <2>1. overlapped' = overlapped \cup {u \in Turn : \E v \in Turn \ {u} :
                     {u, v} \subseteq {t} \cup {w \in Turn : UnderWay(w)} /\ t \in {u, v}}
    BY DEF Read
  <2>2. overlapped \subseteq Turn
    BY <1>0 DEF TypeOK
  <2> HIDE DEF UnderWay
  <2> QED BY <2>1, <2>2
<1> HIDE DEF begun, failed
<1>6. next \in TurnState /\ next.sent = <<>> /\ next.pc \in {"read", "failed"}
  BY <1>2, <1>3
<1>7. \A u \in Turn : turn'[u] = IF u = t THEN next ELSE turn[u]
  BY <1>0, <1>4 DEF TypeOK
<1>8. next.pc = "read" => next = begun /\ session.alive
  BY <1>3
<1> HIDE DEF next
<1>9. TypeOK'
  <2>1. turn' \in [Turn -> TurnState]
    BY <1>0, <1>4, <1>6 DEF TypeOK
  <2>2. \A u \in Turn : turn'[u].sent # <<>> <=> turn'[u].pc \in {"streaming", "called", "answered", "stored"}
    BY <1>0, <1>6, <1>7 DEF TypeOK
  <2> QED BY <1>0, <1>1, <1>5, <2>1, <2>2 DEF TypeOK
<1>10. Apart'
  <2>1. \A u \in Turn : u # t => (UnderWay(u)' => UnderWay(u))
    BY <1>1, <1>7 DEF UnderWay
  <2>2. \A u, v \in Turn : u # v /\ UnderWay(u) /\ UnderWay(v) => {u, v} \subseteq overlapped
    BY <1>0 DEF Apart
  <2>3. ASSUME NEW u \in Turn, NEW v \in Turn, u # v, UnderWay(u)', UnderWay(v)'
        PROVE  {u, v} \subseteq overlapped'
    <3>1. CASE u = t
      <4>1. UnderWay(v)
        BY <2>1, <2>3, <3>1
      <4> QED BY <1>5, <2>3, <3>1, <4>1
    <3>2. CASE v = t
      <4>1. UnderWay(u)
        BY <2>1, <2>3, <3>2
      <4> QED BY <1>5, <2>3, <3>2, <4>1
    <3>3. CASE u # t /\ v # t
      <4>1. UnderWay(u) /\ UnderWay(v)
        BY <2>1, <2>3, <3>3
      <4> QED BY <1>5, <2>2, <2>3, <4>1
    <3> QED BY <3>1, <3>2, <3>3
  <2> QED BY <2>3 DEF Apart
<1>11. TitleKnown'
  BY <1>0, <1>1, <1>2, <1>5, <1>6, <1>7, <1>8 DEF TitleKnown, Active
<1>12. Counted'
  BY <1>0, <1>1 DEF Counted
<1>13. CallsFollowed'
  <2> DEFINE msgs == session.messages
  <2>1. \A u \in Turn : turn[u].pc = "failed" => turn'[u].pc = "failed"
    BY <1>1, <1>7
  <2>2. ASSUME NEW m \in Seq(Message), NEW i \in DOMAIN m, AnsweredAt(m, i, turn, overlapped)
        PROVE  AnsweredAt(m, i, turn', overlapped')
    BY <1>5, <2>1, <2>2, AnsweredStays
  <2>3. \A i \in DOMAIN msgs : msgs[i].by \in Turn /\ FollowedAt(msgs, i, turn, overlapped)
    <3>1. \A i \in 1..Len(msgs) : msgs[i] \in Message
      BY <1>1, ElementOfSeq
    <3>2. DOMAIN msgs = 1..Len(msgs)
      BY <1>1, LenProperties
    <3> QED BY <1>0, <3>1, <3>2 DEF Message, CallsFollowed
  <2>4. msgs \in Seq(Message)
    BY <1>1
  <2> HIDE DEF msgs
  <2>5. ASSUME NEW i \in DOMAIN msgs
        PROVE  FollowedAt(msgs, i, turn', overlapped')
    <3>1. CASE AnsweredAt(msgs, i, turn, overlapped)
      BY <2>2, <2>4, <3>1 DEF FollowedAt
    <3>2. CASE i = Len(msgs) /\ turn[msgs[i].by].pc = "called"
      <4>1. turn'[msgs[i].by].pc = "called"
        BY <1>1, <1>7, <2>3, <3>2
      <4> QED BY <3>2, <4>1 DEF FollowedAt
    <3>3. AnsweredAt(msgs, i, turn, overlapped) \/ (i = Len(msgs) /\ turn[msgs[i].by].pc = "called")
      BY <2>3 DEF FollowedAt
    <3> QED BY <3>1, <3>2, <3>3
  <2>6. ASSUME t \notin overlapped', NEW i \in DOMAIN msgs
        PROVE  AnsweredAt(msgs, i, turn', overlapped')
    <3>1. CASE AnsweredAt(msgs, i, turn, overlapped)
      BY <2>2, <2>4, <3>1
    <3>2. CASE turn[msgs[i].by].pc = "called"
      <4>1. msgs[i].by \in Turn /\ msgs[i].by # t /\ UnderWay(msgs[i].by)
        BY <1>1, <2>3, <3>2 DEF UnderWay
      <4> QED BY <1>5, <2>6, <4>1
    <3>3. AnsweredAt(msgs, i, turn, overlapped) \/ (i = Len(msgs) /\ turn[msgs[i].by].pc = "called")
      BY <2>3 DEF FollowedAt
    <3> QED BY <3>1, <3>2, <3>3
  <2>7. ASSUME NEW u \in Turn \ overlapped'
        PROVE  /\ turn'[u].pc = "read" => Answered(turn'[u].read, turn', overlapped')
               /\ Answered(turn'[u].sent, turn', overlapped')
    <3>1. CASE u = t
      <4>1. turn'[u] = next
        BY <1>7, <3>1
      <4>2. Answered(next.sent, turn', overlapped')
        BY <1>6 DEF Answered
      <4>3. next.pc = "read" => next.read = msgs
        BY <1>2, <1>8 DEF msgs
      <4>4. Answered(msgs, turn', overlapped')
        BY <2>6, <2>7, <3>1 DEF Answered
      <4> QED BY <4>1, <4>2, <4>3, <4>4
    <3>2. CASE u # t
      <4>1. turn'[u] = turn[u] /\ turn[u].read \in Seq(Message) /\ turn[u].sent \in Seq(Message)
        BY <1>0, <1>7, <3>2 DEF TypeOK, TurnState
      <4>2. /\ turn[u].pc = "read" => Answered(turn[u].read, turn, overlapped)
            /\ Answered(turn[u].sent, turn, overlapped)
        BY <1>0, <1>5 DEF CallsFollowed
      <4> QED BY <2>2, <4>1, <4>2 DEF Answered
    <3> QED BY <3>1, <3>2
  <2>8. session'.messages = msgs
    BY <1>1 DEF msgs
  <2> QED BY <2>5, <2>7, <2>8 DEF CallsFollowed
<1> QED BY <1>9, <1>10, <1>11, <1>12, <1>13 DEF IInv

\* Turns are left alone; messages stay as they are or go with the session.
LEMMA TurnsAlone ==
  ASSUME IInv, UNCHANGED <<turn, overlapped>>, session' \in SessionState,
         session'.alive => session.alive /\ session'.title = session.title,
         session'.messages \in {session.messages, <<>>},
         task' \in [Task -> TaskState], \A t \in Turn : task'[t].pc = "reading" => task[t].pc = "reading"
  PROVE  Apart' /\ TitleKnown' /\ CallsFollowed'
<1>0. TypeOK /\ Apart /\ TitleKnown /\ CallsFollowed
  BY DEF IInv
<1>1. Apart'
  <2>1. \A t \in Turn : UnderWay(t)' => UnderWay(t)
    BY DEF UnderWay
  <2> QED BY <1>0, <2>1 DEF Apart
<1>2. TitleKnown'
  BY <1>0 DEF TitleKnown
<1>3. CallsFollowed'
  <2>1. DOMAIN <<>> = {}
    OBVIOUS
  <2>2. \A i \in DOMAIN session'.messages : FollowedAt(session'.messages, i, turn, overlapped)
    BY <1>0, <2>1 DEF CallsFollowed
  <2> QED BY <1>0, <2>2 DEF CallsFollowed
<1> QED BY <1>1, <1>2, <1>3

\* The number of messages of a kind is a number.
LEMMA CountType ==
  ASSUME TypeOK, NEW role
  PROVE  Count(role) \in Nat
<1> DEFINE I == {i \in DOMAIN session.messages : session.messages[i].role = role}
<1>1. DOMAIN session.messages = 1..Len(session.messages) /\ Len(session.messages) \in Nat
  <2>1. session.messages \in Seq(Message)
    BY DEF TypeOK, SessionState
  <2> QED BY <2>1, LenProperties
<1>2. IsFiniteSet(I)
  <2>1. IsFiniteSet(1..Len(session.messages))
    <3>1. 1 \in Int /\ Len(session.messages) \in Int
      BY <1>1
    <3> QED BY <3>1, FS_Interval
  <2>2. I \subseteq 1..Len(session.messages)
    BY <1>1
  <2> QED BY <2>1, <2>2, FS_Subset
<1> QED BY <1>2, FS_CardinalityType DEF Count

\* A summary is begun, or found in the cache, or not needed.
LEMMA ReadForSummaryKeeps ==
  ASSUME IInv, NEW k \in Task, ReadForSummary(k)
  PROVE  IInv'
<1> DEFINE making == [pc |-> "generating", users |-> Users, covers |-> Users, served |-> None]
           cached == [pc |-> "done", users |-> Users, covers |-> 0, served |-> session.summary]
           nothing == [pc |-> "done", users |-> 0, covers |-> 0, served |-> None]
<1>0. TypeOK /\ Counted /\ Users \in Nat
  BY CountType DEF IInv, Users
<1>1. /\ UNCHANGED <<session, kind, turn, faults, overlapped>>
      /\ session \in SessionState /\ session.summary \in Summary \cup {None}
  BY <1>0 DEF ReadForSummary, TypeOK, SessionState
<1>r. raced' \in BOOLEAN
  <2> DEFINE beside == \E j \in Task \ {k} : task[j].pc = "generating"
             makes == session.alive /\ IF k \in Turn THEN Due ELSE ~Cached
  <2>1. raced' = (raced \/ (makes /\ beside))
    BY DEF ReadForSummary
  <2> HIDE DEF beside, makes
  <2> QED BY <2>1
<1>2. PICK x \in {making, cached, nothing} :
        /\ task' = [task EXCEPT ![k] = x]
        /\ x = cached /\ k \in Ask /\ x.served # None => Cached
  <2> DEFINE makes == session.alive /\ IF k \in Turn THEN Due ELSE ~Cached
  <2>0. k \in Ask => k \notin Turn
    BY TurnAssumption
  <2>1. CASE makes
    <3>1. task' = [task EXCEPT ![k] = making] /\ making # cached
      BY <2>1 DEF ReadForSummary
    <3> QED BY <3>1
  <2>2. CASE ~makes /\ k \in Ask /\ session.alive
    <3>1. task' = [task EXCEPT ![k] = cached] /\ Cached
      BY <2>0, <2>2 DEF ReadForSummary
    <3> QED BY <3>1
  <2>3. CASE ~makes /\ ~(k \in Ask /\ session.alive)
    <3>1. task' = [task EXCEPT ![k] = nothing]
      BY <2>3 DEF ReadForSummary
    <3>2. nothing.served = None
      OBVIOUS
    <3> QED BY <3>1, <3>2
  <2> QED BY <2>1, <2>2, <2>3
<1>3. x \in TaskState /\ x.pc \in {"generating", "done"}
  BY <1>0, <1>1, <1>2 DEF TaskState
<1>4. /\ x.pc = "generating" => x.users = x.covers /\ x.served = None
      /\ k \in Ask /\ x.served # None => x.served.covers = x.users
  <2>1. CASE x \in {making, nothing}
    BY <2>1
  <2>2. CASE x = cached
    BY <1>0, <1>2, <2>2 DEF Cached, Counted
  <2> QED BY <2>1, <2>2
<1> HIDE DEF making, cached, nothing
<1>5. task' \in [Task -> TaskState] /\ \A j \in Task : task'[j] = IF j = k THEN x ELSE task[j]
  BY <1>0, <1>2, <1>3 DEF TypeOK
<1>6. Counted'
  BY <1>0, <1>1, <1>4, <1>5 DEF Counted, Task
<1>7. TypeOK'
  BY <1>0, <1>1, <1>r, <1>5 DEF TypeOK
<1>8. Apart' /\ TitleKnown' /\ CallsFollowed'
  BY <1>1, <1>3, <1>5, TurnsAlone DEF Task
<1> QED BY <1>6, <1>7, <1>8 DEF IInv

\* A summary is stored, or not.
LEMMA WriteSummaryKeeps ==
  ASSUME IInv, NEW k \in Task, WriteSummary(k)
  PROVE  IInv'
<1> DEFINE x == [task[k] EXCEPT !.pc = "done", !.users = 0, !.covers = 0]
<1>0. TypeOK /\ Counted /\ MaxFaults \in Nat
  BY TurnAssumption DEF IInv
<1>1. /\ task[k] \in TaskState /\ task[k].pc = "generating" /\ task[k].users = task[k].covers
      /\ task[k].served = None
      /\ UNCHANGED <<kind, turn, overlapped, raced>>
      /\ task' = [task EXCEPT ![k] = x]
  BY <1>0 DEF WriteSummary, TypeOK, Counted
<1>2. x \in TaskState /\ x.pc = "done" /\ x.served = None
  BY <1>1 DEF TaskState
<1>3. NewSummary(k) \in Summary /\ NewSummary(k).count = NewSummary(k).covers
  BY <1>1 DEF NewSummary, Summary, TaskState
<1>4. /\ session' \in SessionState /\ session'.alive = session.alive /\ session'.title = session.title
      /\ session'.messages = session.messages
      /\ session'.summary # None => session'.summary.count = session'.summary.covers
      /\ faults' \in 0..MaxFaults
  BY <1>0, <1>3 DEF WriteSummary, TypeOK, SessionState, Counted
<1> HIDE DEF x
<1>5. task' \in [Task -> TaskState] /\ \A j \in Task : task'[j] = IF j = k THEN x ELSE task[j]
  BY <1>0, <1>1, <1>2 DEF TypeOK
<1>6. Counted'
  BY <1>0, <1>2, <1>4, <1>5 DEF Counted, Task
<1>7. TypeOK'
  BY <1>0, <1>1, <1>4, <1>5 DEF TypeOK
<1>8. Apart' /\ TitleKnown' /\ CallsFollowed'
  BY <1>1, <1>2, <1>4, <1>5, TurnsAlone DEF Task
<1> QED BY <1>6, <1>7, <1>8 DEF IInv

\* The session is deleted, with all its messages.
LEMMA DeleteKeeps ==
  ASSUME IInv, Delete
  PROVE  IInv'
<1>0. TypeOK /\ Counted
  BY DEF IInv
<1>1. /\ Gone \in SessionState /\ ~Gone.alive /\ Gone.messages = <<>> /\ Gone.summary = None
      /\ session' = Gone /\ UNCHANGED <<kind, turn, task, faults, overlapped, raced>>
  <2>1. <<>> \in Seq(Message)
    OBVIOUS
  <2> QED BY <2>1 DEF Delete, Gone, SessionState
<1>2. TypeOK' /\ Counted'
  BY <1>0, <1>1 DEF TypeOK, Counted
<1>3. Apart' /\ TitleKnown' /\ CallsFollowed'
  BY <1>0, <1>1, TurnsAlone DEF TypeOK
<1> QED BY <1>2, <1>3 DEF IInv

-----------------------------------------------------------------------------
(* What a turn leaves in the session. *)

\* A message stored by u is the last one, and u's; everything else stays.
LEMMA OwnAppend ==
  ASSUME TypeOK, NEW u \in Turn, NEW r \in {"user", "call", "result", "text"},
         session'.messages = Append(session.messages, [role |-> r, by |-> u]),
         NEW n, n = Len(session.messages) + 1, NEW t \in Turn
  PROVE  /\ n \in Nat
         /\ Own(t)' = IF t = u THEN Own(t) \cup {n} ELSE Own(t)
         /\ \A i \in Own(t) : i \in Nat /\ i < n /\ Role(i)' = Role(i)
         /\ Role(n)' = r
<1>1. session.messages \in Seq(Message) /\ [role |-> r, by |-> u] \in Message
  BY DEF TypeOK, SessionState, Message
<1>2. /\ Len(session.messages) \in Nat
      /\ DOMAIN session.messages = 1..Len(session.messages)
      /\ DOMAIN session'.messages = 1..n
      /\ \A i \in 1..Len(session.messages) : session'.messages[i] = session.messages[i]
      /\ session'.messages[n] = [role |-> r, by |-> u]
  BY <1>1, AppendProperties, LenProperties
<1>3. \A i \in Own(t) : i \in Nat /\ i < n /\ Role(i)' = Role(i)
  BY <1>2 DEF Own, Role
<1>4. Own(t)' = IF t = u THEN Own(t) \cup {n} ELSE Own(t)
  BY <1>2 DEF Own
<1>5. Role(n)' = r
  BY <1>2 DEF Role
<1> QED BY <1>2, <1>3, <1>4, <1>5

\* A turn that does not move, and whose messages stay, keeps its log.
LEMMA LogStays ==
  ASSUME NEW t \in Turn, Logged(t), turn'[t] = turn[t], session'.alive => session.alive,
         Own(t)' = Own(t), \A i \in Own(t) : Role(i)' = Role(i)
  PROVE  Logged(t)'
BY DEF Logged, Opened, CallHasResult, ResultHasCall, Adjacent, LastOwn

\* A turn that fails has nothing to show.
LEMMA LogFails ==
  ASSUME NEW t \in Turn, turn'[t].pc = "failed"
  PROVE  Logged(t)'
BY DEF Logged

\* Nothing of a turn changes but its local state.
LEMMA LogMoves ==
  ASSUME NEW t \in Turn, Logged(t), session'.alive => session.alive,
         session'.messages = session.messages,
         \/ turn[t].pc = "idle" /\ turn'[t].pc = "read"
         \/ turn[t].pc = "streaming" /\ turn'[t].pc = "answered" /\ turn'[t].text
         \/ turn[t].pc = "streaming" /\ turn'[t].pc = "stored" /\ ~turn'[t].text
         \/ turn[t].pc = "stored" /\ turn'[t].pc = "done" /\ turn'[t].text = turn[t].text
  PROVE  Logged(t)'
<1>1. Own(t)' = Own(t) /\ \A i \in Own(t) : Role(i)' = Role(i)
  BY DEF Own, Role
<1>2. CASE turn[t].pc = "idle"
  BY <1>1, <1>2 DEF Logged
<1>3. CASE turn[t].pc = "streaming"
  BY <1>1, <1>3 DEF Logged, Opened, CallHasResult, ResultHasCall, Adjacent, LastOwn
<1>4. CASE turn[t].pc = "stored"
  BY <1>1, <1>4 DEF Logged, Opened, CallHasResult, ResultHasCall, Adjacent, LastOwn
<1> QED BY <1>2, <1>3, <1>4

\* A message is added at the end: the turn's first, or one after the others in
\* the order a turn stores them.
LEMMA LogGrows ==
  ASSUME TypeOK, NEW t \in Turn, Logged(t), session.alive,
         NEW r \in {"user", "call", "result", "text"},
         session'.messages = Append(session.messages, [role |-> r, by |-> t]),
         \/ r = "user" /\ turn[t].pc = "read" /\ turn'[t].pc = "streaming"
         \/ r = "call" /\ turn[t].pc = "streaming" /\ turn'[t].pc = "called"
         \/ r = "result" /\ turn[t].pc = "called" /\ turn'[t].pc = "streaming"
         \/ r = "text" /\ turn[t].pc = "answered" /\ turn'[t].pc = "stored"
            /\ turn'[t].text = turn[t].text
  PROVE  Logged(t)'
<1>0. PICK n : n = Len(session.messages) + 1
  OBVIOUS
<1>1. /\ n \in Nat
      /\ Own(t)' = Own(t) \cup {n}
      /\ \A i \in Own(t) : i \in Nat /\ i < n /\ Role(i)' = Role(i)
      /\ Role(n)' = r
  BY <1>0, OwnAppend
<1>2. n \notin Own(t)
  BY <1>1
\* What the session had of the turn's calls and results is as it was.
<1>3. ASSUME NEW i \in Own(t), CallHasResult(t, i)
      PROVE  CallHasResult(t, i)'
  BY <1>1, <1>3 DEF CallHasResult, Adjacent
<1>4. ASSUME NEW i \in Own(t), ResultHasCall(t, i)
      PROVE  ResultHasCall(t, i)'
  BY <1>1, <1>4 DEF ResultHasCall, Adjacent
<1>5. Opened(t) /\ r # "user" => Opened(t)'
  BY <1>1 DEF Opened
<1>6. LastOwn(t, n)'
  BY <1>1 DEF LastOwn
<1>7. CASE r = "user"
  <2>1. Own(t) = {} /\ turn[t].pc = "read" /\ turn'[t].pc = "streaming"
    BY <1>7 DEF Logged
  <2>2. Own(t)' = {n}
    BY <1>1, <2>1
  <2>3. Opened(t)'
    BY <1>1, <1>7, <2>2 DEF Opened
  <2> QED BY <1>1, <1>7, <2>1, <2>2, <2>3 DEF Logged
<1>8. CASE r = "call"
  <2>1. turn[t].pc = "streaming" /\ turn'[t].pc = "called"
    BY <1>8
  <2> QED BY <1>1, <1>3, <1>4, <1>5, <1>6, <1>8, <2>1 DEF Logged
<1>9. CASE r = "result"
  <2>1. turn[t].pc = "called" /\ turn'[t].pc = "streaming"
    BY <1>9
  <2>2. PICK c \in Own(t) : Role(c) = "call" /\ LastOwn(t, c)
    BY <2>1 DEF Logged
  <2>3. Adjacent(t, c, n)'
    BY <1>1, <2>2 DEF Adjacent, LastOwn
  <2>4. ResultHasCall(t, n)'
    BY <1>1, <2>2, <2>3 DEF ResultHasCall
  <2>5. ASSUME NEW i \in Own(t), Role(i) = "call"
        PROVE  CallHasResult(t, i)'
    <3>1. CASE CallHasResult(t, i)
      BY <1>3, <3>1
    <3>2. CASE LastOwn(t, i)
      <4>1. i = c
        BY <1>1, <2>2, <3>2 DEF LastOwn
      <4> QED BY <1>1, <1>9, <2>3, <4>1 DEF CallHasResult
    <3> QED BY <2>1, <2>5, <3>1, <3>2 DEF Logged
  <2> QED BY <1>1, <1>4, <1>5, <1>9, <2>1, <2>4, <2>5 DEF Logged
<1>10. CASE r = "text"
  <2>1. turn[t].pc = "answered" /\ turn'[t].pc = "stored" /\ turn[t].text /\ turn'[t].text
    BY <1>10 DEF Logged
  <2> QED BY <1>1, <1>3, <1>4, <1>5, <1>6, <1>10, <2>1 DEF Logged
<1> QED BY <1>7, <1>8, <1>9, <1>10

\* A store call that fails ends the turn and leaves the session as it is.
LEMMA LogStore ==
  ASSUME TypeOK, LogInv, NEW t \in Turn, NEW r \in {"user", "call", "result", "text"},
         NEW next, Store(t, Stored(t, r), next),
         \/ r = "user" /\ turn[t].pc = "read" /\ next.pc = "streaming"
         \/ r = "call" /\ turn[t].pc = "streaming" /\ next.pc = "called"
         \/ r = "result" /\ turn[t].pc = "called" /\ next.pc = "streaming"
         \/ r = "text" /\ turn[t].pc = "answered" /\ next.pc = "stored"
            /\ next.text = turn[t].text
  PROVE  LogInv'
<1> DEFINE failed == [Idle EXCEPT !.pc = "failed"]
<1>0. failed.pc = "failed"
  BY IdleType
<1> HIDE DEF failed
<1>1. CASE session' = session /\ turn' = [turn EXCEPT ![t] = failed]
  <2>1. turn'[t].pc = "failed" /\ \A u \in Turn \ {t} : turn'[u] = turn[u]
    BY <1>0, <1>1 DEF TypeOK
  <2>2. \A u \in Turn : Own(u)' = Own(u) /\ \A i \in Own(u) : Role(i)' = Role(i)
    BY <1>1 DEF Own, Role
  <2> QED BY <1>1, <2>1, <2>2, LogFails, LogStays DEF LogInv
<1>2. CASE session.alive /\ session' = Stored(t, r) /\ turn' = [turn EXCEPT ![t] = next]
  <2>1. turn'[t] = next /\ \A u \in Turn \ {t} : turn'[u] = turn[u]
    BY <1>2 DEF TypeOK
  <2>2. session'.messages = Append(session.messages, [role |-> r, by |-> t])
    BY <1>2, StoredType
  <2>3. Logged(t)'
    BY <1>2, <2>1, <2>2, LogGrows DEF LogInv
  <2>4. PICK n : n = Len(session.messages) + 1
    OBVIOUS
  <2>5. ASSUME NEW u \in Turn \ {t} PROVE Logged(u)'
    <3>1. Own(u)' = Own(u) /\ \A i \in Own(u) : Role(i)' = Role(i)
      BY <2>2, <2>4, OwnAppend
    <3> QED BY <1>2, <2>1, <3>1, LogStays DEF LogInv
  <2> QED BY <2>3, <2>5 DEF LogInv
<1> QED BY <1>1, <1>2 DEF Store, failed

\* A step of a turn that stores nothing.
LEMMA LogLocal ==
  ASSUME TypeOK, LogInv, NEW t \in Turn, NEW next, turn' = [turn EXCEPT ![t] = next],
         session'.alive => session.alive, session'.messages = session.messages,
         \/ next.pc = "failed"
         \/ turn[t].pc = "idle" /\ next.pc = "read"
         \/ turn[t].pc = "streaming" /\ next.pc = "answered" /\ next.text
         \/ turn[t].pc = "streaming" /\ next.pc = "stored" /\ ~next.text
         \/ turn[t].pc = "stored" /\ next.pc = "done" /\ next.text = turn[t].text
  PROVE  LogInv'
<1>1. turn'[t] = next /\ \A u \in Turn \ {t} : turn'[u] = turn[u]
  BY DEF TypeOK
<1>2. \A u \in Turn : Own(u)' = Own(u) /\ \A i \in Own(u) : Role(i)' = Role(i)
  BY DEF Own, Role
<1>3. Logged(t)'
  BY <1>1, LogFails, LogMoves DEF LogInv
<1>4. \A u \in Turn \ {t} : Logged(u)'
  BY <1>1, <1>2, LogStays DEF LogInv
<1> QED BY <1>3, <1>4 DEF LogInv

\* Nothing that is not a turn touches the messages, but for the deletion.
LEMMA LogElse ==
  ASSUME TypeOK, LogInv, turn' = turn,
         \/ session'.messages = session.messages /\ (session'.alive => session.alive)
         \/ session'.messages = <<>> /\ ~session'.alive
  PROVE  LogInv'
<1>1. CASE session'.messages = session.messages /\ (session'.alive => session.alive)
  <2>1. \A u \in Turn : Own(u)' = Own(u) /\ \A i \in Own(u) : Role(i)' = Role(i)
    BY <1>1 DEF Own, Role
  <2> QED BY <1>1, <2>1, LogStays DEF LogInv
<1>2. CASE session'.messages = <<>> /\ ~session'.alive
  <2>1. \A u \in Turn : Own(u)' = {}
    <3>1. DOMAIN <<>> = {}
      OBVIOUS
    <3> QED BY <1>2, <3>1 DEF Own
  <2> QED BY <1>2, <2>1 DEF LogInv, Logged
<1> QED BY <1>1, <1>2

\* Every step of a turn keeps the logs.
LEMMA LogTurnStep ==
  ASSUME TypeOK, LogInv, NEW t \in Turn, Read(t) \/ TurnStep(t)
  PROVE  LogInv'
<1> DEFINE local == turn[t]
           failed == [Idle EXCEPT !.pc = "failed"]
<1>0. local \in TurnState /\ failed.pc = "failed" /\ session \in SessionState
  BY IdleType DEF TypeOK
<1>1. CASE Read(t)
  <2> DEFINE next == IF session.alive
                THEN [local EXCEPT !.pc = "read", !.read = session.messages, !.titled = session.title]
                ELSE failed
  <2>1. turn[t].pc = "idle" /\ turn' = [turn EXCEPT ![t] = next] /\ session' = session
    BY <1>1 DEF Read
  <2>2. next.pc \in {"read", "failed"}
    BY <1>0 DEF TurnState
  <2> HIDE DEF next
  <2> QED BY <2>1, <2>2, LogLocal
<1>2. CASE Send(t)
  <2> DEFINE next == [local EXCEPT !.pc = "streaming",
                        !.sent = Append(local.read, [role |-> "user", by |-> t])]
  <2>1. local.pc = "read" /\ Store(t, Stored(t, "user"), next) /\ next.pc = "streaming"
    BY <1>0, <1>2 DEF Send, TurnState
  <2> HIDE DEF next
  <2> QED BY <2>1, LogStore
<1>3. CASE StoreCall(t)
  <2> DEFINE next == [local EXCEPT !.pc = "called"]
  <2>1. local.pc = "streaming" /\ Store(t, Stored(t, "call"), next) /\ next.pc = "called"
    BY <1>0, <1>3 DEF StoreCall, TurnState
  <2> HIDE DEF next
  <2> QED BY <2>1, LogStore
<1>4. CASE StoreResult(t)
  <2> DEFINE next == [local EXCEPT !.pc = "streaming"]
  <2>1. local.pc = "called" /\ Store(t, Stored(t, "result"), next) /\ next.pc = "streaming"
    BY <1>0, <1>4 DEF StoreResult, TurnState
  <2> HIDE DEF next
  <2> QED BY <2>1, LogStore
<1>5. CASE StoreText(t)
  <2> DEFINE next == [local EXCEPT !.pc = "stored"]
  <2>1. /\ local.pc = "answered" /\ Store(t, Stored(t, "text"), next)
        /\ next.pc = "stored" /\ next.text = local.text
    BY <1>0, <1>5 DEF StoreText, TurnState
  <2> HIDE DEF next
  <2> QED BY <2>1, LogStore
<1>6. CASE EndStream(t)
  <2>1. PICK text \in BOOLEAN :
          turn' = [turn EXCEPT ![t].pc = IF text THEN "answered" ELSE "stored", ![t].text = text]
    BY <1>6 DEF EndStream
  <2> DEFINE next == [local EXCEPT !.pc = IF text THEN "answered" ELSE "stored", !.text = text]
  <2>2. /\ next.pc = IF text THEN "answered" ELSE "stored"
        /\ next.text = text /\ turn' = [turn EXCEPT ![t] = next]
    BY <1>0, <2>1 DEF TurnState, TypeOK
  <2>3. local.pc = "streaming" /\ session' = session
    BY <1>6 DEF EndStream
  <2> HIDE DEF next
  <2>4. \/ next.pc = "answered" /\ next.text
        \/ next.pc = "stored" /\ ~next.text
    BY <2>2
  <2> QED BY <2>2, <2>3, <2>4, LogLocal
<1>7. CASE Conclude(t)
  <2> DEFINE next == [Idle EXCEPT !.pc = "done", !.text = local.text]
             new == [session EXCEPT !.title = t]
  <2>1. next.pc = "done" /\ next.text = local.text
    BY <1>0 DEF Idle
  <2>2. new.alive = session.alive /\ new.messages = session.messages
    BY <1>0 DEF SessionState
  <2>3. /\ local.pc = "stored"
        /\ Store(t, new, next) \/ (turn' = [turn EXCEPT ![t] = next] /\ UNCHANGED <<session, faults>>)
    BY <1>7 DEF Conclude
  <2>4. /\ session' \in {new, session}
        /\ \/ turn' = [turn EXCEPT ![t] = next]
           \/ turn' = [turn EXCEPT ![t] = failed]
    BY <2>3 DEF Store
  <2> HIDE DEF next, new, failed
  <2>5. session'.alive = session.alive /\ session'.messages = session.messages
    BY <2>2, <2>4
  <2> QED BY <1>0, <2>1, <2>3, <2>4, <2>5, LogLocal
<1> QED BY <1>1, <1>2, <1>3, <1>4, <1>5, <1>6, <1>7 DEF TurnStep

\* Every step keeps the logs of all turns.
LEMMA LogNext == TypeOK /\ LogInv /\ [Next]_vars => LogInv'
<1> SUFFICES ASSUME TypeOK, LogInv, [Next]_vars PROVE LogInv'
  OBVIOUS
<1>1. ASSUME NEW t \in Turn, Read(t) \/ TurnStep(t) PROVE LogInv'
  BY <1>1, LogTurnStep
<1>2. ASSUME NEW k \in Task, TaskStep(k) PROVE LogInv'
  <2>1. /\ turn' = turn /\ session'.messages = session.messages
        /\ session'.alive = session.alive
    BY <1>2 DEF TaskStep, ReadForSummary, WriteSummary, TypeOK, SessionState
  <2> QED BY <2>1, LogElse
<1>3. CASE Delete
  <2>1. turn' = turn /\ session'.messages = <<>> /\ ~session'.alive
    BY <1>3 DEF Delete, Gone
  <2> QED BY <2>1, LogElse
<1>4. CASE UNCHANGED vars
  BY <1>4, LogElse DEF vars
<1> QED BY <1>1, <1>2, <1>3, <1>4 DEF Next

-----------------------------------------------------------------------------
(* The theorems. *)

\* A new session, before its first turn.
LEMMA InitInv == Init => IInv
<1> SUFFICES ASSUME Init PROVE IInv
  OBVIOUS
<1>1. /\ session \in SessionState /\ session.messages = <<>> /\ session.summary = None
  <2>1. <<>> \in Seq(Message)
    OBVIOUS
  <2> QED BY <2>1 DEF Init, SessionState
<1>2. \A t \in Turn : turn[t] = Idle /\ turn[t].pc = "idle" /\ turn[t].sent = <<>>
  BY DEF Init, Idle
<1>3. \A k \in Task : task[k].pc = "idle" /\ task[k].served = None
  BY DEF Init
<1>4. TypeOK
  <2>1. turn \in [Turn -> TurnState] /\ task \in [Task -> TaskState]
    <3>1. Idle \in TurnState
      BY IdleType
    <3> QED BY <3>1 DEF Init, TaskState
  <2>2. kind \in [Turn -> Kind]
    BY TurnAssumption DEF Init
  <2>3. faults \in 0..MaxFaults /\ overlapped \subseteq Turn /\ raced \in BOOLEAN
    <3>1. faults = 0 /\ MaxFaults \in Nat
      BY TurnAssumption DEF Init
    <3>2. faults \in 0..MaxFaults
      BY <3>1
    <3> QED BY <3>2 DEF Init
  <2>4. \A t \in Turn : turn[t].sent # <<>> <=> turn[t].pc \in {"streaming", "called", "answered", "stored"}
    BY <1>2
  <2> QED BY <1>1, <2>1, <2>2, <2>3, <2>4 DEF TypeOK
<1>5. Apart /\ TitleKnown
  BY <1>2, <1>3 DEF Apart, TitleKnown, UnderWay, Task, Active
<1>6. Counted
  BY <1>1, <1>3 DEF Counted, Task
<1>7. CallsFollowed
  <2>1. DOMAIN <<>> = {}
    OBVIOUS
  <2> QED BY <1>1, <1>2, <2>1 DEF CallsFollowed, Answered
<1> QED BY <1>4, <1>5, <1>6, <1>7 DEF IInv

\* Every step keeps the invariant.
LEMMA StepInv == IInv /\ [Next]_vars => IInv'
<1> SUFFICES ASSUME IInv, [Next]_vars PROVE IInv'
  OBVIOUS
<1>1. ASSUME NEW t \in Turn, TurnStep(t)
      PROVE  IInv'
  <2>0. TypeOK
    BY DEF IInv
  <2>1. PICK next : Moves(t, next)
    BY <1>1, <2>0, TurnMoves
  <2>2. TypeOK'
    BY <2>0, <2>1, MovesType
  <2> QED BY <2>1, <2>2, MovesKeep, MovesFollow DEF IInv
<1>2. CASE \E k \in Task : TaskStep(k)
  BY <1>2, ReadForSummaryKeeps, WriteSummaryKeeps DEF TaskStep
<1>3. CASE UNCHANGED vars
  BY <1>3 DEF vars, IInv, TypeOK, Apart, UnderWay, TitleKnown, Counted, CallsFollowed
<1> QED BY <1>1, <1>2, <1>3, ReadKeeps, DeleteKeeps DEF Next

\* The types of the session, its turns and its summaries.
THEOREM TypeCorrect == Spec => []TypeOK
<1>1. IInv => TypeOK
  BY DEF IInv
<1> QED BY InitInv, StepInv, <1>1, PTL DEF Spec

\* The model sees the result of every tool call it sees, unless that turn has
\* failed or ran beside another (abbenay-service.ts:1619).
THEOREM CallsGetAnswers == Spec => []CallsAnswered
<1>1. IInv => CallsAnswered
  BY DEF IInv, CallsFollowed, Answered, AnsweredAt, CallsAnswered
<1> QED BY InitInv, StepInv, <1>1, PTL DEF Spec

\* A turn that is done has left its message, its tools' calls with their
\* results and its answer in the session, in this order, whatever other turns
\* stored between them and whatever failed (abbenay-service.ts:1583-1652).
THEOREM TurnsLeaveTheirMessages == Spec => []TurnsStored
<1>1. Init => LogInv
  <2>1. DOMAIN <<>> = {}
    OBVIOUS
  <2> QED BY <2>1 DEF Init, LogInv, Logged, Own, Idle
<1>2. LogInv => TurnsStored
  BY DEF LogInv, Logged, TurnsStored
<1> QED BY <1>1, <1>2, LogNext, TypeCorrect, PTL DEF Spec

\* A summary from the cache is of everything the user had written by then
\* (abbenay-service.ts:1698).
THEOREM CacheStaysCurrent == Spec => []CacheIsCurrent
<1>1. IInv => CacheIsCurrent
  BY DEF IInv, Counted, CacheIsCurrent
<1> QED BY InitInv, StepInv, <1>1, PTL DEF Spec

\* Only turns beside others, and terminals, take the title from a session that
\* has one (abbenay-service.ts:1655, chat.ts:227).
THEOREM TitlesKept == Spec => TitleStays
<1>1. ASSUME IInv, [Next]_vars, session.title # None, session'.title \notin {session.title, None}
      PROVE  session'.title \in overlapped \/ kind[session'.title] = "cli"
  <2>0. TypeOK /\ TitleKnown /\ session \in SessionState
    BY <1>1 DEF IInv, TypeOK
  <2>1. PICK t \in Turn : Conclude(t)
    <3>1. \A r \in {"user", "call", "result", "text"}, u \in Turn : Stored(u, r).title = session.title
      BY <2>0, StoredType
    <3>2. ASSUME NEW u \in Turn, NEW r \in {"user", "call", "result", "text"}, NEW next,
                 Store(u, Stored(u, r), next)
          PROVE  FALSE
      BY <1>1, <3>1, <3>2 DEF Store
    <3>3. ASSUME NEW u \in Turn, Send(u) \/ StoreCall(u) \/ StoreResult(u) \/ StoreText(u)
          PROVE  FALSE
      BY <3>2, <3>3 DEF Send, StoreCall, StoreResult, StoreText
    <3>4. ASSUME NEW u \in Turn, Read(u) \/ EndStream(u)
          PROVE  FALSE
      BY <1>1, <3>4 DEF Read, EndStream
    <3>5. ASSUME NEW k \in Task, TaskStep(k)
          PROVE  FALSE
      BY <1>1, <2>0, <3>5 DEF TaskStep, ReadForSummary, WriteSummary, SessionState
    <3>6. ~Delete
      BY <1>1 DEF Delete, Gone
    <3>7. ~UNCHANGED vars
      BY <1>1 DEF vars
    <3> QED BY <1>1, <3>3, <3>4, <3>5, <3>6, <3>7 DEF Next, TurnStep
  <2> DEFINE done == [Idle EXCEPT !.pc = "done", !.text = turn[t].text]
             new == [session EXCEPT !.title = t]
  <2>2. turn[t].pc = "stored" /\ Titles(t) /\ Store(t, new, done)
    BY <1>1, <2>1 DEF Conclude
  <2> HIDE DEF done
  <2>3. session.alive /\ session'.title = t
    BY <1>1, <2>0, <2>2 DEF Store, SessionState
  <2>4. kind[t] # "cli" => turn[t].titled = None
    BY <2>2 DEF Titles
  <2> QED BY <1>1, <2>0, <2>2, <2>3, <2>4 DEF TitleKnown, Active
<1>2. IInv /\ [Next]_vars =>
        [session.title # None /\ session'.title \notin {session.title, None} =>
           session'.title \in overlapped \/ kind[session'.title] = "cli"]_vars
  BY <1>1
<1> QED BY InitInv, StepInv, <1>2, PTL DEF Spec, TitleStays
=============================================================================
