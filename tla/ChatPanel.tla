----------------------------- MODULE ChatPanel -----------------------------
(* The chat sidebar of the VS Code extension: the view                      *)
(* (webview-ui/chat/main.ts), the handler in the extension host             *)
(* (webviews/chat/chatHandler.ts, ChatViewProvider.ts) and the streams of   *)
(* SessionChat between the host and the daemon.                             *)
(*                                                                          *)
(* View and host talk over two ordered channels, toHost and toView.  The    *)
(* view keeps one answer being streamed and the host one abort function,    *)
(* while several streams can be under way: each message is handled as it    *)
(* comes, and a stream stays open after `done`, until the daemon has stored *)
(* the answer.                                                              *)
(*                                                                          *)
(* A prompt stands for its stream; text shown is the prompts its chunks     *)
(* answer, in order.  Left out: tool cards and error bubbles; approval      *)
(* gates and sessionLoaded, for SessionChat sends no `prompt` and the view  *)
(* asks for no session; models and reasoning.                               *)
EXTENDS Naturals, Sequences, FiniteSets

CONSTANTS MaxPrompts, \* prompts typed or injected
          MaxText,    \* text chunks of one answer
          MaxCreated, \* sessions asked for
          MaxReloads, \* times the view is hidden or closed
          MaxFaults   \* requests and streams that fail

Prompt == 1..MaxPrompts

ASSUME BoundsNat == {MaxPrompts, MaxText, MaxCreated, MaxReloads, MaxFaults} \subseteq Nat

VARIABLES
  \* the view
  visible,
  inSession, \* currentSessionId is set
  streaming, \* isStreaming
  text,      \* currentAssistantText
  shown,     \* the bubbles in the message list
  streamed,  \* the place in it of the .streaming element, or 0
  injected,  \* pendingInjectedPrompt, or 0
  draft,     \* the prompt in the text area, or 0
  toHost, toView,
  \* the extension host and the daemon
  active,    \* the prompt whose abort function is activeStreamAbort, or 0
  pc,        \* how far each prompt's stream is
  aborted,   \* streams whose `aborted` flag is set
  sent,      \* text chunks each stream has posted
  creating,  \* createSession calls under way
  typed, created, reloads, faults,
  \* what excuses the panel
  beside,    \* streams begun beside another, or unlocked by what was not theirs
  muddled    \* prompts whose answer may be out of place

area     == <<visible, inSession, injected, draft>>
answer   == <<streaming, text, shown, streamed>>
channels == <<toHost, toView>>
host     == <<active, pc, aborted, sent, creating>>
counts   == <<typed, created, reloads, faults>>
excuses  == <<beside, muddled>>
vars == <<area, answer, channels, host, counts, excuses>>

Bubble(role, of) == [role |-> role, text |-> of]
Message(type, of) == [type |-> type, of |-> of]

TypeOK ==
  /\ {visible, inSession, streaming} \subseteq BOOLEAN
  /\ text \in Seq(Prompt)
  /\ shown \in Seq([role : {"user", "assistant"}, text : Seq(Prompt)])
  /\ streamed \in 0..Len(shown)
  /\ {injected, draft, active} \subseteq {0} \cup Prompt
  /\ toHost \in Seq([type : {"send", "cancel", "create"}, of : {0} \cup Prompt])
  /\ toView \in Seq([type : {"created", "text", "done", "error"}, of : {0} \cup Prompt])
  /\ pc \in [Prompt -> {"none", "asked", "open", "failed", "told", "ended"}]
  /\ sent \in [Prompt -> 0..MaxText]
  /\ creating \in 0..MaxCreated /\ typed \in 0..MaxPrompts /\ created \in 0..MaxCreated
  /\ reloads \in 0..MaxReloads /\ faults \in 0..MaxFaults
  /\ UNION {aborted, beside, muddled} \subseteq Prompt

Init ==
  /\ visible = TRUE /\ inSession = FALSE /\ injected = 0 /\ draft = 0
  /\ streaming = FALSE /\ text = <<>> /\ shown = <<>> /\ streamed = 0
  /\ toHost = <<>> /\ toView = <<>>
  /\ active = 0
  /\ pc = [p \in Prompt |-> "none"]
  /\ aborted = {}
  /\ sent = [p \in Prompt |-> 0]
  /\ creating = 0
  /\ typed = 0 /\ created = 0 /\ reloads = 0 /\ faults = 0
  /\ beside = {} /\ muddled = {}

----------------------------------------------------------------------------
(* What excuses the panel *)

Open == {p \in Prompt : pc[p] \in {"open", "failed", "told"}}
Live == {p \in Prompt : pc[p] \notin {"none", "ended"}}
Sent == {p \in Prompt : pc[p] # "none"}

\* Nothing of an earlier answer is left over, in the view or on its way to it.
Clean ==
  /\ text = <<>> /\ streamed = 0
  /\ \A p \in Prompt : pc[p] \notin {"asked", "open", "failed"}
  /\ \A i \in 1..Len(toView) : toView[i].type \notin {"text", "done"}

\* A cancel, an error, another session or a reload comes in the middle of answers.
Disturbed == muddled' = IF Clean THEN muddled ELSE muddled \cup Sent

----------------------------------------------------------------------------
(* The view *)

Post(type, of) == toHost' = Append(toHost, Message(type, of))

MaySend == ~streaming

\* The last part of handleSend(): the prompt is shown below `list` and sent.
SendOn(p, list) ==
  /\ shown' = Append(list, Bubble("user", <<p>>))
  /\ streaming' = TRUE
  /\ draft' = 0
  /\ pc' = [pc EXCEPT ![p] = "asked"]
  /\ Post("send", p)
  /\ muddled' = IF Clean THEN muddled ELSE muddled \cup {p}

\* Without a session one is created first, and the prompt is put by.
AskForSession(p) ==
  /\ created < MaxCreated
  /\ created' = created + 1
  /\ injected' = p
  /\ Post("create", 0)

\* handleSend(): what is in the text area, or something new, is sent.
Send ==
  /\ visible /\ MaySend
  /\ \E p \in ({draft} \ {0}) \cup {typed + 1} :
       /\ p \in Prompt
       /\ typed' = IF p > typed THEN p ELSE typed
       /\ \/ /\ inSession
             /\ SendOn(p, shown)
             /\ UNCHANGED <<injected, text, streamed, created>>
          \/ /\ ~inSession
             /\ AskForSession(p)
             /\ draft' = p
             /\ UNCHANGED <<answer, pc, muddled>>
  /\ UNCHANGED <<visible, inSession, toView, active, aborted, sent, creating, reloads, faults, beside>>

\* handleInjectPrompt(): like a prompt that is typed and sent; while an answer is
\* streamed it only replaces what is in the text area.
Inject ==
  /\ visible /\ typed < MaxPrompts
  /\ typed' = typed + 1
  /\ \/ /\ ~MaySend
        /\ draft' = typed'
        /\ UNCHANGED <<answer, toHost, pc, muddled, injected, created>>
     \/ /\ MaySend /\ ~inSession
        /\ AskForSession(typed')
        /\ UNCHANGED <<answer, pc, muddled, draft>>
     \/ /\ MaySend /\ inSession
        /\ SendOn(typed', shown)
        /\ UNCHANGED <<injected, text, streamed, created>>
  /\ UNCHANGED <<visible, inSession, toView, active, aborted, sent, creating, reloads, faults, beside>>

\* handleCancel(): the input is unlocked at once; the answer is left as it is.
Cancel ==
  /\ visible /\ streaming
  /\ Post("cancel", 0)
  /\ streaming' = FALSE
  /\ Disturbed
  /\ UNCHANGED <<area, text, shown, streamed, toView, host, counts, beside>>

NewSession ==
  /\ visible /\ created < MaxCreated
  /\ created' = created + 1
  /\ Post("create", 0)
  /\ UNCHANGED <<area, answer, toView, host, typed, reloads, faults, excuses>>

\* The view forgets the session it shows, not that an answer is under way.
DeleteSession ==
  /\ visible /\ inSession
  /\ inSession' = FALSE
  /\ text' = <<>> /\ shown' = <<>> /\ streamed' = 0
  /\ Disturbed
  /\ UNCHANGED <<visible, injected, draft, streaming, channels, host, counts, beside>>

\* Mutant: the prompt that was put by is sent to every session that is created.
TakeInjectedAgain == injected' = injected

TakeInjected == injected' = 0

\* sessionCreated: the view turns to the new session and sends the prompt put by.
Created ==
  /\ inSession' = TRUE
  /\ text' = <<>> /\ streamed' = 0
  /\ \/ /\ injected = 0
        /\ shown' = <<>>
        /\ Disturbed
        /\ UNCHANGED <<injected, draft, streaming, toHost, pc>>
     \/ /\ injected # 0 /\ ~MaySend
        /\ TakeInjected /\ draft' = injected
        /\ shown' = <<>>
        /\ Disturbed
        /\ UNCHANGED <<streaming, toHost, pc>>
     \/ /\ injected # 0 /\ MaySend
        /\ TakeInjected
        /\ shown' = <<Bubble("user", <<injected>>)>>
        /\ streaming' = TRUE
        /\ draft' = 0
        /\ pc' = [pc EXCEPT ![injected] = "asked"]
        /\ Post("send", injected)
        /\ muddled' = IF Clean THEN muddled ELSE muddled \cup Sent \cup {injected}
  /\ UNCHANGED beside

\* streamChunk: the bubble that is being streamed, or a new one, shows the text.
Chunk(p) ==
  /\ text' = Append(text, p)
  /\ streamed' = IF streamed = 0 THEN Len(shown) + 1 ELSE streamed
  /\ shown' = IF streamed = 0 THEN Append(shown, Bubble("assistant", text'))
                              ELSE [shown EXCEPT ![streamed].text = text']
  /\ UNCHANGED <<inSession, injected, draft, streaming, toHost, pc, excuses>>

\* Mutant: the next answer goes on in the same bubble.
FinishedOnly(p) ==
  /\ text' = <<>> /\ streaming' = FALSE
  /\ beside' = beside \cup (Live \ {p})
  /\ UNCHANGED <<inSession, injected, draft, shown, streamed, toHost, pc, muddled>>

\* streamDone: the answer of p, or of whatever prompt was sent since, is over.
Finished(p) ==
  /\ text' = <<>> /\ streamed' = 0 /\ streaming' = FALSE
  /\ beside' = beside \cup (Live \ {p})
  /\ UNCHANGED <<inSession, injected, draft, shown, toHost, pc, muddled>>

\* Mutant: an error is shown and changes nothing.
ErrorOnly(p) ==
  /\ Disturbed
  /\ beside' = beside \cup (Live \ {p})
  /\ UNCHANGED <<inSession, injected, draft, answer, toHost, pc>>

\* An error, of a stream or of any request, unlocks the input.
Error(p) ==
  /\ streaming' = FALSE
  /\ Disturbed
  /\ beside' = beside \cup (Live \ {p})
  /\ UNCHANGED <<inSession, injected, draft, text, shown, streamed, toHost, pc>>

\* onMessage()
Receive ==
  /\ visible /\ toView # <<>>
  /\ toView' = Tail(toView)
  /\ LET msg == Head(toView)
     IN \/ msg.type = "created" /\ Created
        \/ msg.type = "text" /\ Chunk(msg.of)
        \/ msg.type = "done" /\ Finished(msg.of)
        \/ msg.type = "error" /\ Error(msg.of)
  /\ UNCHANGED <<visible, active, aborted, sent, creating, counts>>

\* The view is registered without retainContextWhenHidden: when it is hidden, its
\* page goes with all its state, and so do messages posted to it until it is shown.
Unload ==
  /\ visible /\ reloads < MaxReloads
  /\ reloads' = reloads + 1
  /\ visible' = FALSE
  /\ inSession' = FALSE /\ injected' = 0 /\ draft' = 0
  /\ streaming' = FALSE /\ text' = <<>> /\ shown' = <<>> /\ streamed' = 0
  /\ toView' = <<>>
  /\ Disturbed
  /\ beside' = beside \cup Live
  /\ UNCHANGED <<pc, sent, typed, created, faults>>

Hide ==
  /\ Unload
  /\ UNCHANGED <<toHost, active, aborted, creating>>

\* The view is closed: onDidDispose cancels the active stream.  Others, and calls
\* under way, fail when they next post to it.
Close ==
  /\ Unload
  /\ toHost' = <<>>
  /\ active' = 0
  /\ aborted' = aborted \cup Open
  /\ creating' = 0

Show ==
  /\ ~visible
  /\ visible' = TRUE
  /\ UNCHANGED <<inSession, injected, draft, answer, channels, host, counts, excuses>>

----------------------------------------------------------------------------
(* The extension host *)

Tell(type, of) == toView' = IF visible THEN Append(toView, Message(type, of)) ELSE toView

\* Mutant: the abort function is forgotten, not called.
ForgetActive ==
  /\ active' = 0
  /\ UNCHANGED aborted

\* cancelActiveStream()
AbortActive ==
  /\ aborted' = aborted \cup ({active} \ {0})
  /\ active' = 0

\* handleChatMessage(), up to its first await.
Handle ==
  /\ toHost # <<>>
  /\ toHost' = Tail(toHost)
  /\ LET msg == Head(toHost)
     IN \/ /\ msg.type = "send"
           /\ pc' = [pc EXCEPT ![msg.of] = "open"]
           /\ active' = msg.of
           /\ beside' = IF Open = {} THEN beside ELSE beside \cup {msg.of}
           /\ UNCHANGED <<aborted, creating>>
        \/ /\ msg.type = "cancel"
           /\ AbortActive
           /\ UNCHANGED <<pc, creating, beside>>
        \/ /\ msg.type = "create"
           /\ creating' = creating + 1
           /\ UNCHANGED <<active, pc, aborted, beside>>
  /\ UNCHANGED <<area, answer, toView, sent, counts, muddled>>

\* handleCreateSession(), up to the listing of the sessions.
SessionMade ==
  /\ creating > 0
  /\ creating' = creating - 1
  /\ Tell("created", 0)
  /\ UNCHANGED <<area, answer, toHost, active, pc, aborted, sent, counts, excuses>>

Fault == faults < MaxFaults /\ faults' = faults + 1

\* A createSession call fails, or another one, of which the lists asked for by
\* `ready` are the first: they settle at any time and change nothing else.
RequestFails ==
  /\ Fault
  /\ creating' \in {creating} \cup ({creating - 1} \cap Nat)
  /\ Tell("error", 0)
  /\ UNCHANGED <<area, answer, toHost, active, pc, aborted, sent, typed, created, reloads, excuses>>

----------------------------------------------------------------------------
(* A stream: handleSendMessage() after its start, and SessionChat *)

Goes(p, from, to) ==
  /\ pc[p] \in from /\ p \notin aborted
  /\ pc' = [pc EXCEPT ![p] = to]
  /\ UNCHANGED <<area, answer, toHost, aborted, creating, excuses, typed, created, reloads>>

Text(p) ==
  /\ sent[p] < MaxText
  /\ Goes(p, {"open"}, "open")
  /\ sent' = [sent EXCEPT ![p] = @ + 1]
  /\ Tell("text", p)
  /\ UNCHANGED <<active, faults>>

\* An error chunk; `done` may still follow.
Failed(p) ==
  /\ Fault
  /\ Goes(p, {"open"}, "failed")
  /\ Tell("error", p)
  /\ UNCHANGED <<active, sent>>

Done(p) ==
  /\ Goes(p, {"open", "failed"}, "told")
  /\ Tell("done", p)
  /\ UNCHANGED <<active, sent, faults>>

\* The daemon has stored the answer and ends the stream.  The finally of every
\* stream clears the one abort function there is.
End(p) ==
  /\ Goes(p, {"failed", "told"}, "ended")
  /\ active' = 0
  /\ UNCHANGED <<toView, sent, faults>>

\* The connection breaks, or the answer could not be stored: an error, and the end.
Breaks(p) ==
  /\ Fault
  /\ Goes(p, {"open", "failed", "told"}, "ended")
  /\ active' = 0
  /\ Tell("error", p)
  /\ UNCHANGED sent

\* A stream that was aborted ends with the next chunk, silently.
Stop(p) ==
  /\ p \in Open \cap aborted
  /\ pc' = [pc EXCEPT ![p] = "ended"]
  /\ active' = 0
  /\ UNCHANGED <<area, answer, channels, aborted, sent, creating, counts, excuses>>

Progress(p) == Text(p) \/ Done(p) \/ End(p) \/ Stop(p)

Next ==
  \/ Send \/ Inject \/ Cancel \/ NewSession \/ DeleteSession \/ Receive
  \/ Hide \/ Close \/ Show
  \/ Handle \/ SessionMade \/ RequestFails
  \/ \E p \in Prompt : Progress(p) \/ Failed(p) \/ Breaks(p)

\* Messages are delivered and every answer comes to its end.
Spec ==
  /\ Init /\ [][Next]_vars
  /\ WF_vars(Receive) /\ WF_vars(Handle)
  /\ \A p \in Prompt : WF_vars(Progress(p))

----------------------------------------------------------------------------
(* Properties *)

\* Cancel reaches the answer that is under way, whatever was cancelled, failed or
\* ended before; but a stream begun while another one was still open loses its
\* abort function when that one ends, and so does one during which the error or the
\* late end of something else, or a reload, let the user send again.
CancelReaches ==
  \A p \in Prompt : (pc[p] = "open" /\ p \notin aborted \cup beside) => active = p

OnItsWay(p) == \E i \in 1..Len(toView) : toView[i].of = p

\* An answer is shown below its own prompt, complete and alone in its bubble, once
\* earlier trouble is over: a prompt that is sent when nothing is left of an answer
\* that was cancelled, failed or belonged to another session.
AnswersInPlace ==
  \A i \in 1..Len(shown) :
    LET msg == shown[i]
    IN \A p \in {msg.text[k] : k \in 1..Len(msg.text)} \ muddled :
         IF msg.role = "user"
         THEN (pc[p] \in {"told", "ended"} /\ ~OnItsWay(p) /\ sent[p] > 0) =>
                /\ i < Len(shown) /\ shown[i + 1].role = "assistant"
                /\ shown[i + 1].text = [k \in 1..sent[p] |-> p]
         ELSE /\ i > 1 /\ shown[i - 1] = Bubble("user", <<p>>)
              /\ \A k \in 1..Len(msg.text) : msg.text[k] = p

\* A prompt is sent at most once, however often it was confirmed before there was a
\* session and however many sessions that created.
PromptOnce ==
  [][\A p \in Sent : toHost' # Append(toHost, Message("send", p))]_vars

\* The input does not stay locked: an answer ends with `done`, with an error or
\* because the user cancelled it.
InputUnlocks == streaming ~> ~streaming
============================================================================
