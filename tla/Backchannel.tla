---------------------------- MODULE Backchannel ----------------------------
(***************************************************************************)
(* The VSCodeStream backchannel: the streams VS Code windows hold open to  *)
(* the daemon (vscode/src/daemon/backchannel.ts), over which the daemon    *)
(* sends requests (daemon/state.ts), and the workspace tools it registers  *)
(* from what they say (core/tool-registry.ts).                             *)
(*                                                                         *)
(* A stream is ordered in both directions and may break at any time.  The  *)
(* extension handles one request at a time and may take for ever; the      *)
(* daemon gives each request ten seconds.  A request has one sender, so    *)
(* <<kind, sender>> stands for its uuid.                                   *)
(*                                                                         *)
(* A window that reconnects opens another connection, with a folder that   *)
(* another connection may share.  Left out: chat and model requests, which *)
(* work like tool calls, the models-changed notification, whose answer no  *)
(* one awaits, and what tools return.  An answer and the continuation that *)
(* awaits it are one step.                                                 *)
(***************************************************************************)
EXTENDS Naturals, Sequences, SequencesExt

CONSTANTS Conn,        \* connections, each opened at most once
          Call,        \* tool calls of chats
          Name,        \* names of workspace folders
          Vscode,      \* the name a workspace has until its folder is known
          Tool,        \* tools of VS Code
          MaxChanges,  \* bound: how often a window's tools change
          None

ASSUME DistinctNames == None \notin Conn \cup Name /\ Vscode \notin Name \cup {None}
ASSUME BoundAssumption == MaxChanges \in Nat

Source  == Name \cup {Vscode}
Request == ({"workspace", "tools"} \X Conn) \cup ({"invoke"} \X Call)
Message == [answers : Request \cup {None}, tools : SUBSET Tool]
Empty   == [t \in Tool |-> None]

VARIABLES
  conns,     \* the daemon's connections, in the order of the map
  path,      \* path[c]: the workspace folder the daemon knows for c
  pending,   \* pending[c]: the requests c has yet to answer
  registry,  \* registry[n][t]: who registered tool t of source ws:n last
  shake,     \* shake[c]: how far the handshake of c has come
  call,      \* call[k]: how far a tool call has come, and over which connection
  up,        \* the streams that are not broken
  opened,    \* the connections that were ever opened
  out,       \* out[c]: requests on their way to the extension
  back,      \* back[c]: messages on their way to the daemon
  busy,      \* busy[c]: the request the extension is handling
  folder,    \* folder[c]: the workspace folder of the window
  offered,   \* offered[c]: the tools of the window
  changes    \* bounded by MaxChanges

daemonVars == <<conns, path, pending, registry, shake, call>>
windowVars == <<busy, folder, offered, changes>>
vars       == <<daemonVars, windowVars, up, opened, out, back>>

Waiting == {"workspace", "tools"}

TypeOK ==
  /\ conns \in Seq(Conn)
  /\ path \in [Conn -> Name \cup {None}]
  /\ pending \in [Conn -> SUBSET Request]
  /\ registry \in [Source -> [Tool -> Conn \cup {None}]]
  /\ shake \in [Conn -> Waiting \cup {"none", "soon", "done", "failed"}]
  /\ call \in [Call -> [pc : {"idle", "waiting", "done", "failed"}, over : Conn \cup {None}]]
  /\ up \subseteq opened /\ opened \subseteq Conn
  /\ out \in [Conn -> Seq(Request)]
  /\ back \in [Conn -> Seq(Message)]
  /\ busy \in [Conn -> Request \cup {None}]
  /\ folder \in [Conn -> Name \cup {None}]
  /\ offered \in [Conn -> SUBSET Tool]
  /\ changes \in 0..MaxChanges

Init ==
  /\ conns = <<>>
  /\ path = [c \in Conn |-> None]
  /\ pending = [c \in Conn |-> {}]
  /\ registry = [n \in Source |-> Empty]
  /\ shake = [c \in Conn |-> "none"]
  /\ call = [k \in Call |-> [pc |-> "idle", over |-> None]]
  /\ up = {}
  /\ opened = {}
  /\ out = [c \in Conn |-> <<>>]
  /\ back = [c \in Conn |-> <<>>]
  /\ busy = [c \in Conn |-> None]
  /\ folder \in [Conn -> Name \cup {None}]
  /\ offered \in [Conn -> SUBSET Tool]
  /\ changes = 0

-----------------------------------------------------------------------------
(* The registry. *)

SourceOf(c) == IF path[c] = None THEN Vscode ELSE path[c]

\* Mutant: nothing is removed.
ClearedNot(n) == registry

\* unregisterSource() of ws:n.
Cleared(n) == [registry EXCEPT ![n] = Empty]

\* register(): tools are added, and nothing is removed.
Added(reg, n, c, T) ==
  [reg EXCEPT ![n] = [t \in Tool |-> IF t \in T THEN c ELSE reg[n][t]]]

-----------------------------------------------------------------------------
(* The daemon's requests. *)

Connected == Range(conns)

\* sendVSCodeRequest() as far as the write.  What is written to a broken
\* stream is lost.
Send(c, r) ==
  /\ pending' = [pending EXCEPT ![c] = @ \cup {r}]
  /\ out' = IF c \in up THEN [out EXCEPT ![c] = Append(@, r)] ELSE out

\* The requests R of c are rejected.
Reject(c, R) ==
  /\ pending' = [pending EXCEPT ![c] = @ \ R]
  /\ shake' = IF \E w \in Waiting : <<w, c>> \in R
              THEN [shake EXCEPT ![c] = "failed"] ELSE shake
  /\ call' = [k \in Call |-> IF <<"invoke", k>> \in R
                             THEN [call[k] EXCEPT !.pc = "failed"] ELSE call[k]]

\* The start of a VSCodeStream.
Open(c) ==
  /\ c \notin opened
  /\ opened' = opened \cup {c}
  /\ up' = up \cup {c}
  /\ conns' = Append(conns, c)
  /\ shake' = [shake EXCEPT ![c] = "soon"]
  /\ UNCHANGED <<path, pending, registry, call, windowVars, out, back>>

\* 100 ms later: requestWorkspace(), which throws when the connection is gone,
\* and may when its stream is broken.
Handshake(c) ==
  /\ shake[c] = "soon"
  /\ \/ /\ c \in Connected
        /\ shake' = [shake EXCEPT ![c] = "workspace"]
        /\ Send(c, <<"workspace", c>>)
     \/ /\ c \notin Connected \cap up
        /\ shake' = [shake EXCEPT ![c] = "failed"]
        /\ UNCHANGED <<pending, out>>
  /\ UNCHANGED <<conns, path, registry, call, windowVars, up, opened, back>>

\* invokeVSCodeTool() for a registered tool goes to the first connection,
\* whichever registered it; the write may throw.
Invoke(k) ==
  /\ call[k].pc = "idle"
  /\ \E n \in Source, t \in Tool : registry[n][t] # None
  /\ \/ /\ conns # <<>>
        /\ call' = [call EXCEPT ![k] = [pc |-> "waiting", over |-> conns[1]]]
        /\ Send(conns[1], <<"invoke", k>>)
     \/ /\ \A i \in DOMAIN conns : i = 1 => conns[i] \notin up
        /\ call' = [call EXCEPT ![k].pc = "failed"]
        /\ UNCHANGED <<pending, out>>
  /\ UNCHANGED <<conns, path, registry, shake, windowVars, up, opened, back>>

\* Mutant: the timer rejects and leaves the request pending.
TimeoutOnly(c) ==
  /\ \E r \in pending[c] :
       /\ shake' = IF r[1] \in Waiting THEN [shake EXCEPT ![c] = "failed"] ELSE shake
       /\ call' = [k \in Call |-> IF <<"invoke", k>> = r
                                  THEN [call[k] EXCEPT !.pc = "failed"] ELSE call[k]]
  /\ UNCHANGED <<pending, conns, path, registry, windowVars, up, opened, out, back>>

\* Ten seconds are over.
Timeout(c) ==
  /\ \E r \in pending[c] : Reject(c, {r})
  /\ UNCHANGED <<conns, path, registry, windowVars, up, opened, out, back>>

-----------------------------------------------------------------------------
(* What the daemon does with messages. *)

\* handleRegisterToolsNotification().
Notified(c, m) ==
  /\ m.answers = None
  /\ registry' = Added(Cleared(SourceOf(c)), SourceOf(c), c, m.tools)
  /\ UNCHANGED <<path, pending, shake, call, out>>

\* handleVSCodeResponse(), when nobody waits for the answer any more.
TooLate(c, m) ==
  /\ m.answers \notin pending[c] \cup {None}
  /\ UNCHANGED <<path, pending, registry, shake, call, out>>

\* updateVSCodeWorkspace(), unless the window has no folder.
KnownPath(c) == IF folder[c] = None THEN path[c] ELSE folder[c]

\* The answer to requestWorkspace(); requestVSCodeTools() comes next, and may
\* throw.
WorkspaceKnown(c, m) ==
  /\ m.answers = <<"workspace", c>> /\ m.answers \in pending[c]
  /\ path' = [path EXCEPT ![c] = KnownPath(c)]
  /\ \/ /\ shake' = [shake EXCEPT ![c] = "tools"]
        /\ pending' = [pending EXCEPT ![c] = (@ \ {m.answers}) \cup {<<"tools", c>>}]
        /\ out' = IF c \in up THEN [out EXCEPT ![c] = Append(@, <<"tools", c>>)] ELSE out
     \/ /\ c \notin up
        /\ shake' = [shake EXCEPT ![c] = "failed"]
        /\ pending' = [pending EXCEPT ![c] = @ \ {m.answers}]
        /\ UNCHANGED out
  /\ UNCHANGED <<registry, call>>

\* The answer to requestVSCodeTools().
ToolsKnown(c, m) ==
  /\ m.answers = <<"tools", c>> /\ m.answers \in pending[c]
  /\ pending' = [pending EXCEPT ![c] = @ \ {m.answers}]
  /\ registry' = Added(registry, SourceOf(c), c, m.tools)
  /\ shake' = [shake EXCEPT ![c] = "done"]
  /\ UNCHANGED <<path, call, out>>

\* The answer to a tool call.
Returned(c, m) ==
  /\ m.answers \in pending[c]
  /\ \E k \in Call :
       /\ m.answers = <<"invoke", k>>
       /\ call' = [call EXCEPT ![k].pc = "done"]
  /\ pending' = [pending EXCEPT ![c] = @ \ {m.answers}]
  /\ UNCHANGED <<path, registry, shake, out>>

\* 'data' on the stream.
Receive(c) ==
  /\ c \in Connected /\ back[c] # <<>>
  /\ LET m == Head(back[c]) IN
       \/ Notified(c, m)
       \/ TooLate(c, m)
       \/ WorkspaceKnown(c, m)
       \/ ToolsKnown(c, m)
       \/ Returned(c, m)
  /\ back' = [back EXCEPT ![c] = Tail(@)]
  /\ UNCHANGED <<conns, windowVars, up, opened>>

\* Mutant: a closed connection forgets its requests without rejecting them.
EndedSilently(c) ==
  /\ c \in Connected \ up
  /\ pending' = [pending EXCEPT ![c] = {}]
  /\ registry' = Cleared(SourceOf(c))
  /\ \E i \in DOMAIN conns : conns[i] = c /\ conns' = RemoveAt(conns, i)
  /\ back' = [back EXCEPT ![c] = <<>>]
  /\ UNCHANGED <<path, shake, call, windowVars, up, opened, out>>

\* 'end' or 'error' on the stream: unregisterVSCodeConnection().  With an error
\* the messages that were not read are lost.
Ended(c) ==
  /\ c \in Connected \ up
  /\ Reject(c, pending[c])
  /\ registry' = Cleared(SourceOf(c))
  /\ \E i \in DOMAIN conns : conns[i] = c /\ conns' = RemoveAt(conns, i)
  /\ back' = [back EXCEPT ![c] = <<>>]
  /\ UNCHANGED <<path, windowVars, up, opened, out>>

-----------------------------------------------------------------------------
(* The window. *)

\* The stream breaks, or the window closes.
Break(c) ==
  /\ c \in up
  /\ up' = up \ {c}
  /\ out' = [out EXCEPT ![c] = <<>>]
  /\ busy' = [busy EXCEPT ![c] = None]
  /\ UNCHANGED <<daemonVars, folder, offered, changes, opened, back>>

\* The loop of the extension takes the next request.
Take(c) ==
  /\ c \in up /\ busy[c] = None /\ out[c] # <<>>
  /\ busy' = [busy EXCEPT ![c] = Head(out[c])]
  /\ out' = [out EXCEPT ![c] = Tail(@)]
  /\ UNCHANGED <<daemonVars, folder, offered, changes, up, opened, back>>

\* handleRequest() returns and its response is sent.
Answer(c) ==
  /\ c \in up /\ busy[c] # None
  /\ back' = [back EXCEPT ![c] = Append(@, [answers |-> busy[c], tools |-> offered[c]])]
  /\ busy' = [busy EXCEPT ![c] = None]
  /\ UNCHANGED <<daemonVars, folder, offered, changes, up, opened, out>>

\* onDidChangeTools: pushToolUpdate() sends the new tools.
ToolsChange(c) ==
  /\ changes < MaxChanges
  /\ changes' = changes + 1
  /\ \E T \in SUBSET Tool :
       /\ offered' = [offered EXCEPT ![c] = T]
       /\ back' = IF c \in up
                  THEN [back EXCEPT ![c] = Append(@, [answers |-> None, tools |-> T])]
                  ELSE back
  /\ UNCHANGED <<daemonVars, busy, folder, up, opened, out>>

Next ==
  \/ \E c \in Conn : \/ Open(c) \/ Handshake(c) \/ Timeout(c) \/ Receive(c) \/ Ended(c)
                     \/ Break(c) \/ Take(c) \/ Answer(c) \/ ToolsChange(c)
  \/ \E k \in Call : Invoke(k)

Spec == Init /\ [][Next]_vars

\* The daemon's timers fire.  Nothing is expected of the extension.
FairSpec == Spec /\ \A c \in Conn : WF_vars(Timeout(c)) /\ WF_vars(Handshake(c))

-----------------------------------------------------------------------------
(* Properties. *)

\* Whoever waits for an answer over c has a request pending there, and the
\* other way round: across answers, late answers, timeouts and closed streams
\* nobody waits for ever, and no entry is left behind (pendingRequests).
PendingAwaited ==
  \A c \in Conn :
    pending[c] = {<<w, c>> : w \in Waiting \cap {shake[c]}}
                   \cup {<<"invoke", k>> : k \in {j \in Call : call[j] = [pc |-> "waiting", over |-> c]}}

\* Tools under the name of a workspace folder belong to an open connection of
\* that folder, also when several windows share the name and streams come and
\* go (unregisterVSCodeConnection).
NamedToolsOwned ==
  \A n \in Name, t \in Tool :
    registry[n][t] # None => registry[n][t] \in Connected /\ path[registry[n][t]] = n

\* A tool call is answered, times out or fails with its connection, whatever
\* the extension does (sendVSCodeRequest).
CallsSettle == \A k \in Call : (call[k].pc = "waiting") ~> (call[k].pc \in {"done", "failed"})
=============================================================================
