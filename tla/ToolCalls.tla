------------------------------ MODULE ToolCalls ------------------------------
(***************************************************************************)
(* How tools come to be run: chats (core/state.ts, core/engines.ts), with  *)
(* the approvals of the dashboard (daemon/web/server.ts) and of the        *)
(* terminal (daemon/chat.ts), and the clients of the embedded MCP server   *)
(* (daemon/mcp-server.ts), with their consents.                            *)
(*                                                                         *)
(* Callers share the registry and the configured policy, both of which     *)
(* change while they wait.  A chat reads the policy once and is offered    *)
(* one tool per name; the name is resolved again when the call is judged   *)
(* and a third time when it is executed.  An MCP session holds the tools   *)
(* of the moment it was established, and reads the policy at each call.    *)
(*                                                                         *)
(* The language model is any choice of offered tools, one call at a time.  *)
(* Left out: tools a request brings along, which are not in the registry,  *)
(* per-request tool filters, and what tools return.                        *)
(***************************************************************************)
EXTENDS ToolNames, Naturals

CONSTANTS Chat,        \* chats
          McpCall,     \* tools/call requests of MCP clients
          McpSession,  \* initialize requests, and the sessions they lead to
          ClientOf,    \* ClientOf[m]: the client name in that request
          Policy,      \* the policies the configuration takes on
          MaxCalls,    \* the limit of tool calls per chat (maxSteps)
          MaxChanges   \* bound: changes of registry and configuration

ASSUME CallerAssumption ==
  /\ Chat \cap McpCall = {}
  /\ Policy \subseteq Policies
  /\ MaxCalls \in Nat /\ MaxChanges \in Nat

Caller == Chat \cup McpCall
Client == {ClientOf[m] : m \in McpSession}

VARIABLES
  registry,    \* the tool registry
  config,      \* the tool_policy of the configuration
  changes,     \* bounded by MaxChanges
  kind,        \* kind[c]: "web", "rpc" or "cli"
  within,      \* within[c]: the session of the chat, or None
  call,        \* call[p]: the local state of a caller
  always,      \* always[c]: names the user of a terminal allowed for good
  calls,       \* calls[c]: calls made, at most MaxCalls
  pending,     \* pendingApprovals and pendingMcpApprovals
  left,        \* chats whose client has gone
  late,        \* history: chats that asked after their client had gone
  rival,       \* history: another tool had a name this caller was offered
  session,     \* session[m]: an MCP client's session; refused or failed is closed, too
  captured,    \* captured[m]: the tools registered on it
  consents,    \* pendingMcpConnections
  remembered   \* rememberedClients

toolVars == <<registry, config, changes>>
chatVars == <<kind, within, always, calls, left, late>>
mcpVars  == <<session, captured, consents, remembered>>
vars     == <<toolVars, chatVars, call, pending, mcpVars, rival>>

Kind == {"web", "rpc", "cli"}

\* policy: what the caller goes by; offer: the tools it was told of; wanted:
\* the one it calls; allowed: the user allowed this call; found: what an MCP
\* client calls was registered when the call was judged; running: what runs.
Local == [pc      : {"idle", "streaming", "asking", "approved", "running", "ended"},
          policy  : Policy \cup {None},
          offer   : SUBSET Tool,
          wanted  : Tool \cup {None},
          allowed : BOOLEAN,
          found   : BOOLEAN,
          running : Tool \cup {None}]
Fresh == [pc |-> "idle", policy |-> None, offer |-> {}, wanted |-> None,
          allowed |-> FALSE, found |-> FALSE, running |-> None]
Ended == [Fresh EXCEPT !.pc = "ended"]

TypeOK ==
  /\ registry \in Seq(Tool) /\ config \in Policy /\ changes \in 0..MaxChanges
  /\ kind \in [Chat -> Kind] /\ within \in [Chat -> Session \cup {None}]
  /\ call \in [Caller -> Local]
  /\ \A p \in Caller : (call[p].pc = "running") = (call[p].running # None)
  /\ always \in [Chat -> SUBSET Name] /\ calls \in [Chat -> 0..MaxCalls]
  /\ pending \subseteq Caller
  /\ left \subseteq Chat /\ late \subseteq Chat /\ rival \subseteq Caller
  /\ session \in [McpSession -> {"none", "consent", "allowed", "open", "closed"}]
  /\ captured \in [McpSession -> SUBSET Tool]
  /\ consents \subseteq McpSession /\ remembered \subseteq Client

Init ==
  /\ registry \in {<<>>} \cup {ToolsOf[s] : s \in Source}
  /\ config \in Policy /\ changes = 0
  /\ kind \in [Chat -> Kind] /\ within \in [Chat -> Session \cup {None}]
  /\ \A c \in Chat : kind[c] # "rpc" => within[c] = None
  /\ call = [p \in Caller |-> Fresh]
  /\ always = [c \in Chat |-> {}] /\ calls = [c \in Chat |-> 0]
  /\ pending = {} /\ left = {} /\ late = {} /\ rival = {}
  /\ session = [m \in McpSession |-> "none"]
  /\ captured = [m \in McpSession |-> {}]
  /\ consents = {} /\ remembered \in SUBSET Client

-----------------------------------------------------------------------------
(* The environment: sources come and go, the operator edits the policy. *)

\* The callers that were offered a name which another tool of reg has, too.
Rivals(reg, local) ==
  {p \in Caller : \E t \in local[p].offer, u \in Range(reg) : u # t /\ Bare[u] = Bare[t]}

Change == changes < MaxChanges /\ changes' = changes + 1

Connect(s) ==
  /\ Change
  /\ registry' = With(registry, s)
  /\ rival' = rival \cup Rivals(registry', call)
  /\ UNCHANGED <<config, chatVars, call, pending, mcpVars>>

Disconnect(s) ==
  /\ Change
  /\ Range(registry) \cap Range(ToolsOf[s]) # {}
  /\ registry' = Without(registry, s)
  /\ UNCHANGED <<config, chatVars, call, pending, mcpVars, rival>>

Configure(new) ==
  /\ Change
  /\ new # config /\ config' = new
  /\ UNCHANGED <<registry, chatVars, call, pending, mcpVars, rival>>

-----------------------------------------------------------------------------
(* Judging a call: createToolValidator(). *)

\* The name of t is resolved, and what it resolves to is classified.
TierOf(t, policy) == Classify(Resolve(registry, Bare[t]), policy)

\* Mutant: what no pattern matches is allowed.
ApprovedOpen(t, policy) == TierOf(t, policy) \in {"auto_approve", "default_ask"}

Approved(t, policy)  == TierOf(t, policy) = "auto_approve"
Forbidden(t, policy) == TierOf(t, policy) = "disabled"

\* Where a call of t goes that local makes, the local state of p.
Judge(p, local, t, asks, forbidden) ==
  call' = [call EXCEPT ![p] =
    IF Forbidden(t, local.policy) THEN forbidden
    ELSE [local EXCEPT !.wanted = t, !.allowed = FALSE,
                       !.pc = IF asks THEN "asking" ELSE "approved"]]

-----------------------------------------------------------------------------
(* Chats. *)

\* CoreState.chat() up to the stream.  A model that is unknown, disabled or
\* without a key ends the chat at once.
StartChat(c) ==
  /\ call[c].pc = "idle"
  /\ \E local \in {Ended, [Fresh EXCEPT !.pc = "streaming", !.policy = config,
                                      !.offer = ListForChat(registry, config, within[c])]} :
       call' = [call EXCEPT ![c] = local]
  /\ rival' = rival \cup Rivals(registry, call')
  /\ UNCHANGED <<toolVars, chatVars, pending, mcpVars>>

\* The model calls t.  Only the dashboard's and the terminal's chats pass an
\* onToolApprovalNeeded; without one there is no validator.
Propose(c, t) ==
  LET local == call[c]
      asks  == ~Forbidden(t, local.policy) /\ ~Approved(t, local.policy) /\ Bare[t] \notin always[c]
  IN  /\ local.pc = "streaming" /\ t \in local.offer /\ calls[c] < MaxCalls
      /\ calls' = [calls EXCEPT ![c] = @ + 1]
      /\ IF kind[c] = "rpc"
         THEN /\ call' = [call EXCEPT ![c].pc = "approved", ![c].wanted = t]
              /\ UNCHANGED <<pending, late>>
         ELSE /\ Judge(c, local, t, asks, local)
              /\ pending' = IF asks THEN pending \cup {c} ELSE pending
              /\ late' = IF asks /\ c \in left THEN late \cup {c} ELSE late
      /\ UNCHANGED <<toolVars, kind, within, always, left, mcpVars, rival>>

\* POST /api/chat/:chatId/approve, or the answer at the prompt.  An abort is
\* thrown inside the stream and ends the chat.
DecideChat(c, d) ==
  /\ c \in pending \cap Chat
  /\ kind[c] = "web" => c \notin late
  /\ d = "always" => kind[c] = "cli"
  /\ pending' = pending \ {c}
  /\ call' = [call EXCEPT ![c] =
       IF d = "abort" THEN Ended
       ELSE IF d = "deny" THEN [@ EXCEPT !.pc = "streaming"]
       ELSE [@ EXCEPT !.pc = "approved", !.allowed = TRUE]]
  /\ always' = IF d = "always" THEN [always EXCEPT ![c] = @ \cup {Bare[call[c].wanted]}] ELSE always
  /\ UNCHANGED <<toolVars, kind, within, calls, left, late, mcpVars, rival>>

\* The executor of a chat looks the name up once more; if nothing has it the
\* SDK reports a tool error, which streamChat() passes over.
ExecuteChat(c) ==
  /\ c \in Chat /\ call[c].pc = "approved"
  /\ LET t == Resolve(registry, Bare[call[c].wanted])
     IN  call' = [call EXCEPT ![c].pc = IF t = None THEN "streaming" ELSE "running",
                              ![c].running = t]
  /\ UNCHANGED <<toolVars, chatVars, pending, mcpVars, rival>>

Return(p) ==
  /\ call[p].pc = "running"
  /\ call' = [call EXCEPT ![p] = IF p \in Chat THEN [@ EXCEPT !.pc = "streaming", !.running = None]
                                               ELSE Ended]
  /\ UNCHANGED <<toolVars, chatVars, pending, mcpVars, rival>>

\* Mutant: the close handler leaves what is pending.
LeaveQuietly(c) ==
  /\ kind[c] # "cli" /\ call[c].pc \notin {"idle", "ended"} /\ c \notin left
  /\ left' = left \cup {c}
  /\ UNCHANGED <<toolVars, kind, within, always, calls, late, call, pending, mcpVars, rival>>

\* The close handler of POST /api/chat aborts what is pending; RPC chats have
\* no such handler.
Leave(c) ==
  /\ kind[c] # "cli" /\ call[c].pc \notin {"idle", "ended"} /\ c \notin left
  /\ left' = left \cup {c}
  /\ IF kind[c] = "web" /\ c \in pending
     THEN call' = [call EXCEPT ![c] = Ended] /\ pending' = pending \ {c}
     ELSE UNCHANGED <<call, pending>>
  /\ UNCHANGED <<toolVars, kind, within, always, calls, late, mcpVars, rival>>

\* The finally block forgets what is pending without an answer.
Finish(c) ==
  /\ call' = [call EXCEPT ![c] = Ended]
  /\ pending' = pending \ {c}
  /\ UNCHANGED <<toolVars, chatVars, mcpVars, rival>>

\* The stream ends, or the next chunk finds the client gone.
EndChat(c) == call[c].pc = "streaming" /\ Finish(c)

\* A chunk from before the call finds the client gone, if the SDK has passed
\* one on; nobody waits for the approval any more.
DropLate(c) == kind[c] = "web" /\ c \in late /\ call[c].pc = "asking" /\ Finish(c)

-----------------------------------------------------------------------------
(* The MCP server's sessions: handleHttpRequest(). *)

SetSession(m, st) == session' = [session EXCEPT ![m] = st]

\* initialize: a remembered client is let in, another one has to wait.
Initialize(m) ==
  /\ session[m] = "none"
  /\ IF ClientOf[m] \in remembered
     THEN SetSession(m, "allowed") /\ UNCHANGED consents
     ELSE SetSession(m, "consent") /\ consents' = consents \cup {m}
  /\ UNCHANGED <<toolVars, chatVars, call, pending, captured, remembered, rival>>

\* POST /api/mcp/connections/:requestId.
DecideConsent(m, allow, remember) ==
  /\ m \in consents
  /\ consents' = consents \ {m}
  /\ SetSession(m, IF allow THEN "allowed" ELSE "closed")
  /\ remembered' = IF allow /\ remember THEN remembered \cup {ClientOf[m]} ELSE remembered
  /\ UNCHANGED <<toolVars, chatVars, call, pending, captured, rival>>

\* Mutant: the entry stays when its time is up.
ExpireConsentKept(m) ==
  /\ m \in consents /\ session[m] = "consent"
  /\ SetSession(m, "closed")
  /\ UNCHANGED <<toolVars, chatVars, call, pending, captured, consents, remembered, rival>>

ExpireConsent(m) ==
  /\ m \in consents
  /\ consents' = consents \ {m}
  /\ SetSession(m, "closed")
  /\ UNCHANGED <<toolVars, chatVars, call, pending, captured, remembered, rival>>

\* registerToolsOn() takes every tool of the registry that is not disabled;
\* the MCP library refuses a second tool of the same name.
Establish(m) ==
  /\ session[m] = "allowed"
  /\ LET T == {t \in Range(registry) : Classify(t, config) # "disabled"}
     IN  IF \E t, u \in T : t # u /\ Bare[t] = Bare[u]
         THEN SetSession(m, "closed") /\ UNCHANGED captured
         ELSE SetSession(m, "open") /\ captured' = [captured EXCEPT ![m] = T]
  /\ UNCHANGED <<toolVars, chatVars, call, pending, consents, remembered, rival>>

\* revokeSession(), by the operator or by stop(), or a DELETE by the client.  A
\* stopped server keeps its routes, so initialize does not ask whether it runs.
Revoke(m) ==
  /\ session[m] = "open"
  /\ SetSession(m, "closed")
  /\ captured' = [captured EXCEPT ![m] = {}]
  /\ UNCHANGED <<toolVars, chatVars, call, pending, consents, remembered, rival>>

Forget(n) ==
  /\ n \in remembered
  /\ remembered' = remembered \ {n}
  /\ UNCHANGED <<toolVars, chatVars, call, pending, session, captured, consents, rival>>

-----------------------------------------------------------------------------
(* Calls of MCP clients: authorizeAndExecute(). *)

CallTool(k, m, t) ==
  LET local == [Fresh EXCEPT !.policy = config, !.offer = {t}, !.found = t \in Range(registry)]
      asks  == ~Forbidden(t, config) /\ ~Approved(t, config)
  IN  /\ call[k].pc = "idle" /\ session[m] = "open" /\ t \in captured[m]
      /\ Judge(k, local, t, asks, Ended)
      /\ rival' = rival \cup Rivals(registry, call')
      /\ pending' = IF asks THEN pending \cup {k} ELSE pending
      /\ UNCHANGED <<toolVars, chatVars, mcpVars>>

\* POST /api/mcp/approvals/:requestId.
DecideCall(k, allow) ==
  /\ k \in pending \cap McpCall
  /\ pending' = pending \ {k}
  /\ call' = [call EXCEPT ![k] = IF allow THEN [@ EXCEPT !.pc = "approved", !.allowed = TRUE] ELSE Ended]
  /\ UNCHANGED <<toolVars, chatVars, mcpVars, rival>>

\* Mutant: no timer is set.
ExpireCallNever(k) == k \in {} /\ UNCHANGED vars

\* After mcpPendingTtlMs an unanswered request is denied.
ExpireCall(k) ==
  /\ k \in pending \cap McpCall
  /\ pending' = pending \ {k}
  /\ call' = [call EXCEPT ![k] = Ended]
  /\ UNCHANGED <<toolVars, chatVars, mcpVars, rival>>

\* The tool of the session is run, which fails if its source has gone.
ExecuteCall(k) ==
  /\ k \in McpCall /\ call[k].pc = "approved"
  /\ call' = [call EXCEPT ![k] =
       IF call[k].wanted \in Range(registry) THEN [@ EXCEPT !.pc = "running", !.running = call[k].wanted] ELSE Ended]
  /\ UNCHANGED <<toolVars, chatVars, pending, mcpVars, rival>>

-----------------------------------------------------------------------------
Environment ==
  \/ \E s \in Source : Connect(s) \/ Disconnect(s)
  \/ \E new \in Policy : Configure(new)

ChatStep(c) ==
  \/ StartChat(c) \/ \E t \in Tool : Propose(c, t)
  \/ \E d \in {"allow", "always", "deny", "abort"} : DecideChat(c, d)
  \/ ExecuteChat(c) \/ Leave(c) \/ EndChat(c) \/ DropLate(c)

SessionStep(m) ==
  \/ Initialize(m) \/ \E a, r \in BOOLEAN : DecideConsent(m, a, r)
  \/ ExpireConsent(m) \/ Establish(m) \/ Revoke(m)

McpStep(k) ==
  \/ \E m \in McpSession, t \in Tool : CallTool(k, m, t)
  \/ \E a \in BOOLEAN : DecideCall(k, a)
  \/ ExpireCall(k) \/ ExecuteCall(k)

Next ==
  \/ Environment
  \/ \E c \in Chat : ChatStep(c)
  \/ \E m \in McpSession : SessionStep(m)
  \/ \E n \in Client : Forget(n)
  \/ \E k \in McpCall : McpStep(k)
  \/ \E p \in Caller : Return(p)

\* Streams end, tools return, and timers fire; users need not answer.
Fairness ==
  /\ \A c \in Chat : WF_vars(ExecuteChat(c)) /\ WF_vars(EndChat(c))
  /\ \A k \in McpCall : WF_vars(ExpireCall(k)) /\ WF_vars(ExecuteCall(k))
  /\ \A m \in McpSession : WF_vars(ExpireConsent(m)) /\ WF_vars(Establish(m))
  /\ \A p \in Caller : WF_vars(Return(p))

Spec == Init /\ [][Next]_vars /\ Fairness

-----------------------------------------------------------------------------
(* Properties. *)

\* The callers whose calls are judged by the policy: chats that pass a callback,
\* and MCP clients, unless the source of the tool was gone at that moment.
Judged == {p \in Caller : IF p \in Chat THEN kind[p] # "rpc" ELSE call[p].found}

\* What runs for such a caller the policy it goes by does not disable, and
\* either approves by itself or the user has allowed: for this call, or, at a
\* terminal, for the name (createToolValidator(), tool-approval.ts:60).  With
\* another tool of that name about, the name may be judged as one of them and
\* run as the other; and a name that nothing has is asked about, and may be that
\* of a disabled tool again when it is run (mcp-server.ts:261).
PolicyHolds ==
  \A p \in Judged \ rival : call[p].pc = "running" =>
    /\ Classify(call[p].running, call[p].policy) # "disabled"
    /\ \/ Classify(call[p].running, call[p].policy) = "auto_approve"
       \/ call[p].allowed
       \/ p \in Chat /\ Bare[call[p].running] \in always[p]

\* What runs for a chat is a tool that was offered to it, and hence none of
\* another session's (listForChat(), tool-registry.ts:213; buildExecutor()
\* does not look at scopes).  Without rivals, as above.
OfferedRuns ==
  \A c \in Chat \ rival : call[c].pc = "running" =>
    /\ call[c].running = call[c].wanted /\ call[c].running \in call[c].offer
    /\ Scope[From(call[c].running)] \in {None, within[c]}

\* A request for approval or consent is listed exactly as long as someone
\* waits for the answer: an answer, an expiry and a departure take it out
\* once, and nobody waits for what is no longer listed (server.ts:329-450).
RequestsWaited ==
  /\ pending = {p \in Caller : call[p].pc = "asking"}
  /\ consents = {m \in McpSession : session[m] = "consent"}

\* A request to the MCP server is answered even if no user decides: by the
\* time limit (server.ts:429).
McpAnswers ==
  /\ \A k \in McpCall : call[k].pc # "idle" ~> call[k].pc = "ended"
  /\ \A m \in McpSession : session[m] \in {"consent", "allowed"} ~> session[m] \notin {"consent", "allowed"}

\* A web chat whose client leaves comes to an end, although a tool of it is
\* waiting for an approval (server.ts:1358), unless it asks only later.
LeftChatsEnd ==
  \A c \in Chat : (c \in left /\ kind[c] = "web") ~> (call[c].pc = "ended" \/ c \in late)
==============================================================================
