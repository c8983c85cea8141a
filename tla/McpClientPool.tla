--------------------------- MODULE McpClientPool ---------------------------
(***************************************************************************)
(* The pool of MCP clients (daemon/mcp-client-pool.ts): it connects to the *)
(* tool servers of the config file and to those callers register at run    *)
(* time, and keeps the tool registry in step with them.                    *)
(*                                                                         *)
(* The pool has no lock.  Its methods run from RPCs, the web API, session  *)
(* deletion, config changes and a timer, and interleave at every await:    *)
(* the operator's approval, createMCPClient(), listTools(), close().  Each *)
(* stretch between two awaits is one action.                               *)
(*                                                                         *)
(* A call makes at most one connection to a server, so <<c, s>> names it,  *)
(* and client[s] and status[s].by name the call alone.                     *)
(*                                                                         *)
(* Left out: what the configs, tools and filters say (whether a config is  *)
(* enabled, changed or points at the daemon itself is a choice), callTool, *)
(* the list of recent denials, disconnectAll at shutdown.  The MCP client  *)
(* library is external: connecting and listing may fail, requests on a     *)
(* closed connection fail, and close() may fail and leave it up.           *)
(***************************************************************************)
EXTENDS Naturals, FiniteSets

CONSTANTS Server,      \* MCP server ids
          Session,     \* chat sessions
          ClientId,    \* registered gRPC clients
          Call,        \* the calls of a behaviour
          Health,      \* the health check, which runs again and again
          MaxDynamic,  \* security.max_dynamic_mcp_servers
          MaxFaults,   \* bound: dying servers and failing close() calls
          None

ASSUME LimitAssumption == MaxDynamic \in Nat \ {0} /\ MaxFaults \in Nat
ASSUME NameAssumption  == Health \notin Call /\ None \notin Call \cup Server \cup Session \cup ClientId

Proc == Call \cup {Health}

VARIABLES
  client,   \* client[s]: the pool's connection to s
  status,   \* status[s]: what the pool says of s
  tools,    \* the servers whose tools are in the registry
  scoped,   \* scoped[x]: the servers whose tools session x has for itself
  timer,    \* the health check interval is set
  boot,     \* the config servers connectAll() has yet to turn to
  open,     \* the connections that are up
  live,     \* the sessions that were not deleted
  pc,       \* pc[p]: how far p has come
  op,       \* op[p]: the method it runs
  at,       \* at[p]: the server it is working on
  todo,     \* todo[p]: the servers its loop has left
  want,     \* want[p]: the servers of the config file it syncs with
  held,     \* held[p]: the connection it took from the pool
  scope,    \* scope[p]: the session and client it acts for
  spoiled,  \* history: servers on which two calls overlapped or close() failed
  late,     \* history: registrations admitted after their session was deleted
  faults    \* bounded by MaxFaults

poolVars == <<client, status, tools, scoped, timer>>
callVars == <<pc, op, at, todo, want, held, scope>>
vars     == <<poolVars, callVars, boot, open, live, spoiled, late, faults>>

Scope    == [session : Session \cup {None}, client : ClientId \cup {None}]
NoScope  == [session |-> None, client |-> None]
Status   == [by : Call, source : {"config", "dynamic"}, scope : Scope,
             connected : BOOLEAN]

Sweeps   == {"deleteSession", "dropClient", "sync", "health"}
Connects == {"connect", "reconnect", "syncUp"}
Loops    == Sweeps \cup {"syncUp"}
Settled  == {"done", "failed"}
Active   == {"approval", "connecting", "listing", "closing", "probing", "next"}

ASSUME StatusAssumption ==
  None \notin Status /\ None \notin Sweeps \cup Connects \cup {"register", "unregister"}

TypeOK ==
  /\ client \in [Server -> Call \cup {None}]
  /\ status \in [Server -> Status \cup {None}]
  /\ tools \subseteq Server
  /\ scoped \in [Session -> SUBSET Server]
  /\ timer \in BOOLEAN
  /\ boot \subseteq Server
  /\ open \subseteq Call \X Server
  /\ live \subseteq Session
  /\ pc \in [Proc -> Active \cup Settled \cup {"idle"}]
  /\ op \in [Proc -> Sweeps \cup Connects \cup {"register", "unregister", None}]
  /\ at \in [Proc -> Server \cup {None}]
  /\ todo \in [Proc -> SUBSET Server]
  /\ want \in [Proc -> SUBSET Server]
  /\ held \in [Proc -> Call \cup {None}]
  /\ scope \in [Proc -> Scope]
  /\ spoiled \subseteq Server
  /\ late \subseteq Call
  /\ faults \in 0..MaxFaults

Init ==
  /\ client = [s \in Server |-> None]
  /\ status = [s \in Server |-> None]
  /\ tools = {}
  /\ scoped = [x \in Session |-> {}]
  /\ timer = FALSE
  /\ boot \in SUBSET Server
  /\ open = {}
  /\ live = Session
  /\ pc = [p \in Proc |-> "idle"]
  /\ op = [p \in Proc |-> IF p = Health THEN "health" ELSE None]
  /\ at = [p \in Proc |-> None]
  /\ todo = [p \in Proc |-> {}]
  /\ want = [p \in Proc |-> {}]
  /\ held = [p \in Proc |-> None]
  /\ scope = [p \in Proc |-> NoScope]
  /\ spoiled = {}
  /\ late = {}
  /\ faults = 0

-----------------------------------------------------------------------------
(* Moving a call along. *)

About(p) == todo[p] \cup want[p] \cup ({at[p]} \ {None})

\* Starting work on S spoils the servers some other call is working on.
Meet(p, S) ==
  spoiled' = spoiled \cup {s \in S : \E q \in Proc \ {p} : s \in About(q)}

\* p waits at label l for something about server s.
Wait(p, l, s) ==
  /\ pc' = [pc EXCEPT ![p] = l]
  /\ at' = [at EXCEPT ![p] = s]

\* p is through with its server: a loop goes on, anything else settles.
Through(p, o, outcome) ==
  /\ pc' = [pc EXCEPT ![p] = IF o \in Loops THEN "next" ELSE outcome]
  /\ at' = [at EXCEPT ![p] = None]
  /\ held' = [held EXCEPT ![p] = None]

Dynamic(s) == status[s] # None /\ status[s].source = "dynamic"
Static(s)  == status[s] # None /\ status[s].source = "config"

FreshStatus(c, source, sc) ==
  [by |-> c, source |-> source, scope |-> sc, connected |-> FALSE]

SetStatus(s, st) == status' = [status EXCEPT ![s] = st]

\* status.connected = v, on the object call c made; another call may have
\* replaced it in the map.
Mark(c, s, v) ==
  status' = IF status[s] # None /\ status[s].by = c
            THEN [status EXCEPT ![s].connected = v] ELSE status

-----------------------------------------------------------------------------
(* disconnect(), which other methods go through. *)

\* Mutant: the tools stay.
UnregisterScopes(s) ==
  /\ tools' = tools
  /\ scoped' = [x \in Session |-> scoped[x] \ {s}]

\* unregisterSource(): tools and session scopes of s.
UnregisterSource(s) ==
  /\ tools' = tools \ {s}
  /\ scoped' = [x \in Session |-> scoped[x] \ {s}]

\* After close(), or at once without a client: whatever client s has now is
\* dropped.  Then the caller's own continuation.
Disconnected(p, o, s) ==
  /\ client' = [client EXCEPT ![s] = None]
  /\ UnregisterSource(s)
  /\ \/ /\ o = "unregister"
        /\ status' = IF status[s] = None THEN status
                     ELSE [status EXCEPT ![s].connected = FALSE]
        /\ Through(p, o, "done")
     \/ /\ o \in Sweeps
        /\ SetStatus(s, None)
        /\ Through(p, o, "done")
     \/ /\ o \in Connects
        /\ SetStatus(s, FreshStatus(p, "config", NoScope))
        /\ Wait(p, "connecting", s)
        /\ held' = [held EXCEPT ![p] = None]

\* Mutant: the caller does not wait for close().
DisconnectUnclosed(p, o, s) == Disconnected(p, o, s)

Disconnect(p, o, s) ==
  \/ /\ client[s] # None
     /\ Wait(p, "closing", s)
     /\ held' = [held EXCEPT ![p] = client[s]]
     /\ UNCHANGED <<client, status, tools, scoped>>
  \/ /\ client[s] = None
     /\ Disconnected(p, o, s)

\* close() returns, or throws and is ignored.
Closed(p) ==
  /\ pc[p] = "closing"
  /\ \/ /\ open' = open \ {<<held[p], at[p]>>}
        /\ UNCHANGED <<spoiled, faults>>
     \/ /\ faults < MaxFaults
        /\ <<held[p], at[p]>> \in open
        /\ faults' = faults + 1
        /\ spoiled' = spoiled \cup {at[p]}
        /\ UNCHANGED open
  /\ Disconnected(p, op[p], at[p])
  /\ UNCHANGED <<timer, boot, live, op, todo, want, scope, late>>

-----------------------------------------------------------------------------
(* connect() and connectDynamic(). *)

\* The part of connect() before its first await.  The config of a server that
\* reconnects was enabled when it was first used.
Connect(p, o, s) ==
  \/ /\ o # "reconnect"                            \* disabled: nothing happens
     /\ Through(p, o, "done")
     /\ UNCHANGED <<client, status, tools, scoped>>
  \/ /\ SetStatus(s, FreshStatus(p, "config", NoScope))   \* points at ourselves
     /\ Through(p, o, "failed")
     /\ UNCHANGED <<client, tools, scoped>>
  \/ Disconnect(p, o, s) /\ client[s] # None
  \/ /\ client[s] = None
     /\ SetStatus(s, FreshStatus(p, "config", NoScope))
     /\ Wait(p, "connecting", s)
     /\ UNCHANGED <<client, tools, scoped, held>>

\* connectAll() at start-up, for one server of the config file.
ConnectAll(c) ==
  /\ pc[c] = "idle"
  /\ \E s \in boot :
       /\ boot' = boot \ {s}
       /\ op' = [op EXCEPT ![c] = "connect"]
       /\ Meet(c, {s})
       /\ Connect(c, "connect", s)
  /\ UNCHANGED <<timer, open, live, todo, want, scope, late, faults>>

\* reconnect() of any known server.
Reconnect(c) ==
  /\ pc[c] = "idle"
  /\ \E s \in Server :
       /\ status[s] # None
       /\ op' = [op EXCEPT ![c] = "reconnect"]
       /\ Meet(c, {s})
       /\ Connect(c, "reconnect", s)
  /\ UNCHANGED <<timer, boot, open, live, todo, want, scope, late, faults>>

Full == Cardinality({s \in Server : Dynamic(s)}) >= MaxDynamic

\* RegisterMcpServer: connectDynamic() up to its first await.
Register(c) ==
  /\ pc[c] = "idle"
  /\ \E s \in Server, sc \in Scope, k \in {"http", "stdio", "self"} :
       /\ op' = [op EXCEPT ![c] = "register"]
       /\ scope' = [scope EXCEPT ![c] = sc]
       /\ late' = IF sc.session \in live \cup {None} THEN late ELSE late \cup {c}
       /\ ~Static(s) /\ client[s] = None        \* otherwise refused, no effect
       /\ \/ /\ k = "self"                       \* refused, but the status stays
             /\ SetStatus(s, FreshStatus(c, "dynamic", sc))
             /\ Meet(c, {s})
             /\ Through(c, "register", "failed")
          \/ /\ k # "self" /\ Full
             /\ Through(c, "register", "failed")
             /\ UNCHANGED <<status, spoiled>>
          \/ /\ k = "stdio" /\ ~Full             \* allowlist, then the operator
             /\ Meet(c, {s})
             /\ Wait(c, "approval", s)
             /\ UNCHANGED <<status, held>>
          \/ /\ k = "http" /\ ~Full
             /\ Meet(c, {s})
             /\ SetStatus(s, FreshStatus(c, "dynamic", sc))
             /\ Wait(c, "connecting", s)
             /\ UNCHANGED held
  /\ UNCHANGED <<client, tools, scoped, timer, boot, open, live, todo, want, faults>>

\* The operator, or the time limit, decides; nothing is checked again.
Decide(c) ==
  /\ pc[c] = "approval"
  /\ \/ /\ SetStatus(at[c], FreshStatus(c, "dynamic", scope[c]))
        /\ Wait(c, "connecting", at[c])
        /\ UNCHANGED held
     \/ /\ Through(c, op[c], "failed")
        /\ UNCHANGED status
  /\ UNCHANGED <<client, tools, scoped, timer, boot, open, live, op, todo, want,
                 scope, spoiled, late, faults>>

\* What a failed connect leaves: connectDynamic() deletes the status of the
\* server, connect() keeps it; neither touches the client.
GiveUp(c) ==
  /\ IF op[c] = "register" THEN SetStatus(at[c], None) ELSE UNCHANGED status
  /\ Through(c, op[c], "failed")
  /\ UNCHANGED <<client, tools, scoped, timer, open>>

\* createMCPClient() returns.
Established(c) ==
  LET s == at[c] IN
  /\ pc[c] = "connecting"
  /\ \/ GiveUp(c)
     \/ /\ client' = [client EXCEPT ![s] = c]
        /\ open' = open \cup {<<c, s>>}
        /\ Mark(c, s, TRUE)
        /\ Wait(c, "listing", s)
        /\ UNCHANGED <<tools, scoped, timer, held>>
  /\ UNCHANGED <<boot, live, op, todo, want, scope, spoiled, late, faults>>

\* Mutant: the scope of a registration that is not connected yet is lost.
ScopeOfConfig(s) == IF Static(s) THEN status[s].scope.session ELSE None

\* The session refreshTools() registers the tools of s for.
ScopeOf(s) == IF Dynamic(s) THEN status[s].scope.session ELSE None

\* listTools() returns: the tools are registered under the scope of whatever
\* status the server has by now.
Listed(c) ==
  LET s == at[c] IN
  /\ pc[c] = "listing"
  /\ \/ GiveUp(c)
     \/ /\ <<c, s>> \in open
        /\ tools' = tools \cup {s}
        /\ scoped' = [x \in Session |->
             IF x = ScopeOf(s) THEN scoped[x] \cup {s} ELSE scoped[x]]
        /\ timer' = (timer \/ op[c] = "register")
        /\ Through(c, op[c], "done")
        /\ UNCHANGED <<client, status, open>>
  /\ UNCHANGED <<boot, live, op, todo, want, scope, spoiled, late, faults>>

-----------------------------------------------------------------------------
(* Removing servers. *)

\* UnregisterMcpServer; refused, without effect, for unknown and config servers.
Unregister(c) ==
  /\ pc[c] = "idle"
  /\ \E s \in Server :
       /\ Dynamic(s)
       /\ op' = [op EXCEPT ![c] = "unregister"]
       /\ Meet(c, {s})
       /\ Disconnect(c, "unregister", s)
  /\ UNCHANGED <<timer, boot, open, live, todo, want, scope, late, faults>>

\* A method that takes a snapshot of the servers it will go through.
Sweep(p, o, S, W) ==
  /\ op' = [op EXCEPT ![p] = o]
  /\ todo' = [todo EXCEPT ![p] = S]
  /\ want' = [want EXCEPT ![p] = W]
  /\ pc' = [pc EXCEPT ![p] = "next"]
  /\ Meet(p, S \cup W)

\* Mutant: servers that are still connecting are left out.
OfSessionUp(x) ==
  {s \in Server : Dynamic(s) /\ status[s].connected /\ status[s].scope.session = x}

\* The servers disconnectByScope() goes through.
OfSession(x) == {s \in Server : Dynamic(s) /\ status[s].scope.session = x}

\* DeleteSession: the session is gone, then disconnectByScope().
DeleteSession(c) ==
  /\ pc[c] = "idle"
  /\ \E x \in live :
       /\ live' = live \ {x}
       /\ scope' = [scope EXCEPT ![c].session = x]
       /\ late' = late \cup {d \in Call : pc[d] = "approval" /\ scope[d].session = x}
       /\ Sweep(c, "deleteSession", OfSession(x), {})
  /\ UNCHANGED <<poolVars, boot, open, at, held, faults>>

\* DELETE /api/sessions/:id deletes the session and no more.
WebDeleteSession ==
  /\ \E x \in live : live' = live \ {x}
  /\ UNCHANGED <<poolVars, callVars, boot, open, spoiled, late, faults>>

\* unregisterClient(): disconnectByClient().
DropClient(c) ==
  /\ pc[c] = "idle"
  /\ \E k \in ClientId :
       Sweep(c, "dropClient",
             {s \in Server : Dynamic(s) /\ status[s].scope.client = k}, {})
  /\ UNCHANGED <<poolVars, boot, open, live, at, held, scope, late, faults>>

\* syncWithConfig(): remove what the config file W no longer has, then connect.
Sync(c) ==
  /\ pc[c] = "idle"
  /\ \E W \in SUBSET Server :
       Sweep(c, "sync",
             {s \in Server : client[s] # None \/ status[s] # None} \ W, W)
  /\ UNCHANGED <<poolVars, boot, open, live, at, held, scope, late, faults>>

\* runHealthCheck(), every 60 seconds.
HealthTick ==
  LET S == {s \in Server : Dynamic(s) /\ status[s].connected} IN
  /\ timer /\ pc[Health] = "idle"
  /\ \/ /\ S = {}
        /\ timer' = FALSE
        /\ UNCHANGED <<op, todo, want, pc, spoiled>>
     \/ /\ S # {}
        /\ Sweep(Health, "health", S, {})
        /\ UNCHANGED timer
  /\ UNCHANGED <<client, status, tools, scoped, boot, open, live, at, held, scope,
                 late, faults>>

Skip(p) == UNCHANGED <<client, status, tools, scoped, pc, at, held>>

\* Dynamic registrations are left untouched by a sync.
Spared(p, s) == op[p] \in {"sync", "syncUp"} /\ Dynamic(s)

\* The body of a loop for one server.
NextServer(p) ==
  /\ pc[p] = "next"
  /\ \E s \in todo[p] :
       /\ todo' = [todo EXCEPT ![p] = @ \ {s}]
       /\ \/ Spared(p, s) /\ Skip(p)
          \/ ~Spared(p, s) /\ op[p] \in Sweeps \ {"health"} /\ Disconnect(p, op[p], s)
          \/ op[p] = "health" /\ client[s] = None /\ Skip(p)
          \/ /\ op[p] = "health" /\ client[s] # None
             /\ Wait(p, "probing", s)
             /\ held' = [held EXCEPT ![p] = client[s]]
             /\ UNCHANGED <<client, status, tools, scoped>>
          \/ ~Spared(p, s) /\ op[p] = "syncUp" /\ status[s] # None /\ Skip(p)  \* unchanged
          \/ ~Spared(p, s) /\ op[p] = "syncUp" /\ Connect(p, op[p], s)
  /\ UNCHANGED <<timer, boot, open, live, op, want, scope, spoiled, late, faults>>

\* After the last server: a sync turns to what it wants, DeleteSession clears
\* the session's scope, and the health check waits for the next tick.
LoopEnd(p) ==
  /\ pc[p] = "next" /\ todo[p] = {}
  /\ \/ /\ op[p] = "sync"
        /\ op' = [op EXCEPT ![p] = "syncUp"]
        /\ todo' = [todo EXCEPT ![p] = want[p]]
        /\ want' = [want EXCEPT ![p] = {}]
        /\ UNCHANGED <<pc, scoped>>
     \/ /\ op[p] # "sync"
        /\ pc' = [pc EXCEPT ![p] = IF p = Health THEN "idle" ELSE "done"]
        /\ scoped' = IF op[p] = "deleteSession"
                     THEN [scoped EXCEPT ![scope[p].session] = {}] ELSE scoped
        /\ UNCHANGED <<op, todo, want>>
  /\ UNCHANGED <<client, status, tools, timer, boot, open, live, at, held, scope,
                 spoiled, late, faults>>

\* Mutant: an unreachable server is only logged.
ProbedOnly ==
  /\ pc[Health] = "probing"
  /\ Through(Health, "health", "done")
  /\ UNCHANGED <<client, status, tools, scoped, timer, boot, open, live, op, todo, want,
                 scope, spoiled, late, faults>>

\* The health check's listTools() returns, on the connection it took.
Probed ==
  /\ pc[Health] = "probing"
  /\ \/ /\ <<held[Health], at[Health]>> \in open
        /\ Through(Health, "health", "done")
        /\ UNCHANGED <<client, status, tools, scoped>>
     \/ Disconnect(Health, "health", at[Health])
  /\ UNCHANGED <<timer, boot, open, live, op, todo, want, scope, spoiled, late, faults>>

\* A server dies; its client may report it through onUncaughtError().
ServerDies ==
  /\ faults < MaxFaults
  /\ faults' = faults + 1
  /\ \E l \in open :
       /\ open' = open \ {l}
       /\ Mark(l[1], l[2], FALSE) \/ UNCHANGED status
  /\ UNCHANGED <<client, tools, scoped, timer, boot, live, callVars, spoiled, late>>

Begin(c) == ConnectAll(c) \/ Reconnect(c) \/ Register(c) \/ Unregister(c)
              \/ DeleteSession(c) \/ DropClient(c) \/ Sync(c)

Step(p) == NextServer(p) \/ LoopEnd(p) \/ Closed(p)

CallStep(c) == Step(c) \/ Decide(c) \/ Established(c) \/ Listed(c)

HealthStep == Step(Health) \/ Probed

Next == (\E c \in Call : Begin(c) \/ CallStep(c))
          \/ HealthTick \/ HealthStep \/ WebDeleteSession \/ ServerDies

Spec == Init /\ [][Next]_vars

\* Every request the pool awaits is answered or fails, an approval is decided
\* or times out, and the interval fires while it is set.
FairSpec == /\ Spec
            /\ \A c \in Call : WF_vars(CallStep(c))
            /\ WF_vars(HealthStep)
            /\ WF_vars(HealthTick)

-----------------------------------------------------------------------------
(* Properties. *)

\* The session a server was registered for, if no reconnect has turned to it
\* since: a reconnect drops the scope, even one that is refused
\* (assertNotSelfConnection, after the daemon's ports changed).
ForSession(s, x) ==
  /\ client[s] # None
  /\ op[client[s]] = "register" /\ ~Static(s)
  /\ scope[client[s]].session = x

\* Whether a chat in session x, or in none, is offered the tools of s
\* (listForChat).
Visible(s, x) ==
  s \in tools /\ \A y \in Session : s \in scoped[y] => \E z \in Session \cap {x} : s \in scoped[z]

\* No connection, and no process behind it, is left running outside the pool,
\* unless two calls worked on its server at once or close() failed.
NoOrphans == \A l \in open : l[2] \in spoiled \/ client[l[2]] = l[1]

\* A chat is never offered tools of a server the pool has no client or no
\* status for, so that no method could remove them, with the same exception.
ToolsBacked ==
  \A s \in tools \ spoiled : client[s] # None /\ status[s] # None

\* Tools registered for a session are offered in that session alone: not before
\* the scope is known, and not after another session or server was removed.
ScopedToSession ==
  \A s \in Server \ spoiled, x \in Session, y \in Session \cup {None} :
    (ForSession(s, x) /\ client[s] \notin late /\ Visible(s, y)) => x = y

\* Once DeleteSession returned, the pool has neither a status nor a client of
\* the servers successfully registered for that session while it lived, except
\* those a reconnect has since connected without a scope.
SessionCleaned ==
  \A d \in Call, s \in Server \ spoiled :
    (op[d] = "deleteSession" /\ pc[d] = "done") =>
      /\ (Dynamic(s) /\ status[s].scope.session = scope[d].session) => status[s].by \in late
      /\ (ForSession(s, scope[d].session) /\ pc[client[s]] = "done") => client[s] \in late

\* A dynamic server whose connection is down.
Dead(s) == Dynamic(s) /\ client[s] # None /\ <<client[s], s>> \notin open

\* A dead dynamic server that the client library did not report is found by
\* the health check and removed.
DeadFound ==
  \A s \in Server : (Dead(s) /\ status[s].connected)
                      ~> ~(Dead(s) /\ status[s].connected)
=============================================================================
