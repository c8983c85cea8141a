------------------------ MODULE McpClientPoolProofs ------------------------
(***************************************************************************)
(* For any number of servers, sessions, clients and calls: no connection   *)
(* is left running outside the pool, and no tool is offered that the pool  *)
(* could not remove, unless two calls worked on a server at once or        *)
(* close() failed; the tools that were registered for a session are        *)
(* offered in that session alone, and DeleteSession leaves nothing of      *)
(* them, with the exceptions that the two properties name.                 *)
(***************************************************************************)
EXTENDS McpClientPool, TLAPS

-----------------------------------------------------------------------------
(* The inductive invariant. *)

\* The labels at which p waits for something about a server.
Waiting == {"approval", "connecting", "listing", "closing", "probing"}

\* What p's label says of p.
TidyOf(p) ==
  /\ at[p] # None <=> pc[p] \in Waiting
  /\ pc[p] \in Settled \cup {"idle"} => todo[p] = {} /\ want[p] = {}
  /\ op[p] # "sync" => want[p] = {}
  /\ op[p] \notin Loops => todo[p] = {}
  /\ pc[p] \in {"connecting", "listing"} => op[p] \in Connects \cup {"register"}
  /\ pc[p] = "approval" => op[p] = "register"

Tidy == op[Health] = "health" /\ \A p \in Proc : TidyOf(p)

\* Calls about the same server have spoiled it.
Alone == \A p, q \in Proc : p # q => About(p) \cap About(q) \subseteq spoiled

\* What p knows of the server s it waits for.
Knows(p, s) ==
  /\ pc[p] = "closing" => held[p] = client[s]
  /\ pc[p] \in {"approval", "connecting"} => client[s] = None
  /\ pc[p] = "listing" => client[s] = p
  /\ pc[p] \in {"connecting", "listing"} => status[s] # None
  /\ pc[p] = "listing" /\ op[p] = "register" => s \notin tools

KnowsOf(p) == \A s \in Server \ spoiled : at[p] = s => Knows(p, s)

Known == \A p \in Proc : KnowsOf(p)

IInv == TypeOK /\ Tidy /\ Alone /\ Known /\ NoOrphans /\ ToolsBacked

-----------------------------------------------------------------------------
(* Types. *)

PoolType ==
  /\ client \in [Server -> Call \cup {None}] /\ status \in [Server -> Status \cup {None}]
  /\ tools \subseteq Server /\ scoped \in [Session -> SUBSET Server]
  /\ pc \in [Proc -> Active \cup Settled \cup {"idle"}]
  /\ at \in [Proc -> Server \cup {None}] /\ held \in [Proc -> Call \cup {None}]

RestType ==
  /\ timer \in BOOLEAN /\ boot \subseteq Server /\ open \subseteq Call \X Server
  /\ live \subseteq Session
  /\ op \in [Proc -> Sweeps \cup Connects \cup {"register", "unregister", None}]
  /\ todo \in [Proc -> SUBSET Server] /\ want \in [Proc -> SUBSET Server]
  /\ scope \in [Proc -> Scope]
  /\ spoiled \subseteq Server /\ late \subseteq Call /\ faults \in 0..MaxFaults

\* The type invariant in two halves.
LEMMA TypeHalves == TypeOK <=> PoolType /\ RestType
BY DEF TypeOK, PoolType, RestType

\* A status that is made anew is one.
LEMMA FreshType ==
  ASSUME NEW c \in Call, NEW src \in {"config", "dynamic"}, NEW sc \in Scope
  PROVE  FreshStatus(c, src, sc) \in Status /\ FreshStatus(c, src, sc) # None
<1>1. FreshStatus(c, src, sc) \in Status
  BY DEF FreshStatus, Status
<1> QED BY <1>1, StatusAssumption

\* Acting for nobody.
LEMMA NoScopeType == NoScope \in Scope
BY DEF NoScope, Scope

-----------------------------------------------------------------------------
(* One process moves. *)

\* The other processes stay where they are.
OthersStay(p) ==
  \A q \in Proc \ {p} : /\ pc'[q] = pc[q] /\ at'[q] = at[q] /\ held'[q] = held[q]
                        /\ op'[q] = op[q] /\ todo'[q] = todo[q] /\ want'[q] = want[q]

\* Nothing that matters changes of the servers that are not in S.
OthersKept(S) ==
  /\ \A r \in Server \ S : /\ client'[r] = client[r] /\ (status[r] # None => status'[r] # None)
                           /\ r \in tools' => r \in tools
  /\ \A l \in open' : l \in open \/ l[2] \in S

\* A step of p about the servers in S, which nobody else is about unless they
\* are spoiled, keeps the invariant if it does for p and for S.
LEMMA MoveKeeps ==
  ASSUME IInv, TypeOK', NEW p \in Proc, NEW S \in SUBSET Server,
         OthersStay(p), OthersKept(S), spoiled \subseteq spoiled',
         \A q \in Proc \ {p} : (About(p)' \cup S) \cap About(q) \subseteq spoiled',
         op'[Health] = "health", TidyOf(p)', KnowsOf(p)',
         \A s \in S : s \in tools' \ spoiled' => client'[s] # None /\ status'[s] # None,
         \A l \in open' : l[2] \in S => l[2] \in spoiled' \/ client'[l[2]] = l[1]
  PROVE  IInv'
<1>1. Tidy'
  <2>1. ASSUME NEW q \in Proc, q # p PROVE TidyOf(q)'
    BY <2>1 DEF IInv, Tidy, TidyOf, OthersStay
  <2> QED BY <2>1 DEF Tidy
<1>2. \A q \in Proc \ {p} : About(q)' = About(q)
  BY DEF About, OthersStay
<1>3. Alone'
  BY <1>2 DEF IInv, Alone
<1>4. Known'
  <2> SUFFICES ASSUME NEW q \in Proc, q # p, NEW s \in Server \ spoiled', at'[q] = s
               PROVE  Knows(q, s)'
    BY DEF Known, KnowsOf
  <2>1. at[q] = s /\ s \in About(q)
    BY NameAssumption DEF OthersStay, About
  <2>2. s \notin S /\ s \notin spoiled
    BY <2>1
  <2>3. Knows(q, s)
    BY <2>1, <2>2 DEF IInv, Known, KnowsOf
  <2> QED BY <2>2, <2>3 DEF Knows, OthersStay, OthersKept
<1>5. NoOrphans'
  <2> SUFFICES ASSUME NEW l \in open', l[2] \notin spoiled', l[2] \notin S
               PROVE  client'[l[2]] = l[1]
    BY DEF NoOrphans
  <2>1. l \in open /\ l[2] \in Server
    BY DEF OthersKept, IInv, TypeOK
  <2> QED BY <2>1 DEF IInv, NoOrphans, OthersKept
<1>6. ToolsBacked'
  <2> SUFFICES ASSUME NEW s \in tools' \ spoiled', s \notin S
               PROVE  client'[s] # None /\ status'[s] # None
    BY DEF ToolsBacked
  <2>1. s \in Server
    BY DEF TypeOK
  <2> QED BY <2>1 DEF IInv, ToolsBacked, OthersKept
<1> QED BY <1>1, <1>3, <1>4, <1>5, <1>6 DEF IInv

-----------------------------------------------------------------------------
(* connect() and disconnect(), for any method that goes through them. *)

Methods == Sweeps \cup Connects \cup {"unregister"}

\* What every stretch of disconnect() and connect() by p, for o, does to the pool,
\* about s and to p.
PoolStep(p, o, s) ==
  /\ PoolType'
  /\ \A q \in Proc \ {p} : pc'[q] = pc[q] /\ at'[q] = at[q] /\ held'[q] = held[q]
  /\ \A r \in Server \ {s} : client'[r] = client[r] /\ status'[r] = status[r]
  /\ tools' \subseteq tools
  /\ client'[s] = client[s] \/ (client'[s] = None /\ s \notin tools')
  /\ status'[s] = None => status[s] = None \/ s \notin tools'
  /\ \/ at'[p] = None /\ pc'[p] \in (IF o \in Loops THEN {"next"} ELSE Settled)
     \/ at'[p] = s /\ pc'[p] = "closing" /\ held'[p] = client'[s]
     \/ /\ at'[p] = s /\ pc'[p] = "connecting" /\ o \in Connects
        /\ client'[s] = None /\ status'[s] # None

\* p is through with its server.
LEMMA ThroughMoves ==
  ASSUME PoolType, NEW p \in Proc, NEW o, NEW out \in Settled, Through(p, o, out)
  PROVE  /\ pc' \in [Proc -> Active \cup Settled \cup {"idle"}]
         /\ at' \in [Proc -> Server \cup {None}] /\ held' \in [Proc -> Call \cup {None}]
         /\ \A q \in Proc \ {p} : pc'[q] = pc[q] /\ at'[q] = at[q] /\ held'[q] = held[q]
         /\ at'[p] = None /\ pc'[p] \in (IF o \in Loops THEN {"next"} ELSE Settled)
<1>1. CASE o \in Loops
  BY <1>1 DEF PoolType, Through, Active
<1>2. CASE o \notin Loops
  BY <1>2 DEF PoolType, Through, Active
<1> QED BY <1>1, <1>2

\* p waits for something about s.
LEMMA WaitMoves ==
  ASSUME PoolType, NEW p \in Proc, NEW s \in Server, NEW l \in Waiting, Wait(p, l, s)
  PROVE  /\ pc' \in [Proc -> Active \cup Settled \cup {"idle"}]
         /\ at' \in [Proc -> Server \cup {None}]
         /\ \A q \in Proc \ {p} : pc'[q] = pc[q] /\ at'[q] = at[q]
         /\ at'[p] = s /\ pc'[p] = l
BY DEF PoolType, Wait, Waiting, Active

\* The tools of a source go.
LEMMA UnregisterMoves ==
  ASSUME PoolType, NEW s, UnregisterSource(s)
  PROVE  /\ tools' = tools \ {s} /\ tools' \subseteq Server
         /\ scoped' \in [Session -> SUBSET Server]
BY DEF PoolType, UnregisterSource

\* The end of disconnect().
LEMMA DisconnectedMoves ==
  ASSUME PoolType, NEW p \in Proc, NEW o \in Methods, NEW s \in Server,
         o \in Connects => p \in Call, Disconnected(p, o, s)
  PROVE  PoolStep(p, o, s) /\ client'[s] = None /\ s \notin tools'
<1>1. /\ client' = [client EXCEPT ![s] = None]
      /\ tools' = tools \ {s} /\ tools' \subseteq Server
      /\ scoped' \in [Session -> SUBSET Server]
  BY UnregisterMoves DEF Disconnected
<1>2. client' \in [Server -> Call \cup {None}] /\ client'[s] = None
  BY <1>1 DEF PoolType
<1>3. CASE /\ o = "unregister"
           /\ status' = IF status[s] = None THEN status ELSE [status EXCEPT ![s].connected = FALSE]
           /\ Through(p, o, "done")
  <2>1. status' \in [Server -> Status \cup {None}] /\ \A r \in Server \ {s} : status'[r] = status[r]
    BY <1>3 DEF PoolType, Status
  <2>2. "done" \in Settled
    BY DEF Settled
  <2>3. /\ pc' \in [Proc -> Active \cup Settled \cup {"idle"}]
        /\ at' \in [Proc -> Server \cup {None}] /\ held' \in [Proc -> Call \cup {None}]
        /\ \A q \in Proc \ {p} : pc'[q] = pc[q] /\ at'[q] = at[q] /\ held'[q] = held[q]
        /\ at'[p] = None /\ pc'[p] \in (IF o \in Loops THEN {"next"} ELSE Settled)
    BY <1>3, <2>2, ThroughMoves
  <2>4. PoolType'
    BY <1>1, <1>2, <2>1, <2>3 DEF PoolType
  <2>5. \A r \in Server \ {s} : client'[r] = client[r]
    BY <1>1 DEF PoolType
  <2> QED BY <1>1, <1>2, <2>1, <2>3, <2>4, <2>5 DEF PoolStep
<1>4. CASE o \in Sweeps /\ SetStatus(s, None) /\ Through(p, o, "done")
  <2>1. status' \in [Server -> Status \cup {None}] /\ \A r \in Server \ {s} : status'[r] = status[r]
    BY <1>4 DEF PoolType, SetStatus
  <2>2. "done" \in Settled
    BY DEF Settled
  <2>3. /\ pc' \in [Proc -> Active \cup Settled \cup {"idle"}]
        /\ at' \in [Proc -> Server \cup {None}] /\ held' \in [Proc -> Call \cup {None}]
        /\ \A q \in Proc \ {p} : pc'[q] = pc[q] /\ at'[q] = at[q] /\ held'[q] = held[q]
        /\ at'[p] = None /\ pc'[p] \in (IF o \in Loops THEN {"next"} ELSE Settled)
    BY <1>4, <2>2, ThroughMoves
  <2>4. PoolType'
    BY <1>1, <1>2, <2>1, <2>3 DEF PoolType
  <2>5. \A r \in Server \ {s} : client'[r] = client[r]
    BY <1>1 DEF PoolType
  <2> QED BY <1>1, <1>2, <2>1, <2>3, <2>4, <2>5 DEF PoolStep
<1>5. CASE /\ o \in Connects /\ SetStatus(s, FreshStatus(p, "config", NoScope))
           /\ Wait(p, "connecting", s) /\ held' = [held EXCEPT ![p] = None]
  <2>1. FreshStatus(p, "config", NoScope) \in Status /\ FreshStatus(p, "config", NoScope) # None
    BY <1>5, FreshType, NoScopeType
  <2>2. /\ status' \in [Server -> Status \cup {None}] /\ status'[s] # None
        /\ \A r \in Server \ {s} : status'[r] = status[r]
    BY <1>5, <2>1 DEF PoolType, SetStatus
  <2>3. /\ held' \in [Proc -> Call \cup {None}] /\ \A q \in Proc \ {p} : held'[q] = held[q]
    BY <1>5 DEF PoolType
  <2>4. "connecting" \in Waiting
    BY DEF Waiting
  <2> QED BY <1>1, <1>2, <1>5, <2>2, <2>3, <2>4, WaitMoves DEF PoolStep, PoolType
<1> QED BY <1>3, <1>4, <1>5 DEF Disconnected

\* disconnect() up to close().
LEMMA DisconnectMoves ==
  ASSUME PoolType, NEW p \in Proc, NEW o \in Methods, NEW s \in Server,
         o \in Connects => p \in Call, Disconnect(p, o, s)
  PROVE  PoolStep(p, o, s) /\ (client'[s] = None => client[s] = None)
<1>1. CASE client[s] = None /\ Disconnected(p, o, s)
  BY <1>1, DisconnectedMoves
<1>2. CASE /\ client[s] # None /\ Wait(p, "closing", s)
           /\ held' = [held EXCEPT ![p] = client[s]]
           /\ UNCHANGED <<client, status, tools, scoped>>
  <2>1. /\ held' \in [Proc -> Call \cup {None}] /\ held'[p] = client[s]
        /\ \A q \in Proc \ {p} : held'[q] = held[q]
    BY <1>2 DEF PoolType
  <2>2. "closing" \in Waiting
    BY DEF Waiting
  <2> QED BY <1>2, <2>1, <2>2, WaitMoves DEF PoolStep, PoolType
<1> QED BY <1>1, <1>2 DEF Disconnect

\* connect() up to its first await.
LEMMA ConnectMoves ==
  ASSUME PoolType, NEW p \in Call, NEW o \in Connects, NEW s \in Server, Connect(p, o, s)
  PROVE  PoolStep(p, o, s) /\ (client'[s] = None => client[s] = None)
<1>0. p \in Proc /\ o \in Methods /\ {"done", "failed"} = Settled
  BY DEF Proc, Methods, Settled
<1>1. FreshStatus(p, "config", NoScope) \in Status /\ FreshStatus(p, "config", NoScope) # None
  BY FreshType, NoScopeType
<1>2. CASE Through(p, o, "done") /\ UNCHANGED <<client, status, tools, scoped>>
  BY <1>0, <1>2, ThroughMoves DEF PoolStep, PoolType
<1>3. CASE /\ SetStatus(s, FreshStatus(p, "config", NoScope))
           /\ Through(p, o, "failed") /\ UNCHANGED <<client, tools, scoped>>
  <2>1. /\ status' \in [Server -> Status \cup {None}] /\ status'[s] # None
        /\ \A r \in Server \ {s} : status'[r] = status[r]
    BY <1>1, <1>3 DEF PoolType, SetStatus
  <2> QED BY <1>0, <1>3, <2>1, ThroughMoves DEF PoolStep, PoolType
<1>4. CASE Disconnect(p, o, s)
  BY <1>0, <1>4, DisconnectMoves
<1>5. CASE /\ client[s] = None /\ SetStatus(s, FreshStatus(p, "config", NoScope))
           /\ Wait(p, "connecting", s) /\ UNCHANGED <<client, tools, scoped, held>>
  <2>1. /\ status' \in [Server -> Status \cup {None}] /\ status'[s] # None
        /\ \A r \in Server \ {s} : status'[r] = status[r]
    BY <1>1, <1>5 DEF PoolType, SetStatus
  <2>2. "connecting" \in Waiting
    BY DEF Waiting
  <2> QED BY <1>0, <1>5, <2>1, <2>2, WaitMoves DEF PoolStep, PoolType
<1> QED BY <1>2, <1>3, <1>4, <1>5 DEF Connect

\* Such a step keeps the invariant, if no connection is left when the client goes.
LEMMA PoolStepKeeps ==
  ASSUME IInv, RestType', NEW p \in Proc, NEW s \in Server, PoolStep(p, op'[p], s),
         \A q \in Proc \ {p} : op'[q] = op[q] /\ todo'[q] = todo[q] /\ want'[q] = want[q],
         op'[Health] = "health", spoiled \subseteq spoiled', open' \subseteq open,
         \A q \in Proc \ {p} : (About(p)' \cup {s}) \cap About(q) \subseteq spoiled',
         op'[p] # "sync" => want'[p] = {}, op'[p] \notin Loops => todo'[p] = {},
         client'[s] = None => \A l \in open' : l[2] = s => s \in spoiled'
  PROVE  IInv'
<1>1. TypeOK'
  BY TypeHalves, PTL DEF PoolStep
<1>2. OthersStay(p) /\ OthersKept({s})
  BY DEF PoolStep, OthersStay, OthersKept
<1>3. s # None /\ "sync" \in Loops /\ "next" \notin Waiting /\ Settled \cap Waiting = {}
      /\ "idle" \notin Waiting
  BY NameAssumption DEF Loops, Sweeps, Waiting, Settled
<1>4. TidyOf(p)'
  BY <1>3 DEF PoolStep, TidyOf, Waiting, Settled
<1>5. KnowsOf(p)'
  <2> SUFFICES ASSUME NEW r \in Server \ spoiled', at'[p] = r
               PROVE  Knows(p, r)'
    BY DEF KnowsOf
  <2>1. r = s /\ r # None
    BY NameAssumption DEF PoolStep
  <2>2. \/ pc'[p] = "closing" /\ held'[p] = client'[s]
        \/ pc'[p] = "connecting" /\ client'[s] = None /\ status'[s] # None
    BY <2>1 DEF PoolStep
  <2> QED BY <2>1, <2>2 DEF Knows
<1>6. s \in tools' \ spoiled' => client'[s] # None /\ status'[s] # None
  BY DEF PoolStep, IInv, ToolsBacked
<1>7. ASSUME NEW l \in open', l[2] = s, s \notin spoiled' PROVE client'[s] = l[1]
  <2>1. client'[s] # None
    BY <1>7
  <2>2. client'[s] = client[s]
    BY <2>1 DEF PoolStep
  <2> QED BY <1>7, <2>2 DEF IInv, NoOrphans
<1>8. \A l \in open' : l[2] \in {s} => l[2] \in spoiled' \/ client'[l[2]] = l[1]
  BY <1>7
<1> QED BY <1>1, <1>2, <1>4, <1>5, <1>6, <1>8, MoveKeeps

\* ... in particular if it found no client to close.
LEMMA StartKeeps ==
  ASSUME IInv, RestType', NEW p \in Proc, NEW s \in Server, PoolStep(p, op'[p], s),
         client'[s] = None => client[s] = None,
         \A q \in Proc \ {p} : op'[q] = op[q] /\ todo'[q] = todo[q] /\ want'[q] = want[q],
         op'[Health] = "health", spoiled \subseteq spoiled', open' = open,
         \A q \in Proc \ {p} : (About(p)' \cup {s}) \cap About(q) \subseteq spoiled',
         op'[p] # "sync" => want'[p] = {}, op'[p] \notin Loops => todo'[p] = {}
  PROVE  IInv'
<1>1. ASSUME client'[s] = None, NEW l \in open', l[2] = s PROVE s \in spoiled'
  <2>1. l[1] \in Call /\ client[s] = None
    BY <1>1 DEF IInv, TypeOK
  <2> QED BY <1>1, <2>1, NameAssumption DEF IInv, NoOrphans
<1> QED BY <1>1, PoolStepKeeps

\* A call that begins has nothing yet, and what it turns to is met.
LEMMA BeginMeets ==
  ASSUME IInv, NEW p \in Proc, pc[p] \in Settled \cup {"idle"}, NEW S \in SUBSET Server, Meet(p, S)
  PROVE  /\ todo[p] = {} /\ want[p] = {} /\ at[p] = None /\ About(p) = {}
         /\ spoiled \subseteq spoiled' /\ spoiled' \subseteq Server
         /\ \A q \in Proc \ {p} : S \cap About(q) \subseteq spoiled'
<1>1. TidyOf(p) /\ spoiled \subseteq Server
  BY DEF IInv, Tidy, TypeOK
<1>2. todo[p] = {} /\ want[p] = {} /\ at[p] = None
  BY <1>1 DEF TidyOf, Waiting, Settled
<1> QED BY <1>1, <1>2 DEF Meet, About

-----------------------------------------------------------------------------
(* One lemma for each kind of step. *)

\* A call that begins with one server.
LEMMA BeginOn ==
  ASSUME IInv, RestType', NEW c \in Call, NEW s \in Server, NEW o \in Connects \cup {"unregister"},
         pc[c] = "idle", op' = [op EXCEPT ![c] = o], Meet(c, {s}), UNCHANGED <<open, todo, want>>,
         PoolStep(c, o, s), client'[s] = None => client[s] = None
  PROVE  IInv'
<1>0. c \in Proc /\ c # Health /\ Health \in Proc
  BY NameAssumption DEF Proc
<1>1. op'[c] = o /\ \A q \in Proc \ {c} : op'[q] = op[q]
  BY <1>0 DEF IInv, TypeOK
<1>2. /\ todo[c] = {} /\ want[c] = {} /\ spoiled \subseteq spoiled'
      /\ \A q \in Proc \ {c} : {s} \cap About(q) \subseteq spoiled'
  BY <1>0, BeginMeets, {s} \in SUBSET Server
<1>3. About(c)' \subseteq {s}
  BY <1>2 DEF About, PoolStep
<1>4. op'[Health] = "health"
  BY <1>0, <1>1 DEF IInv, Tidy
<1> QED BY <1>0, <1>1, <1>2, <1>3, <1>4, StartKeeps

\* A server of the config file is connected to at start-up.
LEMMA ConnectAllKeeps ==
  ASSUME IInv, NEW c \in Call, ConnectAll(c)
  PROVE  IInv'
<1>1. PICK s \in boot : /\ boot' = boot \ {s} /\ op' = [op EXCEPT ![c] = "connect"]
                        /\ Meet(c, {s}) /\ Connect(c, "connect", s)
  BY DEF ConnectAll
<1>2. s \in Server /\ PoolType /\ RestType /\ c \in Proc
  BY <1>1, TypeHalves DEF IInv, RestType, Proc
<1>3. "connect" \in Connects
  BY DEF Connects
<1>4. RestType'
  BY <1>1, <1>2, <1>3 DEF ConnectAll, RestType, Meet
<1>5. PoolStep(c, "connect", s) /\ (client'[s] = None => client[s] = None)
  BY <1>1, <1>2, <1>3, ConnectMoves
<1> QED BY <1>1, <1>2, <1>3, <1>4, <1>5, BeginOn DEF ConnectAll

\* A known server is reconnected to.
LEMMA ReconnectKeeps ==
  ASSUME IInv, NEW c \in Call, Reconnect(c)
  PROVE  IInv'
<1>1. PICK s \in Server : /\ op' = [op EXCEPT ![c] = "reconnect"]
                          /\ Meet(c, {s}) /\ Connect(c, "reconnect", s)
  BY DEF Reconnect
<1>2. PoolType /\ RestType /\ c \in Proc
  BY <1>1, TypeHalves DEF IInv, Proc
<1>3. "reconnect" \in Connects
  BY DEF Connects
<1>4. RestType'
  BY <1>1, <1>2, <1>3 DEF Reconnect, RestType, Meet
<1>5. PoolStep(c, "reconnect", s) /\ (client'[s] = None => client[s] = None)
  BY <1>1, <1>2, <1>3, ConnectMoves
<1> QED BY <1>1, <1>2, <1>3, <1>4, <1>5, BeginOn DEF Reconnect

\* A server is unregistered.
LEMMA UnregisterKeeps ==
  ASSUME IInv, NEW c \in Call, Unregister(c)
  PROVE  IInv'
<1>1. PICK s \in Server : /\ op' = [op EXCEPT ![c] = "unregister"]
                          /\ Meet(c, {s}) /\ Disconnect(c, "unregister", s)
  BY DEF Unregister
<1>2. PoolType /\ RestType /\ c \in Proc
  BY <1>1, TypeHalves DEF IInv, Proc
<1>3. "unregister" \in Methods /\ "unregister" \notin Connects
  BY DEF Connects, Methods
<1>4. RestType'
  BY <1>1, <1>2 DEF Unregister, RestType, Meet
<1>5. PoolStep(c, "unregister", s) /\ (client'[s] = None => client[s] = None)
  BY <1>1, <1>2, <1>3, DisconnectMoves
<1> QED BY <1>1, <1>2, <1>4, <1>5, BeginOn DEF Unregister

\* A method takes a snapshot of servers.
LEMMA SweepKeeps ==
  ASSUME IInv, NEW p \in Proc, NEW o \in Sweeps, NEW S \in SUBSET Server, NEW W \in SUBSET Server,
         pc[p] = "idle", Sweep(p, o, S, W), o = "sync" \/ W = {}, p = Health <=> o = "health",
         UNCHANGED <<client, status, tools, scoped, open, at, held>>,
         timer' \in BOOLEAN, boot' = boot, live' \subseteq Session, scope' \in [Proc -> Scope],
         late' \subseteq Call, faults' = faults
  PROVE  IInv'
<1>1. PoolType /\ RestType
  BY TypeHalves DEF IInv
<1>2. /\ todo[p] = {} /\ want[p] = {} /\ at[p] = None
      /\ spoiled \subseteq spoiled' /\ spoiled' \subseteq Server
      /\ \A q \in Proc \ {p} : (S \cup W) \cap About(q) \subseteq spoiled'
  BY BeginMeets, S \cup W \in SUBSET Server DEF Sweep
<1>3. TypeOK'
  <2>1. PoolType'
    BY <1>1 DEF PoolType, Sweep, Active
  <2>2. RestType'
    BY <1>1, <1>2 DEF RestType, Sweep
  <2> QED BY <2>1, <2>2, TypeHalves, PTL
<1>4. /\ op'[p] = o /\ todo'[p] = S /\ want'[p] = W /\ pc'[p] = "next"
      /\ OthersStay(p) /\ OthersKept({})
  BY <1>1 DEF PoolType, RestType, Sweep, OthersStay, OthersKept
<1>5. About(p)' = S \cup W
  BY <1>2, <1>4 DEF About
<1>6. op'[Health] = "health"
  <2>1. Health \in Proc /\ op[Health] = "health"
    BY DEF Proc, IInv, Tidy
  <2> QED BY <1>4, <2>1 DEF OthersStay
<1>7. TidyOf(p)'
  BY <1>2, <1>4 DEF TidyOf, Waiting, Settled, Loops
<1>8. KnowsOf(p)'
  BY <1>2, NameAssumption DEF KnowsOf
<1> QED BY <1>2, <1>3, <1>4, <1>5, <1>6, <1>7, <1>8, MoveKeeps, {} \in SUBSET Server

\* A session is deleted.
LEMMA DeleteSessionKeeps ==
  ASSUME IInv, NEW c \in Call, DeleteSession(c)
  PROVE  IInv'
<1>1. PICK x \in live : /\ live' = live \ {x} /\ scope' = [scope EXCEPT ![c].session = x]
                        /\ late' = late \cup {d \in Call : pc[d] = "approval" /\ scope[d].session = x}
                        /\ Sweep(c, "deleteSession", OfSession(x), {})
  BY DEF DeleteSession
<1>2. /\ c \in Proc /\ c # Health /\ OfSession(x) \subseteq Server
      /\ RestType /\ x \in Session
  BY <1>1, TypeHalves, NameAssumption DEF IInv, RestType, Proc, OfSession
<1>3. live' \subseteq Session /\ late' \subseteq Call
  BY <1>1, <1>2 DEF RestType
<1>4. scope' \in [Proc -> Scope]
  BY <1>1, <1>2 DEF RestType, Scope
<1>5. "deleteSession" \in Sweeps /\ "deleteSession" # "health"
  BY DEF Sweeps
<1>6. /\ pc[c] = "idle" /\ timer' \in BOOLEAN
      /\ UNCHANGED <<client, status, tools, scoped, timer, boot, open, at, held, faults>>
  BY DEF DeleteSession, poolVars, IInv, TypeOK
<1> QED BY <1>1, <1>2, <1>3, <1>4, <1>5, <1>6, SweepKeeps, {} \in SUBSET Server

\* A client of the daemon goes.
LEMMA DropClientKeeps ==
  ASSUME IInv, NEW c \in Call, DropClient(c)
  PROVE  IInv'
<1>1. PICK k \in ClientId :
        Sweep(c, "dropClient", {s \in Server : Dynamic(s) /\ status[s].scope.client = k}, {})
  BY DEF DropClient
<1>2. c \in Proc /\ c # Health
  BY NameAssumption DEF Proc
<1>3. "dropClient" \in Sweeps /\ "dropClient" # "health"
  BY DEF Sweeps
<1>4. /\ pc[c] = "idle" /\ UNCHANGED <<client, status, tools, scoped, timer, boot, open, live,
                                           at, held, scope, late, faults>>
      /\ timer' \in BOOLEAN /\ live' \subseteq Session /\ scope' \in [Proc -> Scope] /\ late' \subseteq Call
  BY DEF DropClient, poolVars, IInv, TypeOK
<1>5. {s \in Server : Dynamic(s) /\ status[s].scope.client = k} \in SUBSET Server /\ {} \in SUBSET Server
  OBVIOUS
<1> QED BY <1>1, <1>2, <1>3, <1>4, <1>5, SweepKeeps

\* The pool is brought in step with the config file.
LEMMA SyncKeeps ==
  ASSUME IInv, NEW c \in Call, Sync(c)
  PROVE  IInv'
<1>1. PICK W \in SUBSET Server :
        Sweep(c, "sync", {s \in Server : client[s] # None \/ status[s] # None} \ W, W)
  BY DEF Sync
<1>2. c \in Proc /\ c # Health
  BY NameAssumption DEF Proc
<1>3. "sync" \in Sweeps /\ "sync" # "health"
  BY DEF Sweeps
<1>4. /\ pc[c] = "idle" /\ UNCHANGED <<client, status, tools, scoped, timer, boot, open, live,
                                           at, held, scope, late, faults>>
      /\ timer' \in BOOLEAN /\ live' \subseteq Session /\ scope' \in [Proc -> Scope] /\ late' \subseteq Call
  BY DEF Sync, poolVars, IInv, TypeOK
<1>5. {s \in Server : client[s] # None \/ status[s] # None} \ W \in SUBSET Server
  OBVIOUS
<1> QED BY <1>1, <1>2, <1>3, <1>4, <1>5, SweepKeeps

\* Connections end, and nothing else matters.
LEMMA StillKeeps ==
  ASSUME IInv, TypeOK', UNCHANGED <<client, tools, pc, op, at, todo, want, held, spoiled>>,
         open' \subseteq open, \A r \in Server : status[r] # None => status'[r] # None
  PROVE  IInv'
<1>1. Health \in Proc /\ OthersStay(Health) /\ OthersKept({})
  BY DEF Proc, OthersStay, OthersKept
<1>2. op'[Health] = "health" /\ TidyOf(Health)'
  BY <1>1 DEF IInv, Tidy, TidyOf
<1>3. KnowsOf(Health)'
  <2>1. KnowsOf(Health)
    BY <1>1 DEF IInv, Known
  <2> QED BY <2>1 DEF KnowsOf, Knows
<1>4. \A q \in Proc \ {Health} : (About(Health)' \cup {}) \cap About(q) \subseteq spoiled'
  BY <1>1 DEF IInv, Alone, About
<1> QED BY <1>1, <1>2, <1>3, <1>4, MoveKeeps, {} \in SUBSET Server

\* The interval fires.
LEMMA HealthTickKeeps ==
  ASSUME IInv, HealthTick
  PROVE  IInv'
<1> DEFINE S == {s \in Server : Dynamic(s) /\ status[s].connected}
<1>1. CASE S = {} /\ timer' = FALSE /\ UNCHANGED <<op, todo, want, pc, spoiled>>
  <2>1. TypeOK'
    BY <1>1 DEF IInv, TypeOK, HealthTick
  <2> QED BY <1>1, <2>1, StillKeeps DEF HealthTick
<1>2. CASE Sweep(Health, "health", S, {}) /\ UNCHANGED timer
  <2>1. Health \in Proc /\ "health" \in Sweeps
    BY DEF Proc, Sweeps
  <2>2. /\ pc[Health] = "idle" /\ UNCHANGED <<client, status, tools, scoped, timer, boot, open, live,
                                                  at, held, scope, late, faults>>
        /\ timer' \in BOOLEAN /\ live' \subseteq Session /\ scope' \in [Proc -> Scope]
        /\ late' \subseteq Call
    BY <1>2 DEF HealthTick, IInv, TypeOK
  <2>3. S \in SUBSET Server /\ {} \in SUBSET Server
    OBVIOUS
  <2> QED BY <1>2, <2>1, <2>2, <2>3, SweepKeeps
<1> QED BY <1>1, <1>2 DEF HealthTick

\* A session goes and its servers stay.
LEMMA WebDeleteSessionKeeps ==
  ASSUME IInv, WebDeleteSession
  PROVE  IInv'
<1>1. TypeOK'
  BY DEF IInv, TypeOK, WebDeleteSession, poolVars, callVars
<1> QED BY <1>1, StillKeeps DEF WebDeleteSession, poolVars, callVars

\* A server dies.
LEMMA ServerDiesKeeps ==
  ASSUME IInv, ServerDies
  PROVE  IInv'
<1>1. PICK l \in open : open' = open \ {l} /\ (Mark(l[1], l[2], FALSE) \/ UNCHANGED status)
  BY DEF ServerDies
<1>2. l[2] \in Server /\ status \in [Server -> Status \cup {None}]
  BY DEF IInv, TypeOK
<1>3. /\ status' \in [Server -> Status \cup {None}]
      /\ \A r \in Server : status[r] # None => status'[r] # None
  <2>1. CASE /\ status[l[2]] # None /\ status' = [status EXCEPT ![l[2]].connected = FALSE]
    <3>1. [status[l[2]] EXCEPT !.connected = FALSE] \in Status
      BY <1>2, <2>1 DEF Status
    <3> QED BY <1>2, <2>1, <3>1, StatusAssumption
  <2> QED BY <1>1, <1>2, <2>1 DEF Mark
<1>4. faults' \in 0..MaxFaults
  BY LimitAssumption DEF ServerDies, IInv, TypeOK
<1>5. TypeOK'
  BY <1>1, <1>3, <1>4 DEF IInv, TypeOK, ServerDies, callVars
<1> QED BY <1>1, <1>3, <1>5, StillKeeps DEF ServerDies, callVars

\* A step of p that stays with what p is about does not meet anybody.
LEMMA StaysAlone ==
  ASSUME IInv, NEW p \in Proc, NEW s, s \in About(p), About(p)' \subseteq About(p),
         spoiled \subseteq spoiled'
  PROVE  \A q \in Proc \ {p} : (About(p)' \cup {s}) \cap About(q) \subseteq spoiled'
BY DEF IInv, Alone

\* Without a client a server has no tools and no connection, unless it is spoiled.
LEMMA Clientless ==
  ASSUME IInv, NEW s \in Server \ spoiled, client[s] = None
  PROVE  s \notin tools /\ \A l \in open : l[2] # s
<1>1. \A l \in open : l[1] # None
  BY NameAssumption DEF IInv, TypeOK
<1> QED BY <1>1 DEF IInv, NoOrphans, ToolsBacked

\* A server is registered.
LEMMA RegisterKeeps ==
  ASSUME IInv, NEW c \in Call, Register(c)
  PROVE  IInv'
<1>1. PICK s \in Server, sc \in Scope, k \in {"http", "stdio", "self"} :
        /\ op' = [op EXCEPT ![c] = "register"] /\ scope' = [scope EXCEPT ![c] = sc]
        /\ late' = IF sc.session \in live \cup {None} THEN late ELSE late \cup {c}
        /\ client[s] = None
        /\ \/ /\ SetStatus(s, FreshStatus(c, "dynamic", sc)) /\ Meet(c, {s})
              /\ Through(c, "register", "failed")
           \/ /\ Through(c, "register", "failed") /\ UNCHANGED <<status, spoiled>>
           \/ Meet(c, {s}) /\ Wait(c, "approval", s) /\ UNCHANGED <<status, held>>
           \/ /\ Meet(c, {s}) /\ SetStatus(s, FreshStatus(c, "dynamic", sc))
              /\ Wait(c, "connecting", s) /\ UNCHANGED held
  BY DEF Register
<1>2. /\ pc[c] = "idle" /\ UNCHANGED <<client, tools, scoped, timer, boot, open, live, todo, want, faults>>
      /\ c \in Proc /\ c # Health /\ Health \in Proc /\ PoolType /\ RestType
  BY TypeHalves, NameAssumption DEF Register, Proc, IInv
<1>3. /\ todo[c] = {} /\ want[c] = {} /\ at[c] = None /\ About(c) = {}
      /\ Meet(c, {s}) => /\ spoiled \subseteq spoiled' /\ spoiled' \subseteq Server
                         /\ \A q \in Proc \ {c} : {s} \cap About(q) \subseteq spoiled'
  <2>1. TidyOf(c)
    BY <1>2 DEF IInv, Tidy
  <2>2. todo[c] = {} /\ want[c] = {} /\ at[c] = None
    BY <1>2, <2>1 DEF TidyOf, Waiting
  <2>3. About(c) = {}
    BY <2>2 DEF About
  <2> QED BY <1>2, <2>2, <2>3, BeginMeets, {s} \in SUBSET Server
<1>4. spoiled \subseteq spoiled' /\ spoiled' \subseteq Server
  BY <1>1, <1>2, <1>3 DEF RestType
<1>5. RestType'
  <2>1. late' \subseteq Call /\ scope' \in [Proc -> Scope]
    BY <1>1, <1>2 DEF RestType
  <2> QED BY <1>1, <1>2, <1>4, <2>1 DEF RestType
<1>6. /\ op'[c] = "register" /\ todo'[c] = {} /\ want'[c] = {} /\ op'[Health] = "health"
      /\ \A q \in Proc \ {c} : op'[q] = op[q] /\ todo'[q] = todo[q] /\ want'[q] = want[q]
  BY <1>1, <1>2, <1>3 DEF RestType, IInv, Tidy
<1>7. FreshStatus(c, "dynamic", sc) \in Status /\ FreshStatus(c, "dynamic", sc) # None
  BY <1>1, FreshType
<1>8. \/ status' = status
      \/ SetStatus(s, FreshStatus(c, "dynamic", sc)) /\ Meet(c, {s})
  BY <1>1
<1>9. /\ status' \in [Server -> Status \cup {None}] /\ (status[s] # None => status'[s] # None)
      /\ \A r \in Server \ {s} : status'[r] = status[r]
  BY <1>2, <1>7, <1>8 DEF PoolType, SetStatus
<1>10. /\ pc' \in [Proc -> Active \cup Settled \cup {"idle"}]
       /\ at' \in [Proc -> Server \cup {None}] /\ held' \in [Proc -> Call \cup {None}]
       /\ \A q \in Proc \ {c} : pc'[q] = pc[q] /\ at'[q] = at[q] /\ held'[q] = held[q]
       /\ \/ at'[c] = None /\ pc'[c] \in Settled
          \/ /\ Meet(c, {s}) /\ at'[c] = s
             /\ \/ pc'[c] = "approval"
                \/ pc'[c] = "connecting" /\ status'[s] # None
  <2>0. "register" \notin Loops /\ "failed" \in Settled /\ {"approval", "connecting"} \subseteq Waiting
    BY DEF Loops, Sweeps, Settled, Waiting
  <2>1. CASE Through(c, "register", "failed")
    BY <1>2, <2>0, <2>1, ThroughMoves
  <2>2. CASE Meet(c, {s}) /\ Wait(c, "approval", s) /\ UNCHANGED held
    BY <1>2, <2>0, <2>2, WaitMoves DEF PoolType
  <2>3. CASE /\ Meet(c, {s}) /\ Wait(c, "connecting", s) /\ UNCHANGED held
             /\ SetStatus(s, FreshStatus(c, "dynamic", sc))
    <3>1. status'[s] # None
      BY <1>2, <1>7, <2>3 DEF SetStatus, PoolType
    <3> QED BY <1>2, <2>0, <2>3, <3>1, WaitMoves DEF PoolType
  <2> QED BY <1>1, <2>1, <2>2, <2>3
<1>11. TypeOK'
  <2>1. PoolType'
    BY <1>2, <1>9, <1>10 DEF PoolType
  <2> QED BY <1>5, <2>1, TypeHalves, PTL
<1>12. OthersStay(c) /\ OthersKept({})
  BY <1>2, <1>6, <1>9, <1>10 DEF OthersStay, OthersKept
<1>13. About(c)' \subseteq {s} /\ (Meet(c, {s}) \/ About(c)' = {})
  BY <1>6, <1>10 DEF About
<1>14. \A q \in Proc \ {c} : (About(c)' \cup {}) \cap About(q) \subseteq spoiled'
  BY <1>3, <1>13
<1>15. TidyOf(c)'
  BY <1>6, <1>10, NameAssumption DEF TidyOf, Waiting, Settled
<1>16. KnowsOf(c)'
  BY <1>1, <1>2, <1>10, NameAssumption DEF KnowsOf, Knows
<1> QED BY <1>2, <1>4, <1>6, <1>11, <1>12, <1>14, <1>15, <1>16, MoveKeeps, {} \in SUBSET Server

\* The operator decides.
LEMMA DecideKeeps ==
  ASSUME IInv, NEW c \in Call, Decide(c)
  PROVE  IInv'
<1> DEFINE s == at[c]
<1>1. /\ c \in Proc /\ pc[c] = "approval" /\ PoolType /\ RestType /\ TidyOf(c)
      /\ UNCHANGED <<client, tools, scoped, timer, boot, open, live, op, todo, want, scope, spoiled, late, faults>>
  BY TypeHalves DEF Decide, Proc, IInv, Tidy
<1>2. /\ s \in Server /\ s # None /\ s \in About(c) /\ op[c] = "register" /\ op[c] \notin Loops
      /\ todo[c] = {} /\ want[c] = {} /\ scope[c] \in Scope
  <2>1. op[c] = "register" /\ s # None
    BY <1>1 DEF TidyOf, Waiting
  <2>2. op[c] \notin Loops /\ op[c] # "sync"
    BY <2>1 DEF Loops, Sweeps
  <2> QED BY <1>1, <2>1, <2>2 DEF TidyOf, PoolType, RestType, About
<1>3. FreshStatus(c, "dynamic", scope[c]) \in Status /\ FreshStatus(c, "dynamic", scope[c]) # None
  BY <1>2, FreshType
<1> HIDE DEF s
<1>4. \/ /\ SetStatus(s, FreshStatus(c, "dynamic", scope[c]))
         /\ Wait(c, "connecting", s) /\ UNCHANGED held
      \/ Through(c, op[c], "failed") /\ UNCHANGED status
  BY DEF Decide, s
<1>5. /\ status' \in [Server -> Status \cup {None}] /\ (status[s] # None => status'[s] # None)
      /\ \A r \in Server \ {s} : status'[r] = status[r]
  BY <1>1, <1>3, <1>4 DEF PoolType, SetStatus
<1>6. /\ pc' \in [Proc -> Active \cup Settled \cup {"idle"}]
      /\ at' \in [Proc -> Server \cup {None}] /\ held' \in [Proc -> Call \cup {None}]
      /\ \A q \in Proc \ {c} : pc'[q] = pc[q] /\ at'[q] = at[q] /\ held'[q] = held[q]
      /\ \/ at'[c] = None /\ pc'[c] \in Settled
         \/ at'[c] = s /\ pc'[c] = "connecting" /\ status'[s] # None
  <2>0. "failed" \in Settled /\ "connecting" \in Waiting
    BY DEF Settled, Waiting
  <2>1. CASE Through(c, op[c], "failed")
    BY <1>1, <1>2, <2>0, <2>1, ThroughMoves
  <2>2. CASE /\ SetStatus(s, FreshStatus(c, "dynamic", scope[c]))
             /\ Wait(c, "connecting", s) /\ UNCHANGED held
    <3>1. status'[s] # None
      BY <1>1, <1>2, <1>3, <2>2 DEF SetStatus, PoolType
    <3> QED BY <1>1, <1>2, <2>0, <2>2, <3>1, WaitMoves DEF PoolType
  <2> QED BY <1>4, <2>1, <2>2
<1>7. TypeOK'
  <2>1. PoolType' /\ RestType'
    BY <1>1, <1>5, <1>6 DEF PoolType, RestType
  <2> QED BY <2>1, TypeHalves, PTL
<1>8. OthersStay(c) /\ OthersKept({}) /\ op'[Health] = "health"
  BY <1>1, <1>5, <1>6 DEF OthersStay, OthersKept, IInv, Tidy
<1>9. \A q \in Proc \ {c} : (About(c)' \cup {}) \cap About(q) \subseteq spoiled'
  <2>1. About(c)' \subseteq About(c)
    BY <1>1, <1>2, <1>6 DEF About
  <2> QED BY <1>1, <1>2, <2>1, StaysAlone
<1>10. TidyOf(c)'
  BY <1>1, <1>2, <1>6 DEF TidyOf, Waiting, Settled
<1>11. KnowsOf(c)'
  <2>1. s \notin spoiled => client[s] = None
    BY <1>1, <1>2 DEF IInv, Known, KnowsOf, Knows, s
  <2> QED BY <1>1, <1>2, <1>6, <2>1, NameAssumption DEF KnowsOf, Knows
<1> QED BY <1>1, <1>7, <1>8, <1>9, <1>10, <1>11, MoveKeeps, {} \in SUBSET Server

\* What is known of p when it waits for an answer about its server.
LEMMA AnswerFinds ==
  ASSUME IInv, NEW c \in Call, pc[c] \in {"connecting", "listing"}
  PROVE  /\ c \in Proc /\ c # Health /\ at[c] \in Server /\ at[c] # None /\ at[c] \in About(c)
         /\ op[c] \in Connects \cup {"register"} /\ want[c] = {}
         /\ op[c] \notin Loops => todo[c] = {}
         /\ at[c] \notin spoiled => Knows(c, at[c])
<1>1. c \in Proc /\ c # Health /\ TidyOf(c) /\ KnowsOf(c) /\ TypeOK
  BY NameAssumption DEF IInv, Tidy, Known, Proc
<1>2. /\ at[c] # None /\ at[c] \in Server /\ op[c] \in Connects \cup {"register"}
      /\ op[c] \notin Loops => todo[c] = {}
  BY <1>1 DEF TidyOf, TypeOK, Waiting
<1>3. want[c] = {}
  <2>1. op[c] # "sync"
    BY <1>2 DEF Connects
  <2> QED BY <1>1, <2>1 DEF TidyOf
<1> QED BY <1>1, <1>2, <1>3 DEF About, KnowsOf

\* A connect that fails.
LEMMA GiveUpKeeps ==
  ASSUME IInv, NEW c \in Call, pc[c] \in {"connecting", "listing"}, GiveUp(c),
         UNCHANGED <<boot, live, op, todo, want, scope, spoiled, late, faults>>
  PROVE  IInv'
<1> DEFINE s == at[c]
<1>1. /\ c \in Proc /\ s \in Server /\ s \in About(c) /\ op[c] \in Connects \cup {"register"}
      /\ want[c] = {} /\ (op[c] \notin Loops => todo[c] = {})
      /\ s \notin spoiled => Knows(c, s)
  BY AnswerFinds
<1>2. PoolType /\ RestType /\ UNCHANGED <<client, tools, scoped, timer, open>>
  BY TypeHalves DEF IInv, GiveUp
<1>3. /\ status' = IF op[c] = "register" THEN [status EXCEPT ![s] = None] ELSE status
      /\ Through(c, op[c], "failed")
  BY DEF GiveUp, SetStatus
<1>4. op[c] = "register" /\ s \notin spoiled => s \notin tools
  <2>1. s \notin spoiled /\ pc[c] = "connecting" => s \notin tools
    BY <1>1, Clientless DEF Knows
  <2> QED BY <1>1, <2>1 DEF Knows
<1> HIDE DEF s
<1>5. /\ status' \in [Server -> Status \cup {None}] /\ \A r \in Server \ {s} : status'[r] = status[r]
      /\ status'[s] = status[s] \/ (status'[s] = None /\ op[c] = "register")
  BY <1>1, <1>2, <1>3 DEF PoolType
<1>6. /\ pc' \in [Proc -> Active \cup Settled \cup {"idle"}]
      /\ at' \in [Proc -> Server \cup {None}] /\ held' \in [Proc -> Call \cup {None}]
      /\ \A q \in Proc \ {c} : pc'[q] = pc[q] /\ at'[q] = at[q] /\ held'[q] = held[q]
      /\ at'[c] = None /\ pc'[c] \in (IF op[c] \in Loops THEN {"next"} ELSE Settled)
  <2>1. "failed" \in Settled
    BY DEF Settled
  <2> QED BY <1>1, <1>2, <1>3, <2>1, ThroughMoves
<1>7. TypeOK'
  <2>1. PoolType' /\ RestType'
    BY <1>2, <1>5, <1>6 DEF PoolType, RestType
  <2> QED BY <2>1, TypeHalves, PTL
<1>8. OthersStay(c) /\ OthersKept({s}) /\ op'[Health] = "health"
  BY <1>1, <1>2, <1>5, <1>6 DEF OthersStay, OthersKept, IInv, Tidy
<1>9. \A q \in Proc \ {c} : (About(c)' \cup {s}) \cap About(q) \subseteq spoiled'
  <2>1. About(c)' \subseteq About(c)
    BY <1>6 DEF About
  <2> QED BY <1>1, <2>1, StaysAlone
<1>10. TidyOf(c)'
  BY <1>1, <1>6 DEF TidyOf, Waiting, Settled
<1>11. KnowsOf(c)'
  BY <1>6, NameAssumption DEF KnowsOf
<1>12. s \in tools' \ spoiled' => client'[s] # None /\ status'[s] # None
  BY <1>2, <1>4, <1>5 DEF IInv, ToolsBacked
<1>13. \A l \in open' : l[2] \in {s} => l[2] \in spoiled' \/ client'[l[2]] = l[1]
  BY <1>2 DEF IInv, NoOrphans
<1> QED BY <1>1, <1>7, <1>8, <1>9, <1>10, <1>11, <1>12, <1>13, MoveKeeps

\* createMCPClient() returns.
LEMMA EstablishedKeeps ==
  ASSUME IInv, NEW c \in Call, Established(c)
  PROVE  IInv'
<1> DEFINE s == at[c]
<1>1. CASE GiveUp(c)
  BY <1>1, GiveUpKeeps DEF Established
<1>2. CASE /\ client' = [client EXCEPT ![s] = c] /\ open' = open \cup {<<c, s>>}
           /\ Mark(c, s, TRUE) /\ Wait(c, "listing", s)
           /\ UNCHANGED <<tools, scoped, timer, held>>
  <2>1. /\ c \in Proc /\ s \in Server /\ s # None /\ s \in About(c) /\ want[c] = {}
        /\ op[c] \in Connects \cup {"register"} /\ (op[c] \notin Loops => todo[c] = {})
        /\ s \notin spoiled => client[s] = None /\ status[s] # None
    BY AnswerFinds DEF Established, Knows
  <2>2. /\ PoolType /\ RestType
        /\ UNCHANGED <<boot, live, op, todo, want, scope, spoiled, late, faults>>
    BY TypeHalves DEF IInv, Established
  <2> HIDE DEF s
  <2>3. /\ client' \in [Server -> Call \cup {None}] /\ client'[s] = c
        /\ \A r \in Server \ {s} : client'[r] = client[r]
    BY <1>2, <2>1, <2>2 DEF PoolType
  <2>4. /\ status' \in [Server -> Status \cup {None}]
        /\ \A r \in Server : status[r] # None => status'[r] # None
    <3>1. ASSUME status[s] # None PROVE [status[s] EXCEPT !.connected = TRUE] \in Status
      BY <2>1, <2>2, <3>1 DEF PoolType, Status
    <3>2. CASE status[s] # None /\ status' = [status EXCEPT ![s].connected = TRUE]
      BY <2>1, <2>2, <3>1, <3>2, StatusAssumption DEF PoolType
    <3> QED BY <1>2, <2>2, <3>2 DEF Mark, PoolType
  <2>5. /\ pc' \in [Proc -> Active \cup Settled \cup {"idle"}]
        /\ at' \in [Proc -> Server \cup {None}]
        /\ \A q \in Proc \ {c} : pc'[q] = pc[q] /\ at'[q] = at[q]
        /\ at'[c] = s /\ pc'[c] = "listing"
    <3>1. "listing" \in Waiting
      BY DEF Waiting
    <3> QED BY <1>2, <2>1, <2>2, <3>1, WaitMoves
  <2>6. TypeOK'
    <3>1. PoolType' /\ RestType'
      BY <1>2, <2>1, <2>2, <2>3, <2>4, <2>5 DEF PoolType, RestType
    <3> QED BY <3>1, TypeHalves, PTL
  <2>7. OthersStay(c) /\ OthersKept({s}) /\ op'[Health] = "health"
    BY <1>2, <2>2, <2>3, <2>4, <2>5 DEF OthersStay, OthersKept, IInv, Tidy
  <2>8. \A q \in Proc \ {c} : (About(c)' \cup {s}) \cap About(q) \subseteq spoiled'
    <3>1. About(c)' \subseteq About(c)
      BY <2>1, <2>2, <2>5 DEF About
    <3> QED BY <2>1, <2>2, <3>1, StaysAlone
  <2>9. TidyOf(c)'
    BY <2>1, <2>2, <2>5 DEF TidyOf, Waiting, Settled
  <2>10. s \notin spoiled => s \notin tools /\ \A l \in open : l[2] # s
    BY <2>1, Clientless
  <2>11. KnowsOf(c)'
    BY <1>2, <2>1, <2>2, <2>3, <2>4, <2>5, <2>10 DEF KnowsOf, Knows
  <2>12. s \in tools' \ spoiled' => client'[s] # None /\ status'[s] # None
    BY <1>2, <2>2, <2>10
  <2>13. \A l \in open' : l[2] \in {s} => l[2] \in spoiled' \/ client'[l[2]] = l[1]
    BY <1>2, <2>2, <2>3, <2>10
  <2> QED BY <2>1, <2>2, <2>6, <2>7, <2>8, <2>9, <2>11, <2>12, <2>13, MoveKeeps
<1> QED BY <1>1, <1>2 DEF Established

\* listTools() returns.
LEMMA ListedKeeps ==
  ASSUME IInv, NEW c \in Call, Listed(c)
  PROVE  IInv'
<1> DEFINE s == at[c]
<1>1. CASE GiveUp(c)
  BY <1>1, GiveUpKeeps DEF Listed
<1>2. CASE /\ tools' = tools \cup {s}
           /\ scoped' = [x \in Session |-> IF x = ScopeOf(s) THEN scoped[x] \cup {s} ELSE scoped[x]]
           /\ timer' = (timer \/ op[c] = "register")
           /\ Through(c, op[c], "done") /\ UNCHANGED <<client, status, open>>
  <2>1. /\ c \in Proc /\ s \in Server /\ s \in About(c) /\ want[c] = {}
        /\ (op[c] \notin Loops => todo[c] = {})
        /\ s \notin spoiled => client[s] = c /\ status[s] # None
    BY AnswerFinds DEF Listed, Knows
  <2>2. /\ PoolType /\ RestType
        /\ UNCHANGED <<boot, live, op, todo, want, scope, spoiled, late, faults>>
    BY TypeHalves DEF IInv, Listed
  <2> HIDE DEF s
  <2>3. scoped' \in [Session -> SUBSET Server] /\ timer' \in BOOLEAN /\ tools' \subseteq Server
    BY <1>2, <2>1, <2>2 DEF PoolType, RestType
  <2>4. /\ pc' \in [Proc -> Active \cup Settled \cup {"idle"}]
        /\ at' \in [Proc -> Server \cup {None}] /\ held' \in [Proc -> Call \cup {None}]
        /\ \A q \in Proc \ {c} : pc'[q] = pc[q] /\ at'[q] = at[q] /\ held'[q] = held[q]
        /\ at'[c] = None /\ pc'[c] \in (IF op[c] \in Loops THEN {"next"} ELSE Settled)
    <3>1. "done" \in Settled
      BY DEF Settled
    <3> QED BY <1>2, <2>1, <2>2, <3>1, ThroughMoves
  <2>5. TypeOK'
    <3>1. PoolType' /\ RestType'
      BY <1>2, <2>2, <2>3, <2>4 DEF PoolType, RestType
    <3> QED BY <3>1, TypeHalves, PTL
  <2>6. OthersStay(c) /\ OthersKept({s}) /\ op'[Health] = "health"
    BY <1>2, <2>2, <2>4 DEF OthersStay, OthersKept, IInv, Tidy
  <2>7. \A q \in Proc \ {c} : (About(c)' \cup {s}) \cap About(q) \subseteq spoiled'
    <3>1. About(c)' \subseteq About(c)
      BY <2>2, <2>4 DEF About
    <3> QED BY <2>1, <2>2, <3>1, StaysAlone
  <2>8. TidyOf(c)'
    BY <2>1, <2>2, <2>4 DEF TidyOf, Waiting, Settled
  <2>9. KnowsOf(c)'
    BY <2>4, NameAssumption DEF KnowsOf
  <2>10. s \in tools' \ spoiled' => client'[s] # None /\ status'[s] # None
    BY <1>2, <2>1, <2>2, NameAssumption
  <2>11. \A l \in open' : l[2] \in {s} => l[2] \in spoiled' \/ client'[l[2]] = l[1]
    BY <1>2, <2>2 DEF IInv, NoOrphans
  <2> QED BY <2>1, <2>2, <2>5, <2>6, <2>7, <2>8, <2>9, <2>10, <2>11, MoveKeeps
<1> QED BY <1>1, <1>2 DEF Listed

\* close() returns.
LEMMA ClosedKeeps ==
  ASSUME IInv, NEW p \in Proc, Closed(p)
  PROVE  IInv'
<1> DEFINE s == at[p]
<1>1. /\ PoolType /\ RestType /\ TidyOf(p) /\ pc[p] = "closing" /\ Disconnected(p, op[p], s)
      /\ UNCHANGED <<timer, boot, live, op, todo, want, scope, late>>
  BY TypeHalves DEF Closed, IInv, Tidy
<1>2. s \in Server /\ s # None /\ s \in About(p)
  BY <1>1 DEF TidyOf, Waiting, PoolType, About
<1>3. /\ op[p] \in Methods /\ (op[p] \in Connects => p \in Call)
      /\ op[Health] = "health"
  BY <1>1 DEF Disconnected, Methods, Proc, IInv, Tidy, Connects
<1>4. s \notin spoiled => held[p] = client[s]
  BY <1>1, <1>2 DEF IInv, Known, KnowsOf, Knows
<1>5. \/ open' = open \ {<<held[p], s>>} /\ UNCHANGED <<spoiled, faults>>
      \/ /\ faults < MaxFaults /\ faults' = faults + 1
         /\ spoiled' = spoiled \cup {s} /\ UNCHANGED open
  BY DEF Closed
<1> HIDE DEF s
<1>6. PoolStep(p, op'[p], s)
  BY <1>1, <1>2, <1>3, DisconnectedMoves
<1>7. open' \subseteq open /\ spoiled \subseteq spoiled' /\ spoiled' \subseteq Server /\ faults' \in 0..MaxFaults
  BY <1>1, <1>2, <1>5, LimitAssumption DEF RestType
<1>8. RestType'
  BY <1>1, <1>7 DEF RestType
<1>9. ASSUME s \notin spoiled', NEW l \in open', l[2] = s PROVE FALSE
  <2>1. open' = open \ {<<held[p], s>>} /\ s \notin spoiled /\ l \in open
    BY <1>5, <1>9
  <2>2. client[s] = l[1]
    BY <1>9, <2>1 DEF IInv, NoOrphans
  <2>3. l = <<l[1], l[2]>>
    BY <2>1 DEF IInv, TypeOK
  <2> QED BY <1>4, <1>9, <2>1, <2>2, <2>3
<1>10. \A q \in Proc \ {p} : (About(p)' \cup {s}) \cap About(q) \subseteq spoiled'
  <2>1. About(p)' \subseteq About(p)
    BY <1>1, <1>2, <1>6 DEF About, PoolStep
  <2> QED BY <1>2, <1>7, <2>1, StaysAlone
<1>11. /\ op'[Health] = "health" /\ (op'[p] # "sync" => want'[p] = {})
       /\ op'[p] \notin Loops => todo'[p] = {}
  BY <1>1, <1>3 DEF TidyOf
<1> QED BY <1>1, <1>2, <1>6, <1>7, <1>8, <1>9, <1>10, <1>11, PoolStepKeeps

\* A loop turns to the next server.
LEMMA NextServerKeeps ==
  ASSUME IInv, NEW p \in Proc, NextServer(p)
  PROVE  IInv'
<1>1. PICK s \in todo[p] :
        /\ todo' = [todo EXCEPT ![p] = @ \ {s}]
        /\ \/ Skip(p)
           \/ op[p] \in Sweeps \ {"health"} /\ Disconnect(p, op[p], s)
           \/ /\ op[p] = "health" /\ Wait(p, "probing", s)
              /\ held' = [held EXCEPT ![p] = client[s]]
              /\ UNCHANGED <<client, status, tools, scoped>>
           \/ op[p] = "syncUp" /\ Connect(p, op[p], s)
  BY DEF NextServer
<1>2. /\ PoolType /\ RestType /\ TidyOf(p) /\ pc[p] = "next" /\ op[Health] = "health"
      /\ UNCHANGED <<timer, boot, open, live, op, want, scope, spoiled, late, faults>>
  BY TypeHalves DEF NextServer, IInv, Tidy
<1>3. s \in Server /\ s # None /\ s \in About(p) /\ op[p] \in Loops /\ at[p] = None
  BY <1>1, <1>2, NameAssumption DEF RestType, About, TidyOf, Waiting
<1>4. /\ todo'[p] \subseteq todo[p] /\ \A q \in Proc \ {p} : todo'[q] = todo[q]
      /\ RestType'
  BY <1>1, <1>2 DEF RestType
<1>5. /\ op'[Health] = "health" /\ (op'[p] # "sync" => want'[p] = {})
      /\ op'[p] \in Loops
  BY <1>2, <1>3 DEF TidyOf
<1>6. ASSUME at'[p] \in {s, None}
      PROVE  \A q \in Proc \ {p} : (About(p)' \cup {s}) \cap About(q) \subseteq spoiled'
  <2>1. About(p)' \subseteq About(p)
    BY <1>2, <1>3, <1>4, <1>6 DEF About
  <2> QED BY <1>2, <1>3, <2>1, StaysAlone
<1>7. ASSUME PoolStep(p, op'[p], s), client'[s] = None => client[s] = None PROVE IInv'
  <2>1. at'[p] \in {s, None}
    BY <1>7 DEF PoolStep
  <2> QED BY <1>2, <1>3, <1>4, <1>5, <1>6, <1>7, <2>1, StartKeeps
<1>8. ASSUME PoolType', UNCHANGED <<client, status, tools>>, OthersStay(p),
             \/ at'[p] = None /\ pc'[p] = "next"
             \/ at'[p] = s /\ pc'[p] = "probing"
      PROVE  IInv'
  <2>1. TypeOK' /\ OthersKept({})
    <3>1. OthersKept({})
      BY <1>2, <1>8 DEF OthersKept
    <3> QED BY <1>4, <1>8, <3>1, TypeHalves, PTL
  <2>2. TidyOf(p)'
    BY <1>3, <1>5, <1>8 DEF TidyOf, Waiting, Settled
  <2>3. KnowsOf(p)'
    BY <1>8, NameAssumption DEF KnowsOf, Knows
  <2>4. \A q \in Proc \ {p} : (About(p)' \cup {}) \cap About(q) \subseteq spoiled'
    BY <1>6, <1>8
  <2> QED BY <1>2, <1>5, <1>8, <2>1, <2>2, <2>3, <2>4, MoveKeeps, {} \in SUBSET Server
<1>9. CASE Skip(p)
  <2>1. PoolType' /\ UNCHANGED <<client, status, tools>> /\ at'[p] = None /\ pc'[p] = "next"
    BY <1>2, <1>3, <1>9 DEF Skip, PoolType
  <2>2. OthersStay(p)
    BY <1>2, <1>4, <1>9 DEF Skip, OthersStay
  <2> QED BY <1>8, <2>1, <2>2
<1>10. CASE op[p] \in Sweeps \ {"health"} /\ Disconnect(p, op[p], s)
  <2>1. op'[p] = op[p] /\ op[p] \in Methods /\ op[p] \notin Connects
    BY <1>2, <1>10 DEF Methods, Sweeps, Connects
  <2> QED BY <1>2, <1>3, <1>7, <1>10, <2>1, DisconnectMoves
<1>11. CASE /\ op[p] = "health" /\ Wait(p, "probing", s)
            /\ held' = [held EXCEPT ![p] = client[s]]
            /\ UNCHANGED <<client, status, tools, scoped>>
  <2>1. "probing" \in Waiting
    BY DEF Waiting
  <2>2. /\ pc' \in [Proc -> Active \cup Settled \cup {"idle"}]
        /\ at' \in [Proc -> Server \cup {None}]
        /\ \A q \in Proc \ {p} : pc'[q] = pc[q] /\ at'[q] = at[q]
        /\ at'[p] = s /\ pc'[p] = "probing"
    BY <1>2, <1>3, <1>11, <2>1, WaitMoves
  <2>3. held' \in [Proc -> Call \cup {None}] /\ \A q \in Proc \ {p} : held'[q] = held[q]
    BY <1>2, <1>3, <1>11 DEF PoolType
  <2>4. PoolType' /\ OthersStay(p)
    BY <1>2, <1>4, <1>11, <2>2, <2>3 DEF PoolType, OthersStay
  <2> QED BY <1>8, <1>11, <2>2, <2>4
<1>12. CASE op[p] = "syncUp" /\ Connect(p, op[p], s)
  <2>1. p \in Call /\ op[p] \in Connects /\ op'[p] = op[p]
    BY <1>2, <1>12 DEF Proc, Connects
  <2> QED BY <1>2, <1>3, <1>7, <1>12, <2>1, ConnectMoves
<1> QED BY <1>1, <1>9, <1>10, <1>11, <1>12

\* A loop is through with its servers.
LEMMA LoopEndKeeps ==
  ASSUME IInv, NEW p \in Proc, LoopEnd(p)
  PROVE  IInv'
<1>1. /\ PoolType /\ RestType /\ TidyOf(p) /\ pc[p] = "next" /\ todo[p] = {}
      /\ op[Health] = "health" /\ Health \in Proc
      /\ UNCHANGED <<client, status, tools, timer, boot, open, live, at, held, scope, spoiled, late, faults>>
  BY TypeHalves DEF LoopEnd, IInv, Tidy, Proc
<1>2. at[p] = None /\ at'[p] = None
  BY <1>1 DEF TidyOf, Waiting
<1>3. CASE /\ op[p] = "sync" /\ op' = [op EXCEPT ![p] = "syncUp"]
           /\ todo' = [todo EXCEPT ![p] = want[p]] /\ want' = [want EXCEPT ![p] = {}]
           /\ UNCHANGED <<pc, scoped>>
  <2>1. "syncUp" \in Connects /\ "syncUp" \in Loops /\ "syncUp" # "sync"
    BY DEF Connects, Loops
  <2>2. PoolType' /\ RestType'
    BY <1>1, <1>3, <2>1 DEF PoolType, RestType
  <2>3. /\ op'[p] = "syncUp" /\ todo'[p] = want[p] /\ want'[p] = {} /\ pc'[p] = "next"
        /\ OthersStay(p) /\ OthersKept({})
    BY <1>1, <1>3 DEF RestType, OthersStay, OthersKept
  <2>4. op'[Health] = "health"
    BY <1>1, <1>3, <2>3 DEF OthersStay
  <2>5. \A q \in Proc \ {p} : (About(p)' \cup {}) \cap About(q) \subseteq spoiled'
    <3>1. About(p)' \subseteq About(p)
      BY <1>2, <2>3 DEF About
    <3> QED BY <1>1, <3>1 DEF IInv, Alone
  <2>6. TidyOf(p)' /\ KnowsOf(p)'
    BY <1>2, <2>1, <2>3, NameAssumption DEF TidyOf, KnowsOf, Waiting, Settled
  <2>7. TypeOK'
    BY <2>2, TypeHalves, PTL
  <2> QED BY <1>1, <2>3, <2>4, <2>5, <2>6, <2>7, MoveKeeps, {} \in SUBSET Server
<1>4. CASE /\ op[p] # "sync" /\ pc' = [pc EXCEPT ![p] = IF p = Health THEN "idle" ELSE "done"]
           /\ scoped' = IF op[p] = "deleteSession"
                        THEN [scoped EXCEPT ![scope[p].session] = {}] ELSE scoped
           /\ UNCHANGED <<op, todo, want>>
  <2>1. scoped' \in [Session -> SUBSET Server]
    BY <1>1, <1>4 DEF PoolType
  <2>2. pc' \in [Proc -> Active \cup Settled \cup {"idle"}] /\ pc'[p] \in Settled \cup {"idle"}
    BY <1>1, <1>4 DEF PoolType, Settled
  <2>3. PoolType' /\ RestType'
    BY <1>1, <1>4, <2>1, <2>2 DEF PoolType, RestType
  <2>4. OthersStay(p) /\ OthersKept({}) /\ want'[p] = {} /\ todo'[p] = {} /\ op'[Health] = "health"
    BY <1>1, <1>4 DEF PoolType, OthersStay, OthersKept, TidyOf
  <2>5. \A q \in Proc \ {p} : (About(p)' \cup {}) \cap About(q) \subseteq spoiled'
    BY <1>2, <2>4 DEF About
  <2>6. TidyOf(p)' /\ KnowsOf(p)'
    BY <1>2, <2>2, <2>4, NameAssumption DEF TidyOf, KnowsOf, Waiting, Settled
  <2>7. TypeOK'
    BY <2>3, TypeHalves, PTL
  <2> QED BY <1>1, <2>4, <2>5, <2>6, <2>7, MoveKeeps, {} \in SUBSET Server
<1> QED BY <1>3, <1>4 DEF LoopEnd

\* The health check gets its answer.
LEMMA ProbedKeeps ==
  ASSUME IInv, Probed
  PROVE  IInv'
<1> DEFINE s == at[Health]
<1>1. /\ PoolType /\ RestType /\ TidyOf(Health) /\ pc[Health] = "probing"
      /\ op[Health] = "health" /\ Health \in Proc
      /\ UNCHANGED <<timer, boot, open, live, op, todo, want, scope, spoiled, late, faults>>
  BY TypeHalves DEF Probed, IInv, Tidy, Proc
<1>2. /\ s \in Server /\ s # None /\ s \in About(Health) /\ want[Health] = {}
      /\ "health" \in Loops /\ "health" \in Methods /\ "health" \notin Connects
  BY <1>1 DEF TidyOf, Waiting, PoolType, About, Loops, Sweeps, Methods, Connects
<1>3. \/ Through(Health, "health", "done") /\ UNCHANGED <<client, status, tools, scoped>>
      \/ Disconnect(Health, "health", s)
  BY DEF Probed
<1> HIDE DEF s
<1>4. PoolStep(Health, "health", s) /\ (client'[s] = None => client[s] = None)
  <2>1. CASE Through(Health, "health", "done") /\ UNCHANGED <<client, status, tools, scoped>>
    <3>1. "done" \in Settled
      BY DEF Settled
    <3> QED BY <1>1, <2>1, <3>1, ThroughMoves DEF PoolStep, PoolType
  <2>2. CASE Disconnect(Health, "health", s)
    BY <1>1, <1>2, <2>2, DisconnectMoves
  <2> QED BY <1>3, <2>1, <2>2
<1>5. RestType'
  BY <1>1 DEF RestType
<1>6. \A q \in Proc \ {Health} : (About(Health)' \cup {s}) \cap About(q) \subseteq spoiled'
  <2>1. About(Health)' \subseteq About(Health)
    BY <1>1, <1>2, <1>4 DEF About, PoolStep
  <2> QED BY <1>1, <1>2, <2>1, StaysAlone
<1> QED BY <1>1, <1>2, <1>4, <1>5, <1>6, StartKeeps

-----------------------------------------------------------------------------
(* The theorems. *)

\* Nothing is connected, and nothing under way.
LEMMA InitInv == Init => IInv
<1> SUFFICES ASSUME Init PROVE IInv
  OBVIOUS
<1>1. TypeOK
  <2>1. NoScope \in Scope /\ 0 \in 0..MaxFaults /\ "health" \in Sweeps
    BY NoScopeType, LimitAssumption DEF Sweeps
  <2> QED BY <2>1 DEF Init, TypeOK
<1>2. Health \in Proc /\ \A p \in Proc : TidyOf(p) /\ About(p) = {} /\ KnowsOf(p)
  BY NameAssumption DEF Init, Proc, TidyOf, About, KnowsOf, Waiting, Settled
<1>3. Tidy /\ Alone /\ Known
  BY <1>2 DEF Tidy, Alone, Known, Init
<1>4. NoOrphans /\ ToolsBacked
  BY DEF NoOrphans, ToolsBacked, Init
<1> QED BY <1>1, <1>3, <1>4 DEF IInv

\* Every step keeps the invariant.
LEMMA StepInv == IInv /\ [Next]_vars => IInv'
<1> SUFFICES ASSUME IInv, [Next]_vars PROVE IInv'
  OBVIOUS
<1>1. ASSUME NEW c \in Call, Begin(c) PROVE IInv'
  BY <1>1, ConnectAllKeeps, ReconnectKeeps, RegisterKeeps, UnregisterKeeps,
     DeleteSessionKeeps, DropClientKeeps, SyncKeeps DEF Begin
<1>2. ASSUME NEW p \in Proc, Step(p) PROVE IInv'
  BY <1>2, NextServerKeeps, LoopEndKeeps, ClosedKeeps DEF Step
<1>3. ASSUME NEW c \in Call, CallStep(c) PROVE IInv'
  <2>1. c \in Proc
    BY DEF Proc
  <2> QED BY <1>2, <1>3, <2>1, DecideKeeps, EstablishedKeeps, ListedKeeps DEF CallStep
<1>4. CASE HealthStep
  <2>1. Health \in Proc
    BY DEF Proc
  <2> QED BY <1>2, <1>4, <2>1, ProbedKeeps DEF HealthStep
<1>5. CASE UNCHANGED vars
  <2>1. TypeOK'
    BY <1>5 DEF IInv, TypeOK, vars, poolVars, callVars
  <2> QED BY <1>5, <2>1, StillKeeps DEF vars, poolVars, callVars
<1> QED BY <1>1, <1>3, <1>4, <1>5, HealthTickKeeps, WebDeleteSessionKeeps, ServerDiesKeeps DEF Next

\* The state always has its type.
THEOREM TypeCorrect == Spec => []TypeOK
<1>1. IInv => TypeOK
  BY DEF IInv
<1> QED BY InitInv, StepInv, <1>1, PTL DEF Spec

\* No connection is left running outside the pool, unless two calls worked on
\* its server at once or close() failed.
THEOREM NothingLeftRunning == Spec => []NoOrphans
<1>1. IInv => NoOrphans
  BY DEF IInv
<1> QED BY InitInv, StepInv, <1>1, PTL DEF Spec

\* The pool has a client and a status of every server whose tools are offered,
\* with the same exceptions, so that they can be removed.
THEOREM ToolsCanGo == Spec => []ToolsBacked
<1>1. IInv => ToolsBacked
  BY DEF IInv
<1> QED BY InitInv, StepInv, <1>1, PTL DEF Spec

-----------------------------------------------------------------------------
(* Sessions: the inductive invariant, beside IInv. *)

\* A call that has not begun has left no trace.
Fresh(c) ==
  pc[c] = "idle" =>
    /\ op[c] = None
    /\ \A s \in Server : client[s] # c /\ (status[s] # None => status[s].by # c)

\* A registration connects to the one server it is about.
One(c) ==
  op[c] = "register" =>
    \A s \in Server : client[s] = c => pc[c] \in {"listing", "done", "failed"} /\ at[c] \in {s, None}

Registers(c, s) == at[c] = s /\ pc[c] \in {"connecting", "listing"} /\ op[c] = "register"

\* The status of s is the one that registration c has made.
Has(c, s) == Dynamic(s) /\ status[s].by = c /\ status[s].scope = scope[c]

\* A registration keeps its status until a reconnect takes the server over; one
\* that has failed leaves no tools.
Matched(s) ==
  /\ \A c \in Call : Registers(c, s) => Has(c, s)
  /\ client[s] # None /\ op[client[s]] = "register" /\ ~Static(s) =>
       IF pc[client[s]] = "failed" THEN s \notin tools ELSE Has(client[s], s)

\* Server s is not of d's session, or d is at it, or it came late.
Covers(d, s) ==
  Dynamic(s) /\ status[s].scope.session = scope[d].session => s \in About(d) \/ status[s].by \in late

\* What DeleteSession knows of its session.
Gone(d) ==
  op[d] = "deleteSession" =>
    /\ scope[d].session \in Session \ live
    /\ \A s \in Server \ spoiled : Covers(d, s)
    /\ \A c \in Call : pc[c] = "approval" /\ scope[c].session = scope[d].session => c \in late

\* The tools of s are those of the one session they were registered for.
Right(s) ==
  s \in tools => \A x \in Session : ForSession(s, x) /\ client[s] \notin late =>
                   \A y \in Session : s \in scoped[y] <=> x = y

\* What a session has for itself is in the registry.
Offered == \A x \in Session : scoped[x] \subseteq tools

JInv == /\ \A c \in Call : Fresh(c) /\ One(c) /\ Gone(c)
        /\ \A s \in Server \ spoiled : Matched(s) /\ Right(s)
        /\ Offered

-----------------------------------------------------------------------------
(* One process moves. *)

SameStatus(r) ==
  /\ status[r] = None <=> status'[r] = None
  /\ status[r] # None => /\ status'[r].by = status[r].by /\ status'[r].scope = status[r].scope
                         /\ status'[r].source = status[r].source

\* Nothing that matters to the scopes changes of server r, nor of what p does to it.
Untouched(p, r) ==
  /\ client'[r] = client[r] /\ SameStatus(r)
  /\ r \in tools' <=> r \in tools
  /\ Right(r)' \/ \A y \in Session : r \in scoped'[y] <=> r \in scoped[y]
  /\ Registers(p, r)' => Registers(p, r)
  /\ client[r] = p /\ op[p] = "register" => (pc'[p] = "failed" <=> pc[p] = "failed")

\* A step of p that touches the servers in S.
Calm(p, S) ==
  /\ OthersStay(p) /\ \A q \in Proc \ {p} : scope'[q] = scope[q]
  /\ late \subseteq late' /\ spoiled \subseteq spoiled' /\ live' \subseteq live
  /\ \A r \in Server \ S : Untouched(p, r)
  /\ \A s \in S : /\ client'[s] \in {client[s], None, p}
                  /\ status'[s] # None => \/ status'[s].by = p
                                          \/ status[s] # None /\ status'[s].by = status[s].by
  /\ p \in Call => pc'[p] # "idle"
  /\ pc[p] # "idle" => /\ scope'[p] = scope[p] /\ (op'[p] = "register" <=> op[p] = "register")
                       /\ op'[p] = "deleteSession" <=> op[p] = "deleteSession"

\* Such a step keeps the invariant if it does for p and for S.
LEMMA CalmKeeps ==
  ASSUME IInv, JInv, NEW p \in Proc, NEW S \in SUBSET Server, Calm(p, S), Offered',
         p \in Call => /\ One(p)' /\ Gone(p)'
                       /\ pc'[p] = "approval" =>
                            \A d \in Call \ {p} : op[d] = "deleteSession" /\ scope[d].session = scope'[p].session
                                                    => p \in late',
         \A s \in S \ spoiled' : /\ Matched(s)' /\ Right(s)'
                                 /\ \A d \in Call \ {p} : op[d] = "deleteSession" => Covers(d, s)'
  PROVE  JInv'
<1>0. /\ OthersStay(p) /\ \A q \in Proc \ {p} : scope'[q] = scope[q]
      /\ late \subseteq late' /\ spoiled \subseteq spoiled' /\ live' \subseteq live
      /\ \A r \in Server \ S : Untouched(p, r)
      /\ \A c \in Call : c \in Proc
  BY DEF Calm, Proc
<1>1. ASSUME NEW c \in Call PROVE Fresh(c)'
  <2>1. CASE c = p
    BY <2>1 DEF Calm, Fresh
  <2>2. CASE c # p /\ pc[c] = "idle"
    <3>1. Fresh(c) /\ op'[c] = op[c]
      BY <1>0, <2>2 DEF JInv, OthersStay
    <3>2. ASSUME NEW s \in Server PROVE client'[s] # c /\ (status'[s] # None => status'[s].by # c)
      <4>1. CASE s \in S
        BY <2>2, <3>1, <4>1, NameAssumption DEF Fresh, Calm
      <4>2. CASE s \notin S
        BY <1>0, <2>2, <3>1, <4>2 DEF Fresh, Untouched, SameStatus
      <4> QED BY <4>1, <4>2
    <3> QED BY <2>2, <3>1, <3>2 DEF Fresh
  <2>3. CASE c # p /\ pc[c] # "idle"
    BY <1>0, <2>3 DEF Fresh, OthersStay
  <2> QED BY <2>1, <2>2, <2>3
<1>2. ASSUME NEW c \in Call PROVE One(c)'
  <2>1. CASE c # p
    <3>1. One(c) /\ op'[c] = op[c] /\ pc'[c] = pc[c] /\ at'[c] = at[c]
      BY <1>0, <2>1 DEF JInv, OthersStay
    <3>2. \A s \in Server : client'[s] = c => client[s] = c
      BY <1>0, <2>1, NameAssumption DEF Calm, Untouched
    <3> QED BY <3>1, <3>2 DEF One
  <2> QED BY <2>1
<1>3. ASSUME NEW s \in Server \ spoiled', s \notin S PROVE Matched(s)' /\ Right(s)'
  <2>1. Untouched(p, s) /\ s \in Server \ spoiled /\ Matched(s) /\ Right(s)
    BY <1>0, <1>3 DEF JInv
  <2>2. \A c \in Call : client[s] = c => /\ pc[c] # "idle" /\ scope'[c] = scope[c]
                                         /\ op'[c] = "register" <=> op[c] = "register"
                                         /\ op[c] = "register" => (pc'[c] = "failed" <=> pc[c] = "failed")
    BY <1>0, <2>1 DEF JInv, Fresh, Calm, Untouched, OthersStay
  <2>3. client[s] = None \/ client[s] \in Call
    BY <2>1 DEF IInv, TypeOK
  <2>4. /\ Dynamic(s)' <=> Dynamic(s)
        /\ Static(s)' <=> Static(s)
        /\ Dynamic(s) => status'[s].by = status[s].by /\ status'[s].scope = status[s].scope
    BY <2>1 DEF Untouched, SameStatus, Dynamic, Static
  <2>5. Matched(s)'
    <3>1. ASSUME NEW c \in Call, Registers(c, s)' PROVE Has(c, s)'
      <4>1. Registers(c, s)
        BY <1>0, <2>1, <3>1 DEF Untouched, OthersStay, Registers
      <4>2. scope'[c] = scope[c]
        BY <1>0, <4>1 DEF Calm, Registers
      <4> QED BY <2>1, <2>4, <4>1, <4>2 DEF Matched, Has
    <3>2. client'[s] = client[s] /\ (s \in tools' <=> s \in tools)
      BY <2>1 DEF Untouched
    <3>3. ASSUME client[s] # None, op[client[s]] = "register", ~Static(s)
          PROVE  IF pc'[client[s]] = "failed" THEN s \notin tools' ELSE Has(client[s], s)'
      <4>1. IF pc[client[s]] = "failed" THEN s \notin tools ELSE Has(client[s], s)
        BY <2>1, <3>3 DEF Matched
      <4>2. scope'[client[s]] = scope[client[s]] /\ (pc'[client[s]] = "failed" <=> pc[client[s]] = "failed")
        BY <2>2, <2>3, <3>3
      <4> QED BY <2>4, <3>2, <4>1, <4>2 DEF Has
    <3>4. client[s] # None => (op'[client[s]] = "register" <=> op[client[s]] = "register")
      BY <2>2, <2>3
    <3> QED BY <2>4, <3>1, <3>2, <3>3, <3>4 DEF Matched
  <2>6. CASE \A y \in Session : s \in scoped'[y] <=> s \in scoped[y]
    <3>1. /\ client'[s] = client[s] /\ (s \in tools' <=> s \in tools)
          /\ \A y \in Session : s \in scoped'[y] <=> s \in scoped[y]
      BY <2>1, <2>6 DEF Untouched
    <3>2. ASSUME NEW x \in Session, ForSession(s, x)', client'[s] \notin late'
          PROVE  ForSession(s, x) /\ client[s] \notin late
      BY <1>0, <2>2, <2>3, <2>4, <3>1, <3>2 DEF ForSession
    <3> QED BY <2>1, <2>5, <3>1, <3>2 DEF Right
  <2> QED BY <2>1, <2>5, <2>6 DEF Untouched
<1>4. ASSUME NEW d \in Call, d # p PROVE Gone(d)'
  <2> SUFFICES ASSUME op[d] = "deleteSession"
               PROVE  /\ scope[d].session \in Session \ live'
                      /\ \A s \in Server \ spoiled' : Covers(d, s)'
                      /\ \A c \in Call : pc'[c] = "approval" /\ scope'[c].session = scope[d].session => c \in late'
    BY <1>0, <1>4 DEF Gone, OthersStay
  <2>1. Gone(d) /\ scope'[d] = scope[d] /\ About(d)' = About(d)
    BY <1>0, <1>4 DEF JInv, About, OthersStay
  <2>2. ASSUME NEW s \in Server \ spoiled', s \notin S PROVE Covers(d, s)'
    <3>1. Untouched(p, s) /\ Covers(d, s)
      BY <1>0, <2>1, <2>2 DEF Gone
    <3> QED BY <1>0, <2>1, <3>1 DEF Covers, Untouched, SameStatus, Dynamic
  <2>3. ASSUME NEW c \in Call, pc'[c] = "approval", scope'[c].session = scope[d].session PROVE c \in late'
    BY <1>0, <1>4, <2>1, <2>3 DEF Gone, OthersStay
  <2> QED BY <1>0, <1>4, <2>1, <2>2, <2>3 DEF Gone
<1> QED BY <1>1, <1>2, <1>3, <1>4 DEF JInv

-----------------------------------------------------------------------------
(* connect() and disconnect(), for any method that goes through them. *)

\* What every stretch of disconnect() and connect() by p does to the scopes.
ScopeStep(p, s) ==
  /\ \A r \in Server \ {s} : /\ client'[r] = client[r] /\ status'[r] = status[r]
                             /\ r \in tools' <=> r \in tools
                             /\ \A y \in Session : r \in scoped'[y] <=> r \in scoped[y]
  /\ \/ client'[s] = None /\ s \notin tools' /\ \A y \in Session : s \notin scoped'[y]
     \/ /\ client'[s] = client[s] /\ (s \in tools' <=> s \in tools)
        /\ \A y \in Session : s \in scoped'[y] <=> s \in scoped[y]
  /\ \/ SameStatus(s)
     \/ status'[s] = None /\ client'[s] = None
     \/ Static(s)' /\ status'[s].by = p
  /\ pc'[p] \in {"closing", "connecting", "next", "done", "failed"}

\* The end of disconnect(), after which a sweep is through with the server.
LEMMA DisconnectedScopes ==
  ASSUME PoolType, NEW p \in Proc, NEW o \in Methods, NEW s \in Server,
         o \in Connects => p \in Call, Disconnected(p, o, s)
  PROVE  ScopeStep(p, s) /\ (o \in Sweeps => status'[s] = None)
<1>1. /\ client'[s] = None /\ s \notin tools' /\ \A y \in Session : s \notin scoped'[y]
      /\ \A r \in Server \ {s} : /\ client'[r] = client[r] /\ (r \in tools' <=> r \in tools)
                                 /\ \A y \in Session : r \in scoped'[y] <=> r \in scoped[y]
  BY DEF Disconnected, UnregisterSource, PoolType
<1>2. CASE /\ o = "unregister"
           /\ status' = IF status[s] = None THEN status ELSE [status EXCEPT ![s].connected = FALSE]
           /\ Through(p, o, "done")
  <2>1. /\ o \notin Sweeps /\ o \notin Loops /\ "done" \in Settled
    BY <1>2 DEF Sweeps, Loops, Settled
  <2>2. /\ pc'[p] \in Settled
    BY <1>2, <2>1, ThroughMoves
  <2>3. SameStatus(s) /\ \A r \in Server \ {s} : status'[r] = status[r]
    <3>1. ASSUME status[s] # None PROVE status'[s] = [status[s] EXCEPT !.connected = FALSE] /\ status'[s] \in Status
      BY <1>2, <3>1 DEF PoolType, Status
    <3> QED BY <1>2, <3>1, StatusAssumption DEF SameStatus, PoolType, Status
  <2> QED BY <1>1, <2>1, <2>2, <2>3 DEF ScopeStep, Settled
<1>3. CASE o \in Sweeps /\ SetStatus(s, None) /\ Through(p, o, "done")
  <2>1. status'[s] = None /\ \A r \in Server \ {s} : status'[r] = status[r]
    BY <1>3 DEF SetStatus, PoolType
  <2>2. pc'[p] \in {"next", "done", "failed"}
    BY <1>3, ThroughMoves, "done" \in Settled DEF Settled
  <2> QED BY <1>1, <2>1, <2>2 DEF ScopeStep
<1>4. CASE /\ o \in Connects /\ SetStatus(s, FreshStatus(p, "config", NoScope))
           /\ Wait(p, "connecting", s)
  <2>1. FreshStatus(p, "config", NoScope) \in Status /\ FreshStatus(p, "config", NoScope) # None
    BY <1>4, FreshType, NoScopeType
  <2>2. status'[s] = FreshStatus(p, "config", NoScope) /\ \A r \in Server \ {s} : status'[r] = status[r]
    BY <1>4 DEF SetStatus, PoolType
  <2>3. Static(s)' /\ status'[s].by = p
    BY <2>1, <2>2 DEF Static, FreshStatus
  <2>4. pc'[p] = "connecting"
    BY <1>4, WaitMoves DEF Waiting
  <2>5. o \notin Sweeps
    BY <1>4 DEF Connects, Sweeps
  <2> QED BY <1>1, <2>2, <2>3, <2>4, <2>5 DEF ScopeStep
<1> QED BY <1>2, <1>3, <1>4 DEF Disconnected

\* disconnect() up to close(): a sweep is through with the server, or at it.
LEMMA DisconnectScopes ==
  ASSUME PoolType, NEW p \in Proc, NEW o \in Methods, NEW s \in Server,
         o \in Connects => p \in Call, Disconnect(p, o, s)
  PROVE  /\ ScopeStep(p, s)
         /\ o \in Sweeps => status'[s] = None \/ (at'[p] = s /\ SameStatus(s))
<1>1. CASE Disconnected(p, o, s)
  BY <1>1, DisconnectedScopes
<1>2. CASE Wait(p, "closing", s) /\ UNCHANGED <<client, status, tools, scoped>>
  <2>1. pc'[p] = "closing" /\ at'[p] = s
    BY <1>2, WaitMoves DEF Waiting
  <2> QED BY <1>2, <2>1 DEF ScopeStep, SameStatus
<1> QED BY <1>1, <1>2 DEF Disconnect

\* connect() up to its first await.
LEMMA ConnectScopes ==
  ASSUME PoolType, NEW p \in Call, NEW o \in Connects, NEW s \in Server, Connect(p, o, s)
  PROVE  ScopeStep(p, s)
<1>0. p \in Proc /\ o \in Methods /\ {"done", "failed"} = Settled
  BY DEF Proc, Methods, Settled
<1>1. FreshStatus(p, "config", NoScope) \in Status /\ FreshStatus(p, "config", NoScope) # None
  BY FreshType, NoScopeType
<1>2. CASE Through(p, o, "done") /\ UNCHANGED <<client, status, tools, scoped>>
  <2>1. pc'[p] \in {"next", "done", "failed"}
    BY <1>0, <1>2, ThroughMoves
  <2> QED BY <1>2, <2>1 DEF ScopeStep, SameStatus
<1>3. CASE Disconnect(p, o, s)
  BY <1>0, <1>3, DisconnectScopes
<1>4. CASE SetStatus(s, FreshStatus(p, "config", NoScope)) /\ UNCHANGED <<client, tools, scoped>>
           /\ pc'[p] \in {"connecting", "next", "done", "failed"}
  <2>1. status'[s] = FreshStatus(p, "config", NoScope) /\ \A r \in Server \ {s} : status'[r] = status[r]
    BY <1>4 DEF SetStatus, PoolType
  <2>2. Static(s)' /\ status'[s].by = p
    BY <1>1, <2>1 DEF Static, FreshStatus
  <2> QED BY <1>4, <2>1, <2>2 DEF ScopeStep
<1>5. Through(p, o, "failed") => pc'[p] \in {"next", "done", "failed"}
  BY <1>0, ThroughMoves
<1>6. Wait(p, "connecting", s) => pc'[p] = "connecting"
  BY <1>0, WaitMoves DEF Waiting
<1> QED BY <1>2, <1>3, <1>4, <1>5, <1>6 DEF Connect

\* Such a step keeps the invariant.
LEMMA ScopeStepKeeps ==
  ASSUME IInv, JInv, PoolType', NEW p \in Proc, NEW s \in Server, ScopeStep(p, s), OthersStay(p),
         UNCHANGED <<scope, late, live>>, spoiled \subseteq spoiled',
         \A q \in Proc \ {p} : {s} \cap About(q) \subseteq spoiled',
         op'[p] # "register", op[p] # "register",
         op'[p] = "deleteSession" => /\ op[p] = "deleteSession" /\ About(p) \ {s} \subseteq About(p)'
                                     /\ status'[s] = None \/ (s \in About(p)' /\ SameStatus(s)),
         op[p] = "deleteSession" => op'[p] = "deleteSession"
  PROVE  JInv'
<1>1. Offered'
  <2> SUFFICES ASSUME NEW x \in Session, NEW r \in scoped'[x] PROVE r \in tools'
    BY DEF Offered
  <2>1. scoped'[x] \subseteq Server
    BY DEF PoolType
  <2>2. r \in scoped[x] => r \in tools
    BY DEF JInv, Offered
  <2> QED BY <2>1, <2>2 DEF ScopeStep
<1>2. Calm(p, {s})
  <2>1. \A r \in Server \ {s} : Untouched(p, r)
    BY DEF ScopeStep, Untouched, SameStatus, Registers
  <2>2. /\ client'[s] \in {client[s], None, p}
        /\ status'[s] # None => \/ status'[s].by = p
                                \/ status[s] # None /\ status'[s].by = status[s].by
    BY DEF ScopeStep, SameStatus
  <2> QED BY <2>1, <2>2 DEF Calm, ScopeStep
<1>3. ASSUME p \in Call, op'[p] = "deleteSession" PROVE Gone(p)'
  <2>1. Gone(p) /\ op[p] = "deleteSession"
    BY <1>3 DEF JInv
  <2>2. ASSUME NEW r \in Server \ spoiled' PROVE Covers(p, r)'
    <3>1. Covers(p, r)
      BY <2>1, <2>2 DEF Gone
    <3>2. CASE r # s
      BY <1>3, <3>1, <3>2 DEF Covers, Dynamic, ScopeStep
    <3>3. CASE r = s /\ status'[s] = None
      BY <3>3 DEF Covers, Dynamic
    <3>4. CASE r = s /\ s \in About(p)'
      BY <3>4 DEF Covers
    <3> QED BY <1>3, <3>2, <3>3, <3>4
  <2>3. ASSUME NEW c \in Call, pc'[c] = "approval", scope'[c].session = scope'[p].session PROVE c \in late'
    <3>1. c # p /\ c \in Proc
      BY <2>3 DEF ScopeStep, Proc
    <3> QED BY <2>1, <2>3, <3>1 DEF Gone, OthersStay
  <2> QED BY <2>1, <2>2, <2>3 DEF Gone
<1>4. p \in Call => /\ One(p)' /\ Gone(p)' /\ pc'[p] # "approval"
  BY <1>3 DEF One, Gone, ScopeStep
<1>5. ASSUME s \notin spoiled' PROVE Matched(s)' /\ Right(s)'
  <2>1. Matched(s) /\ Right(s)
    BY <1>5 DEF JInv
  <2>2. ASSUME NEW c \in Call PROVE ~Registers(c, s)'
    <3>1. CASE c = p
      BY <3>1 DEF Registers
    <3>2. CASE c # p
      <4>1. c \in Proc /\ s # None
        BY NameAssumption DEF Proc
      <4> QED BY <1>5, <3>2, <4>1 DEF Registers, OthersStay, About
    <3> QED BY <3>1, <3>2
  <2>3. CASE client'[s] = None \/ Static(s)'
    BY <2>2, <2>3 DEF Matched, Right, ForSession
  <2>4. CASE SameStatus(s) /\ client'[s] # None
    <3>1. /\ client'[s] = client[s] /\ (s \in tools' <=> s \in tools) /\ client[s] \in Call
          /\ \A y \in Session : s \in scoped'[y] <=> s \in scoped[y]
      BY <2>4 DEF ScopeStep, IInv, TypeOK
    <3>2. /\ Dynamic(s)' <=> Dynamic(s)
          /\ Static(s)' <=> Static(s)
          /\ Dynamic(s) => status'[s].by = status[s].by /\ status'[s].scope = status[s].scope
      BY <2>4 DEF SameStatus, Dynamic, Static
    <3>3. CASE client[s] = p
      BY <2>2, <3>1, <3>3 DEF Matched, Right, ForSession
    <3>4. CASE client[s] # p
      <4>1. pc'[client[s]] = pc[client[s]] /\ op'[client[s]] = op[client[s]]
        BY <3>1, <3>4 DEF OthersStay, Proc
      <4>2. Matched(s)'
        BY <2>1, <2>2, <3>1, <3>2, <4>1 DEF Matched, Has
      <4>3. \A x \in Session : ForSession(s, x)' => ForSession(s, x)
        BY <3>1, <3>2, <4>1 DEF ForSession
      <4> QED BY <2>1, <3>1, <4>2, <4>3 DEF Right
    <3> QED BY <3>3, <3>4
  <2> QED BY <2>3, <2>4 DEF ScopeStep
<1>6. ASSUME s \notin spoiled', NEW d \in Call \ {p}, op[d] = "deleteSession" PROVE Covers(d, s)'
  <2>1. Covers(d, s) /\ About(d)' = About(d)
    BY <1>6 DEF JInv, Gone, OthersStay, About, Proc
  <2>2. Dynamic(s)' => SameStatus(s)
    BY DEF ScopeStep, Dynamic, Static
  <2> QED BY <2>1, <2>2 DEF Covers, SameStatus, Dynamic
<1> QED BY <1>1, <1>2, <1>4, <1>5, <1>6, CalmKeeps

-----------------------------------------------------------------------------
(* One lemma for each kind of step. *)

\* A status that is not replaced.
LEMMA SameWhenUnchanged ==
  ASSUME NEW r, status'[r] = status[r]
  PROVE  SameStatus(r)
BY DEF SameStatus

\* A status that is only marked.
LEMMA MarkMoves ==
  ASSUME PoolType, NEW c, NEW s \in Server, NEW v \in BOOLEAN, Mark(c, s, v)
  PROVE  \A r \in Server : SameStatus(r)
<1>1. CASE status' = status
  BY <1>1 DEF SameStatus
<1>2. CASE status[s] # None /\ status' = [status EXCEPT ![s].connected = v]
  <2>1. /\ status'[s] = [status[s] EXCEPT !.connected = v] /\ status[s] \in Status
        /\ \A r \in Server \ {s} : status'[r] = status[r]
    BY <1>2 DEF PoolType
  <2>2. /\ status'[s] \in Status /\ status'[s].by = status[s].by
        /\ status'[s].scope = status[s].scope /\ status'[s].source = status[s].source
    BY <2>1 DEF Status
  <2>3. SameStatus(s)
    BY <1>2, <2>2, StatusAssumption DEF SameStatus
  <2> QED BY <2>1, <2>3, SameWhenUnchanged
<1> QED BY <1>1, <1>2 DEF Mark

\* No process moves, no server changes.
LEMMA StillScopes ==
  ASSUME IInv, JInv, UNCHANGED <<client, tools, scoped, pc, op, at, todo, want, held, scope, spoiled>>,
         live' \subseteq live, late \subseteq late', \A r \in Server : SameStatus(r)
  PROVE  JInv'
<1>1. Health \in Proc /\ Health \notin Call
  BY NameAssumption DEF Proc
<1>2. Calm(Health, {})
  BY <1>1 DEF Calm, OthersStay, Untouched, Registers
<1>3. Offered'
  BY DEF JInv, Offered
<1> QED BY <1>1, <1>2, <1>3, CalmKeeps, {} \in SUBSET Server

\* A session goes and its servers stay.
LEMMA WebDeleteSessionScopes ==
  ASSUME IInv, JInv, WebDeleteSession
  PROVE  JInv'
BY StillScopes, SameWhenUnchanged DEF WebDeleteSession, poolVars, callVars

\* A server dies.
LEMMA ServerDiesScopes ==
  ASSUME IInv, JInv, ServerDies
  PROVE  JInv'
<1>1. PICK l \in open : Mark(l[1], l[2], FALSE) \/ UNCHANGED status
  BY DEF ServerDies
<1>2. l[2] \in Server /\ PoolType
  BY TypeHalves DEF IInv, TypeOK
<1>3. \A r \in Server : SameStatus(r)
  BY <1>1, <1>2, MarkMoves, SameWhenUnchanged
<1> QED BY <1>3, StillScopes DEF ServerDies, callVars

\* What is known of a call that begins.
LEMMA BeginFinds ==
  ASSUME IInv, JInv, NEW c \in Call, pc[c] = "idle"
  PROVE  /\ c \in Proc /\ op[c] = None /\ About(c) = {} /\ at[c] = None
         /\ \A s \in Server : client[s] # c /\ (status[s] # None => status[s].by # c)
<1>1. c \in Proc /\ Fresh(c) /\ TidyOf(c)
  BY DEF JInv, IInv, Tidy, Proc
<1> QED BY <1>1 DEF Fresh, TidyOf, About, Waiting, Settled

\* A method other than DeleteSession takes a snapshot of servers.
LEMMA SweepScopes ==
  ASSUME IInv, JInv, NEW p \in Proc, NEW o \in Sweeps \ {"deleteSession"}, NEW S, NEW W,
         pc[p] = "idle", Sweep(p, o, S, W),
         UNCHANGED <<client, status, tools, scoped, at, held, scope, live, late>>
  PROVE  JInv'
<1>1. /\ op \in [Proc -> Sweeps \cup Connects \cup {"register", "unregister", None}]
      /\ pc \in [Proc -> Active \cup Settled \cup {"idle"}]
      /\ todo \in [Proc -> SUBSET Server] /\ want \in [Proc -> SUBSET Server]
  BY DEF IInv, TypeOK
<1>2. op'[p] = o /\ pc'[p] = "next" /\ OthersStay(p) /\ spoiled \subseteq spoiled'
  BY <1>1 DEF Sweep, OthersStay, Meet
<1>3. /\ op'[p] # "register" /\ op'[p] # "deleteSession" /\ op[p] # "register"
  <2>1. p \in Call => op[p] = None
    BY BeginFinds
  <2> QED BY <1>2, <2>1, StatusAssumption DEF Sweeps, Proc, IInv, Tidy
<1>4. Calm(p, {})
  BY <1>2, <1>3 DEF Calm, Untouched, SameStatus, Registers
<1>5. Offered'
  BY DEF JInv, Offered
<1>6. One(p)' /\ Gone(p)'
  BY <1>3 DEF One, Gone
<1> QED BY <1>2, <1>4, <1>5, <1>6, CalmKeeps, {} \in SUBSET Server

\* The interval fires.
LEMMA HealthTickScopes ==
  ASSUME IInv, JInv, HealthTick
  PROVE  JInv'
<1> DEFINE S == {s \in Server : Dynamic(s) /\ status[s].connected}
<1>1. CASE UNCHANGED <<op, todo, want, pc, spoiled>>
  BY <1>1, StillScopes, SameWhenUnchanged DEF HealthTick
<1>2. CASE Sweep(Health, "health", S, {})
  <2>1. Health \in Proc /\ "health" \in Sweeps \ {"deleteSession"}
    BY DEF Proc, Sweeps
  <2> QED BY <1>2, <2>1, SweepScopes DEF HealthTick
<1> QED BY <1>1, <1>2 DEF HealthTick

\* A client goes, or the pool is brought in step with the config file.
LEMMA BeginSweepScopes ==
  ASSUME IInv, JInv, NEW c \in Call, DropClient(c) \/ Sync(c)
  PROVE  JInv'
<1>0. c \in Proc /\ {"dropClient", "sync"} \subseteq Sweeps \ {"deleteSession"}
  BY DEF Proc, Sweeps
<1>1. CASE DropClient(c)
  <2>1. PICK S : Sweep(c, "dropClient", S, {})
    BY <1>1 DEF DropClient
  <2>2. pc[c] = "idle" /\ UNCHANGED <<client, status, tools, scoped, at, held, scope, live, late>>
    BY <1>1 DEF DropClient, poolVars
  <2> QED BY <1>0, <2>1, <2>2, SweepScopes
<1>2. CASE Sync(c)
  <2>1. PICK S, W : Sweep(c, "sync", S, W)
    BY <1>2 DEF Sync
  <2>2. pc[c] = "idle" /\ UNCHANGED <<client, status, tools, scoped, at, held, scope, live, late>>
    BY <1>2 DEF Sync, poolVars
  <2> QED BY <1>0, <2>1, <2>2, SweepScopes
<1> QED BY <1>1, <1>2

\* A session is deleted.
LEMMA DeleteSessionScopes ==
  ASSUME IInv, JInv, NEW c \in Call, DeleteSession(c)
  PROVE  JInv'
<1>1. PICK x \in live : /\ live' = live \ {x} /\ scope' = [scope EXCEPT ![c].session = x]
                        /\ late' = late \cup {d \in Call : pc[d] = "approval" /\ scope[d].session = x}
                        /\ Sweep(c, "deleteSession", OfSession(x), {})
  BY DEF DeleteSession
<1>2. /\ pc[c] = "idle" /\ UNCHANGED <<client, status, tools, scoped, at, held>>
      /\ c \in Proc /\ op[c] = None /\ x \in Session
      /\ \A s \in Server : client[s] # c /\ (status[s] # None => status[s].by # c)
  BY <1>1, BeginFinds DEF DeleteSession, poolVars, IInv, TypeOK
<1>3. /\ op \in [Proc -> Sweeps \cup Connects \cup {"register", "unregister", None}]
      /\ pc \in [Proc -> Active \cup Settled \cup {"idle"}] /\ scope \in [Proc -> Scope]
      /\ todo \in [Proc -> SUBSET Server] /\ want \in [Proc -> SUBSET Server]
  BY DEF IInv, TypeOK
<1>4. /\ op'[c] = "deleteSession" /\ pc'[c] = "next" /\ todo'[c] = OfSession(x)
      /\ OthersStay(c) /\ spoiled \subseteq spoiled' /\ scope'[c].session = x
      /\ \A q \in Proc \ {c} : scope'[q] = scope[q]
  BY <1>1, <1>2, <1>3 DEF Sweep, OthersStay, Meet, Scope
<1>5. op[c] \notin {"register", "deleteSession"}
  BY <1>2, StatusAssumption DEF Sweeps
<1>6. Calm(c, {})
  BY <1>1, <1>2, <1>4, <1>5 DEF Calm, Untouched, SameStatus, Registers
<1>7. Gone(c)'
  <2>1. ASSUME NEW s \in Server \ spoiled' PROVE Covers(c, s)'
    BY <1>2, <1>4 DEF Covers, OfSession, About, Dynamic
  <2>2. ASSUME NEW d \in Call, pc'[d] = "approval", scope'[d].session = x PROVE d \in late'
    BY <1>1, <1>4, <2>2 DEF OthersStay, Proc
  <2> QED BY <1>1, <1>2, <1>4, <2>1, <2>2 DEF Gone
<1>8. One(c)' /\ Offered'
  BY <1>2, <1>4 DEF One, JInv, Offered
<1> QED BY <1>2, <1>4, <1>6, <1>7, <1>8, CalmKeeps, {} \in SUBSET Server

\* A call that begins with one server.
LEMMA BeginOnScopes ==
  ASSUME IInv, JInv, PoolType', NEW c \in Call, NEW s \in Server, NEW o \in Connects \cup {"unregister"},
         pc[c] = "idle", op' = [op EXCEPT ![c] = o], Meet(c, {s}), PoolStep(c, o, s), ScopeStep(c, s),
         UNCHANGED <<todo, want, scope, late, live>>
  PROVE  JInv'
<1>1. c \in Proc /\ op \in [Proc -> Sweeps \cup Connects \cup {"register", "unregister", None}]
  BY DEF Proc, IInv, TypeOK
<1>2. op'[c] = o /\ OthersStay(c) /\ o \notin {"register", "deleteSession"}
  BY <1>1 DEF PoolStep, OthersStay, Connects
<1>3. spoiled \subseteq spoiled' /\ \A q \in Proc \ {c} : {s} \cap About(q) \subseteq spoiled'
  BY <1>1, BeginMeets, {s} \in SUBSET Server
<1>4. op[c] \notin {"register", "deleteSession"}
  BY BeginFinds, StatusAssumption DEF Sweeps
<1> QED BY <1>1, <1>2, <1>3, <1>4, ScopeStepKeeps

\* The calls that begin by connecting or disconnecting.
LEMMA BeginServerScopes ==
  ASSUME IInv, JInv, NEW c \in Call, ConnectAll(c) \/ Reconnect(c) \/ Unregister(c)
  PROVE  JInv'
<1>0. PoolType /\ c \in Proc /\ {"connect", "reconnect"} \subseteq Connects
      /\ "unregister" \in Methods /\ "unregister" \notin Connects /\ Connects \subseteq Methods
  BY TypeHalves DEF IInv, Proc, Connects, Methods
<1>1. CASE ConnectAll(c)
  <2>1. PICK s \in Server : /\ op' = [op EXCEPT ![c] = "connect"]
                            /\ Meet(c, {s}) /\ Connect(c, "connect", s)
    BY <1>1 DEF ConnectAll, IInv, TypeOK
  <2>2. pc[c] = "idle" /\ UNCHANGED <<todo, want, scope, late, live>>
    BY <1>1 DEF ConnectAll
  <2>3. PoolStep(c, "connect", s) /\ ScopeStep(c, s) /\ PoolType'
    BY <1>0, <2>1, ConnectMoves, ConnectScopes DEF PoolStep
  <2> QED BY <1>0, <2>1, <2>2, <2>3, BeginOnScopes
<1>2. CASE Reconnect(c)
  <2>1. PICK s \in Server : /\ op' = [op EXCEPT ![c] = "reconnect"]
                            /\ Meet(c, {s}) /\ Connect(c, "reconnect", s)
    BY <1>2 DEF Reconnect
  <2>2. pc[c] = "idle" /\ UNCHANGED <<todo, want, scope, late, live>>
    BY <1>2 DEF Reconnect
  <2>3. PoolStep(c, "reconnect", s) /\ ScopeStep(c, s) /\ PoolType'
    BY <1>0, <2>1, ConnectMoves, ConnectScopes DEF PoolStep
  <2> QED BY <1>0, <2>1, <2>2, <2>3, BeginOnScopes
<1>3. CASE Unregister(c)
  <2>1. PICK s \in Server : /\ op' = [op EXCEPT ![c] = "unregister"]
                            /\ Meet(c, {s}) /\ Disconnect(c, "unregister", s)
    BY <1>3 DEF Unregister
  <2>2. pc[c] = "idle" /\ UNCHANGED <<todo, want, scope, late, live>>
    BY <1>3 DEF Unregister
  <2>3. PoolStep(c, "unregister", s) /\ ScopeStep(c, s) /\ PoolType'
    BY <1>0, <2>1, DisconnectMoves, DisconnectScopes DEF PoolStep
  <2> QED BY <1>0, <2>1, <2>2, <2>3, BeginOnScopes
<1> QED BY <1>1, <1>2, <1>3

\* A server is registered.
LEMMA RegisterScopes ==
  ASSUME IInv, JInv, NEW c \in Call, Register(c)
  PROVE  JInv'
<1>1. PICK s \in Server, sc \in Scope :
        /\ op' = [op EXCEPT ![c] = "register"] /\ scope' = [scope EXCEPT ![c] = sc]
        /\ late' = IF sc.session \in live \cup {None} THEN late ELSE late \cup {c}
        /\ client[s] = None
        /\ \/ /\ SetStatus(s, FreshStatus(c, "dynamic", sc)) /\ Meet(c, {s})
              /\ Through(c, "register", "failed")
           \/ Through(c, "register", "failed") /\ UNCHANGED <<status, spoiled>>
           \/ Meet(c, {s}) /\ Wait(c, "approval", s) /\ UNCHANGED <<status, held>>
           \/ /\ Meet(c, {s}) /\ SetStatus(s, FreshStatus(c, "dynamic", sc))
              /\ Wait(c, "connecting", s) /\ UNCHANGED held
  BY DEF Register
<1>2. /\ pc[c] = "idle" /\ UNCHANGED <<client, tools, scoped, live, todo, want>>
      /\ PoolType /\ RestType /\ c \in Proc /\ op[c] = None /\ at[c] = None
      /\ \A r \in Server : client[r] # c /\ (status[r] # None => status[r].by # c)
  BY TypeHalves, BeginFinds DEF Register, IInv
<1>3. /\ op'[c] = "register" /\ scope'[c] = sc /\ late \subseteq late'
      /\ \A q \in Proc \ {c} : /\ op'[q] = op[q] /\ scope'[q] = scope[q]
                               /\ todo'[q] = todo[q] /\ want'[q] = want[q]
  BY <1>1, <1>2 DEF RestType
<1>4. /\ \A q \in Proc \ {c} : pc'[q] = pc[q] /\ at'[q] = at[q] /\ held'[q] = held[q]
      /\ \/ at'[c] = None /\ pc'[c] = "failed"
         \/ at'[c] = s /\ pc'[c] = "approval"
         \/ at'[c] = s /\ pc'[c] = "connecting" /\ SetStatus(s, FreshStatus(c, "dynamic", sc))
  <2>1. "register" \notin Loops
    BY DEF Loops, Sweeps
  <2> QED BY <1>1, <1>2, <2>1 DEF Through, Wait, PoolType
<1>5. /\ spoiled \subseteq spoiled'
      /\ at'[c] = s => \A q \in Proc \ {c} : {s} \cap About(q) \subseteq spoiled'
  <2>1. CASE Meet(c, {s})
    BY <1>2, <2>1, BeginMeets, {s} \in SUBSET Server
  <2>2. CASE Through(c, "register", "failed") /\ UNCHANGED <<status, spoiled>>
    <3>1. at'[c] = None
      BY <1>2, <2>2 DEF Through, PoolType
    <3> QED BY <2>2, <3>1, NameAssumption
  <2> QED BY <1>1, <2>1, <2>2
<1>6. \/ status' = status
      \/ /\ SetStatus(s, FreshStatus(c, "dynamic", sc)) /\ Meet(c, {s})
         /\ status'[s] = FreshStatus(c, "dynamic", sc) /\ \A r \in Server \ {s} : status'[r] = status[r]
  BY <1>1, <1>2 DEF SetStatus, PoolType
<1>7. FreshStatus(c, "dynamic", sc) \in Status /\ FreshStatus(c, "dynamic", sc) # None
  BY FreshType
<1>8. OthersStay(c)
  BY <1>3, <1>4 DEF OthersStay
<1>9. Calm(c, {s})
  <2>1. \A r \in Server \ {s} : Untouched(c, r)
    BY <1>2, <1>4, <1>6, NameAssumption DEF Untouched, SameStatus, Registers
  <2>2. status'[s] # None => status'[s].by = c \/ (status[s] # None /\ status'[s].by = status[s].by)
    BY <1>6 DEF FreshStatus
  <2> QED BY <1>1, <1>2, <1>3, <1>4, <1>5, <1>8, <2>1, <2>2 DEF Calm
<1>10. One(c)' /\ Gone(c)' /\ Offered'
  <2>1. "register" # "deleteSession"
    OBVIOUS
  <2> QED BY <1>2, <1>3, <2>1 DEF One, Gone, JInv, Offered
<1>11. ASSUME NEW d \in Call \ {c}, op[d] = "deleteSession", scope[d].session = sc.session PROVE c \in late'
  <2>1. sc.session \in Session \ live
    BY <1>11 DEF JInv, Gone
  <2> QED BY <1>1, <2>1, NameAssumption
<1>12. ASSUME s \notin spoiled' PROVE Matched(s)' /\ Right(s)'
  <2>1. client'[s] = None
    BY <1>1, <1>2
  <2>2. ASSUME NEW b \in Call, Registers(b, s)' PROVE Has(b, s)'
    <3>1. CASE b = c
      <4>1. SetStatus(s, FreshStatus(c, "dynamic", sc))
        BY <1>4, <2>2, <3>1, NameAssumption DEF Registers
      <4>2. status'[s] = FreshStatus(c, "dynamic", sc)
        BY <1>2, <4>1 DEF SetStatus, PoolType
      <4> QED BY <1>3, <1>7, <3>1, <4>2 DEF Has, Dynamic, FreshStatus
    <3>2. CASE b # c
      <4>1. b \in Proc /\ at[b] = s /\ s # None /\ Registers(b, s) /\ scope'[b] = scope[b]
        BY <1>3, <1>4, <2>2, <3>2, NameAssumption DEF Registers, Proc
      <4>2. s \in About(b)
        BY <4>1 DEF About
      <4>3. status' = status
        <5>1. Meet(c, {s}) => s \in spoiled'
          BY <3>2, <4>1, <4>2 DEF Meet
        <5> QED BY <1>6, <1>12, <5>1
      <4>4. Has(b, s)
        BY <1>5, <1>12, <4>1 DEF JInv, Matched
      <4> QED BY <4>1, <4>3, <4>4 DEF Has, Dynamic
    <3> QED BY <3>1, <3>2
  <2> QED BY <2>1, <2>2 DEF Matched, Right, ForSession
<1>13. ASSUME s \notin spoiled', NEW d \in Call \ {c}, op[d] = "deleteSession" PROVE Covers(d, s)'
  <2>1. Covers(d, s) /\ About(d)' = About(d) /\ scope'[d] = scope[d]
    BY <1>3, <1>5, <1>8, <1>13 DEF JInv, Gone, OthersStay, About, Proc
  <2>2. CASE status' = status
    BY <1>3, <2>1, <2>2 DEF Covers, Dynamic
  <2>3. CASE status'[s] = FreshStatus(c, "dynamic", sc)
    BY <1>11, <1>13, <2>1, <2>3 DEF Covers, FreshStatus
  <2> QED BY <1>6, <2>2, <2>3
<1>14. {s} \in SUBSET Server
  OBVIOUS
<1> QED BY <1>2, <1>3, <1>9, <1>10, <1>11, <1>12, <1>13, <1>14, CalmKeeps

\* A step of c, in the middle of connecting to s, keeps the invariant if it does
\* for s and for the registration.
LEMMA ConnectingKeeps ==
  ASSUME IInv, JInv, NEW c \in Call, NEW s \in Server, at[c] = s, s # None,
         pc[c] \in {"approval", "connecting", "listing"},
         pc'[c] \in {"connecting", "listing", "next", "done", "failed"}, at'[c] \in {s, None},
         at'[c] = s => pc'[c] \in {"connecting", "listing"},
         at'[c] = None => pc'[c] \in {"next", "done", "failed"},
         OthersStay(c), UNCHANGED <<op, scope, late, live, spoiled>>, Offered',
         \A r \in Server \ {s} : /\ client'[r] = client[r] /\ status'[r] = status[r]
                                 /\ r \in tools' <=> r \in tools
                                 /\ \A y \in Session : r \in scoped'[y] <=> r \in scoped[y],
         client'[s] \in {client[s], c},
         client'[s] = c => client[s] = c \/ (pc'[c] = "listing" /\ at'[c] = s),
         at'[c] = s /\ client'[s] = c => pc'[c] = "listing",
         op[c] = "register" => pc'[c] # "next",
         \/ SameStatus(s)
         \/ status'[s] = None
         \/ /\ status'[s] # None /\ status'[s].by = c /\ pc[c] = "approval"
            /\ status'[s].scope = scope[c],
         s \notin spoiled => Matched(s)' /\ Right(s)'
  PROVE  JInv'
<1>1. /\ c \in Proc /\ op[c] \in Connects \cup {"register"} /\ One(c)
      /\ op[c] # "deleteSession"
  <2>1. c \in Proc
    BY DEF Proc
  <2>2. op[c] \in Connects \cup {"register"}
    BY <2>1 DEF IInv, Tidy, TidyOf
  <2> QED BY <2>1, <2>2 DEF JInv, Connects
<1>2. op[c] = "register" => \A r \in Server \ {s} : client[r] # c
  BY <1>1 DEF One
<1>3. Calm(c, {s})
  <2>1. \A r \in Server \ {s} : Untouched(c, r)
    BY <1>2, NameAssumption DEF Untouched, SameStatus, Registers
  <2>2. status'[s] # None => status'[s].by = c \/ (status[s] # None /\ status'[s].by = status[s].by)
    BY DEF SameStatus
  <2> QED BY <2>1, <2>2 DEF Calm
<1>4. One(c)'
  <2>1. ASSUME op[c] = "register", NEW r \in Server, client'[r] = c
        PROVE  pc'[c] \in {"listing", "done", "failed"} /\ at'[c] \in {r, None}
    <3>1. r = s
      BY <1>2, <2>1
    <3>2. CASE at'[c] = s
      BY <2>1, <3>1, <3>2
    <3>3. CASE at'[c] = None
      BY <2>1, <3>1, <3>3
    <3> QED BY <3>2, <3>3
  <2> QED BY <2>1 DEF One
<1>5. Gone(c)' /\ pc'[c] # "approval"
  BY <1>1 DEF Gone
<1>6. ASSUME s \notin spoiled', NEW d \in Call \ {c}, op[d] = "deleteSession" PROVE Covers(d, s)'
  <2>1. Gone(d) /\ About(d)' = About(d)
    BY <1>6 DEF JInv, OthersStay, About, Proc
  <2>2. Covers(d, s)
    BY <1>6, <2>1 DEF Gone
  <2>3. CASE SameStatus(s)
    BY <2>1, <2>2, <2>3 DEF Covers, Dynamic, SameStatus
  <2>4. CASE status'[s] = None
    BY <2>4 DEF Covers, Dynamic
  <2>5. CASE status'[s].by = c /\ pc[c] = "approval" /\ status'[s].scope = scope[c]
    BY <1>6, <2>1, <2>5 DEF Covers, Gone
  <2> QED BY <2>3, <2>4, <2>5
<1>7. {s} \in SUBSET Server
  OBVIOUS
<1> QED BY <1>1, <1>3, <1>4, <1>5, <1>6, <1>7, CalmKeeps

\* Nobody else registers the server that c is about.
LEMMA NobodyElse ==
  ASSUME IInv, NEW c \in Call, NEW s \in Server \ spoiled, at[c] = s, s # None, OthersStay(c),
         NEW b \in Call \ {c}
  PROVE  ~Registers(b, s)'
<1>1. b \in Proc /\ c \in Proc /\ at'[b] = at[b]
  BY DEF Proc, OthersStay
<1>2. s \in About(c)
  BY DEF About
<1>3. at[b] = s => s \in About(b)
  BY DEF About
<1> QED BY <1>1, <1>2, <1>3 DEF Registers, IInv, Alone

\* What a process gets when it is through, or waits.
LEMMA MovesOn ==
  ASSUME PoolType, NEW c \in Call, NEW o, NEW out \in Settled, Through(c, o, out)
  PROVE  /\ at'[c] = None /\ pc'[c] = IF o \in Loops THEN "next" ELSE out
         /\ \A q \in Proc \ {c} : pc'[q] = pc[q] /\ at'[q] = at[q] /\ held'[q] = held[q]
BY DEF Through, PoolType, Proc

\* The approval is given or refused.
LEMMA DecideScopes ==
  ASSUME IInv, JInv, NEW c \in Call, Decide(c)
  PROVE  JInv'
<1>0. PICK s \in Server : at[c] = s /\ s # None
  <2>1. pc[c] = "approval" /\ TidyOf(c) /\ at[c] \in Server \cup {None}
    BY DEF Decide, IInv, Tidy, TypeOK, Proc
  <2> QED BY <2>1 DEF TidyOf, Waiting
<1>1. /\ c \in Proc /\ pc[c] = "approval" /\ PoolType /\ RestType /\ TidyOf(c) /\ KnowsOf(c)
      /\ UNCHANGED <<client, tools, scoped, live, op, todo, want, scope, spoiled, late>>
  BY TypeHalves DEF Decide, Proc, IInv, Tidy, Known
<1>2. /\ op[c] = "register" /\ op[c] \notin Loops /\ scope[c] \in Scope
      /\ s \notin spoiled => client[s] = None
  <2>1. op[c] = "register"
    BY <1>1 DEF TidyOf
  <2>2. op[c] \notin Loops
    BY <2>1 DEF Loops, Sweeps
  <2> QED BY <1>0, <1>1, <2>1, <2>2 DEF RestType, KnowsOf, Knows
<1>3. \/ /\ SetStatus(s, FreshStatus(c, "dynamic", scope[c]))
         /\ Wait(c, "connecting", s) /\ UNCHANGED held
      \/ Through(c, op[c], "failed") /\ UNCHANGED status
  BY <1>0 DEF Decide
<1>4. /\ OthersStay(c) /\ \A r \in Server \ {s} : status'[r] = status[r]
      /\ \/ at'[c] = None /\ pc'[c] = "failed" /\ status' = status
         \/ at'[c] = s /\ pc'[c] = "connecting" /\ status'[s] = FreshStatus(c, "dynamic", scope[c])
  <2>1. "connecting" \in Waiting /\ "failed" \in Settled
    BY DEF Waiting, Settled
  <2>2. CASE Through(c, op[c], "failed") /\ UNCHANGED status
    BY <1>1, <1>2, <2>1, <2>2, MovesOn DEF OthersStay
  <2>3. CASE /\ SetStatus(s, FreshStatus(c, "dynamic", scope[c]))
             /\ Wait(c, "connecting", s) /\ UNCHANGED held
    BY <1>0, <1>1, <1>2, <2>1, <2>3, WaitMoves DEF OthersStay, SetStatus, PoolType
  <2> QED BY <1>3, <2>2, <2>3
<1>5. FreshStatus(c, "dynamic", scope[c]) # None
  BY <1>2, FreshType
<1>6. \/ SameStatus(s)
      \/ status'[s] # None /\ status'[s].by = c /\ status'[s].scope = scope[c]
  BY <1>4, <1>5 DEF SameStatus, FreshStatus
<1>7. ASSUME s \notin spoiled PROVE Matched(s)' /\ Right(s)'
  <2>1. client'[s] = None
    BY <1>1, <1>2, <1>7
  <2>2. \A b \in Call \ {c} : ~Registers(b, s)'
    BY <1>0, <1>4, <1>7, NobodyElse
  <2>3. Registers(c, s)' => Has(c, s)'
    BY <1>1, <1>2, <1>4, <1>5 DEF Registers, Has, Dynamic, FreshStatus
  <2> QED BY <2>1, <2>2, <2>3 DEF Matched, Right, ForSession
<1>8. Offered'
  BY <1>1 DEF JInv, Offered
<1>9. client'[s] = c => client[s] = c
  BY <1>1
<1>10. ~(at'[c] = s /\ client'[s] = c)
  <2>1. One(c) /\ op[c] = "register" /\ client' = client
    BY <1>1, <1>2 DEF JInv
  <2> QED BY <1>1, <1>2, <2>1 DEF One
<1> QED BY <1>0, <1>1, <1>2, <1>4, <1>6, <1>7, <1>8, <1>9, <1>10, NameAssumption, ConnectingKeeps

\* A connect fails.
LEMMA GiveUpScopes ==
  ASSUME IInv, JInv, NEW c \in Call, pc[c] \in {"connecting", "listing"}, GiveUp(c),
         UNCHANGED <<op, todo, want, scope, late, live, spoiled>>
  PROVE  JInv'
<1>0. PICK s \in Server : at[c] = s /\ s # None
  BY AnswerFinds
<1>1. /\ c \in Proc
      /\ s \notin spoiled => Knows(c, s)
      /\ PoolType /\ UNCHANGED <<client, tools, scoped>>
  BY <1>0, AnswerFinds, TypeHalves DEF IInv, GiveUp
<1>2. /\ status' = IF op[c] = "register" THEN [status EXCEPT ![s] = None] ELSE status
      /\ Through(c, op[c], "failed")
  BY <1>0 DEF GiveUp, SetStatus
<1>4. /\ \A r \in Server \ {s} : status'[r] = status[r]
      /\ SameStatus(s) \/ status'[s] = None
  BY <1>1, <1>2 DEF PoolType, SameStatus
<1>5. OthersStay(c) /\ at'[c] = None /\ pc'[c] = IF op[c] \in Loops THEN "next" ELSE "failed"
  <2>1. "failed" \in Settled
    BY DEF Settled
  <2> QED BY <1>1, <1>2, <2>1, MovesOn DEF OthersStay
<1>6. op[c] = "register" => pc'[c] = "failed"
  BY <1>5 DEF Loops, Sweeps
<1>7. ASSUME s \notin spoiled PROVE Matched(s)' /\ Right(s)'
  <2>1. \A b \in Call : ~Registers(b, s)'
    <3>1. ~Registers(c, s)'
      BY <1>5 DEF Registers
    <3>2. \A b \in Call \ {c} : ~Registers(b, s)'
      BY <1>0, <1>5, <1>7, NobodyElse
    <3> QED BY <3>1, <3>2
  <2>2. \/ client'[s] = None
        \/ client'[s] = c /\ op'[c] # "register"
        \/ client'[s] = c /\ pc'[c] = "failed" /\ s \notin tools'
    BY <1>1, <1>6, <1>7 DEF Knows
  <2> QED BY <2>1, <2>2 DEF Matched, Right, ForSession
<1>8. Offered'
  BY <1>1 DEF JInv, Offered
<1> QED BY <1>0, <1>1, <1>4, <1>5, <1>6, <1>7, <1>8, NameAssumption, ConnectingKeeps

\* createMCPClient() returns.
LEMMA EstablishedScopes ==
  ASSUME IInv, JInv, NEW c \in Call, Established(c)
  PROVE  JInv'
<1>0. PICK s \in Server : at[c] = s /\ s # None
  BY AnswerFinds DEF Established
<1>1. CASE GiveUp(c)
  BY <1>1, GiveUpScopes DEF Established
<1>2. CASE /\ client' = [client EXCEPT ![s] = c] /\ Mark(c, s, TRUE) /\ Wait(c, "listing", s)
           /\ UNCHANGED <<tools, scoped, held>>
  <2>1. /\ c \in Proc /\ pc[c] = "connecting" /\ PoolType
        /\ UNCHANGED <<op, todo, want, scope, late, live, spoiled>>
        /\ s \notin spoiled => client[s] = None
    BY <1>0, AnswerFinds, TypeHalves DEF Established, IInv, Knows
  <2>2. /\ client'[s] = c /\ \A r \in Server \ {s} : client'[r] = client[r] /\ status'[r] = status[r]
        /\ SameStatus(s)
    BY <1>2, <2>1, MarkMoves DEF PoolType, Mark
  <2>3. OthersStay(c) /\ at'[c] = s /\ pc'[c] = "listing"
    <3>1. "listing" \in Waiting
      BY DEF Waiting
    <3> QED BY <1>2, <2>1, <3>1, WaitMoves DEF OthersStay
  <2>4. ASSUME s \notin spoiled PROVE Matched(s)' /\ Right(s)'
    <3>1. \A b \in Call \ {c} : ~Registers(b, s)'
      BY <1>0, <2>3, <2>4, NobodyElse
    <3>2. op[c] = "register" => Has(c, s)'
      <4>1. op[c] = "register" => Has(c, s)
        BY <1>0, <2>1, <2>4 DEF JInv, Matched, Registers
      <4> QED BY <2>1, <2>2, <4>1 DEF Has, Dynamic, SameStatus
    <3>3. s \notin tools'
      BY <1>2, <2>1, <2>4, Clientless
    <3>4. Registers(c, s)' => op[c] = "register"
      BY <2>1 DEF Registers
    <3> QED BY <2>1, <2>2, <2>3, <3>1, <3>2, <3>3, <3>4 DEF Matched, Right
  <2>5. Offered'
    BY <1>2 DEF JInv, Offered
  <2> QED BY <1>0, <1>2, <2>1, <2>2, <2>3, <2>4, <2>5, NameAssumption, ConnectingKeeps
<1> QED BY <1>0, <1>1, <1>2 DEF Established

\* listTools() returns.
LEMMA ListedScopes ==
  ASSUME IInv, JInv, NEW c \in Call, Listed(c)
  PROVE  JInv'
<1>0. PICK s \in Server : at[c] = s /\ s # None
  BY AnswerFinds DEF Listed
<1>1. CASE GiveUp(c)
  BY <1>1, GiveUpScopes DEF Listed
<1>2. CASE /\ tools' = tools \cup {s}
           /\ scoped' = [x \in Session |-> IF x = ScopeOf(s) THEN scoped[x] \cup {s} ELSE scoped[x]]
           /\ Through(c, op[c], "done") /\ UNCHANGED <<client, status>>
  <2>1. /\ c \in Proc /\ pc[c] = "listing" /\ PoolType
        /\ UNCHANGED <<op, todo, want, scope, late, live, spoiled>>
        /\ s \notin spoiled => client[s] = c /\ (op[c] = "register" => s \notin tools)
    BY <1>0, AnswerFinds, TypeHalves DEF Listed, IInv, Knows
  <2>2. OthersStay(c) /\ at'[c] = None /\ pc'[c] = IF op[c] \in Loops THEN "next" ELSE "done"
    <3>1. "done" \in Settled
      BY DEF Settled
    <3> QED BY <1>2, <2>1, <3>1, MovesOn DEF OthersStay
  <2>3. op[c] = "register" => pc'[c] = "done"
    BY <2>2 DEF Loops, Sweeps
  <2>4. /\ \A r \in Server \ {s} : /\ (r \in tools' <=> r \in tools)
                                  /\ \A y \in Session : r \in scoped'[y] <=> r \in scoped[y]
        /\ \A y \in Session : s \in scoped'[y] <=> s \in scoped[y] \/ y = ScopeOf(s)
    BY <1>2
  <2>5. Offered'
    BY <1>2 DEF JInv, Offered
  <2>6. ASSUME s \notin spoiled PROVE Matched(s)' /\ Right(s)'
    <3>1. \A b \in Call : ~Registers(b, s)'
      <4>1. ~Registers(c, s)'
        BY <2>2 DEF Registers
      <4>2. \A b \in Call \ {c} : ~Registers(b, s)'
        BY <1>0, <2>2, <2>6, NobodyElse
      <4> QED BY <4>1, <4>2
    <3>2. CASE op[c] = "register"
      <4>1. Has(c, s)
        BY <1>0, <2>1, <2>6, <3>2 DEF JInv, Matched, Registers
      <4>2. Has(c, s)' /\ client'[s] = c /\ pc'[c] = "done" /\ op'[c] = "register"
        BY <1>2, <2>1, <2>3, <2>6, <3>2, <4>1 DEF Has, Dynamic
      <4>3. \A y \in Session : s \in scoped'[y] <=> y = scope[c].session
        <5>1. ScopeOf(s) = scope[c].session
          BY <4>1 DEF ScopeOf, Has
        <5>2. \A y \in Session : s \notin scoped[y]
          BY <2>1, <2>6, <3>2 DEF JInv, Offered
        <5> QED BY <2>4, <5>1, <5>2
      <4>4. Matched(s)'
        BY <3>1, <4>2 DEF Matched
      <4>5. \A x \in Session : ForSession(s, x)' => scope[c].session = x
        BY <2>1, <4>2 DEF ForSession
      <4> QED BY <4>3, <4>4, <4>5 DEF Right
    <3>3. CASE op[c] # "register"
      <4>1. client'[s] = c /\ op'[c] # "register"
        BY <1>2, <2>1, <2>6, <3>3
      <4> QED BY <3>1, <4>1 DEF Matched, Right, ForSession
    <3> QED BY <3>2, <3>3
  <2> QED BY <1>0, <1>2, <2>1, <2>2, <2>3, <2>4, <2>5, <2>6, NameAssumption, SameWhenUnchanged, ConnectingKeeps
<1> QED BY <1>0, <1>1, <1>2 DEF Listed

\* A process moves and no server changes.
LEMMA QuietScopes ==
  ASSUME IInv, JInv, NEW p \in Proc, OthersStay(p), pc[p] \in {"next", "probing"},
         pc'[p] \in {"next", "probing", "done", "idle"}, p \in Call => pc'[p] # "idle",
         "deleteSession" \notin {op[p], op'[p]}, op'[p] = "register" <=> op[p] = "register",
         UNCHANGED <<client, status, tools, scoped, scope, late, live, spoiled>>
  PROVE  JInv'
<1>1. op[p] = "register" => \A r \in Server : client[r] # p
  <2>1. p \in Call => One(p)
    BY DEF JInv
  <2>2. op[p] = "register" => p \in Call
    BY DEF IInv, Tidy, Proc
  <2> QED BY <2>1, <2>2 DEF One
<1>2. Calm(p, {})
  BY <1>1 DEF Calm, Untouched, SameStatus, Registers
<1>3. Offered'
  BY DEF JInv, Offered
<1>4. One(p)' /\ Gone(p)' /\ pc'[p] # "approval"
  <2>1. One(p)'
    BY <1>1 DEF One
  <2>2. Gone(p)' /\ pc'[p] # "approval"
    BY DEF Gone
  <2> QED BY <2>1, <2>2
<1> QED BY <1>2, <1>3, <1>4, CalmKeeps, {} \in SUBSET Server

\* close() returns.
LEMMA ClosedScopes ==
  ASSUME IInv, JInv, NEW p \in Proc, Closed(p)
  PROVE  JInv'
<1>0. PICK s \in Server : at[p] = s /\ s # None
  <2>1. pc[p] = "closing" /\ TidyOf(p) /\ at[p] \in Server \cup {None}
    BY DEF Closed, IInv, Tidy, TypeOK
  <2> QED BY <2>1 DEF TidyOf, Waiting
<1>1. /\ PoolType /\ Disconnected(p, op[p], s) /\ spoiled \subseteq spoiled'
      /\ UNCHANGED <<live, op, todo, want, scope, late>> /\ s \in About(p)
  BY <1>0, TypeHalves DEF Closed, IInv, About
<1>2. op[p] \in Methods /\ (op[p] \in Connects => p \in Call) /\ op[p] # "register"
  BY <1>1 DEF Disconnected, Methods, Proc, IInv, Tidy, Connects, Sweeps
<1>3. /\ PoolStep(p, op[p], s) /\ ScopeStep(p, s)
      /\ op[p] \in Sweeps => status'[s] = None
  BY <1>1, <1>2, DisconnectedMoves, DisconnectedScopes
<1>4. OthersStay(p) /\ PoolType'
  BY <1>1, <1>3 DEF PoolStep, OthersStay
<1>5. \A q \in Proc \ {p} : {s} \cap About(q) \subseteq spoiled'
  BY <1>1 DEF IInv, Alone
<1>6. op[p] = "deleteSession" => status'[s] = None /\ About(p) \ {s} \subseteq About(p)'
  BY <1>0, <1>1, <1>3 DEF Sweeps, About
<1> QED BY <1>1, <1>2, <1>3, <1>4, <1>5, <1>6, ScopeStepKeeps

\* A loop turns to the next server.
LEMMA NextServerScopes ==
  ASSUME IInv, JInv, NEW p \in Proc, NextServer(p)
  PROVE  JInv'
<1>1. PICK s \in todo[p] :
        /\ todo' = [todo EXCEPT ![p] = @ \ {s}]
        /\ \/ op[p] \in {"sync", "syncUp", "health"} /\ Skip(p)
           \/ op[p] \in Sweeps \ {"health"} /\ Disconnect(p, op[p], s)
           \/ /\ op[p] = "health" /\ Wait(p, "probing", s)
              /\ held' = [held EXCEPT ![p] = client[s]]
              /\ UNCHANGED <<client, status, tools, scoped>>
           \/ op[p] = "syncUp" /\ Connect(p, op[p], s)
  BY DEF NextServer, Spared
<1>2. /\ PoolType /\ RestType /\ TidyOf(p) /\ pc[p] = "next" /\ op[Health] = "health"
      /\ UNCHANGED <<live, op, want, scope, spoiled, late>>
  BY TypeHalves DEF NextServer, IInv, Tidy
<1>3. /\ s \in Server /\ s # None /\ s \in About(p) /\ at[p] = None
      /\ todo'[p] = todo[p] \ {s} /\ \A q \in Proc \ {p} : todo'[q] = todo[q]
  BY <1>1, <1>2, NameAssumption DEF RestType, About, TidyOf, Waiting
<1>4. \A q \in Proc \ {p} : {s} \cap About(q) \subseteq spoiled'
  BY <1>2, <1>3 DEF IInv, Alone
<1>5. CASE op[p] \in {"sync", "syncUp", "health"} /\ Skip(p)
  <2>1. OthersStay(p) /\ pc'[p] = "next"
    BY <1>2, <1>3, <1>5 DEF Skip, OthersStay
  <2> QED BY <1>2, <1>5, <2>1, QuietScopes DEF Skip
<1>6. CASE op[p] \in Sweeps \ {"health"} /\ Disconnect(p, op[p], s)
  <2>1. op[p] \in Methods /\ op[p] \notin Connects /\ op[p] # "register"
    BY <1>6 DEF Methods, Sweeps, Connects
  <2>2. /\ PoolStep(p, op[p], s) /\ ScopeStep(p, s)
        /\ status'[s] = None \/ (at'[p] = s /\ SameStatus(s))
    BY <1>2, <1>3, <1>6, <2>1, DisconnectMoves, DisconnectScopes
  <2>3. OthersStay(p) /\ PoolType'
    BY <1>2, <1>3, <2>2 DEF PoolStep, OthersStay
  <2>4. About(p) \ {s} \subseteq About(p)' /\ (at'[p] = s => s \in About(p)')
    BY <1>2, <1>3 DEF About
  <2> QED BY <1>2, <1>3, <1>4, <2>1, <2>2, <2>3, <2>4, ScopeStepKeeps
<1>7. CASE /\ op[p] = "health" /\ Wait(p, "probing", s)
           /\ held' = [held EXCEPT ![p] = client[s]]
           /\ UNCHANGED <<client, status, tools, scoped>>
  <2>1. "probing" \in Waiting
    BY DEF Waiting
  <2>2. pc'[p] = "probing" /\ \A q \in Proc \ {p} : pc'[q] = pc[q] /\ at'[q] = at[q]
    BY <1>2, <1>3, <1>7, <2>1, WaitMoves
  <2>3. OthersStay(p)
    BY <1>2, <1>3, <1>7, <2>2 DEF OthersStay, PoolType
  <2>4. p \notin Call \/ pc'[p] # "idle"
    BY <2>2
  <2> QED BY <1>2, <1>7, <2>2, <2>3, <2>4, QuietScopes
<1>8. CASE op[p] = "syncUp" /\ Connect(p, op[p], s)
  <2>1. p \in Call /\ op[p] \in Connects
    BY <1>2, <1>8 DEF Proc, Connects
  <2>2. PoolStep(p, op[p], s) /\ ScopeStep(p, s)
    BY <1>2, <1>3, <1>8, <2>1, ConnectMoves, ConnectScopes
  <2>3. OthersStay(p) /\ PoolType'
    BY <1>2, <1>3, <2>2 DEF PoolStep, OthersStay
  <2> QED BY <1>2, <1>3, <1>4, <1>8, <2>2, <2>3, ScopeStepKeeps
<1> QED BY <1>1, <1>5, <1>6, <1>7, <1>8

\* The health check gets its answer.
LEMMA ProbedScopes ==
  ASSUME IInv, JInv, Probed
  PROVE  JInv'
<1>0. PICK s \in Server : at[Health] = s /\ s # None
  <2>1. pc[Health] = "probing" /\ TidyOf(Health) /\ at[Health] \in Server \cup {None}
    BY DEF Probed, IInv, Tidy, TypeOK, Proc
  <2> QED BY <2>1 DEF TidyOf, Waiting
<1>1. /\ PoolType /\ op[Health] = "health" /\ Health \in Proc /\ Health \notin Call
      /\ pc[Health] = "probing" /\ s \in About(Health)
      /\ UNCHANGED <<live, op, todo, want, scope, spoiled, late>>
  BY <1>0, TypeHalves, NameAssumption DEF Probed, IInv, Tidy, Proc, About
<1>2. "health" \in Loops /\ "health" \in Methods /\ "health" \notin Connects /\ "done" \in Settled
  BY DEF Loops, Sweeps, Methods, Connects, Settled
<1>3. CASE Through(Health, "health", "done") /\ UNCHANGED <<client, status, tools, scoped>>
  <2>1. /\ pc'[Health] = "next"
        /\ \A q \in Proc \ {Health} : pc'[q] = pc[q] /\ at'[q] = at[q] /\ held'[q] = held[q]
    BY <1>1, <1>2, <1>3, ThroughMoves
  <2>2. OthersStay(Health)
    BY <1>1, <2>1 DEF OthersStay
  <2> QED BY <1>1, <1>3, <2>1, <2>2, QuietScopes
<1>4. CASE Disconnect(Health, "health", s)
  <2>1. PoolStep(Health, "health", s) /\ ScopeStep(Health, s)
    BY <1>1, <1>2, <1>4, DisconnectMoves, DisconnectScopes
  <2>2. OthersStay(Health) /\ PoolType'
    BY <1>1, <2>1 DEF PoolStep, OthersStay
  <2>3. \A q \in Proc \ {Health} : {s} \cap About(q) \subseteq spoiled'
    BY <1>1 DEF IInv, Alone
  <2> QED BY <1>1, <2>1, <2>2, <2>3, ScopeStepKeeps
<1> QED BY <1>0, <1>3, <1>4 DEF Probed

\* DeleteSession clears what its session had for itself: by then no server that
\* was registered for it alone is left.
LEMMA ClearedRight ==
  ASSUME IInv, JInv, NEW p \in Call, op[p] = "deleteSession", About(p) = {},
         UNCHANGED <<client, status, tools, op, scope, late>>,
         NEW r \in Server \ spoiled, r \in scoped[scope[p].session]
  PROVE  Right(r)'
<1> DEFINE x == scope[p].session
<1>1. /\ x \in Session /\ Covers(p, r) /\ r \in tools /\ Matched(r) /\ Right(r)
  BY DEF JInv, Gone, Offered
<1>2. ASSUME NEW z \in Session, ForSession(r, z), client[r] \notin late PROVE FALSE
  <2>1. z = x
    BY <1>1, <1>2 DEF Right
  <2>2. Has(client[r], r)
    BY <1>1, <1>2 DEF Matched, ForSession
  <2> QED BY <1>1, <1>2, <2>1, <2>2 DEF Covers, Has, ForSession
<1>3. \A z \in Session : ForSession(r, z)' => ForSession(r, z)
  BY DEF ForSession, Static
<1> QED BY <1>2, <1>3 DEF Right

\* A loop is through with its servers.
LEMMA LoopEndScopes ==
  ASSUME IInv, JInv, NEW p \in Proc, LoopEnd(p)
  PROVE  JInv'
<1>1. /\ PoolType /\ RestType /\ TidyOf(p) /\ pc[p] = "next" /\ todo[p] = {} /\ op[Health] = "health"
      /\ UNCHANGED <<client, status, tools, live, at, held, scope, spoiled, late>>
  BY TypeHalves DEF LoopEnd, IInv, Tidy
<1>2. CASE /\ op[p] = "sync" /\ op' = [op EXCEPT ![p] = "syncUp"]
           /\ todo' = [todo EXCEPT ![p] = want[p]] /\ want' = [want EXCEPT ![p] = {}]
           /\ UNCHANGED <<pc, scoped>>
  <2>1. OthersStay(p) /\ op'[p] = "syncUp" /\ pc'[p] = "next"
    BY <1>1, <1>2 DEF OthersStay, RestType
  <2> QED BY <1>1, <1>2, <2>1, QuietScopes
<1>3. CASE /\ op[p] # "sync" /\ pc' = [pc EXCEPT ![p] = IF p = Health THEN "idle" ELSE "done"]
           /\ UNCHANGED <<op, todo, want>>
           /\ scoped' = IF op[p] = "deleteSession"
                        THEN [scoped EXCEPT ![scope[p].session] = {}] ELSE scoped
  <2>1. OthersStay(p) /\ pc'[p] = IF p = Health THEN "idle" ELSE "done"
    BY <1>1, <1>3 DEF OthersStay, PoolType
  <2>2. CASE op[p] # "deleteSession"
    <3>1. p \in Call => p # Health
      BY NameAssumption
    <3> QED BY <1>1, <1>3, <2>1, <2>2, <3>1, QuietScopes
  <2>3. CASE op[p] = "deleteSession"
    <3> DEFINE x == scope[p].session
               S == spoiled \cap scoped[x]
    <3>1. p \in Call /\ p # Health /\ About(p) = {} /\ pc'[p] = "done" /\ About(p)' = {}
      BY <1>1, <1>3, <2>1, <2>3 DEF Proc, TidyOf, About, Waiting
    <3>2. /\ \A y \in Session \ {x} : scoped'[y] = scoped[y]
          /\ \A y \in Session : scoped'[y] = scoped[y] \/ (y = x /\ scoped'[y] = {})
      BY <1>1, <1>3, <2>3 DEF PoolType
    <3>3. Gone(p) /\ x \in Session /\ S \in SUBSET Server
      BY <1>1, <2>3, <3>1 DEF JInv, Gone, RestType
    <3>4. ASSUME NEW r \in Server \ S PROVE Untouched(p, r)
      <4>1. CASE r \in scoped[x]
        <5>1. r \in Server \ spoiled
          BY <3>4, <4>1
        <5>2. Right(r)'
          BY <1>1, <1>3, <2>3, <3>1, <4>1, <5>1, ClearedRight
        <5> QED BY <1>1, <2>1, <2>3, <3>1, <5>2, SameWhenUnchanged DEF Untouched, Registers
      <4>2. CASE r \notin scoped[x]
        <5>1. \A y \in Session : r \in scoped'[y] <=> r \in scoped[y]
          BY <3>2, <4>2
        <5> QED BY <1>1, <2>1, <2>3, <3>1, <5>1, SameWhenUnchanged DEF Untouched, Registers
      <4> QED BY <4>1, <4>2
    <3>5. Calm(p, S)
      BY <1>1, <1>3, <2>1, <2>3, <3>1, <3>4 DEF Calm
    <3>6. Offered'
      BY <1>1, <3>2 DEF JInv, Offered
    <3>7. Gone(p)'
      BY <1>1, <1>3, <2>1, <3>1, <3>3 DEF Gone, Covers, OthersStay, Dynamic, Proc
    <3>8. One(p)' /\ pc'[p] # "approval"
      BY <1>3, <2>3, <3>1 DEF One
    <3>9. S \ spoiled' = {}
      BY <1>1
    <3> HIDE DEF S, x
    <3> QED BY <1>1, <3>1, <3>3, <3>5, <3>6, <3>7, <3>8, <3>9, CalmKeeps
  <2> QED BY <2>2, <2>3
<1> QED BY <1>2, <1>3 DEF LoopEnd

-----------------------------------------------------------------------------
(* The theorems. *)

\* Nothing is registered.
LEMMA InitScopes == Init => JInv
<1> SUFFICES ASSUME Init PROVE JInv
  OBVIOUS
<1>1. ASSUME NEW c \in Call PROVE Fresh(c) /\ One(c) /\ Gone(c)
  <2>1. c \in Proc /\ op[c] = None /\ op[c] \notin {"register", "deleteSession"} /\ c # None
    BY NameAssumption, StatusAssumption DEF Init, Proc, Sweeps
  <2> QED BY <2>1 DEF Fresh, One, Gone, Init
<1>2. \A s \in Server : Matched(s) /\ Right(s)
  BY DEF Init, Matched, Right, Registers, Proc
<1>3. Offered
  BY DEF Init, Offered
<1> QED BY <1>1, <1>2, <1>3 DEF JInv

\* Every step keeps the invariant.
LEMMA StepScopes == IInv /\ JInv /\ [Next]_vars => JInv'
<1> SUFFICES ASSUME IInv, JInv, [Next]_vars PROVE JInv'
  OBVIOUS
<1>1. ASSUME NEW c \in Call, Begin(c) PROVE JInv'
  BY <1>1, BeginServerScopes, BeginSweepScopes, DeleteSessionScopes, RegisterScopes DEF Begin
<1>2. ASSUME NEW p \in Proc, Step(p) PROVE JInv'
  BY <1>2, NextServerScopes, LoopEndScopes, ClosedScopes DEF Step
<1>3. ASSUME NEW c \in Call, CallStep(c) PROVE JInv'
  <2>1. c \in Proc
    BY DEF Proc
  <2> QED BY <1>2, <1>3, <2>1, DecideScopes, EstablishedScopes, ListedScopes DEF CallStep
<1>4. CASE HealthStep
  <2>1. Health \in Proc
    BY DEF Proc
  <2> QED BY <1>2, <1>4, <2>1, ProbedScopes DEF HealthStep
<1>5. CASE UNCHANGED vars
  BY <1>5, StillScopes, SameWhenUnchanged DEF vars, poolVars, callVars
<1> QED BY <1>1, <1>3, <1>4, <1>5, HealthTickScopes, WebDeleteSessionScopes, ServerDiesScopes DEF Next

\* Tools registered for a session are offered in that session alone.
THEOREM ScopesKept == Spec => []ScopedToSession
<1>1. IInv /\ JInv => ScopedToSession
  <2> SUFFICES ASSUME IInv, JInv, NEW s \in Server \ spoiled, NEW x \in Session,
                      NEW y \in Session \cup {None},
                      ForSession(s, x), client[s] \notin late, Visible(s, y)
               PROVE  x = y
    BY DEF ScopedToSession
  <2>1. s \in tools /\ s \in scoped[x]
    BY DEF JInv, Right, Visible
  <2>2. PICK z \in Session \cap {y} : s \in scoped[z]
    BY <2>1 DEF Visible
  <2> QED BY <2>1, <2>2 DEF JInv, Right
<1> QED BY InitInv, StepInv, InitScopes, StepScopes, <1>1, PTL DEF Spec

\* Once DeleteSession returned, the pool has nothing of the servers that were
\* registered for the session while it lived.
THEOREM SessionsCleaned == Spec => []SessionCleaned
<1>1. IInv /\ JInv => SessionCleaned
  <2> SUFFICES ASSUME IInv, JInv, NEW d \in Call, NEW s \in Server \ spoiled,
                      op[d] = "deleteSession", pc[d] = "done"
               PROVE  /\ (Dynamic(s) /\ status[s].scope.session = scope[d].session) => status[s].by \in late
                      /\ (ForSession(s, scope[d].session) /\ pc[client[s]] = "done") => client[s] \in late
    BY DEF SessionCleaned
  <2>1. Covers(d, s) /\ Matched(s)
    BY DEF JInv, Gone
  <2>2. About(d) = {}
    <3>1. TidyOf(d)
      BY DEF IInv, Tidy, Proc
    <3> QED BY <3>1 DEF TidyOf, About, Waiting, Settled
  <2>3. ForSession(s, scope[d].session) /\ pc[client[s]] = "done" => Has(client[s], s)
    BY <2>1 DEF ForSession, Matched
  <2> QED BY <2>1, <2>2, <2>3 DEF Covers, Has, ForSession
<1> QED BY InitInv, StepInv, InitScopes, StepScopes, <1>1, PTL DEF Spec
=============================================================================
