------------------------- MODULE ExtensionServices -------------------------
(* The VS Code extension's connection to the daemon and the services on it: *)
(* daemon/client.ts, extension.ts, the language model provider and the      *)
(* backchannel's reconnection.                                              *)
(*                                                                          *)
(* Activation and every change of the connection settings run one attempt:  *)
(* stop the services, close the client, connect and register within twenty  *)
(* seconds, check health, fetch the models, open the backchannel.  An       *)
(* attempt that runs out of time is given up but not cancelled: what it     *)
(* still does, it does to the one client object all attempts share.         *)
(*                                                                          *)
(* Each step below is the code between two awaits.  A request settles or    *)
(* fails; what it carries, deactivation, and the commands and views that    *)
(* only use the client are left out.  Every attempt starts on a client that *)
(* has just been closed, so connect() never finds a channel to reuse.       *)
(* Backchannel models what goes over the stream.                            *)
(* ServicesInit, ServicesNext and the like leave the short names to         *)
(* ChatPanel, the extension's other part: a module may extend the two.      *)
EXTENDS Naturals, FiniteSets

CONSTANTS MaxChanges,   \* changes of the connection settings or the token
          MaxNotices,   \* notices that the models have changed
          MaxBreaks     \* streams that break or end by themselves

\* Activation is attempt 1; 0 stands for null.
Attempt == 1 .. (MaxChanges + 1)
Or0     == 0 .. (MaxChanges + 1)

ASSUME ServicesBoundsNat == MaxChanges \in Nat /\ MaxNotices \in Nat /\ MaxBreaks \in Nat

VARIABLES
  settings,    \* how often the settings have changed
  heard,       \* the last change an event handler was called for
  listening,   \* activation has registered the event handlers
  phase,       \* where startDaemonServices() or reconnectDaemonServices() is
  attempt,     \* the current attempt, 0 before activation
  pending,     \* reconnectPending
  channel, client, clientId,  \* DaemonClient: the attempt that made each, or 0
  work,        \* how far each attempt's connect() and register() are
  used,        \* the settings each attempt read
  late,        \* an attempt has done something after it was given up
  provider,    \* languageModelProvider
  refreshing,  \* providers with a refreshModels() under way
  vendors,     \* providers registered with VS Code and not disposed
  strays,      \* providers stopped during a refresh
  stream,      \* the backchannel handler and its stream
  notices, breaks

connection    == <<settings, heard, listening>>
transport     == <<channel, client, clientId>>
loop          == <<phase, attempt, pending>>
works         == <<work, used, late>>
models        == <<provider, refreshing, vendors, strays>>
services      == <<models, stream>>
serviceCounts == <<notices, breaks>>
servicesVars == <<connection, loop, transport, works, services, serviceCounts>>

ServicesTypeOK ==
  /\ settings \in 0..MaxChanges /\ heard \in 0..MaxChanges
  /\ listening \in BOOLEAN /\ pending \in BOOLEAN /\ late \in BOOLEAN
  /\ phase \in {"off", "unregistering", "connecting", "disposing", "health", "models", "idle"}
  /\ {attempt, channel, client, clientId, provider} \subseteq Or0
  /\ work \in [Attempt -> {"none", "waiting", "token", "register", "connected", "failed"}]
  /\ used \in [Attempt -> 0..MaxChanges]
  /\ UNION {refreshing, vendors, strays} \subseteq Attempt
  /\ stream \in {"none", "open", "timer", "over"}
  /\ notices \in 0..MaxNotices /\ breaks \in 0..MaxBreaks

ServicesInit ==
  /\ settings = 0 /\ heard = 0 /\ listening = FALSE
  /\ phase = "off" /\ attempt = 0 /\ pending = FALSE
  /\ channel = 0 /\ client = 0 /\ clientId = 0
  /\ work = [a \in Attempt |-> "none"]
  /\ used = [a \in Attempt |-> 0]
  /\ late = FALSE
  /\ provider = 0 /\ refreshing = {} /\ vendors = {} /\ strays = {}
  /\ stream = "none"
  /\ notices = 0 /\ breaks = 0

----------------------------------------------------------------------------
(* initializeDaemon(): connect() and register() *)

\* closeChannelOnly(): whatever channel and client there are.
CloseChannel == channel' = 0 /\ client' = 0 /\ clientId' = 0

\* unregister() only asks the daemon when it has a client and an id.
MustUnregister == client # 0 /\ clientId # 0

\* connect() to its first await: the settings are read and a remote or a running
\* local daemon gets its channel, or a local daemon is started and waited for.
Begin(a, now) ==
  /\ attempt' = a
  /\ phase' = "connecting"
  /\ used' = [used EXCEPT ![a] = now]
  /\ client' = 0 /\ clientId' = 0
  /\ \/ work' = [work EXCEPT ![a] = "token"] /\ channel' = a
     \/ work' = [work EXCEPT ![a] = "waiting"] /\ channel' = 0
  /\ UNCHANGED late

\* An attempt goes on, waited for or not.
Step(a, from, to) ==
  /\ work[a] \in from
  /\ work' = [work EXCEPT ![a] = to]
  /\ late' = (late \/ a # attempt \/ phase # "connecting")
  /\ UNCHANGED <<used, connection, loop, services, serviceCounts>>

\* waitForDaemon() is over: the channel is made.
DaemonReady(a) ==
  /\ Step(a, {"waiting"}, "token")
  /\ channel' = a
  /\ UNCHANGED <<client, clientId>>

\* createGrpcClient() has the token; the client is asked to register.
TokenRead(a) ==
  /\ Step(a, {"token"}, "register")
  /\ client' = a
  /\ UNCHANGED <<channel, clientId>>

\* The daemon did not start or the token could not be read.
ConnectFails(a) ==
  /\ Step(a, {"waiting", "token"}, "failed")
  /\ CloseChannel

Registered(a) ==
  /\ Step(a, {"register"}, "connected")
  /\ clientId' = a
  /\ UNCHANGED <<channel, client>>

RegisterFails(a) ==
  /\ Step(a, {"register"}, "failed")
  /\ UNCHANGED transport

----------------------------------------------------------------------------
(* startDaemonServices() and reconnectDaemonServices() *)

\* Mutant: the provider is dropped with its vendor registered.
StopServicesOnly ==
  /\ stream' = "none"
  /\ strays' = strays \cup ({provider} \cap refreshing)
  /\ provider' = 0
  /\ UNCHANGED <<refreshing, vendors>>

\* stopDaemonServices(): the handler forgets its timer, the provider its vendor.
StopServices ==
  /\ stream' = "none"
  /\ vendors' = vendors \ {provider}
  /\ strays' = strays \cup ({provider} \cap refreshing)
  /\ provider' = 0
  /\ UNCHANGED refreshing

\* One turn of the reconnection: the services are stopped and the client is
\* closed, after it has unregistered.
Restart(now) ==
  /\ pending' = FALSE
  /\ StopServices
  /\ \/ /\ MustUnregister
        /\ phase' = "unregistering"
        /\ UNCHANGED <<attempt, transport, works>>
     \/ /\ ~MustUnregister
        /\ Begin(attempt + 1, now)

Unregistered ==
  /\ phase = "unregistering"
  /\ Begin(attempt + 1, settings)
  /\ UNCHANGED <<connection, pending, services, serviceCounts>>

Activate ==
  /\ phase = "off"
  /\ Begin(1, settings)
  /\ UNCHANGED <<connection, pending, services, serviceCounts>>

\* Mutant: the loop runs once, whatever came in between.
AgainNever == FALSE

\* do ... while (reconnectPending)
Again == pending

\* The end of an attempt that started nothing.  The first one is activation, which
\* now registers the event handlers.
StartFailed ==
  \/ /\ Again
     /\ pending' = FALSE
     /\ Begin(attempt + 1, settings)
     /\ UNCHANGED listening
  \/ /\ ~Again
     /\ CloseChannel
     /\ phase' = "idle"
     /\ listening' = TRUE
     /\ UNCHANGED <<attempt, pending, works>>

\* Mutant: an attempt that timed out is left as it is.
GiveUpOnly ==
  /\ phase = "connecting" /\ work[attempt] # "connected"
  /\ ~pending /\ phase' = "idle" /\ listening' = TRUE
  /\ pending' = FALSE
  /\ UNCHANGED <<attempt, transport, works, settings, heard, services, serviceCounts>>

\* The attempt failed, or its twenty seconds are over: what there is of the
\* transport is disposed of, and work under way is left running.
GiveUp ==
  /\ phase = "connecting" /\ work[attempt] # "connected"
  /\ \/ /\ MustUnregister
        /\ phase' = "disposing"
        /\ UNCHANGED <<attempt, pending, transport, works, listening>>
     \/ /\ ~MustUnregister
        /\ StartFailed
  /\ UNCHANGED <<settings, heard, services, serviceCounts>>

Disposed ==
  /\ phase = "disposing"
  /\ StartFailed
  /\ UNCHANGED <<settings, heard, services, serviceCounts>>

Connected ==
  /\ phase = "connecting" /\ work[attempt] = "connected"
  /\ phase' = "health"
  /\ UNCHANGED <<connection, attempt, pending, transport, works, services, serviceCounts>>

\* Healthy or not, a new provider starts and asks for the models.
HealthChecked ==
  /\ phase = "health"
  /\ phase' = "models"
  /\ provider' = attempt
  /\ refreshing' = refreshing \cup {attempt}
  /\ UNCHANGED <<connection, attempt, pending, transport, works, vendors, strays, stream, serviceCounts>>

\* connect() of the backchannel; without a client it tries again later.
Opened == IF client = 0 THEN "timer" ELSE "open"

\* The provider has started: the backchannel is opened, and the attempt is over.
Started ==
  /\ phase = "models" /\ provider \notin refreshing
  /\ \/ /\ Again
        /\ Restart(settings)
        /\ UNCHANGED listening
     \/ /\ ~Again
        /\ stream' = Opened
        /\ phase' = "idle"
        /\ listening' = TRUE
        /\ UNCHANGED <<attempt, pending, transport, works, models>>
  /\ UNCHANGED <<settings, heard, serviceCounts>>

\* onDidChangeConfiguration, setDaemonToken, clearDaemonToken: the first to come
\* reconnects, the next ones leave it to the reconnection under way.  Until
\* activation is over nobody listens.
ChangeSettings ==
  /\ settings < MaxChanges
  /\ settings' = settings + 1
  /\ \/ /\ ~listening
        /\ UNCHANGED <<heard, loop, transport, works, services>>
     \/ /\ listening /\ phase # "idle"
        /\ heard' = settings'
        /\ pending' = TRUE
        /\ UNCHANGED <<phase, attempt, transport, works, services>>
     \/ /\ listening /\ phase = "idle"
        /\ heard' = settings'
        /\ Restart(settings')
  /\ UNCHANGED <<listening, serviceCounts>>

----------------------------------------------------------------------------
(* The language model provider and the backchannel *)

\* refreshModels(): the models arrive and the vendor is registered anew, or the
\* request fails and everything stays.
Refreshed(p) ==
  /\ p \in refreshing
  /\ refreshing' = refreshing \ {p}
  /\ vendors' \in {vendors, vendors \cup {p}}
  /\ UNCHANGED <<connection, loop, transport, works, provider, strays, stream, serviceCounts>>

\* The daemon's notice reaches the handler, which refreshes the current provider.
ModelsChanged ==
  /\ stream = "open" /\ notices < MaxNotices
  /\ notices' = notices + 1
  /\ refreshing' = refreshing \cup ({provider} \ {0})
  /\ UNCHANGED <<connection, loop, transport, works, provider, vendors, strays, stream, breaks>>

\* A stream that fails is opened again after five seconds; one that the daemon
\* ends is not.
StreamBreaks ==
  /\ stream = "open" /\ breaks < MaxBreaks
  /\ breaks' = breaks + 1
  /\ stream' \in {"timer", "over"}
  /\ UNCHANGED <<connection, loop, transport, works, models, notices>>

Reopen ==
  /\ stream = "timer"
  /\ stream' = Opened
  /\ UNCHANGED <<connection, loop, transport, works, models, serviceCounts>>

Work(a) == DaemonReady(a) \/ TokenRead(a) \/ ConnectFails(a) \/ Registered(a) \/ RegisterFails(a)
Loop == Unregistered \/ GiveUp \/ Disposed \/ Connected \/ HealthChecked \/ Started

ServicesNext ==
  \/ Activate \/ ChangeSettings \/ Loop
  \/ \E a \in Attempt : Work(a) \/ Refreshed(a)
  \/ ModelsChanged \/ StreamBreaks \/ Reopen

\* Requests are answered or fail and the twenty seconds pass; nothing is said of
\* the work of attempts, which may hang.
ServicesSpec ==
  /\ ServicesInit /\ [][ServicesNext]_servicesVars
  /\ WF_servicesVars(Loop)
  /\ \A a \in Attempt : WF_servicesVars(Refreshed(a))

----------------------------------------------------------------------------
(* Properties *)

\* When no attempt is under way, the services run on the channel, the client and
\* the registration of the last attempt, made with the settings of the last change
\* anybody was told of; and if it failed there is nothing left of it.  The
\* exception is an attempt that went on after it had been given up: the client
\* object is then in the hands of two attempts.
LatestSettings ==
  phase = "idle" /\ ~late =>
    /\ used[attempt] >= heard
    /\ {channel, client, clientId} = IF provider = 0 THEN {0} ELSE {attempt}

\* At most one provider is registered with VS Code, the current one, unless one was
\* stopped while it fetched the models: stop() disposes of what there is and cannot
\* undo the registration that follows.
OneVendor == vendors \ strays \subseteq {provider}

\* Every change that a handler was called for is followed by an attempt with these
\* settings or newer ones, however many attempts fail or run out of time before:
\* changes during a reconnection are not lost.
ChangeTakesEffect ==
  \A n \in 1..MaxChanges : heard = n ~> \E a \in Attempt : used[a] >= n
============================================================================
