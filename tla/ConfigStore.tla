---------------------------- MODULE ConfigStore ----------------------------
(* The daemon's provider configuration and the secrets file beside it:      *)
(* core/config.ts, secrets/file-store.ts and the handlers of both servers   *)
(* that change them.                                                        *)
(*                                                                          *)
(* config.yaml is loaded whole, changed and saved whole, in place.  A       *)
(* handler that needs the secret store awaits it between the load and the   *)
(* save.  secrets.json is cached, replaced by rename, and every access      *)
(* goes through one promise chain.  The modelled backend is the file store; *)
(* the keychain is a library.                                               *)
(*                                                                          *)
(* A provider's entry is the secret it names, Env when it needs no stored   *)
(* key, or None when there is no such provider.  The secret a configure     *)
(* call invents for provider p (<P>_API_KEY) is written p.  Values of       *)
(* secrets, models and the other sections of the file are left out.         *)
EXTENDS Naturals, Sequences, FiniteSets

CONSTANTS Call,        \* handler calls, each made once
          Provider,
          Shared,      \* secret names no provider invents
          None, Env,
          Broken,      \* a config file that does not parse
          Unloaded,    \* the secret store before its first read
          MaxFaults    \* bound on crashes, failed writes and hand edits

Secret == Provider \cup Shared
Entry  == Secret \cup {None, Env}
Config == [Provider -> Entry]

ASSUME FaultsBounded == MaxFaults \in Nat

ASSUME SentinelsDiffer ==
  /\ Provider \cap Shared = {}
  /\ {None, Env, Unloaded} \cap Secret = {}
  /\ None # Env /\ \A c \in Config : c # Broken
  /\ \A map \in SUBSET Secret : map # Unloaded

VARIABLES
  file,        \* config.yaml: a Config or Broken
  disk,        \* the secrets in secrets.json, recoverable or not
  broken,      \* secrets.json does not parse
  cache,       \* FileSecretStore.cache
  unparseable, \* FileSecretStore.unparseable
  chain,       \* FileSecretStore.writeChain: calls whose access is queued
  calls,       \* what each handler does and has read
  faults,
  \* history: what the clients have been told, and what excuses the program
  meant,       \* for each provider the entry last acknowledged, and those that
               \* saves cut off since may have left
  clouded,     \* providers changed between the load and the save of another call
  stored,      \* secrets whose set was acknowledged and that nobody removed
  excused      \* secrets a provider may name although they are not there

secretsFile == <<disk, broken>>
secretStore == <<cache, unparseable>>
told        == <<meant, clouded, stored, excused>>
vars == <<file, secretsFile, secretStore, chain, calls, faults, told>>

CallState == [pc : {"idle", "queued", "done?", "failed?", "over"},
              op : {"none", "set", "has", "delete"},
              provider : Provider \cup {None},
              name : Secret \cup {None},
              copy : Config,
              overlap : SUBSET Provider]  \* history: what other calls saved since the load

Idle == [pc |-> "idle", op |-> "none", provider |-> None, name |-> None,
         copy |-> [p \in Provider |-> None], overlap |-> {}]

\* What loadConfig() returns: null for a file that does not parse, which every
\* handler replaces by a configuration without providers.
Load(f) == IF f = Broken THEN [p \in Provider |-> None] ELSE f

\* What a save that is cut off may leave: an empty file or a prefix that parses,
\* or one that does not.
Torn(c) == {Broken} \cup {[p \in Provider |-> IF p \in kept THEN c[p] ELSE None] : kept \in SUBSET Provider}

\* The entries provider p has, or gets when a waiting handler saves its copy, but
\* for copies that another call has made out of date.
Versions(p) ==
  {Load(file)[p]}
    \cup {calls[c].copy[p] : c \in {d \in Call : calls[d].provider # None /\ p \notin calls[d].overlap}}

TypeOK ==
  /\ file = Broken \/ file \in Config
  /\ disk \in SUBSET Secret
  /\ broken \in BOOLEAN
  /\ cache = Unloaded \/ cache \subseteq Secret
  /\ unparseable \in BOOLEAN
  /\ chain \in Seq(Call)
  /\ calls \in [Call -> CallState]
  /\ faults \in 0..MaxFaults
  /\ meant \in [Provider -> SUBSET Entry]
  /\ clouded \subseteq Provider
  /\ stored \subseteq Secret
  /\ excused \subseteq Entry

\* Calls made earlier left a configuration whose secrets are in the store.
Init ==
  /\ disk \in SUBSET Secret
  /\ file \in [Provider -> disk \cup {None, Env}]
  /\ broken = FALSE
  /\ cache = Unloaded
  /\ unparseable = FALSE
  /\ chain = <<>>
  /\ calls = [c \in Call |-> Idle]
  /\ faults = 0
  /\ meant = [p \in Provider |-> {file[p]}]
  /\ clouded = {}
  /\ stored = disk
  /\ excused = {}

----------------------------------------------------------------------------
(* Saving the configuration *)

\* Call c ends, having changed the entries of some providers under the feet of
\* the handlers that wait.
Over(c, changed) ==
  calls' = [d \in Call |->
              IF d = c THEN [Idle EXCEPT !.pc = "over"]
              ELSE IF calls[d].provider = None THEN calls[d]
              ELSE [calls[d] EXCEPT !.overlap = @ \cup changed]]

\* What was changed between the load and the save of c, by another call, may be undone.
Clouds(c, changed) == clouded' = (clouded \cup calls[c].overlap) \ changed

\* Mutant: only the changed providers are written back.
SavedAlone(c, changed, cfg) ==
  /\ Over(c, changed) /\ Clouds(c, changed)
  /\ file' = [p \in Provider |-> IF p \in changed THEN cfg[p] ELSE None]
  /\ meant' = [p \in Provider |-> IF p \in changed THEN {cfg[p]} ELSE meant[p]]
  /\ UNCHANGED faults

\* Call c saves the whole of cfg, in which it has changed the entries of some
\* providers, and reports it.
Saved(c, changed, cfg) ==
  /\ Over(c, changed) /\ Clouds(c, changed)
  /\ file' = cfg
  /\ meant' = [p \in Provider |-> IF p \in changed THEN {cfg[p]} ELSE meant[p]]
  /\ UNCHANGED faults

\* writeFileSync() truncates and then writes: a full disk, or the end of the
\* process, leaves what had been written.  The call fails.
CutOff(c, changed, cfg) ==
  /\ faults < MaxFaults
  /\ faults' = faults + 1
  /\ Over(c, changed) /\ Clouds(c, changed)
  /\ file' \in Torn(cfg)
  /\ meant' = [p \in Provider |->
                 meant[p] \cup {None} \cup (IF p \in changed THEN {cfg[p]} ELSE {})]

Save(c, changed, cfg) == Saved(c, changed, cfg) \/ CutOff(c, changed, cfg)

\* A call that ends without a save.
NoSave(c) == Over(c, {}) /\ UNCHANGED <<file, meant, clouded, faults>>

\* A call whose access to the secret store is put on the chain.
Enqueue(c, op, p, n, copy) ==
  /\ calls[c].pc = "idle"
  /\ calls' = [calls EXCEPT ![c] = [pc |-> "queued", op |-> op, provider |-> p, name |-> n,
                                    copy |-> copy, overlap |-> {}]]
  /\ chain' = Append(chain, c)

\* ConfigureProvider with an API key (stored under an explicit name or the
\* invented one) or with the name of a stored secret, which must exist.
Configure(c, p, n, op) ==
  /\ Enqueue(c, op, p, n, Load(file))
  /\ UNCHANGED <<file, secretsFile, secretStore, faults, told>>

\* ConfigureProvider with an environment variable, or with other settings only,
\* which keeps the credential: loaded and saved at once.
ConfigureAtOnce(c, p) ==
  /\ calls[c].pc = "idle"
  /\ LET cfg == Load(file)
     IN \/ Save(c, {p}, [cfg EXCEPT ![p] = Env])
        \/ cfg[p] # None /\ Save(c, {}, cfg)
  /\ UNCHANGED <<secretsFile, secretStore, chain, stored, excused>>

\* The names RemoveProvider deletes along with provider p.
Owned(p, n) == n = p

\* RemoveProvider: a secret the provider invented is deleted first.
Remove(c, p) ==
  LET cfg == Load(file)
  IN /\ calls[c].pc = "idle"
     /\ \/ cfg[p] = None /\ NoSave(c) /\ UNCHANGED chain
        \/ /\ cfg[p] # None /\ Owned(p, cfg[p])
           /\ Enqueue(c, "delete", p, cfg[p], cfg)
           /\ UNCHANGED <<file, meant, clouded, faults>>
        \/ /\ cfg[p] # None /\ ~Owned(p, cfg[p])
           /\ Save(c, {p}, [cfg EXCEPT ![p] = None])
           /\ UNCHANGED chain
     /\ UNCHANGED <<secretsFile, secretStore, stored, excused>>

\* UpdateConfig: the client's whole configuration replaces the file, whatever it
\* was made from.  The secrets it names are not looked up.
UpdateConfig(c, cfg) ==
  /\ calls[c].pc = "idle"
  /\ Save(c, Provider, cfg)
  /\ excused' = excused \cup ({cfg[p] : p \in Provider} \ disk)
  /\ UNCHANGED <<secretsFile, secretStore, chain, stored>>

\* SetSecret and DeleteSecret do not look at the configuration.
ChangeSecret(c, op, n) ==
  /\ Enqueue(c, op, None, n, Idle.copy)
  /\ UNCHANGED <<file, secretsFile, secretStore, faults, told>>

----------------------------------------------------------------------------
(* The secret store's chain *)

Turn == Head(chain)
Settle(result) ==
  /\ calls' = [calls EXCEPT ![Turn].pc = result]
  /\ chain' = Tail(chain)

\* ensureLoaded(): a file that does not parse, or cannot be read, is taken as empty.
LoadSecrets ==
  /\ chain # <<>> /\ cache = Unloaded
  /\ \/ /\ cache' = IF broken THEN {} ELSE disk
        /\ unparseable' = broken
        /\ UNCHANGED faults
     \/ /\ faults < MaxFaults
        /\ faults' = faults + 1
        /\ cache' = {}
        /\ unparseable' = TRUE
  /\ UNCHANGED <<file, secretsFile, chain, calls, told>>

\* Mutant: an unparseable file is overwritten like any other.
WritableAlways == TRUE

Writable == ~unparseable

\* Mutant: nobody looks at what has() returned.
AnswerFound ==
  /\ chain # <<>> /\ cache # Unloaded
  /\ \/ calls[Turn].op = "has" /\ Settle("done?")
     \/ calls[Turn].op = "delete" /\ Writable /\ calls[Turn].name \notin cache /\ Settle("done?")
  /\ UNCHANGED <<file, secretsFile, secretStore, faults, told>>

\* has(), or a delete() of what is not there.
Answer ==
  /\ chain # <<>> /\ cache # Unloaded
  /\ LET c == calls[Turn]
     IN \/ c.op = "has" /\ Settle(IF c.name \in cache THEN "done?" ELSE "failed?")
        \/ c.op = "delete" /\ Writable /\ c.name \notin cache /\ Settle("done?")
  /\ UNCHANGED <<file, secretsFile, secretStore, faults, told>>

\* assertWritable() throws, or the temporary file or its rename fails.
Refuse ==
  /\ chain # <<>> /\ cache # Unloaded
  /\ calls[Turn].op \in {"set", "delete"}
  /\ \/ ~Writable /\ UNCHANGED faults
     \/ Writable /\ faults < MaxFaults /\ faults' = faults + 1
  /\ Settle("failed?")
  /\ UNCHANGED <<file, secretsFile, secretStore, told>>

\* Handlers whose access has settled go on before a later write can reach the disk.
NobodyResumes == \A c \in Call : calls[c].pc \notin {"done?", "failed?"}

\* The map is written to a temporary file and renamed, and then becomes the cache.
Replace(map) ==
  /\ disk' = map
  /\ broken' = FALSE
  /\ cache' = map

\* A successful set() or delete() of a name that is there.
Commit ==
  /\ chain # <<>> /\ cache # Unloaded /\ Writable /\ NobodyResumes
  /\ LET c == calls[Turn]
     IN \/ /\ c.op = "set"
           /\ Replace(cache \cup {c.name})
           /\ excused' = excused \ {c.name}
           /\ UNCHANGED stored
        \/ /\ c.op = "delete" /\ c.name \in cache
           /\ Replace(cache \ {c.name})
           /\ stored' = stored \ {c.name}
           \* on purpose, or although another provider had picked the name
           /\ excused' = IF \/ c.provider = None
                            \/ \E q \in Provider \ {c.provider} : c.name \in Versions(q)
                      THEN excused \cup {c.name} ELSE excused
  /\ Settle("done?")
  /\ UNCHANGED <<file, unparseable, faults, meant, clouded>>

\* The handler goes on after its access: a configure call saves only when it
\* succeeded, a removal in any case.
Resume(c) ==
  LET h == calls[c]
      Entries == [h.copy EXCEPT ![h.provider] = IF h.op = "delete" THEN None ELSE h.name]
      done == h.pc = "done?"
  IN /\ h.pc \in {"done?", "failed?"}
     /\ \/ (h.provider = None \/ (~done /\ h.op # "delete")) /\ NoSave(c)
        \/ h.provider # None /\ (done \/ h.op = "delete") /\ Save(c, {h.provider}, Entries)
     /\ stored' = IF done /\ h.op = "set" /\ h.name \in cache THEN stored \cup {h.name} ELSE stored
     /\ UNCHANGED <<secretsFile, secretStore, chain, excused>>

----------------------------------------------------------------------------
(* The environment *)

\* The daemon ends and starts again.  Calls under way are lost; a removal may
\* have deleted the secret of a provider that is still in the file.
Crash ==
  /\ faults < MaxFaults
  /\ faults' = faults + 1
  /\ cache' = Unloaded
  /\ unparseable' = FALSE
  /\ chain' = <<>>
  /\ calls' = [c \in Call |-> IF calls[c].pc = "idle" THEN Idle ELSE [Idle EXCEPT !.pc = "over"]]
  /\ excused' = excused \cup {calls[c].name : c \in {d \in Call : calls[d].pc = "done?" /\ calls[d].op = "delete"}}
  /\ UNCHANGED <<file, secretsFile, meant, clouded, stored>>

\* Somebody edits secrets.json and makes a mistake.
Break ==
  /\ faults < MaxFaults
  /\ faults' = faults + 1
  /\ ~broken /\ broken' = TRUE
  /\ UNCHANGED <<file, disk, secretStore, chain, calls, told>>

\* ... and corrects it.
Repair ==
  /\ broken /\ broken' = FALSE
  /\ UNCHANGED <<file, disk, secretStore, chain, calls, faults, told>>

Next ==
  \/ \E c \in Call, p \in Provider :
       \/ \E n \in Secret, op \in {"set", "has"} : Configure(c, p, n, op)
       \/ ConfigureAtOnce(c, p)
       \/ Remove(c, p)
  \/ \E c \in Call, cfg \in Config : UpdateConfig(c, cfg)
  \/ \E c \in Call, n \in Secret, op \in {"set", "delete"} : ChangeSecret(c, op, n)
  \/ LoadSecrets \/ Answer \/ Refuse \/ Commit
  \/ \E c \in Call : Resume(c)
  \/ Crash \/ Break \/ Repair

Spec == Init /\ [][Next]_vars

----------------------------------------------------------------------------
(* Properties *)

\* What the file says of a provider is what was last acknowledged, unless another
\* call had loaded the file before that change and saved it afterwards.  Every
\* handler writes back the whole file, many after waiting for the secret store: it
\* may not carry over anything but its own change.  A save that is cut off may
\* lose entries, and leave its own, but never brings back what had been replaced.
ChangesKept == \A p \in Provider \ clouded : Load(file)[p] \in meant[p]

\* Calls that have deleted their provider's secret and have yet to save.
Removing == {c \in Call : calls[c].pc = "done?" /\ calls[c].op = "delete" /\ calls[c].provider # None}

\* A provider in the file never names a secret that is not in the store, unless
\* the secret was deleted by name, or with a provider that had the same name for
\* it, the daemon ended between a removal's deletion and its save, or a change of
\* the provider was undone by a call that had loaded the file before.  Configure
\* calls set or look up the secret before they save, removals delete it before
\* they do, and a save that is cut off only takes entries away.
KeysBacked ==
  \A p \in Provider \ clouded :
    Load(file)[p] \in Secret =>
      Load(file)[p] \in disk \cup excused \cup {calls[c].name : c \in Removing}

\* An acknowledged secret stays on disk until it is deleted: no cached or failed
\* read, crash or failed write, not even an edit that does not parse, lets a later
\* write drop it.  A corrected edit is back with everything in it.
SecretsKept == stored \subseteq disk
============================================================================
