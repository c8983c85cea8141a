-------------------------- MODULE ConfigStoreProofs --------------------------
(***************************************************************************)
(* For any number of calls, providers, secrets and faults, the variables of *)
(* ConfigStore keep their types, no acknowledged secret leaves the disk, no *)
(* acknowledged change of a provider is undone but by a save whose handler  *)
(* had loaded the file before it, and every provider in the file names a    *)
(* secret that is in the store.                                             *)
(***************************************************************************)
EXTENDS ConfigStore, TLAPS, SequenceTheorems

\* Whoever has something to do with a secret knows its name.
Named == \A c \in Call : calls[c].op # "none" => calls[c].name \in Secret

\* The cache mirrors the disk, except after a file that was taken for empty,
\* which the store then never writes; and nobody gets an answer before a load.
Mirror ==
  /\ cache # Unloaded /\ ~unparseable => cache = disk
  /\ cache # Unloaded /\ unparseable => cache = {}
  /\ \A c \in Call : calls[c].pc \in {"done?", "failed?"} => cache # Unloaded

IInv == TypeOK /\ Named /\ Mirror /\ SecretsKept

\* A call up to its first await.
Handler(c) ==
  \/ \E p \in Provider, n \in Secret, op \in {"set", "has"} : Configure(c, p, n, op)
  \/ \E p \in Provider : ConfigureAtOnce(c, p) \/ Remove(c, p)
  \/ \E cfg \in Config : UpdateConfig(c, cfg)
  \/ \E n \in Secret, op \in {"set", "delete"} : ChangeSecret(c, op, n)

\* A step that ends the call, with a save or without.
Ends(c) == \E changed \in SUBSET Provider : Over(c, changed)

\* A step that leaves the call as it is, but for what others do to its copy.
Same(c) ==
  /\ calls'[c].pc = calls[c].pc /\ calls'[c].op = calls[c].op
  /\ calls'[c].provider = calls[c].provider /\ calls'[c].name = calls[c].name

-----------------------------------------------------------------------------
(* What loads, saves and changes of a call yield. *)

\* A configuration is what every handler starts from.
LEMMA LoadType == TypeOK => Load(file) \in Config
  BY SentinelsDiffer DEF TypeOK, Load, Config, Entry

\* The call whose turn it is, and what is left of the chain.
LEMMA TurnType ==
  ASSUME TypeOK, chain # <<>>
  PROVE  Turn \in Call /\ Tail(chain) \in Seq(Call)
  BY HeadTailProperties DEF TypeOK, Turn

\* What is left of a handler's call when it is over, and of those that wait.
LEMMA OverType ==
  ASSUME TypeOK, NEW c \in Call, NEW changed \in SUBSET Provider, Over(c, changed)
  PROVE  calls' \in [Call -> CallState]
<1>1. [Idle EXCEPT !.pc = "over"] \in CallState
  BY SentinelsDiffer DEF Idle, CallState, Config, Entry
<1>2. ASSUME NEW d \in Call PROVE [calls[d] EXCEPT !.overlap = @ \cup changed] \in CallState
  BY DEF TypeOK, CallState
<1> QED BY <1>1, <1>2 DEF Over, TypeOK

\* What a write, complete or cut off, leaves in the file.
LEMMA SaveType ==
  ASSUME TypeOK, NEW c \in Call, NEW changed \in SUBSET Provider, NEW cfg \in Config,
         Save(c, changed, cfg)
  PROVE  /\ file' = Broken \/ file' \in Config
         /\ calls' \in [Call -> CallState] /\ faults' \in 0..MaxFaults
         /\ meant' \in [Provider -> SUBSET Entry] /\ clouded' \subseteq Provider
<1>1. \A q \in Provider : cfg[q] \in Entry
  BY DEF Config
<1>2. \A kept \in SUBSET Provider :
        [q \in Provider |-> IF q \in kept THEN cfg[q] ELSE None] \in Config
  BY DEF Config, Entry
<1>3. \A f \in Torn(cfg) : f = Broken \/ f \in Config
  BY <1>2 DEF Torn
<1>4. Over(c, changed) /\ Clouds(c, changed)
  BY DEF Save, Saved, CutOff
<1>5. calls' \in [Call -> CallState]
  BY <1>4, OverType
<1>6. clouded' \subseteq Provider
  BY <1>4 DEF Clouds, TypeOK, CallState
<1>7. CASE Saved(c, changed, cfg)
  BY <1>1, <1>5, <1>6, <1>7 DEF Saved, TypeOK
<1>8. CASE CutOff(c, changed, cfg)
  <2>1. faults' \in 0..MaxFaults
    BY <1>8, FaultsBounded DEF CutOff, TypeOK
  <2>2. meant' \in [Provider -> SUBSET Entry]
    BY <1>1, <1>8 DEF CutOff, TypeOK, Entry
  <2> QED BY <1>3, <1>5, <1>6, <1>8, <2>1, <2>2 DEF CutOff
<1> QED BY <1>7, <1>8 DEF Save

\* A call is appended to the chain.
LEMMA EnqueueType ==
  ASSUME TypeOK, NEW c \in Call, NEW op \in {"set", "has", "delete"},
         NEW p \in Provider \cup {None}, NEW n \in Secret, NEW copy \in Config,
         Enqueue(c, op, p, n, copy)
  PROVE  calls' \in [Call -> CallState] /\ chain' \in Seq(Call)
<1>1. [pc |-> "queued", op |-> op, provider |-> p, name |-> n, copy |-> copy, overlap |-> {}]
        \in CallState
  BY DEF CallState
<1> QED BY <1>1 DEF Enqueue, TypeOK

\* The call at the head of the chain is settled.
LEMMA SettleType ==
  ASSUME TypeOK, chain # <<>>, NEW result \in {"done?", "failed?"}, Settle(result)
  PROVE  calls' \in [Call -> CallState] /\ chain' \in Seq(Call)
<1>1. [calls[Turn] EXCEPT !.pc = result] \in CallState
  BY TurnType DEF TypeOK, CallState
<1> QED BY <1>1, TurnType DEF Settle, TypeOK

-----------------------------------------------------------------------------
(* Types. *)

\* What the program finds at its start.
LEMMA InitTypes == Init => TypeOK
<1> SUFFICES ASSUME Init PROVE TypeOK
  OBVIOUS
<1>1. file \in Config
  BY DEF Init, Config, Entry
<1>2. Idle \in CallState
  BY SentinelsDiffer DEF Idle, CallState, Config, Entry
<1>3. chain \in Seq(Call) /\ faults \in 0..MaxFaults
  BY FaultsBounded DEF Init
<1> QED BY <1>1, <1>2, <1>3 DEF Init, TypeOK, Entry

\* The handlers, up to their first await.
LEMMA HandlerTypes ==
  ASSUME TypeOK, NEW c \in Call, Handler(c)
  PROVE  TypeOK'
<1> DEFINE cfg == Load(file)
<1>0. cfg \in Config /\ \A p \in Provider : cfg[p] \in Entry
  BY LoadType DEF Config
<1> HIDE DEF cfg
<1>1. CASE \E p \in Provider, n \in Secret, op \in {"set", "has"} : Configure(c, p, n, op)
  <2> PICK p \in Provider, n \in Secret, op \in {"set", "has"} : Configure(c, p, n, op)
    BY <1>1
  <2>1. Enqueue(c, op, p, n, cfg)
    BY DEF Configure, cfg
  <2>2. calls' \in [Call -> CallState] /\ chain' \in Seq(Call)
    BY <2>1, <1>0, EnqueueType
  <2> QED BY <2>2 DEF Configure, TypeOK, secretsFile, secretStore, told
<1>2. CASE \E p \in Provider : ConfigureAtOnce(c, p)
  <2> PICK p \in Provider : ConfigureAtOnce(c, p)
    BY <1>2
  <2>1. [cfg EXCEPT ![p] = Env] \in Config
    BY <1>0 DEF Config, Entry
  <2>2. Save(c, {p}, [cfg EXCEPT ![p] = Env]) \/ Save(c, {}, cfg)
    BY DEF ConfigureAtOnce, cfg
  <2> QED BY <1>0, <2>1, <2>2, SaveType DEF ConfigureAtOnce, TypeOK, secretsFile, secretStore
<1>3. CASE \E p \in Provider : Remove(c, p)
  <2> PICK p \in Provider : Remove(c, p)
    BY <1>3
  <2>1. [cfg EXCEPT ![p] = None] \in Config
    BY <1>0 DEF Config, Entry
  <2>2. /\ calls' \in [Call -> CallState] /\ chain' \in Seq(Call)
        /\ file' = Broken \/ file' \in Config
        /\ meant' \in [Provider -> SUBSET Entry] /\ clouded' \subseteq Provider
        /\ faults' \in 0..MaxFaults
    <3>1. CASE NoSave(c) /\ UNCHANGED chain
      BY <3>1, OverType DEF NoSave, TypeOK
    <3>2. CASE /\ Owned(p, cfg[p]) /\ Enqueue(c, "delete", p, cfg[p], cfg)
               /\ UNCHANGED <<file, meant, clouded, faults>>
      <4>1. cfg[p] \in Secret
        BY <3>2 DEF Owned, Secret
      <4> QED BY <3>2, <4>1, <1>0, EnqueueType DEF TypeOK
    <3>3. CASE Save(c, {p}, [cfg EXCEPT ![p] = None]) /\ UNCHANGED chain
      BY <3>3, <2>1, SaveType DEF TypeOK
    <3> QED BY <3>1, <3>2, <3>3 DEF Remove, cfg
  <2> QED BY <2>2 DEF Remove, TypeOK, secretsFile, secretStore
<1>4. CASE \E new \in Config : UpdateConfig(c, new)
  <2> PICK new \in Config : UpdateConfig(c, new)
    BY <1>4
  <2>1. {new[q] : q \in Provider} \subseteq Entry
    BY DEF Config
  <2>2. Save(c, Provider, new) /\ Provider \in SUBSET Provider
    BY DEF UpdateConfig
  <2> QED BY <2>1, <2>2, SaveType DEF UpdateConfig, TypeOK, secretsFile, secretStore
<1>5. CASE \E n \in Secret, op \in {"set", "delete"} : ChangeSecret(c, op, n)
  <2> PICK n \in Secret, op \in {"set", "delete"} : ChangeSecret(c, op, n)
    BY <1>5
  <2>1. Idle.copy \in Config
    BY DEF Idle, Config, Entry
  <2>2. calls' \in [Call -> CallState] /\ chain' \in Seq(Call)
    BY <2>1, EnqueueType DEF ChangeSecret
  <2> QED BY <2>2 DEF ChangeSecret, TypeOK, secretsFile, secretStore, told
<1> QED BY <1>1, <1>2, <1>3, <1>4, <1>5 DEF Handler

\* The secret store's chain.
LEMMA ChainTypes ==
  ASSUME TypeOK, Named, LoadSecrets \/ Answer \/ Refuse \/ Commit
  PROVE  TypeOK'
<1>1. CASE LoadSecrets
  <2>1. faults' \in 0..MaxFaults
    BY <1>1, FaultsBounded DEF LoadSecrets, TypeOK
  <2> QED BY <1>1, <2>1 DEF LoadSecrets, TypeOK, secretsFile, told
<1>2. CASE Answer
  <2>1. chain # <<>> /\ \E result \in {"done?", "failed?"} : Settle(result)
    BY <1>2 DEF Answer
  <2>2. calls' \in [Call -> CallState] /\ chain' \in Seq(Call)
    BY <2>1, SettleType
  <2> QED BY <1>2, <2>2 DEF Answer, TypeOK, secretsFile, secretStore, told
<1>3. CASE Refuse
  <2>1. calls' \in [Call -> CallState] /\ chain' \in Seq(Call)
    BY <1>3, SettleType DEF Refuse
  <2>2. faults' \in 0..MaxFaults
    BY <1>3, FaultsBounded DEF Refuse, TypeOK
  <2> QED BY <1>3, <2>1, <2>2 DEF Refuse, TypeOK, secretsFile, secretStore, told
<1>4. CASE Commit
  <2>1. calls' \in [Call -> CallState] /\ chain' \in Seq(Call)
    BY <1>4, SettleType DEF Commit
  <2>2. cache \subseteq Secret /\ calls[Turn].name \in Secret
    BY <1>4, TurnType DEF Commit, TypeOK, Named
  <2>3. disk' \subseteq Secret /\ cache' \subseteq Secret /\ broken' \in BOOLEAN
    BY <1>4, <2>2 DEF Commit, Replace
  <2>4. stored' \subseteq Secret /\ excused' \subseteq Entry
    BY <1>4, <2>2 DEF Commit, TypeOK, Entry
  <2> QED BY <1>4, <2>1, <2>3, <2>4 DEF Commit, TypeOK
<1> QED BY <1>1, <1>2, <1>3, <1>4

\* The rest of a handler.
LEMMA ResumeTypes ==
  ASSUME TypeOK, Named, NEW c \in Call, Resume(c)
  PROVE  TypeOK'
<1> DEFINE h == calls[c]
           entries == [h.copy EXCEPT ![h.provider] = IF h.op = "delete" THEN None ELSE h.name]
<1>1. /\ h.copy \in Config /\ h.provider \in Provider \cup {None}
      /\ h.name \in Secret \cup {None}
  BY DEF TypeOK, CallState
<1>2. entries \in Config
  BY <1>1 DEF Config, Entry
<1> HIDE DEF h, entries
<1>3. stored' \subseteq Secret
  <2>1. CASE h.name \in cache /\ h.op = "set"
    <3>1. h.name \in Secret
      BY <2>1 DEF Named, h
    <3> QED BY <2>1, <3>1 DEF Resume, TypeOK, h
  <2>2. CASE ~(h.name \in cache /\ h.op = "set")
    BY <2>2 DEF Resume, TypeOK, h
  <2> QED BY <2>1, <2>2
<1>4. CASE NoSave(c)
  <2>1. calls' \in [Call -> CallState]
    BY <1>4, OverType DEF NoSave
  <2> QED BY <1>3, <1>4, <2>1 DEF NoSave, Resume, TypeOK, secretsFile, secretStore
<1>5. CASE h.provider # None /\ Save(c, {h.provider}, entries)
  <2>1. {h.provider} \in SUBSET Provider
    BY <1>1, <1>5
  <2> QED BY <1>2, <1>3, <1>5, <2>1, SaveType DEF Resume, TypeOK, secretsFile, secretStore
<1> QED BY <1>4, <1>5 DEF Resume, h, entries

\* Crashes, and a keychain or a file that break and are repaired.
LEMMA EnvironmentTypes ==
  ASSUME TypeOK, Crash \/ Break \/ Repair
  PROVE  TypeOK'
<1>1. CASE Crash
  <2>1. Idle \in CallState /\ [Idle EXCEPT !.pc = "over"] \in CallState
    BY SentinelsDiffer DEF Idle, CallState, Config, Entry
  <2>2. calls' \in [Call -> CallState]
    BY <1>1, <2>1 DEF Crash
  <2>3. excused' \subseteq Entry
    BY <1>1 DEF Crash, TypeOK, CallState, Entry
  <2>4. chain' \in Seq(Call) /\ faults' \in 0..MaxFaults
    BY <1>1, FaultsBounded DEF Crash, TypeOK
  <2> QED BY <1>1, <2>2, <2>3, <2>4 DEF Crash, TypeOK, secretsFile
<1>2. CASE Break
  <2>1. faults' \in 0..MaxFaults
    BY <1>2, FaultsBounded DEF Break, TypeOK
  <2> QED BY <1>2, <2>1 DEF Break, TypeOK, secretStore, told
<1>3. CASE Repair
  BY <1>3 DEF Repair, TypeOK, secretStore, told
<1> QED BY <1>1, <1>2, <1>3

-----------------------------------------------------------------------------
(* The handlers and the disk. *)

\* Up to its first await a handler leaves the secrets alone, and it waits for
\* nothing or for an access to a secret.
LEMMA HandlerEffect ==
  ASSUME TypeOK, NEW c \in Call, Handler(c)
  PROVE  /\ UNCHANGED <<disk, cache, unparseable, stored>>
         /\ Ends(c) \/ \E op \in {"set", "has", "delete"}, p \in Provider \cup {None},
                          n \in Secret, copy \in Config : Enqueue(c, op, p, n, copy)
<1> DEFINE Waits == \E op \in {"set", "has", "delete"}, p \in Provider \cup {None},
                      n \in Secret, copy \in Config : Enqueue(c, op, p, n, copy)
<1>0. Load(file) \in Config /\ Idle.copy \in Config
  BY LoadType DEF Idle, Config, Entry
<1>single. \A p \in Provider : {p} \in SUBSET Provider /\ {} \in SUBSET Provider
  OBVIOUS
<1>1. CASE \E p \in Provider, n \in Secret, op \in {"set", "has"} : Configure(c, p, n, op)
  <2> PICK p \in Provider, n \in Secret, op \in {"set", "has"} : Configure(c, p, n, op)
    BY <1>1
  <2>1. Enqueue(c, op, p, n, Load(file))
    BY DEF Configure
  <2>2. Waits
    BY <2>1, <1>0
  <2> QED BY <2>2 DEF Configure, secretsFile, secretStore, told
<1>2. CASE \E p \in Provider : ConfigureAtOnce(c, p)
  <2> PICK p \in Provider : ConfigureAtOnce(c, p)
    BY <1>2
  <2>1. Save(c, {p}, [Load(file) EXCEPT ![p] = Env]) \/ Save(c, {}, Load(file))
    BY DEF ConfigureAtOnce
  <2>2. Over(c, {p}) \/ Over(c, {})
    BY <2>1 DEF Save, Saved, CutOff
  <2>3. Ends(c)
    BY <1>single, <2>2 DEF Ends
  <2> QED BY <2>3 DEF ConfigureAtOnce, secretsFile, secretStore
<1>3. CASE \E p \in Provider : Remove(c, p)
  <2> PICK p \in Provider : Remove(c, p)
    BY <1>3
  <2>1. UNCHANGED <<disk, cache, unparseable, stored>>
    BY DEF Remove, secretsFile, secretStore
  <2>2. \/ NoSave(c) \/ Save(c, {p}, [Load(file) EXCEPT ![p] = None])
        \/ Owned(p, Load(file)[p]) /\ Enqueue(c, "delete", p, Load(file)[p], Load(file))
    BY DEF Remove
  <2>3. Owned(p, Load(file)[p]) => Load(file)[p] \in Secret
    BY DEF Owned, Secret
  <2>4. ASSUME NoSave(c) \/ Save(c, {p}, [Load(file) EXCEPT ![p] = None])
        PROVE  Ends(c)
    <3>1. Over(c, {p}) \/ Over(c, {})
      BY <2>4 DEF NoSave, Save, Saved, CutOff
    <3> QED BY <1>single, <3>1 DEF Ends
  <2>5. Ends(c) \/ Waits
    BY <2>2, <2>3, <2>4, <1>0
  <2> QED BY <2>1, <2>5
<1>4. CASE \E cfg \in Config : UpdateConfig(c, cfg)
  <2>1. Ends(c)
    BY <1>4 DEF UpdateConfig, Save, Saved, CutOff, Ends
  <2> QED BY <1>4, <2>1 DEF UpdateConfig, secretsFile, secretStore
<1>5. CASE \E n \in Secret, op \in {"set", "delete"} : ChangeSecret(c, op, n)
  <2> PICK n \in Secret, op \in {"set", "delete"} : ChangeSecret(c, op, n)
    BY <1>5
  <2>1. Enqueue(c, op, None, n, Idle.copy)
    BY DEF ChangeSecret
  <2>2. Waits
    BY <2>1, <1>0
  <2> QED BY <2>2 DEF ChangeSecret, secretsFile, secretStore, told
<1> QED BY <1>1, <1>2, <1>3, <1>4, <1>5 DEF Handler

\* The turn of a call changes its pc only, and nothing of the other calls.
LEMMA SettleEffect ==
  ASSUME TypeOK, chain # <<>>, NEW result \in {"done?", "failed?"}, Settle(result)
  PROVE  \A c \in Call : /\ calls'[c].op = calls[c].op /\ calls'[c].name = calls[c].name
                         /\ calls'[c].pc \in {calls[c].pc, result}
BY TurnType DEF Settle, TypeOK, CallState

\* A handler that is over wants nothing, and the others are as they were, but for
\* their copies that may be out of date.
LEMMA OverEffect ==
  ASSUME TypeOK, NEW d \in Call, Ends(d)
  PROVE  /\ \A c \in Call \ {d} : Same(c)
         /\ calls'[d].op = "none" /\ calls'[d].pc = "over" /\ calls'[d].provider = None
<1> PICK changed \in SUBSET Provider : Over(d, changed)
  BY DEF Ends
<1>1. ASSUME NEW c \in Call \ {d} PROVE Same(c)
  BY DEF Over, Same, TypeOK, CallState
<1> QED BY <1>1 DEF Over, Idle

\* A handler that waits has a secret, and the others are as they were.
LEMMA EnqueueEffect ==
  ASSUME TypeOK, NEW d \in Call, NEW op, NEW p, NEW n \in Secret, NEW copy, Enqueue(d, op, p, n, copy)
  PROVE  \A c \in Call : \/ calls'[c] = calls[c]
                         \/ calls'[c].name \in Secret /\ calls'[c].pc = "queued"
BY DEF Enqueue, TypeOK, CallState

\* A handler's steps up to its first await keep what is not about types.
LEMMA HandlerKeeps ==
  ASSUME IInv, NEW d \in Call, Handler(d)
  PROVE  Named' /\ Mirror' /\ SecretsKept'
<1>0. TypeOK /\ Named /\ Mirror /\ SecretsKept
  BY DEF IInv
<1>1. UNCHANGED <<disk, cache, unparseable, stored>>
  BY <1>0, HandlerEffect
<1>2. \A c \in Call : \/ Same(c)
                      \/ calls'[c].op = "none" /\ calls'[c].pc = "over"
                      \/ calls'[c].name \in Secret /\ calls'[c].pc = "queued"
  <2>1. CASE Ends(d)
    BY <2>1, <1>0, OverEffect
  <2>2. CASE \E op \in {"set", "has", "delete"}, p \in Provider \cup {None},
               n \in Secret, copy \in Config : Enqueue(d, op, p, n, copy)
    BY <2>2, <1>0, EnqueueEffect DEF Same
  <2> QED BY <2>1, <2>2, <1>0, HandlerEffect
<1>3. Named'
  BY <1>0, <1>2 DEF Named, Same
<1>4. Mirror'
  BY <1>0, <1>1, <1>2 DEF Mirror, Same
<1> QED BY <1>0, <1>1, <1>3, <1>4 DEF SecretsKept

\* The store's steps: what is written is the cache with one name more or less,
\* and a store that mirrors the disk cannot lose another.
LEMMA ChainKeeps ==
  ASSUME IInv, LoadSecrets \/ Answer \/ Refuse \/ Commit
  PROVE  Named' /\ Mirror' /\ SecretsKept'
<1>0. TypeOK /\ Named /\ Mirror /\ SecretsKept
  BY DEF IInv
<1>1. CASE LoadSecrets
  BY <1>0, <1>1, SentinelsDiffer DEF LoadSecrets, Named, Mirror, SecretsKept, TypeOK, secretsFile, told
<1>2. CASE Answer \/ Refuse
  <2>1. /\ chain # <<>> /\ \E result \in {"done?", "failed?"} : Settle(result)
        /\ cache # Unloaded /\ UNCHANGED <<disk, cache, unparseable, stored>>
    BY <1>2 DEF Answer, Refuse, secretsFile, secretStore, told
  <2>2. \A c \in Call : calls'[c].op = calls[c].op /\ calls'[c].name = calls[c].name
    BY <2>1, <1>0, SettleEffect
  <2> QED BY <1>0, <2>1, <2>2 DEF Named, Mirror, SecretsKept
<1>3. CASE Commit
  <2>1. chain # <<>> /\ Settle("done?") /\ cache # Unloaded /\ ~unparseable /\ UNCHANGED unparseable
    BY <1>3 DEF Commit, Writable
  <2>2. \A c \in Call : calls'[c].op = calls[c].op /\ calls'[c].name = calls[c].name
    BY <2>1, <1>0, SettleEffect
  <2>3. cache = disk
    BY <1>0, <2>1 DEF Mirror
  <2>4. cache \subseteq Secret /\ calls[Turn].name \in Secret
    BY <1>0, <1>3, <2>1, TurnType DEF Commit, TypeOK, Named
  <2>5. disk' = cache' /\ cache' \subseteq Secret
    BY <1>3, <2>4 DEF Commit, Replace
  <2>6. stored' \subseteq disk'
    BY <1>0, <1>3, <2>3 DEF Commit, Replace, SecretsKept
  <2>7. cache' # Unloaded
    BY <2>5, SentinelsDiffer
  <2> QED BY <1>0, <2>1, <2>2, <2>5, <2>6, <2>7 DEF Named, Mirror, SecretsKept
<1> QED BY <1>1, <1>2, <1>3

\* A handler that goes on ends.
LEMMA ResumeEnds ==
  ASSUME TypeOK, NEW c \in Call, Resume(c)
  PROVE  Ends(c)
<1> DEFINE h == calls[c]
           entries == [h.copy EXCEPT ![h.provider] = IF h.op = "delete" THEN None ELSE h.name]
<1>1. NoSave(c) \/ (h.provider \in Provider /\ Save(c, {h.provider}, entries))
  BY DEF Resume, TypeOK, CallState
<1> QED BY <1>1 DEF NoSave, Save, Saved, CutOff, Ends

\* The rest of a handler: the secret it reports as stored is in the cache, and
\* so on the disk, because a cache that does not mirror the disk is empty.
LEMMA ResumeKeeps ==
  ASSUME IInv, NEW d \in Call, Resume(d)
  PROVE  Named' /\ Mirror' /\ SecretsKept'
<1>0. TypeOK /\ Named /\ Mirror /\ SecretsKept
  BY DEF IInv
<1>1. Ends(d) /\ UNCHANGED <<disk, cache, unparseable>>
  BY <1>0, ResumeEnds DEF Resume, secretsFile, secretStore
<1>2. \A c \in Call : \/ Same(c)
                      \/ calls'[c].op = "none" /\ calls'[c].pc = "over"
  BY <1>0, <1>1, OverEffect
<1>3. cache = disk \/ cache = {}
  BY <1>0 DEF Mirror, Resume
<1>4. stored' \subseteq stored \cup cache
  BY DEF Resume
<1> QED BY <1>0, <1>1, <1>2, <1>3, <1>4 DEF Named, Mirror, SecretsKept, Same

\* The environment: the disk keeps what it has.
LEMMA EnvironmentKeeps ==
  ASSUME IInv, Crash \/ Break \/ Repair
  PROVE  Named' /\ Mirror' /\ SecretsKept'
<1>0. TypeOK /\ Named /\ Mirror /\ SecretsKept
  BY DEF IInv
<1>1. CASE Crash
  <2>1. \A c \in Call : calls'[c].op = "none" /\ calls'[c].pc \in {"idle", "over"}
    BY <1>1 DEF Crash, Idle
  <2> QED BY <1>0, <1>1, <2>1 DEF Crash, Named, Mirror, SecretsKept, secretsFile
<1>2. CASE Break \/ Repair
  BY <1>0, <1>2 DEF Break, Repair, secretStore, told, Named, Mirror, SecretsKept
<1> QED BY <1>1, <1>2

-----------------------------------------------------------------------------
(* The inductive invariant. *)

\* It holds when the daemon starts: nothing is cached and nobody has called.
LEMMA InitInv == Init => IInv
<1> SUFFICES ASSUME Init PROVE IInv
  OBVIOUS
<1>1. Named /\ Mirror /\ SecretsKept
  BY DEF Init, Named, Mirror, SecretsKept, Idle
<1> QED BY <1>1, InitTypes DEF IInv

\* Every step of the handlers, the store and the environment keeps it.
LEMMA StepInv == IInv /\ [Next]_vars => IInv'
<1> SUFFICES ASSUME IInv, [Next]_vars PROVE IInv'
  OBVIOUS
<1>0. TypeOK /\ Named /\ Mirror /\ SecretsKept
  BY DEF IInv
<1>1. CASE \E c \in Call : Handler(c)
  BY <1>0, <1>1, HandlerTypes, HandlerKeeps DEF IInv
<1>2. CASE LoadSecrets \/ Answer \/ Refuse \/ Commit
  BY <1>0, <1>2, ChainTypes, ChainKeeps DEF IInv
<1>3. CASE \E c \in Call : Resume(c)
  BY <1>0, <1>3, ResumeTypes, ResumeKeeps DEF IInv
<1>4. CASE Crash \/ Break \/ Repair
  BY <1>0, <1>4, EnvironmentTypes, EnvironmentKeeps DEF IInv
<1>5. CASE UNCHANGED vars
  BY <1>0, <1>5 DEF IInv, TypeOK, Named, Mirror, SecretsKept, vars, secretsFile, secretStore, told
<1> QED BY <1>1, <1>2, <1>3, <1>4, <1>5 DEF Next, Handler

-----------------------------------------------------------------------------
(* The configuration file. *)

\* What a save may write of the providers it does not change: what they have, or
\* what another call has replaced under the handler's feet.
Carried(c, changed, cfg) ==
  \A q \in Provider \ changed : q \in calls[c].overlap \/ cfg[q] \in Versions(q)

\* What a step may do to the configuration: save it, or leave every provider with
\* no more versions than it had.
LEMMA ConfigSteps ==
  ASSUME TypeOK, [Next]_vars
  PROVE  \/ \E c \in Call, changed \in SUBSET Provider, cfg \in Config :
              Save(c, changed, cfg) /\ Carried(c, changed, cfg)
         \/ /\ UNCHANGED <<meant, clouded>>
            /\ \A q \in Provider : Versions(q)' \subseteq Versions(q)
<1> DEFINE Saves == \E c \in Call, changed \in SUBSET Provider, cfg \in Config :
                      Save(c, changed, cfg) /\ Carried(c, changed, cfg)
           Keeps == /\ UNCHANGED <<meant, clouded>>
                    /\ \A q \in Provider : Versions(q)' \subseteq Versions(q)
<1>0. Load(file) \in Config /\ \A q \in Provider : Load(file)[q] \in Versions(q)
  BY LoadType DEF Versions
<1>1. ASSUME NEW c \in Call, NoSave(c) PROVE Keeps
  <2>1. /\ UNCHANGED <<file, meant, clouded>> /\ calls'[c].provider = None
        /\ \A d \in Call \ {c} : /\ calls'[d].provider = calls[d].provider
                                /\ calls'[d].copy = calls[d].copy
                                /\ calls'[d].overlap = calls[d].overlap
    BY <1>1 DEF NoSave, Over, TypeOK, CallState, Idle
  <2> QED BY <2>1 DEF Versions
<1>2. ASSUME NEW c \in Call, NEW op, NEW p, NEW n, NEW copy, Enqueue(c, op, p, n, copy),
             p # None => copy = Load(file), UNCHANGED <<file, meant, clouded>>
      PROVE  Keeps
  BY <1>2 DEF Enqueue, Versions, TypeOK, CallState
<1>3. ASSUME NEW c \in Call, NEW p \in Provider, NEW e \in {Env, None},
             Save(c, {p}, [Load(file) EXCEPT ![p] = e])
      PROVE  Saves
  <2>1. [Load(file) EXCEPT ![p] = e] \in Config
    BY <1>0 DEF Config, Entry
  <2>2. Carried(c, {p}, [Load(file) EXCEPT ![p] = e])
    BY <1>0 DEF Carried, Config
  <2>3. {p} \in SUBSET Provider
    OBVIOUS
  <2> QED BY <1>3, <2>1, <2>2, <2>3
<1>4. ASSUME NEW c \in Call, NEW p \in Provider, ConfigureAtOnce(c, p) PROVE Saves
  <2>1. Save(c, {p}, [Load(file) EXCEPT ![p] = Env]) \/ Save(c, {}, Load(file))
    BY <1>4 DEF ConfigureAtOnce
  <2>2. Carried(c, {}, Load(file)) /\ {} \in SUBSET Provider
    BY <1>0 DEF Carried
  <2> QED BY <1>0, <1>3, <2>1, <2>2
<1>5. ASSUME NEW c \in Call, NEW p \in Provider, Remove(c, p) PROVE Saves \/ Keeps
  <2>1. \/ NoSave(c) \/ Save(c, {p}, [Load(file) EXCEPT ![p] = None])
        \/ /\ Enqueue(c, "delete", p, Load(file)[p], Load(file))
           /\ UNCHANGED <<file, meant, clouded>>
    BY <1>5 DEF Remove
  <2> QED BY <1>1, <1>2, <1>3, <2>1
<1>6. ASSUME NEW c \in Call, NEW cfg \in Config, UpdateConfig(c, cfg) PROVE Saves
  <2>1. Carried(c, Provider, cfg) /\ Provider \in SUBSET Provider
    BY DEF Carried
  <2> QED BY <1>6, <2>1 DEF UpdateConfig
<1>7. ASSUME NEW c \in Call, Resume(c) PROVE Saves \/ Keeps
  <2> DEFINE h == calls[c]
             entries == [h.copy EXCEPT ![h.provider] = IF h.op = "delete" THEN None ELSE h.name]
  <2>1. /\ h.copy \in Config /\ h.provider \in Provider \cup {None}
        /\ h.name \in Secret \cup {None}
    BY DEF TypeOK, CallState
  <2>2. entries \in Config
    BY <2>1 DEF Config, Entry
  <2>3. NoSave(c) \/ (h.provider # None /\ Save(c, {h.provider}, entries))
    BY <1>7 DEF Resume
  <2>4. h.provider # None => Carried(c, {h.provider}, entries) /\ {h.provider} \in SUBSET Provider
    BY <2>1 DEF Carried, Versions, Config
  <2> QED BY <1>1, <2>2, <2>3, <2>4
<1>8. ASSUME NEW c \in Call, NEW p \in Provider, NEW n, NEW op, Configure(c, p, n, op)
      PROVE  Keeps
  BY <1>2, <1>8 DEF Configure, told
<1>9. ASSUME NEW c \in Call, NEW n, NEW op, ChangeSecret(c, op, n)
      PROVE  Keeps
  BY <1>2, <1>9 DEF ChangeSecret, told
<1>10. CASE Answer \/ Refuse \/ Commit
  <2>1. /\ chain # <<>> /\ \E result \in {"done?", "failed?"} : Settle(result)
        /\ UNCHANGED <<file, meant, clouded>>
    BY <1>10 DEF Answer, Refuse, Commit, told
  <2>2. \A c \in Call : /\ calls'[c].provider = calls[c].provider /\ calls'[c].copy = calls[c].copy
                        /\ calls'[c].overlap = calls[c].overlap
    BY <2>1, TurnType DEF Settle, TypeOK, CallState
  <2> QED BY <2>1, <2>2 DEF Versions
<1>11. CASE Crash
  <2>1. \A c \in Call : calls'[c].provider = None
    BY <1>11 DEF Crash, Idle
  <2> QED BY <1>11, <2>1 DEF Crash, Versions
<1>12. CASE LoadSecrets \/ Break \/ Repair \/ UNCHANGED vars
  <2>1. UNCHANGED <<file, meant, clouded, calls>>
    BY <1>12 DEF LoadSecrets, Break, Repair, vars, told
  <2> QED BY <2>1 DEF Versions
<1> QED BY <1>4, <1>5, <1>6, <1>7, <1>8, <1>9, <1>10, <1>11, <1>12 DEF Next

\* What a save leaves of the versions of a provider: of one it changes, what it
\* writes or nothing; of the others, none that was not there.
LEMMA SaveVersions ==
  ASSUME TypeOK, NEW c \in Call, NEW changed \in SUBSET Provider, NEW cfg \in Config,
         Save(c, changed, cfg), Carried(c, changed, cfg), NEW q \in Provider \ clouded'
  PROVE  /\ q \in changed => \A v \in Versions(q)' : v \in meant'[q] /\ v \in {cfg[q], None}
         /\ q \notin changed =>
              /\ q \notin clouded /\ meant[q] \subseteq meant'[q]
              /\ \A v \in Versions(q)' : v \in Versions(q) \/ (v = None /\ v \in meant'[q])
<1>1. Over(c, changed) /\ clouded' = (clouded \cup calls[c].overlap) \ changed
  BY DEF Save, Saved, CutOff, Clouds
<1>2. /\ calls'[c].provider = None
      /\ \A d \in Call \ {c} :
           /\ calls'[d].provider = calls[d].provider /\ calls'[d].copy = calls[d].copy
           /\ calls'[d].provider # None => calls'[d].overlap = calls[d].overlap \cup changed
  BY <1>1 DEF Over, Idle, TypeOK, CallState
<1>3. \A v \in Versions(q)' :
        v = Load(file')[q] \/ (q \notin changed /\ v \in Versions(q))
  BY <1>2 DEF Versions
<1>4. q \notin changed => q \notin clouded /\ cfg[q] \in Versions(q)
  BY <1>1 DEF Carried
<1>5. CASE Saved(c, changed, cfg)
  <2>1. Load(file')[q] = cfg[q]
    BY <1>5, SentinelsDiffer DEF Saved, Load
  <2>2. meant'[q] = IF q \in changed THEN {cfg[q]} ELSE meant[q]
    BY <1>5 DEF Saved
  <2> QED BY <1>3, <1>4, <2>1, <2>2
<1>6. CASE CutOff(c, changed, cfg)
  <2>1. Load(file')[q] \in {cfg[q], None}
    BY <1>6 DEF CutOff, Torn, Load
  <2>2. meant'[q] = meant[q] \cup {None} \cup (IF q \in changed THEN {cfg[q]} ELSE {})
    BY <1>6 DEF CutOff
  <2> QED BY <1>3, <1>4, <2>1, <2>2
<1> QED BY <1>5, <1>6 DEF Save

\* Not only what the file says of a provider, also what a handler that waits will
\* carry over, is what was last acknowledged.
VersionsMeant == \A p \in Provider \ clouded : Versions(p) \subseteq meant[p]

\* No step gives a provider a version that nobody was told of.
LEMMA VersionsStep == TypeOK /\ VersionsMeant /\ [Next]_vars => VersionsMeant'
<1> SUFFICES ASSUME TypeOK, VersionsMeant, [Next]_vars,
                    NEW q \in Provider \ clouded'
             PROVE  Versions(q)' \subseteq meant'[q]
  BY DEF VersionsMeant
<1>1. CASE UNCHANGED <<meant, clouded>> /\ Versions(q)' \subseteq Versions(q)
  BY <1>1 DEF VersionsMeant
<1>2. ASSUME NEW c \in Call, NEW changed \in SUBSET Provider, NEW cfg \in Config,
             Save(c, changed, cfg), Carried(c, changed, cfg)
      PROVE  Versions(q)' \subseteq meant'[q]
  BY <1>2, SaveVersions DEF VersionsMeant
<1> QED BY <1>1, <1>2, ConfigSteps

-----------------------------------------------------------------------------
(* The secrets that the file names. *)

\* Calls in the chain are queued, each once.
Chained ==
  /\ \A i \in 1..Len(chain) : calls[chain[i]].pc = "queued"
  /\ \A i, j \in 1..Len(chain) : chain[i] = chain[j] => i = j

\* A removal that has yet to save leaves no other provider with the secret it has
\* deleted, unless that is excused.
Spared(c) ==
  \A q \in Provider \ clouded :
    q # calls[c].provider /\ calls[c].name \in Versions(q) => calls[c].name \in disk \cup excused

\* Who has set or found a secret finds it on disk until it saves; a removal
\* deletes the name its own provider invented.
Standing(c) ==
  /\ calls[c].pc = "done?" /\ calls[c].op # "delete" => calls[c].name \in disk
  /\ calls[c].op = "delete" /\ calls[c].provider # None => calls[c].name = calls[c].provider
  /\ c \in Removing => Spared(c)

\* The secrets that providers name, or will when a waiting handler saves its copy.
VersionsBacked ==
  \A q \in Provider \ clouded : \A n \in Versions(q) \cap Secret :
    n \in disk \cup excused \cup {calls[c].name : c \in Removing}

KeysInv == VersionsBacked /\ \A c \in Call : Standing(c)

\* The chain at the start, and how it goes on.
LEMMA ChainStep == TypeOK /\ Chained /\ [Next]_vars => Chained'
<1> SUFFICES ASSUME TypeOK, Chained, [Next]_vars PROVE Chained'
  OBVIOUS
<1>0. chain \in Seq(Call) /\ calls \in [Call -> CallState] /\ Len(chain) \in Nat
      /\ \A i \in 1..Len(chain) : chain[i] \in Call
  BY DEF TypeOK
<1>1. ASSUME NEW c \in Call, calls[c].pc # "queued", Ends(c), UNCHANGED chain
      PROVE  Chained'
  <2>1. \A d \in Call \ {c} : calls'[d].pc = calls[d].pc
    BY <1>1, OverEffect DEF Same
  <2> QED BY <1>0, <1>1, <2>1 DEF Chained
<1>2. ASSUME NEW c \in Call, NEW op, NEW p, NEW n, NEW copy, Enqueue(c, op, p, n, copy)
      PROVE  Chained'
  <2>1. /\ calls[c].pc = "idle" /\ chain' = Append(chain, c)
        /\ calls' = [calls EXCEPT ![c] = [pc |-> "queued", op |-> op, provider |-> p,
                                          name |-> n, copy |-> copy, overlap |-> {}]]
    BY <1>2 DEF Enqueue
  <2>2. calls'[c].pc = "queued" /\ \A d \in Call \ {c} : calls'[d] = calls[d]
    BY <1>0, <2>1
  <2>3. /\ Len(chain') = Len(chain) + 1 /\ chain'[Len(chain) + 1] = c
        /\ \A i \in 1..Len(chain) : chain'[i] = chain[i]
    BY <1>0, <2>1, AppendProperties
  <2>4. \A i \in 1..Len(chain) : chain[i] # c
    BY <1>0, <2>1 DEF Chained
  <2>5. \A i \in 1..Len(chain') : i = Len(chain) + 1 \/ i \in 1..Len(chain)
    BY <1>0, <2>3
  <2>6. \A i \in 1..Len(chain') : calls'[chain'[i]].pc = "queued"
    BY <1>0, <2>2, <2>3, <2>4, <2>5 DEF Chained
  <2>7. \A i, j \in 1..Len(chain') : chain'[i] = chain'[j] => i = j
    BY <2>3, <2>4, <2>5 DEF Chained
  <2> QED BY <2>6, <2>7 DEF Chained
<1>3. ASSUME chain # <<>>, NEW result \in {"done?", "failed?"}, Settle(result)
      PROVE  Chained'
  <2>1. /\ chain' = Tail(chain) /\ calls' = [calls EXCEPT ![Turn].pc = result]
        /\ Turn = chain[1]
    BY <1>0, <1>3 DEF Settle, Turn
  <2>2. /\ Len(chain') = Len(chain) - 1 /\ 1 \in 1..Len(chain)
        /\ \A i \in 1..Len(chain') : i + 1 \in 1..Len(chain) /\ chain'[i] = chain[i + 1]
    BY <1>0, <1>3, <2>1
  <2>3. \A i \in 1..Len(chain') : chain[i + 1] # Turn /\ chain[i + 1] \in Call
    <3> SUFFICES ASSUME NEW i \in 1..Len(chain') PROVE chain[i + 1] # Turn /\ chain[i + 1] \in Call
      OBVIOUS
    <3>1. i + 1 # 1 /\ i + 1 \in 1..Len(chain)
      BY <2>2
    <3> QED BY <1>0, <2>1, <2>2, <3>1 DEF Chained
  <2>4. \A i \in 1..Len(chain') : calls'[chain'[i]].pc = "queued"
    BY <1>0, <2>1, <2>2, <2>3 DEF Chained
  <2>5. ASSUME NEW i \in 1..Len(chain'), NEW j \in 1..Len(chain'), chain'[i] = chain'[j]
        PROVE  i = j
    <3>1. i + 1 = j + 1
      BY <2>2, <2>5 DEF Chained
    <3> QED BY <3>1
  <2> QED BY <2>4, <2>5 DEF Chained
<1>4. ASSUME NEW c \in Call, Handler(c) PROVE Chained'
  <2>0. calls[c].pc = "idle"
    BY <1>4 DEF Handler, Configure, ConfigureAtOnce, Remove, UpdateConfig, ChangeSecret, Enqueue
  <2>1. UNCHANGED chain \/ \E op, p, n, copy : Enqueue(c, op, p, n, copy)
    <3>1. ASSUME NEW p \in Provider, NEW n \in Secret, NEW op \in {"set", "has"}, Configure(c, p, n, op)
          PROVE  Enqueue(c, op, p, n, Load(file))
      BY <3>1 DEF Configure
    <3>2. ASSUME NEW p \in Provider, ConfigureAtOnce(c, p)
          PROVE  UNCHANGED chain
      BY <3>2 DEF ConfigureAtOnce
    <3>3. ASSUME NEW p \in Provider, Remove(c, p)
          PROVE  UNCHANGED chain \/ Enqueue(c, "delete", p, Load(file)[p], Load(file))
      BY <3>3 DEF Remove
    <3>4. ASSUME NEW cfg \in Config, UpdateConfig(c, cfg)
          PROVE  UNCHANGED chain
      BY <3>4 DEF UpdateConfig
    <3>5. ASSUME NEW n \in Secret, NEW op \in {"set", "delete"}, ChangeSecret(c, op, n)
          PROVE  Enqueue(c, op, None, n, Idle.copy)
      BY <3>5 DEF ChangeSecret
    <3> QED BY <1>4, <3>1, <3>2, <3>3, <3>4, <3>5 DEF Handler
  <2>2. Ends(c) \/ \E op, p, n, copy : Enqueue(c, op, p, n, copy)
    BY <1>4, HandlerEffect
  <2>3. CASE UNCHANGED chain /\ Ends(c)
    BY <1>1, <2>0, <2>3
  <2>4. CASE \E op, p, n, copy : Enqueue(c, op, p, n, copy)
    BY <1>2, <2>4
  <2> QED BY <2>1, <2>2, <2>3, <2>4
<1>5. CASE Answer \/ Refuse \/ Commit
  <2>1. chain # <<>> /\ \E result \in {"done?", "failed?"} : Settle(result)
    BY <1>5 DEF Answer, Refuse, Commit
  <2> QED BY <1>3, <2>1
<1>6. ASSUME NEW c \in Call, Resume(c) PROVE Chained'
  <2>1. Ends(c) /\ calls[c].pc # "queued" /\ UNCHANGED chain
    BY <1>6, ResumeEnds DEF Resume
  <2> QED BY <1>1, <2>1
<1>7. CASE Crash
  BY <1>7 DEF Crash, Chained
<1>8. CASE LoadSecrets \/ Break \/ Repair \/ UNCHANGED vars
  BY <1>8 DEF LoadSecrets, Break, Repair, vars, Chained
<1> QED BY <1>4, <1>5, <1>6, <1>7, <1>8 DEF Next, Handler

\* A step that changes neither the disk nor the chain's answers keeps KeysInv: a
\* version of a provider was there, names no secret or one that is there, and a
\* removal that is over leaves nothing behind.
LEMMA KeysFile ==
  ASSUME TypeOK, Named, KeysInv, UNCHANGED disk, excused \subseteq excused',
         \A q \in Provider \ clouded' : \A v \in Versions(q)' :
            \/ q \notin clouded /\ v \in Versions(q)
            \/ v \notin Secret
            \/ v \in disk \cup excused',
         \A d \in Call :
            \/ Same(d)
            \/ /\ calls'[d].pc # "done?"
               /\ calls'[d].op = "delete" /\ calls'[d].provider # None
                    => calls'[d].name = calls'[d].provider
               /\ d \in Removing =>
                    \A q \in Provider \ clouded' :
                      calls[d].name \in Versions(q)' => calls[d].name \in disk \cup excused'
  PROVE  KeysInv'
<1>1. ASSUME NEW q \in Provider, q \notin clouded', NEW v \in Versions(q)', v \in Secret,
             v \notin disk' \cup excused'
      PROVE  v \in {calls'[c].name : c \in Removing'}
  <2>1. q \notin clouded /\ v \in Versions(q)
    BY <1>1
  <2>2. PICK d \in Removing : v = calls[d].name
    BY <1>1, <2>1 DEF KeysInv, VersionsBacked
  <2>3. d \in Call /\ Same(d)
    BY <1>1, <2>1, <2>2 DEF Removing
  <2>4. d \in Removing'
    BY <2>3 DEF Removing, Same
  <2> QED BY <2>2, <2>3, <2>4 DEF Same
<1>2. VersionsBacked'
  BY <1>1 DEF VersionsBacked
<1>3. ASSUME NEW d \in Call, Same(d)
      PROVE  Standing(d)'
  <2>1. Standing(d)
    BY DEF KeysInv
  <2>2. ASSUME d \in Removing', NEW q \in Provider, q \notin clouded',
               q # calls[d].provider, calls[d].name \in Versions(q)'
        PROVE  calls[d].name \in disk \cup excused'
    <3>1. d \in Removing
      BY <1>3, <2>2 DEF Removing, Same
    <3>2. calls[d].name \in Secret
      BY <3>1 DEF Removing, Named
    <3>3. Spared(d)
      BY <2>1, <3>1 DEF Standing
    <3> QED BY <2>2, <3>2, <3>3 DEF Spared
  <2>3. d \in Removing' => Spared(d)'
    BY <1>3, <2>2 DEF Spared, Same
  <2> QED BY <1>3, <2>1, <2>3 DEF Standing, Same
<1>4. ASSUME NEW d \in Call, calls'[d].pc # "done?",
             calls'[d].op = "delete" /\ calls'[d].provider # None
               => calls'[d].name = calls'[d].provider
      PROVE  Standing(d)'
  BY <1>4 DEF Standing, Removing
<1> QED BY <1>2, <1>3, <1>4 DEF KeysInv

\* The end of a call that saves nothing and has deleted nothing.
LEMMA KeysUnsaved ==
  ASSUME TypeOK, Named, KeysInv, NEW c \in Call, c \notin Removing, NoSave(c),
         UNCHANGED <<disk, excused>>
  PROVE  KeysInv'
<1>1. Over(c, {}) /\ UNCHANGED <<file, clouded>>
  BY DEF NoSave
<1>2. /\ \A d \in Call \ {c} : Same(d)
      /\ calls'[c].op = "none" /\ calls'[c].pc = "over" /\ calls'[c].provider = None
  <2>1. Ends(c)
    BY <1>1 DEF Ends
  <2> QED BY <2>1, OverEffect
<1>3. \A d \in Call \ {c} : /\ calls'[d].provider = calls[d].provider
                           /\ calls'[d].copy = calls[d].copy
                           /\ calls'[d].overlap = calls[d].overlap
  BY <1>1 DEF Over, TypeOK, CallState
<1>4. \A q \in Provider : Versions(q)' \subseteq Versions(q)
  BY <1>1, <1>2, <1>3 DEF Versions
<1> QED BY <1>1, <1>2, <1>4, KeysFile

\* A save, whose own entries name no secret or one that is there.
LEMMA KeysSave ==
  ASSUME TypeOK, Named, KeysInv, NEW c \in Call, NEW changed \in SUBSET Provider,
         NEW cfg \in Config, Save(c, changed, cfg), Carried(c, changed, cfg),
         UNCHANGED disk, excused \subseteq excused',
         \A p \in changed : cfg[p] \in Secret => cfg[p] \in disk \cup excused',
         c \in Removing => changed = {calls[c].provider}
  PROVE  KeysInv'
<1>1. /\ \A d \in Call \ {c} : Same(d)
      /\ calls'[c].op = "none" /\ calls'[c].pc = "over"
  <2>1. Ends(c)
    BY DEF Save, Saved, CutOff, Ends
  <2> QED BY <2>1, OverEffect
<1>2. ASSUME NEW q \in Provider \ clouded', NEW v \in Versions(q)', v \in Secret
      PROVE  \/ q \notin changed /\ q \notin clouded /\ v \in Versions(q)
             \/ v \in disk \cup excused'
  <2>1. v # None
    BY <1>2, SentinelsDiffer
  <2>2. CASE q \in changed
    <3>1. \A w \in Versions(q)' : w \in {cfg[q], None}
      BY <2>2, SaveVersions
    <3> QED BY <1>2, <2>1, <2>2, <3>1
  <2>3. CASE q \notin changed
    BY <1>2, <2>1, <2>3, SaveVersions
  <2> QED BY <2>2, <2>3
<1>3. ASSUME c \in Removing, NEW q \in Provider \ clouded', calls[c].name \in Versions(q)'
      PROVE  calls[c].name \in disk \cup excused'
  <2>1. calls[c].name \in Secret /\ Spared(c)
    BY <1>3 DEF Removing, Named, KeysInv, Standing
  <2> QED BY <1>2, <1>3, <2>1 DEF Spared
<1> QED BY <1>1, <1>2, <1>3, KeysFile

\* The handlers up to their first await.
LEMMA KeysHandler ==
  ASSUME TypeOK, Named, KeysInv, NEW c \in Call, Handler(c)
  PROVE  KeysInv'
<1>0. /\ calls \in [Call -> CallState] /\ calls[c].pc = "idle" /\ c \notin Removing
      /\ UNCHANGED disk
  BY HandlerEffect DEF TypeOK, Removing, Handler, Configure, ConfigureAtOnce, Remove,
                       UpdateConfig, ChangeSecret, Enqueue
<1>1. Load(file) \in Config /\ \A q \in Provider : Load(file)[q] \in Versions(q)
  BY LoadType DEF Versions
<1>2. ASSUME NEW op, NEW p, NEW n, NEW copy, Enqueue(c, op, p, n, copy),
             p # None => copy = Load(file),
             op = "delete" /\ p # None => n = p, UNCHANGED <<file, clouded, excused>>
      PROVE  KeysInv'
  <2>1. /\ calls'[c].pc = "queued" /\ calls'[c].op = op /\ calls'[c].provider = p
        /\ calls'[c].name = n /\ calls'[c].copy = copy
        /\ \A d \in Call \ {c} : calls'[d] = calls[d]
    BY <1>0, <1>2 DEF Enqueue
  <2>2. \A q \in Provider : Versions(q)' \subseteq Versions(q)
    BY <1>2, <2>1 DEF Versions
  <2>3. \A d \in Call \ {c} : Same(d)
    BY <2>1 DEF Same
  <2> QED BY <1>0, <1>2, <2>1, <2>2, <2>3, KeysFile
<1>3. ASSUME NEW p \in Provider, NEW e \in {Env, None},
             Save(c, {p}, [Load(file) EXCEPT ![p] = e]), UNCHANGED excused
      PROVE  KeysInv'
  <2> DEFINE cfg == [Load(file) EXCEPT ![p] = e]
  <2>1. cfg \in Config /\ cfg[p] \notin Secret /\ Carried(c, {p}, cfg)
    BY <1>1, SentinelsDiffer DEF Config, Entry, Carried
  <2> HIDE DEF cfg
  <2>2. Save(c, {p}, cfg)
    BY <1>3 DEF cfg
  <2> QED BY <1>0, <1>3, <2>1, <2>2, KeysSave
<1>4. ASSUME NEW p \in Provider, NEW n \in Secret, NEW op \in {"set", "has"}, Configure(c, p, n, op)
      PROVE  KeysInv'
  <2>1. Enqueue(c, op, p, n, Load(file)) /\ UNCHANGED <<file, clouded, excused>>
    BY <1>4 DEF Configure, told
  <2> QED BY <1>2, <2>1
<1>5. ASSUME NEW p \in Provider, ConfigureAtOnce(c, p)
      PROVE  KeysInv'
  <2>1. UNCHANGED excused /\ (Save(c, {p}, [Load(file) EXCEPT ![p] = Env]) \/ Save(c, {}, Load(file)))
    BY <1>5 DEF ConfigureAtOnce
  <2>2. Carried(c, {}, Load(file)) /\ {} \in SUBSET Provider
    BY <1>1 DEF Carried
  <2>3. CASE Save(c, {}, Load(file))
    BY <1>0, <1>1, <2>1, <2>2, <2>3, KeysSave
  <2> QED BY <1>3, <2>1, <2>3
<1>6. ASSUME NEW p \in Provider, Remove(c, p)
      PROVE  KeysInv'
  <2>1. UNCHANGED excused
    BY <1>6 DEF Remove
  <2>2. \/ NoSave(c) \/ Save(c, {p}, [Load(file) EXCEPT ![p] = None])
        \/ /\ Load(file)[p] = p /\ Enqueue(c, "delete", p, Load(file)[p], Load(file))
           /\ UNCHANGED <<file, clouded>>
    BY <1>6 DEF Remove, Owned
  <2>3. CASE NoSave(c)
    BY <1>0, <2>1, <2>3, KeysUnsaved
  <2> QED BY <1>2, <1>3, <2>1, <2>2, <2>3
<1>7. ASSUME NEW cfg \in Config, UpdateConfig(c, cfg)
      PROVE  KeysInv'
  <2>1. /\ Save(c, Provider, cfg) /\ Carried(c, Provider, cfg)
        /\ excused' = excused \cup ({cfg[p] : p \in Provider} \ disk)
    BY <1>7 DEF UpdateConfig, Carried
  <2>2. \A p \in Provider : cfg[p] \in disk \cup excused'
    BY <2>1
  <2> QED BY <1>0, <2>1, <2>2, KeysSave
<1>8. ASSUME NEW n \in Secret, NEW op \in {"set", "delete"}, ChangeSecret(c, op, n)
      PROVE  KeysInv'
  <2>1. Enqueue(c, op, None, n, Idle.copy) /\ UNCHANGED <<file, clouded, excused>>
    BY <1>8 DEF ChangeSecret, told
  <2> QED BY <1>2, <2>1
<1> QED BY <1>4, <1>5, <1>6, <1>7, <1>8 DEF Handler

\* The rest of a handler: what a configure call saves is on disk, and a removal
\* takes its provider away, the only one that may name what it has deleted.
LEMMA KeysResume ==
  ASSUME TypeOK, Named, KeysInv, NEW c \in Call, Resume(c)
  PROVE  KeysInv'
<1> DEFINE h == calls[c]
           entries == [h.copy EXCEPT ![h.provider] = IF h.op = "delete" THEN None ELSE h.name]
<1>0. /\ h.copy \in Config /\ h.provider \in Provider \cup {None}
      /\ h.name \in Secret \cup {None} /\ Standing(c)
  BY DEF TypeOK, CallState, KeysInv
<1>1. UNCHANGED <<disk, excused>>
  BY DEF Resume, secretsFile
<1>2. CASE NoSave(c) /\ (h.provider = None \/ h.op # "delete")
  <2>1. c \notin Removing
    BY <1>2 DEF Removing
  <2> QED BY <1>1, <1>2, <2>1, KeysUnsaved
<1>3. CASE /\ h.provider # None /\ (h.pc = "done?" \/ h.op = "delete")
           /\ Save(c, {h.provider}, entries)
  <2>1. entries \in Config /\ {h.provider} \in SUBSET Provider
    BY <1>0, <1>3 DEF Config, Entry
  <2>2. Carried(c, {h.provider}, entries)
    BY <1>0, <1>3 DEF Carried, Versions, Config
  <2>3. entries[h.provider] = IF h.op = "delete" THEN None ELSE h.name
    BY <1>0, <1>3 DEF Config
  <2>4. entries[h.provider] \in Secret => entries[h.provider] \in disk
    BY <1>0, <1>3, <2>3, SentinelsDiffer DEF Standing
  <2> QED BY <1>1, <1>3, <2>1, <2>2, <2>4, KeysSave
<1> QED BY <1>2, <1>3 DEF Resume

\* An access that is settled changes its call's pc, which was "queued".
LEMMA SettleCall ==
  ASSUME TypeOK, Chained, chain # <<>>, NEW result \in {"done?", "failed?"}, Settle(result)
  PROVE  /\ Turn \in Call /\ calls[Turn].pc = "queued" /\ Turn \notin Removing
         /\ \A d \in Call \ {Turn} : calls'[d] = calls[d]
         /\ calls'[Turn].pc = result /\ calls'[Turn].op = calls[Turn].op
         /\ calls'[Turn].provider = calls[Turn].provider /\ calls'[Turn].name = calls[Turn].name
         /\ UNCHANGED file => \A q \in Provider : Versions(q)' = Versions(q)
<1>1. Turn = chain[1] /\ 1 \in 1..Len(chain)
  BY DEF TypeOK, Turn
<1>2. calls[Turn].pc = "queued"
  BY <1>1 DEF Chained
<1>3. /\ \A d \in Call \ {Turn} : calls'[d] = calls[d]
      /\ calls'[Turn].pc = result /\ calls'[Turn].op = calls[Turn].op
      /\ calls'[Turn].provider = calls[Turn].provider /\ calls'[Turn].name = calls[Turn].name
      /\ calls'[Turn].copy = calls[Turn].copy /\ calls'[Turn].overlap = calls[Turn].overlap
  BY TurnType DEF Settle, TypeOK, CallState
<1>4. UNCHANGED file => \A q \in Provider : Versions(q)' = Versions(q)
  BY <1>3 DEF Versions
<1> QED BY <1>2, <1>3, <1>4, TurnType DEF Removing

\* The answers, and writes that fail: what has() finds is on disk, and who deletes
\* a name that is not there finds it with nobody, or excused.
LEMMA KeysAnswer ==
  ASSUME TypeOK, Named, Mirror, Chained, KeysInv, Answer \/ Refuse
  PROVE  KeysInv'
<1>1. PICK result \in {"done?", "failed?"} : Settle(result)
  BY DEF Answer, Refuse
<1>2. chain # <<>> /\ cache # Unloaded /\ UNCHANGED <<file, disk, clouded, excused>>
  BY DEF Answer, Refuse, secretsFile, told
<1> PICK t \in Call : t = Turn
  BY <1>2, TurnType
<1>3. /\ t \in Call /\ calls[t].pc = "queued" /\ t \notin Removing
      /\ \A d \in Call \ {t} : calls'[d] = calls[d]
      /\ calls'[t].pc = result /\ calls'[t].op = calls[t].op
      /\ calls'[t].provider = calls[t].provider /\ calls'[t].name = calls[t].name
      /\ \A q \in Provider : Versions(q)' = Versions(q)
  BY <1>1, <1>2, SettleCall
<1>4. \A d \in Call \ {t} : d \in Removing <=> d \in Removing'
  BY <1>3 DEF Removing
<1>5. {calls[d].name : d \in Removing} \subseteq {calls'[d].name : d \in Removing'}
  BY <1>3, <1>4 DEF Removing
<1>6. VersionsBacked'
  BY <1>2, <1>3, <1>5 DEF KeysInv, VersionsBacked
<1>7. ASSUME NEW d \in Call \ {t} PROVE Standing(d)'
  BY <1>2, <1>3, <1>4 DEF KeysInv, Standing, Spared
<1>8. Standing(t)'
  <2>1. result = "done?" =>
          \/ calls[t].op = "has" /\ calls[t].name \in cache
          \/ calls[t].op = "delete" /\ ~unparseable /\ calls[t].name \notin cache
    <3>1. calls'[t].pc = "done?" /\ Answer =>
            \/ calls[t].op = "has" /\ calls[t].name \in cache
            \/ calls[t].op = "delete" /\ ~unparseable /\ calls[t].name \notin cache
      BY <1>3 DEF Answer, Settle, Writable, TypeOK, CallState
    <3>2. Refuse => calls'[t].pc = "failed?"
      BY <1>3 DEF Refuse, Settle, TypeOK, CallState
    <3> QED BY <1>3, <3>1, <3>2
  <2>2. calls[t].op = "delete" /\ calls[t].provider # None
          => calls[t].name = calls[t].provider
    BY <1>3 DEF KeysInv, Standing
  <2>3. result = "done?" /\ calls[t].op # "delete" => calls[t].name \in disk
    BY <1>2, <2>1 DEF Mirror
  <2>4. ASSUME t \in Removing', NEW q \in Provider \ clouded,
               q # calls[t].provider, calls[t].name \in Versions(q)
        PROVE  calls[t].name \in disk \cup excused
    <3>1. calls[t].op = "delete" /\ calls[t].provider # None
          /\ calls[t].name \in Secret
      BY <1>3, <2>4 DEF Removing, Named
    <3>2. CASE \E d \in Removing : calls[d].name = calls[t].name
      <4>1. PICK d \in Removing : calls[d].name = calls[t].name
        BY <3>2
      <4>2. Spared(d) /\ calls[d].provider = calls[d].name
        BY DEF KeysInv, Standing, Removing
      <4> QED BY <2>2, <2>4, <3>1, <4>1, <4>2 DEF Spared
    <3> QED BY <2>4, <3>1, <3>2 DEF KeysInv, VersionsBacked
  <2>5. t \in Removing' => Spared(t)'
    BY <1>2, <1>3, <2>4 DEF Spared
  <2> QED BY <1>2, <1>3, <2>2, <2>3, <2>5 DEF Standing
<1> QED BY <1>6, <1>7, <1>8 DEF KeysInv

\* Writes: nobody is between a settled access and its save, so the only secret
\* that leaves the disk is deleted on purpose, excused, or its provider's own.
LEMMA KeysCommit ==
  ASSUME TypeOK, Named, Mirror, Chained, KeysInv, Commit
  PROVE  KeysInv'
<1>1. /\ chain # <<>> /\ cache = disk /\ Settle("done?") /\ UNCHANGED <<file, clouded>>
      /\ \A c \in Call : calls[c].pc \notin {"done?", "failed?"}
  BY DEF Commit, Mirror, Writable, NobodyResumes
<1> PICK t \in Call : t = Turn
  BY <1>1, TurnType
<1>2. /\ t \in Call /\ calls[t].pc = "queued" /\ t \notin Removing
      /\ \A d \in Call \ {t} : calls'[d] = calls[d]
      /\ calls'[t].pc = "done?" /\ calls'[t].op = calls[t].op
      /\ calls'[t].provider = calls[t].provider /\ calls'[t].name = calls[t].name
      /\ \A q \in Provider : Versions(q)' = Versions(q)
  BY <1>1, SettleCall
<1>3. Removing = {} /\ \A d \in Call \ {t} : d \notin Removing'
  BY <1>1, <1>2 DEF Removing
<1>4. ASSUME NEW d \in Call \ {t} PROVE Standing(d)'
  BY <1>1, <1>2, <1>3 DEF KeysInv, Standing
<1>5. \A q \in Provider \ clouded : \A n \in Versions(q) \cap Secret : n \in disk \cup excused
  BY <1>3 DEF KeysInv, VersionsBacked
<1>6. calls[t].op = "delete" /\ calls[t].provider # None
        => calls[t].name = calls[t].provider
  BY <1>2 DEF KeysInv, Standing
<1>7. CASE calls[t].op = "set" /\ Replace(cache \cup {calls[t].name})
           /\ excused' = excused \ {calls[t].name}
  <2>1. disk' = disk \cup {calls[t].name} /\ disk \cup excused \subseteq disk' \cup excused'
    BY <1>1, <1>7 DEF Replace
  <2>2. VersionsBacked'
    BY <1>1, <1>2, <1>5, <2>1 DEF VersionsBacked
  <2>3. Standing(t)'
    BY <1>2, <1>7, <2>1 DEF Standing, Removing
  <2> QED BY <1>4, <2>2, <2>3 DEF KeysInv
<1>8. CASE /\ calls[t].op = "delete" /\ Replace(cache \ {calls[t].name})
           /\ excused' = IF \/ calls[t].provider = None
                            \/ \E q \in Provider \ {calls[t].provider} : calls[t].name \in Versions(q)
                         THEN excused \cup {calls[t].name} ELSE excused
  <2>1. disk' = disk \ {calls[t].name} /\ excused \subseteq excused'
    BY <1>1, <1>8 DEF Replace
  <2>2. ASSUME NEW q \in Provider, calls[t].name \in Versions(q)
        PROVE  \/ calls[t].name \in excused'
               \/ calls[t].provider # None /\ q = calls[t].provider
    BY <1>8, <2>2
  <2>3. calls[t].provider # None => t \in Removing'
    BY <1>2, <1>8 DEF Removing
  <2>4. ASSUME NEW q \in Provider \ clouded, NEW n \in Versions(q) \cap Secret,
               n \notin disk' \cup excused'
        PROVE  n = calls[t].name /\ t \in Removing'
    BY <1>5, <2>1, <2>2, <2>3, <2>4
  <2>5. VersionsBacked'
    BY <1>1, <1>2, <2>4 DEF VersionsBacked
  <2>6. Spared(t)'
    BY <1>1, <1>2, <2>2 DEF Spared
  <2>7. Standing(t)'
    BY <1>2, <1>6, <1>8, <2>6 DEF Standing
  <2> QED BY <1>4, <2>5, <2>7 DEF KeysInv
<1> QED BY <1>7, <1>8 DEF Commit

\* The end of the daemon excuses what removals had deleted; the rest of the
\* environment and the first read change nothing of it.
LEMMA KeysRest ==
  ASSUME TypeOK, Named, KeysInv, LoadSecrets \/ Crash \/ Break \/ Repair \/ UNCHANGED vars
  PROVE  KeysInv'
<1>1. CASE LoadSecrets \/ Break \/ Repair \/ UNCHANGED vars
  <2>1. UNCHANGED <<file, disk, clouded, excused, calls>>
    BY <1>1 DEF LoadSecrets, Break, Repair, vars, secretsFile, told
  <2>2. \A q \in Provider : Versions(q)' = Versions(q)
    BY <2>1 DEF Versions
  <2> QED BY <2>1, <2>2, KeysFile DEF Same
<1>2. CASE Crash
  <2>1. /\ UNCHANGED <<file, disk, clouded>> /\ excused \subseteq excused'
        /\ \A d \in Removing : calls[d].name \in excused'
        /\ \A d \in Call : /\ calls'[d].pc # "done?" /\ calls'[d].op # "delete"
                           /\ calls'[d].provider = None
    BY <1>2 DEF Crash, secretsFile, Removing, Idle
  <2>2. \A q \in Provider : Versions(q)' \subseteq Versions(q)
    BY <2>1 DEF Versions
  <2> QED BY <2>1, <2>2, KeysFile
<1> QED BY <1>1, <1>2

\* The secrets that the file names, for ever.
LEMMA KeysStep == IInv /\ Chained /\ KeysInv /\ [Next]_vars => KeysInv'
<1> SUFFICES ASSUME IInv, Chained, KeysInv, [Next]_vars PROVE KeysInv'
  OBVIOUS
<1>0. TypeOK /\ Named /\ Mirror
  BY DEF IInv
<1>1. CASE \E c \in Call : Handler(c)
  BY <1>0, <1>1, KeysHandler
<1>2. CASE \E c \in Call : Resume(c)
  BY <1>0, <1>2, KeysResume
<1> QED BY <1>0, <1>1, <1>2, KeysAnswer, KeysCommit, KeysRest DEF Next, Handler

\* Every provider's secret is there when the daemon starts, and nobody waits.
LEMMA KeysInit == Init => Chained /\ KeysInv /\ VersionsMeant
<1> SUFFICES ASSUME Init PROVE Chained /\ KeysInv /\ VersionsMeant
  OBVIOUS
<1>1. Chained /\ Removing = {} /\ \A c \in Call : calls[c] = Idle
  BY DEF Init, Chained, Removing, Idle
<1>2. \A c \in Call : Standing(c)
  BY <1>1 DEF Standing, Idle
<1>3. file \in Config /\ \A p \in Provider : file[p] \in Secret => file[p] \in disk
  BY SentinelsDiffer DEF Init, Config, Entry
<1>4. \A p \in Provider : Versions(p) = {file[p]}
  BY <1>1, <1>3, SentinelsDiffer DEF Versions, Load, Idle
<1> QED BY <1>1, <1>2, <1>3, <1>4 DEF Init, KeysInv, VersionsBacked, VersionsMeant

-----------------------------------------------------------------------------
\* Every variable of the configuration and of the secret store keeps its type,
\* whatever calls, crashes, failed writes and hand edits come in whatever order.
THEOREM TypeCorrect == Spec => []TypeOK
<1>1. IInv => TypeOK
  BY DEF IInv
<1> QED BY InitInv, StepInv, <1>1, PTL DEF Spec

\* An acknowledged secret stays on disk until it is deleted: FileSecretStore
\* never writes a map that was not loaded from the file that it replaces.
THEOREM SecretsStay == Spec => []SecretsKept
<1>1. IInv => SecretsKept
  BY DEF IInv
<1> QED BY InitInv, StepInv, <1>1, PTL DEF Spec

\* What the file says of a provider is what was last acknowledged, or what a save
\* that was cut off may have left: handlers carry nothing over but what they loaded
\* and no other call has changed since.
THEOREM ChangesSurvive == Spec => []ChangesKept
<1>1. IInv => TypeOK
  BY DEF IInv
<1>2. VersionsMeant => ChangesKept
  BY DEF VersionsMeant, Versions, ChangesKept
<1> QED BY InitInv, StepInv, KeysInit, VersionsStep, <1>1, <1>2, PTL DEF Spec

\* A provider names a secret of the store: configure calls set or look up the
\* secret before they save, removals take away the provider that invented it.
THEOREM KeysAreThere == Spec => []KeysBacked
<1>1. IInv => TypeOK
  BY DEF IInv
<1>2. KeysInv => KeysBacked
  BY DEF KeysInv, VersionsBacked, Versions, KeysBacked
<1> QED BY InitInv, StepInv, KeysInit, ChainStep, KeysStep, <1>1, <1>2, PTL DEF Spec
==============================================================================
