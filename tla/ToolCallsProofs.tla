---------------------------- MODULE ToolCallsProofs ----------------------------
(***************************************************************************)
(* For any tools, policies, chats and MCP clients: what runs is what the   *)
(* policy or the user allowed, and requests are listed while somebody      *)
(* waits for the answer.                                                   *)
(***************************************************************************)
EXTENDS ToolCalls, TLAPS, SequenceTheorems, FiniteSetTheorems, WellFoundedInduction

--------------------------------------------------------------------------------
(* The registry. *)

\* < on the naturals, as the library's theorem about it is stated and as a set.
LEMMA LessIsOrder == OpToRel(<, Nat) = {ss \in Nat \X Nat : ss[1] < ss[2]}
  BY Zenon DEF OpToRel

\* That order is well-founded.
LEMMA LessIsWellFounded == IsWellFoundedOn({ss \in Nat \X Nat : ss[1] < ss[2]}, Nat)
  BY Zenon, LessIsOrder, NatLessThanWellFounded

\* A set of natural numbers has a smallest one.
LEMMA Smallest ==
  ASSUME NEW T \in SUBSET Nat, T # {}
  PROVE  \E x \in T : \A y \in T : ~(y < x)
<1> DEFINE R == {ss \in Nat \X Nat : ss[1] < ss[2]}
<1>1. IsWellFoundedOn(R, Nat)
  BY LessIsWellFounded
<1>2. \A y, x \in Nat : <<y, x>> \in R <=> y < x
  OBVIOUS
<1> HIDE DEF R
<1>3. PICK x \in T : \A y \in T : ~(<<y, x>> \in R)
  BY <1>1, WFMin
<1> QED BY <1>2, <1>3

\* The first of some tools of a registry is one of them.
LEMMA FirstIsOne ==
  ASSUME NEW reg \in Seq(Tool), NEW T, T \cap Range(reg) # {}
  PROVE  FirstOf(reg, T) \in T \cap Range(reg)
<1> DEFINE I == {i \in DOMAIN reg : reg[i] \in T}
<1>1. DOMAIN reg = 1..Len(reg) /\ Len(reg) \in Nat
  BY LenProperties
<1>2. I # {} /\ I \in SUBSET Nat
  BY <1>1 DEF Range
<1>3. PICK i \in I : \A j \in I : ~(j < i)
  BY <1>2, Smallest
<1>4. i \in DOMAIN reg /\ reg[i] \in T /\ \A j \in 1..i-1 : reg[j] \notin T
  BY <1>1, <1>3
<1> DEFINE First(k) == reg[k] \in T /\ \A j \in 1..k-1 : reg[j] \notin T
<1>5. First(CHOOSE k \in DOMAIN reg : First(k)) /\ (CHOOSE k \in DOMAIN reg : First(k)) \in DOMAIN reg
  BY <1>4
<1> QED BY <1>5 DEF FirstOf, Range

\* For each n up to their number, some member of a set of indices is the n-th.
LEMMA NthExists ==
  ASSUME NEW m \in Nat, NEW K \in SUBSET (1..m), NEW n \in 1..Cardinality(K)
  PROVE  \E i \in K : Cardinality({j \in K : j <= i}) = n
<1> DEFINE Below(i) == {j \in K : j <= i}
           size == [i \in 0..m |-> Cardinality(Below(i))]
           T == {i \in 0..m : n <= size[i]}
<1> HIDE DEF Below, size, T
<1>0. \A j \in K : j \in Nat /\ 1 <= j /\ j <= m
  OBVIOUS
<1>b. \A i, j : j \in Below(i) <=> j \in K /\ j <= i
  BY DEF Below
<1>1. IsFiniteSet(K)
  <2>1. IsFiniteSet(1..m)
    BY FS_Interval
  <2> QED BY <2>1, FS_Subset
<1>2. ASSUME NEW i \in 0..m
      PROVE  IsFiniteSet(Below(i)) /\ size[i] = Cardinality(Below(i)) /\ size[i] \in Nat
  <2>1. IsFiniteSet(Below(i))
    BY <1>1, FS_Subset DEF Below
  <2> QED BY <2>1, FS_CardinalityType DEF size
<1>3. Below(m) = K
  BY <1>0, <1>b
<1>4. Below(0) = {}
  <2>1. \A j \in K : ~(j <= 0)
    BY <1>0
  <2>2. \A j : j \notin Below(0)
    BY <1>b, <2>1
  <2> QED BY <2>2
<1>5. Cardinality(K) \in Nat /\ n \in Nat /\ 1 <= n /\ n <= Cardinality(K)
  BY <1>1, FS_CardinalityType
<1>6. size[m] = Cardinality(K) /\ size[0] = 0
  BY <1>2, <1>3, <1>4, FS_EmptySet
<1>7. m \in T /\ T \in SUBSET Nat
  BY <1>5, <1>6 DEF T
<1>8. PICK i \in T : \A j \in T : ~(j < i)
  BY <1>7, Smallest
<1>9. i \in 1..m /\ n <= size[i]
  <2>1. i \in 0..m /\ n <= size[i]
    BY <1>8 DEF T
  <2>2. i # 0
    BY <1>5, <1>6, <2>1
  <2> QED BY <2>1, <2>2
<1>10. i - 1 \in 0..m /\ size[i - 1] < n
  <2>1. i - 1 \in 0..m /\ i - 1 < i
    BY <1>9
  <2>2. i - 1 \notin T
    BY <1>8, <2>1
  <2>3. ~(n <= size[i - 1]) /\ size[i - 1] \in Nat
    BY <1>2, <2>1, <2>2 DEF T
  <2> QED BY <1>5, <2>1, <2>3
<1>11. CASE i \in K
  <2>1. Below(i) = Below(i - 1) \cup {i}
    <3>1. \A j : j \in Below(i) <=> j \in Below(i - 1) \/ j = i
      <4>1. \A j \in K : j <= i <=> j <= i - 1 \/ j = i
        BY <1>0, <1>9
      <4> QED BY <1>b, <1>11, <4>1
    <3> QED BY <3>1
  <2>2. i \notin Below(i - 1)
    BY <1>b, <1>9
  <2>3. IsFiniteSet(Below(i - 1)) /\ size[i - 1] = Cardinality(Below(i - 1)) /\ size[i - 1] \in Nat
    BY <1>2, <1>10
  <2>4. Cardinality(Below(i - 1) \cup {i}) = Cardinality(Below(i - 1)) + 1
    BY <2>2, <2>3, FS_AddElement
  <2>5. size[i] = Cardinality(Below(i))
    BY <1>2, <1>9
  <2>6. Cardinality(Below(i)) = n
    BY <1>5, <1>9, <1>10, <2>1, <2>3, <2>4, <2>5
  <2> QED BY <1>11, <2>6 DEF Below
<1>12. CASE i \notin K
  <2>1. Below(i) = Below(i - 1)
    <3>1. \A j : j \in Below(i) <=> j \in Below(i - 1)
      <4>1. \A j \in K : j <= i <=> j <= i - 1 \/ j = i
        BY <1>0, <1>9
      <4> QED BY <1>b, <1>12, <4>1
    <3> QED BY <3>1
  <2>2. size[i] = size[i - 1]
    BY <1>2, <1>9, <1>10, <2>1
  <2> QED BY <1>2, <1>5, <1>9, <1>10, <2>2
<1> QED BY <1>11, <1>12

\* Removing a source leaves a registry of tools that were there.
LEMMA WithoutType ==
  ASSUME NEW reg \in Seq(Tool), NEW s \in Source
  PROVE  Without(reg, s) \in Seq(Tool) /\ Range(Without(reg, s)) \subseteq Range(reg)
<1> DEFINE K == {i \in DOMAIN reg : reg[i] \notin Range(ToolsOf[s])}
           Nth(n) == CHOOSE i \in K : Cardinality({j \in K : j <= i}) = n
           N == Cardinality(K)
<1>1. DOMAIN reg = 1..Len(reg) /\ Len(reg) \in Nat
  BY LenProperties
<1>2. K \in SUBSET (1..Len(reg)) /\ N \in Nat
  <2>1. K \subseteq 1..Len(reg) /\ IsFiniteSet(1..Len(reg))
    BY <1>1, FS_Interval
  <2>2. IsFiniteSet(K)
    BY <2>1, FS_Subset
  <2> QED BY <2>1, <2>2, FS_CardinalityType
<1>3. \A n \in 1..N : Nth(n) \in K
  BY <1>1, <1>2, NthExists
<1>4. Without(reg, s) = [n \in 1..N |-> reg[Nth(n)]]
  BY DEF Without
<1>5. \A n \in 1..N : reg[Nth(n)] \in Tool /\ reg[Nth(n)] \in Range(reg)
  BY <1>1, <1>3, ElementOfSeq DEF Range
<1> HIDE DEF Nth, N
<1>6. Without(reg, s) \in Seq(Tool)
  BY <1>2, <1>4, <1>5, IsASeq
<1>7. Range(Without(reg, s)) \subseteq Range(reg)
  BY <1>4, <1>5 DEF Range
<1> QED BY <1>6, <1>7

\* A source's tools are tools.
LEMMA SourceTools ==
  ASSUME NEW s \in Source
  PROVE  ToolsOf[s] \in Seq(Tool) /\ Range(ToolsOf[s]) \subseteq Tool
<1>1. Range(ToolsOf[s]) \subseteq Tool
  BY DEF Tool
<1>2. ToolsOf[s] \in Seq(Range(ToolsOf[s]))
  BY ToolAssumption
<1> QED BY <1>1, <1>2, SeqMonotonic

\* A source that connects leaves a registry.
LEMMA WithType ==
  ASSUME NEW reg \in Seq(Tool), NEW s \in Source
  PROVE  With(reg, s) \in Seq(Tool)
BY WithoutType, SourceTools, ConcatProperties DEF With

\* Only tools are registered, and a name is resolved to a tool that has it.
LEMMA Resolved ==
  ASSUME NEW reg \in Seq(Tool), NEW n
  PROVE  /\ Range(reg) \subseteq Tool
         /\ Resolve(reg, n) = None \/ (Resolve(reg, n) \in Range(reg) /\ Bare[Resolve(reg, n)] = n)
<1>1. Range(reg) \subseteq Tool
  BY RangeOfSeq
<1>2. CASE Named(reg, n) = {}
  BY <1>1, <1>2 DEF Resolve
<1>3. CASE Named(reg, n) # {}
  <2>1. Named(reg, n) \cap Range(reg) # {}
    BY <1>3 DEF Named
  <2>2. FirstOf(reg, Named(reg, n)) \in Named(reg, n)
    BY <2>1, FirstIsOne
  <2> QED BY <1>1, <1>3, <2>2 DEF Resolve, Named
<1> QED BY <1>2, <1>3

\* A chat is offered registered tools that the policy does not disable, and none
\* of another session's.
LEMMA OfferType ==
  ASSUME NEW reg \in Seq(Tool), NEW policy, NEW x
  PROVE  /\ ListForChat(reg, policy, x) \subseteq Range(reg)
         /\ \A t \in ListForChat(reg, policy, x) :
              Classify(t, policy) # "disabled" /\ Scope[From(t)] \in {None, x}
<1> DEFINE shown == {t \in Range(reg) : /\ Scope[From(t)] \in {None, x}
                                        /\ Classify(t, policy) # "disabled"}
           alike(t) == {u \in shown : Bare[u] = Bare[t]}
<1>1. ASSUME NEW t \in shown
      PROVE  FirstOf(reg, alike(t)) \in shown
  <2>1. alike(t) \cap Range(reg) # {}
    OBVIOUS
  <2>2. FirstOf(reg, alike(t)) \in alike(t)
    BY <2>1, FirstIsOne
  <2> QED BY <2>2
<1>2. ListForChat(reg, policy, x) = {FirstOf(reg, alike(t)) : t \in shown}
  BY DEF ListForChat
<1> HIDE DEF alike
<1> QED BY <1>1, <1>2

--------------------------------------------------------------------------------
(* The inductive invariant. *)

Waits == {"asking", "approved", "running"}

\* What is known of a caller p in local state l, with a registry reg, rivals
\* riv, kinds kd, sessions wn and names al allowed for good.  It goes by a policy
\* while it is under way, and calls what it was offered.  A chat was offered
\* nothing that the policy disables and nothing of another session's.  Only a
\* rival was offered a name that another tool has, or runs what it did not call.
\* And for those whose calls are judged, what is called is not disabled, and is
\* approved or allowed once it goes on.
Sound(p, l, reg, riv, kd, wn, al) ==
  /\ l.pc \notin {"idle", "ended"} => l.policy \in Policy
  /\ l.pc \in Waits => l.wanted \in l.offer
  /\ p \in Chat => \A t \in l.offer :
       Classify(t, l.policy) # "disabled" /\ Scope[From(t)] \in {None, wn[p]}
  /\ p \notin riv => \A t \in l.offer, u \in Range(reg) : Bare[u] = Bare[t] => u = t
  /\ p \notin riv /\ l.pc = "running" => l.running = l.wanted
  /\ (p \notin riv /\ IF p \in Chat THEN kd[p] # "rpc" ELSE l.found) =>
       /\ l.pc \in Waits => Classify(l.wanted, l.policy) # "disabled"
       /\ l.pc \in {"approved", "running"} =>
            \/ Classify(l.wanted, l.policy) = "auto_approve"
            \/ l.allowed
            \/ p \in Chat /\ Bare[l.wanted] \in al[p]

AllSound == \A p \in Caller : Sound(p, call[p], registry, rival, kind, within, always)

IInv == TypeOK /\ RequestsWaited /\ AllSound

\* Names that are allowed and rivals that are found leave a caller sound, and so
\* do tools that go.
LEMMA SoundStays ==
  ASSUME NEW p, NEW l, NEW reg1, NEW reg2, NEW riv1, NEW riv2, NEW kd, NEW wn, NEW al1, NEW al2,
         Sound(p, l, reg1, riv1, kd, wn, al1),
         Range(reg2) \subseteq Range(reg1), riv1 \subseteq riv2, p \in Chat => al1[p] \subseteq al2[p]
  PROVE  Sound(p, l, reg2, riv2, kd, wn, al2)
BY DEF Sound

\* A caller who does nothing.
LEMMA FreshSound ==
  ASSUME NEW p, NEW reg, NEW riv, NEW kd, NEW wn, NEW al
  PROVE  /\ Fresh \in Local /\ Ended \in Local
         /\ Fresh.running = None /\ Fresh.pc = "idle" /\ Ended.running = None /\ Ended.pc = "ended"
         /\ Sound(p, Fresh, reg, riv, kd, wn, al) /\ Sound(p, Ended, reg, riv, kd, wn, al)
<1>1. /\ Fresh \in Local /\ Ended \in Local /\ Fresh.running = None /\ Ended.running = None
      /\ Fresh.pc = "idle" /\ Ended.pc = "ended" /\ Fresh.offer = {} /\ Ended.offer = {}
  BY DEF Fresh, Ended, Local
<1> QED BY <1>1 DEF Sound, Waits

\* One caller takes a step to a local state l that is sound; requests of the
\* others stay listed.
LEMMA CallStep ==
  ASSUME IInv, NEW p \in Caller, NEW l \in Local, call' = [call EXCEPT ![p] = l],
         (l.pc = "running") = (l.running # None),
         UNCHANGED <<registry, kind, within>>, rival \subseteq rival', \A c \in Chat : always[c] \subseteq always'[c],
         Sound(p, l, registry, rival', kind, within, always'),
         pending' \subseteq Caller, p \in pending' <=> l.pc = "asking",
         \A q \in Caller : q # p => (q \in pending' <=> q \in pending),
         UNCHANGED <<consents, session>>
  PROVE  /\ call' \in [Caller -> Local]
         /\ \A q \in Caller : (call'[q].pc = "running") = (call'[q].running # None)
         /\ RequestsWaited' /\ AllSound'
<1>0. TypeOK /\ RequestsWaited /\ AllSound
  BY DEF IInv
<1>1. \A q \in Caller : call'[q] = IF q = p THEN l ELSE call[q]
  BY <1>0 DEF TypeOK
<1>2. call' \in [Caller -> Local]
  BY <1>0 DEF TypeOK
<1>3. \A q \in Caller : (call'[q].pc = "running") = (call'[q].running # None)
  BY <1>0, <1>1 DEF TypeOK
<1>4. \A q \in Caller : q \in pending' <=> call'[q].pc = "asking"
  BY <1>0, <1>1 DEF RequestsWaited
<1>5. RequestsWaited'
  BY <1>0, <1>4 DEF RequestsWaited
<1>6. ASSUME NEW q \in Caller
      PROVE  Sound(q, call'[q], registry, rival', kind, within, always')
  <2>1. CASE q = p
    BY <1>1, <2>1
  <2>2. CASE q # p
    <3>1. Sound(q, call[q], registry, rival, kind, within, always)
      BY <1>0 DEF AllSound
    <3>2. Sound(q, call[q], registry, rival', kind, within, always')
      BY <3>1, SoundStays
    <3> QED BY <1>1, <2>2, <3>2
  <2> QED BY <2>1, <2>2
<1> QED BY <1>2, <1>3, <1>5, <1>6 DEF AllSound

--------------------------------------------------------------------------------
(* The environment. *)

\* Rivals are callers; a caller that is none when a registry is looked at has no
\* namesake in it.
LEMMA RivalsFound ==
  ASSUME NEW reg, NEW local, NEW p \in Caller
  PROVE  /\ Rivals(reg, local) \subseteq Caller
         /\ p \notin Rivals(reg, local) =>
              \A t \in local[p].offer, u \in Range(reg) : Bare[u] = Bare[t] => u = t
BY DEF Rivals

\* A source that connects makes rivals of those it has names in common with.
LEMMA ConnectKeeps ==
  ASSUME IInv, NEW s \in Source, Connect(s)
  PROVE  IInv'
<1>0. TypeOK /\ RequestsWaited /\ AllSound
  BY DEF IInv
<1>1. registry' \in Seq(Tool) /\ rival' = rival \cup Rivals(registry', call)
  BY <1>0, WithType DEF Connect, TypeOK
<1>2. changes' \in 0..MaxChanges
  BY <1>0, CallerAssumption DEF Connect, Change, TypeOK
<1>3. rival' \subseteq Caller
  BY <1>0, <1>1 DEF TypeOK, Rivals
<1>4. TypeOK'
  BY <1>0, <1>1, <1>2, <1>3 DEF Connect, TypeOK, chatVars, mcpVars
<1>5. ASSUME NEW p \in Caller
      PROVE  Sound(p, call[p], registry', rival', kind, within, always)
  <2>1. Sound(p, call[p], registry, rival, kind, within, always)
    BY <1>0 DEF AllSound
  <2>2. p \notin rival' => \A t \in call[p].offer, u \in Range(registry') : Bare[u] = Bare[t] => u = t
    BY <1>1, RivalsFound
  <2>3. p \notin rival' => p \notin rival
    BY <1>1
  <2> QED BY <2>1, <2>2, <2>3 DEF Sound
<1> QED BY <1>0, <1>4, <1>5 DEF IInv, AllSound, Connect, RequestsWaited, chatVars, mcpVars

\* A source that goes takes tools away and adds none.
LEMMA DisconnectKeeps ==
  ASSUME IInv, NEW s \in Source, Disconnect(s)
  PROVE  IInv'
<1>0. TypeOK /\ RequestsWaited /\ AllSound
  BY DEF IInv
<1>1. registry \in Seq(Tool)
  BY <1>0 DEF TypeOK
<1>2. registry' \in Seq(Tool) /\ Range(registry') \subseteq Range(registry)
  BY <1>1, WithoutType DEF Disconnect
<1>3. changes' \in 0..MaxChanges
  BY <1>0, CallerAssumption DEF Disconnect, Change, TypeOK
<1>4. TypeOK'
  BY <1>0, <1>2, <1>3 DEF Disconnect, TypeOK, chatVars, mcpVars
<1>5. ASSUME NEW p \in Caller
      PROVE  Sound(p, call[p], registry', rival, kind, within, always)
  <2>1. Sound(p, call[p], registry, rival, kind, within, always)
    BY <1>0 DEF AllSound
  <2> QED BY <1>2, <2>1, SoundStays
<1> QED BY <1>0, <1>4, <1>5 DEF IInv, AllSound, Disconnect, RequestsWaited, chatVars, mcpVars

\* Whoever goes by a policy keeps the one it has read.
LEMMA ConfigureKeeps ==
  ASSUME IInv, NEW new \in Policy, Configure(new)
  PROVE  IInv'
<1>0. TypeOK /\ RequestsWaited /\ AllSound
  BY DEF IInv
<1>1. changes' \in 0..MaxChanges
  BY <1>0, CallerAssumption DEF Configure, Change, TypeOK
<1>2. TypeOK'
  BY <1>0, <1>1 DEF Configure, TypeOK, chatVars, mcpVars
<1> QED BY <1>0, <1>2 DEF IInv, AllSound, Configure, RequestsWaited, chatVars, mcpVars

--------------------------------------------------------------------------------
(* Judging. *)

\* What is not forbidden, or approved, as the tool its name resolves to is so
\* itself, if no other tool has the name and, for the first, it is registered.
LEMMA JudgedAlone ==
  ASSUME TypeOK, NEW t \in Tool, NEW policy \in Policy,
         \A u \in Range(registry) : Bare[u] = Bare[t] => u = t
  PROVE  /\ Approved(t, policy) => Classify(t, policy) = "auto_approve"
         /\ ~Forbidden(t, policy) /\ t \in Range(registry) => Classify(t, policy) # "disabled"
<1> DEFINE r == Resolve(registry, Bare[t])
<1>1. registry \in Seq(Tool)
  BY DEF TypeOK
<1>2. r = None \/ r = t
  BY <1>1, Resolved
<1>3. t \in Range(registry) => r # None
  <2>1. t \in Range(registry) => Named(registry, Bare[t]) \cap Range(registry) # {}
    BY DEF Named
  <2>2. Named(registry, Bare[t]) # {} => r \in Range(registry)
    <3>1. Named(registry, Bare[t]) # {} => Named(registry, Bare[t]) \cap Range(registry) # {}
      BY DEF Named
    <3> QED BY <1>1, <3>1, FirstIsOne DEF Resolve
  <2> QED BY <1>1, <2>1, <2>2, Resolved, ToolAssumption
<1>4. Classify(None, policy) = "default_ask"
  BY CallerAssumption, ToolAssumption DEF Classify, Policies
<1> HIDE DEF r
<1>5. TierOf(t, policy) = Classify(r, policy)
  BY DEF TierOf, r
<1> QED BY <1>2, <1>3, <1>4, <1>5 DEF Approved, Forbidden

--------------------------------------------------------------------------------
(* Chats. *)

\* A chat starts with the policy and the tools of the moment.
LEMMA StartChatKeeps ==
  ASSUME IInv, NEW c \in Chat, StartChat(c)
  PROVE  IInv'
<1>0. TypeOK /\ RequestsWaited /\ AllSound
  BY DEF IInv
<1> DEFINE new == [Fresh EXCEPT !.pc = "streaming", !.policy = config,
                                !.offer = ListForChat(registry, config, within[c])]
<1>1. PICK l \in {Ended, new} : call' = [call EXCEPT ![c] = l]
  BY DEF StartChat
<1>2. c \in Caller /\ registry \in Seq(Tool) /\ config \in Policy
  BY <1>0 DEF Caller, TypeOK
<1>3. /\ ListForChat(registry, config, within[c]) \subseteq Tool
      /\ \A t \in ListForChat(registry, config, within[c]) :
           Classify(t, config) # "disabled" /\ Scope[From(t)] \in {None, within[c]}
  BY <1>2, OfferType, Resolved
<1>4. /\ new \in Local /\ new.pc = "streaming" /\ new.running = None /\ new.policy = config
      /\ new.offer = ListForChat(registry, config, within[c])
  BY <1>2, <1>3 DEF Fresh, Local
<1> HIDE DEF new
<1>5. rival' = rival \cup Rivals(registry, call') /\ call'[c] = l
  BY <1>0, <1>1, <1>2 DEF StartChat, TypeOK
<1>6. c \notin rival' => \A t \in l.offer, u \in Range(registry) : Bare[u] = Bare[t] => u = t
  <2>1. c \notin rival' => \A t \in call'[c].offer, u \in Range(registry) : Bare[u] = Bare[t] => u = t
    BY <1>2, <1>5, RivalsFound
  <2> QED BY <1>5, <2>1
<1>7. /\ l \in Local /\ (l.pc = "running") = (l.running # None) /\ l.pc \in {"streaming", "ended"}
      /\ Sound(c, l, registry, rival', kind, within, always)
  <2>1. CASE l = Ended
    BY <2>1, FreshSound
  <2>2. CASE l = new
    BY <1>2, <1>3, <1>4, <1>6, <2>2 DEF Sound, Waits
  <2> QED BY <2>1, <2>2
<1>8. rival' \subseteq Caller
  BY <1>0, <1>5 DEF TypeOK, Rivals
<1>9. UNCHANGED <<registry, config, changes, kind, within, always, calls, left, late, pending,
                  session, captured, consents, remembered>>
  BY DEF StartChat, toolVars, chatVars, mcpVars
<1>10. c \notin pending
  BY <1>0, <1>2 DEF StartChat, RequestsWaited
<1>11. /\ call' \in [Caller -> Local]
       /\ \A q \in Caller : (call'[q].pc = "running") = (call'[q].running # None)
       /\ RequestsWaited' /\ AllSound'
  <2>1. pending' \subseteq Caller
    BY <1>0, <1>9 DEF TypeOK
  <2> QED BY <1>1, <1>2, <1>5, <1>7, <1>9, <1>10, <2>1, CallStep
<1>12. TypeOK'
  BY <1>0, <1>8, <1>9, <1>11 DEF TypeOK
<1> QED BY <1>11, <1>12 DEF IInv

\* A tool that is proposed was offered, so the chat's policy does not disable it.
LEMMA ProposeKeeps ==
  ASSUME IInv, NEW c \in Chat, NEW t \in Tool, Propose(c, t)
  PROVE  IInv'
<1> DEFINE local == call[c]
           asks == ~Forbidden(t, local.policy) /\ ~Approved(t, local.policy) /\ Bare[t] \notin always[c]
           judged == IF Forbidden(t, local.policy) THEN local
                     ELSE [local EXCEPT !.wanted = t, !.allowed = FALSE,
                                        !.pc = IF asks THEN "asking" ELSE "approved"]
           free == [local EXCEPT !.pc = "approved", !.wanted = t]
<1>0. TypeOK /\ RequestsWaited /\ AllSound
  BY DEF IInv
<1>1. /\ c \in Caller /\ local \in Local /\ local.pc = "streaming" /\ local.running = None
      /\ t \in local.offer /\ Sound(c, local, registry, rival, kind, within, always) /\ c \notin pending
  BY <1>0 DEF Caller, TypeOK, AllSound, RequestsWaited, Propose
<1>2. /\ UNCHANGED <<registry, config, changes, kind, within, always, left, rival,
                     session, captured, consents, remembered>>
      /\ calls[c] < MaxCalls /\ calls' = [calls EXCEPT ![c] = @ + 1]
  BY DEF Propose, toolVars, mcpVars
<1>3. calls' \in [Chat -> 0..MaxCalls]
  BY <1>0, <1>2, CallerAssumption DEF TypeOK
<1>4. /\ judged \in Local /\ judged.offer = local.offer /\ judged.policy = local.policy /\ judged.running = None
      /\ judged.pc = IF Forbidden(t, local.policy) THEN "streaming" ELSE IF asks THEN "asking" ELSE "approved"
      /\ ~Forbidden(t, local.policy) => judged.wanted = t
      /\ free \in Local /\ free.offer = local.offer /\ free.policy = local.policy /\ free.running = None
      /\ free.pc = "approved" /\ free.wanted = t
  BY <1>1 DEF Local
<1>5. CASE kind[c] = "rpc"
  <2>1. call' = [call EXCEPT ![c] = free] /\ UNCHANGED <<pending, late>>
    BY <1>0, <1>5 DEF Propose, TypeOK
  <2> HIDE DEF free
  <2>2. Sound(c, free, registry, rival, kind, within, always)
    BY <1>1, <1>4, <1>5 DEF Sound
  <2>3. pending' \subseteq Caller
    BY <1>0, <2>1 DEF TypeOK
  <2>4. /\ call' \in [Caller -> Local]
        /\ \A q \in Caller : (call'[q].pc = "running") = (call'[q].running # None)
        /\ RequestsWaited' /\ AllSound'
    BY <1>1, <1>2, <1>4, <2>1, <2>2, <2>3, CallStep
  <2>5. TypeOK'
    BY <1>0, <1>2, <1>3, <2>1, <2>4 DEF TypeOK
  <2> QED BY <2>4, <2>5 DEF IInv
<1>6. CASE kind[c] # "rpc"
  <2>1. /\ call' = [call EXCEPT ![c] = judged]
        /\ pending' = IF asks THEN pending \cup {c} ELSE pending
        /\ late' = IF asks /\ c \in left THEN late \cup {c} ELSE late
    BY <1>6 DEF Propose, Judge
  <2>2. asks => ~Forbidden(t, local.policy)
    OBVIOUS
  <2>3. local.policy \in Policy /\ t \in Tool
    BY <1>1 DEF Sound
  <2>4. c \notin rival => /\ Approved(t, local.policy) => Classify(t, local.policy) = "auto_approve"
                          /\ Classify(t, local.policy) # "disabled"
    <3>1. c \notin rival => \A u \in Range(registry) : Bare[u] = Bare[t] => u = t
      BY <1>1 DEF Sound
    <3>2. Classify(t, local.policy) # "disabled"
      BY <1>1 DEF Sound
    <3> QED BY <1>0, <2>3, <3>1, <3>2, JudgedAlone
  <2>5. /\ judged.pc \in {"streaming", "asking", "approved"}
        /\ judged.pc = "asking" <=> asks
        /\ judged.pc = "approved" => Approved(t, local.policy) \/ Bare[t] \in always[c]
        /\ judged.pc \in Waits => judged.wanted = t
    BY <1>4, <2>2 DEF Waits
  <2> HIDE DEF judged, asks
  <2>6. Sound(c, judged, registry, rival, kind, within, always)
    BY <1>1, <1>4, <2>3, <2>4, <2>5 DEF Sound
  <2>7. pending' \subseteq Caller /\ late' \subseteq Chat
    BY <1>0, <1>1, <2>1 DEF TypeOK
  <2>8. /\ c \in pending' <=> judged.pc = "asking"
        /\ \A q \in Caller : q # c => (q \in pending' <=> q \in pending)
    BY <1>1, <2>1, <2>5
  <2>9. /\ call' \in [Caller -> Local]
        /\ \A q \in Caller : (call'[q].pc = "running") = (call'[q].running # None)
        /\ RequestsWaited' /\ AllSound'
    BY <1>1, <1>2, <1>4, <2>1, <2>5, <2>6, <2>7, <2>8, CallStep
  <2>10. TypeOK'
    BY <1>0, <1>2, <1>3, <2>7, <2>9 DEF TypeOK
  <2> QED BY <2>9, <2>10 DEF IInv
<1> QED BY <1>5, <1>6

\* As CallStep, for the steps that leave alone what only the environment and the
\* sessions of MCP clients change.
LEMMA CallKeeps ==
  ASSUME IInv, NEW p \in Caller, NEW l \in Local, call' = [call EXCEPT ![p] = l],
         (l.pc = "running") = (l.running # None),
         UNCHANGED <<toolVars, mcpVars, kind, within>>,
         rival \subseteq rival', rival' \subseteq Caller, left' \subseteq Chat, late' \subseteq Chat,
         always' \in [Chat -> SUBSET Name], \A c \in Chat : always[c] \subseteq always'[c],
         calls' \in [Chat -> 0..MaxCalls],
         Sound(p, l, registry, rival', kind, within, always'),
         pending' = IF l.pc = "asking" THEN pending \cup {p} ELSE pending \ {p}
  PROVE  IInv'
<1>0. TypeOK
  BY DEF IInv
<1>1. UNCHANGED <<registry, config, changes, kind, within, session, captured, consents, remembered>>
  BY DEF toolVars, mcpVars
<1>2. /\ pending' \subseteq Caller /\ (p \in pending' <=> l.pc = "asking")
      /\ \A q \in Caller : q # p => (q \in pending' <=> q \in pending)
  BY <1>0 DEF TypeOK
<1>3. /\ call' \in [Caller -> Local]
      /\ \A q \in Caller : (call'[q].pc = "running") = (call'[q].running # None)
      /\ RequestsWaited' /\ AllSound'
  BY <1>1, <1>2, CallStep
<1>4. TypeOK'
  BY <1>0, <1>1, <1>2, <1>3 DEF TypeOK
<1> QED BY <1>3, <1>4 DEF IInv

\* What the user of a chat decides about the call that waits.
LEMMA DecideChatKeeps ==
  ASSUME IInv, NEW c \in Chat, NEW d \in {"allow", "always", "deny", "abort"}, DecideChat(c, d)
  PROVE  IInv'
<1> DEFINE local == call[c]
           back == [local EXCEPT !.pc = "streaming"]
           on == [local EXCEPT !.pc = "approved", !.allowed = TRUE]
           l == IF d = "abort" THEN Ended ELSE IF d = "deny" THEN back ELSE on
<1>0. TypeOK /\ RequestsWaited /\ AllSound
  BY DEF IInv
<1>1. /\ c \in Caller /\ local \in Local /\ local.pc = "asking" /\ local.running = None
      /\ Sound(c, local, registry, rival, kind, within, always)
  BY <1>0 DEF Caller, TypeOK, AllSound, RequestsWaited, DecideChat
<1>2. /\ UNCHANGED <<toolVars, mcpVars, kind, within, calls, left, late, rival>>
      /\ pending' = pending \ {c} /\ call' = [call EXCEPT ![c] = l]
  BY <1>0 DEF DecideChat, TypeOK
<1>3. /\ back \in Local /\ back.pc = "streaming" /\ back.running = None
      /\ back.offer = local.offer /\ back.policy = local.policy /\ back.found = local.found
      /\ on \in Local /\ on.pc = "approved" /\ on.running = None /\ on.allowed /\ on.wanted = local.wanted
      /\ on.offer = local.offer /\ on.policy = local.policy /\ on.found = local.found
  BY <1>1 DEF Local
<1>4. always' \in [Chat -> SUBSET Name] /\ \A x \in Chat : always[x] \subseteq always'[x]
  <2>1. Bare[local.wanted] \in Name
    BY <1>1 DEF Sound, Waits, Local, Name
  <2> QED BY <1>0, <2>1 DEF DecideChat, TypeOK
<1> HIDE DEF back, on, local
<1>5. /\ l \in Local /\ l.pc \in {"ended", "streaming", "approved"} /\ l.running = None
  BY <1>3, FreshSound
<1>6. Sound(c, l, registry, rival, kind, within, always)
  <2>1. CASE l = Ended
    BY <2>1, FreshSound
  <2>2. CASE l = back
    BY <1>1, <1>3, <2>2 DEF Sound, Waits
  <2>3. CASE l = on
    BY <1>1, <1>3, <2>3 DEF Sound, Waits
  <2> QED BY <2>1, <2>2, <2>3
<1> HIDE DEF l
<1>7. Sound(c, l, registry, rival, kind, within, always')
  BY <1>4, <1>6, SoundStays
<1> QED BY <1>0, <1>1, <1>2, <1>4, <1>5, <1>7, CallKeeps DEF TypeOK

\* A chat runs the tool its name resolves to, which is the one it called unless
\* it is a rival.
LEMMA ExecuteChatKeeps ==
  ASSUME IInv, NEW c \in Chat, ExecuteChat(c)
  PROVE  IInv'
<1> DEFINE local == call[c]
           t == Resolve(registry, Bare[local.wanted])
           l == [local EXCEPT !.pc = IF t = None THEN "streaming" ELSE "running", !.running = t]
<1>0. TypeOK /\ RequestsWaited /\ AllSound
  BY DEF IInv
<1>1. /\ c \in Caller /\ local \in Local /\ local.pc = "approved" /\ local.wanted \in local.offer
      /\ Sound(c, local, registry, rival, kind, within, always) /\ registry \in Seq(Tool) /\ c \notin pending
  BY <1>0 DEF Caller, TypeOK, AllSound, RequestsWaited, ExecuteChat, Sound, Waits
<1>2. /\ UNCHANGED <<toolVars, mcpVars, kind, within, always, calls, left, late, rival, pending>>
      /\ call' = [call EXCEPT ![c] = l]
  BY <1>0 DEF ExecuteChat, TypeOK, chatVars
<1>3. t = None \/ (t \in Range(registry) /\ t \in Tool /\ Bare[t] = Bare[local.wanted])
  BY <1>1, Resolved
<1>4. t \in Tool => t # None
  BY ToolAssumption
<1>5. c \notin rival /\ t # None => t = local.wanted
  BY <1>1, <1>3 DEF Sound
<1> HIDE DEF t
<1>6. /\ l \in Local /\ l.pc = (IF t = None THEN "streaming" ELSE "running") /\ l.running = t
      /\ l.offer = local.offer /\ l.policy = local.policy /\ l.found = local.found
      /\ l.wanted = local.wanted /\ l.allowed = local.allowed
  BY <1>1, <1>3 DEF Local
<1> HIDE DEF l, local
<1>7. Sound(c, l, registry, rival, kind, within, always)
  BY <1>1, <1>5, <1>6 DEF Sound, Waits
<1> QED BY <1>0, <1>1, <1>2, <1>6, <1>7, CallKeeps DEF TypeOK

\* The tool returns; the request of an MCP client is answered.
LEMMA ReturnKeeps ==
  ASSUME IInv, NEW p \in Caller, Return(p)
  PROVE  IInv'
<1> DEFINE local == call[p]
           back == [local EXCEPT !.pc = "streaming", !.running = None]
           l == IF p \in Chat THEN back ELSE Ended
<1>0. TypeOK /\ RequestsWaited /\ AllSound
  BY DEF IInv
<1>1. /\ local \in Local /\ local.pc = "running" /\ p \notin pending
      /\ Sound(p, local, registry, rival, kind, within, always)
  BY <1>0 DEF TypeOK, AllSound, RequestsWaited, Return
<1>2. /\ UNCHANGED <<toolVars, mcpVars, kind, within, always, calls, left, late, rival, pending>>
      /\ call' = [call EXCEPT ![p] = l]
  BY <1>0 DEF Return, TypeOK, chatVars
<1>3. /\ back \in Local /\ back.pc = "streaming" /\ back.running = None
      /\ back.offer = local.offer /\ back.policy = local.policy /\ back.found = local.found
  BY <1>1 DEF Local
<1> HIDE DEF back, local
<1>4. l \in Local /\ l.pc \in {"streaming", "ended"} /\ l.running = None
  BY <1>3, FreshSound
<1>5. Sound(p, l, registry, rival, kind, within, always)
  <2>1. CASE p \in Chat
    BY <1>1, <1>3, <2>1 DEF Sound, Waits
  <2>2. CASE p \notin Chat
    BY <2>2, FreshSound
  <2> QED BY <2>1, <2>2
<1> HIDE DEF l
<1> QED BY <1>0, <1>1, <1>2, <1>4, <1>5, CallKeeps DEF TypeOK

\* A chat or a call that is given up.
LEMMA EndedKeeps ==
  ASSUME IInv, NEW p \in Caller, call' = [call EXCEPT ![p] = Ended], pending' = pending \ {p},
         left' \subseteq Chat,
         UNCHANGED <<toolVars, mcpVars, kind, within, always, calls, late, rival>>
  PROVE  IInv'
<1>1. TypeOK
  BY DEF IInv
<1>2. Ended \in Local /\ Ended.pc = "ended" /\ Ended.running = None /\ Sound(p, Ended, registry, rival, kind, within, always)
  BY FreshSound
<1> QED BY <1>1, <1>2, CallKeeps DEF TypeOK

\* A client that leaves takes the request of its chat with it.
LEMMA LeaveKeeps ==
  ASSUME IInv, NEW c \in Chat, Leave(c)
  PROVE  IInv'
<1>0. TypeOK /\ RequestsWaited /\ AllSound
  BY DEF IInv
<1>1. c \in Caller /\ left' \subseteq Chat /\ UNCHANGED <<toolVars, mcpVars, kind, within, always, calls, late, rival>>
  BY <1>0 DEF Caller, Leave, TypeOK
<1>2. CASE kind[c] = "web" /\ c \in pending
  <2>1. call' = [call EXCEPT ![c] = Ended] /\ pending' = pending \ {c}
    BY <1>2 DEF Leave
  <2> QED BY <1>1, <2>1, EndedKeeps
<1>3. CASE ~(kind[c] = "web" /\ c \in pending)
  <2>1. UNCHANGED <<call, pending>>
    BY <1>3 DEF Leave
  <2>2. TypeOK'
    BY <1>0, <1>1, <2>1 DEF TypeOK, toolVars, mcpVars
  <2> QED BY <1>0, <1>1, <2>1, <2>2 DEF IInv, RequestsWaited, AllSound, toolVars, mcpVars
<1> QED BY <1>2, <1>3

--------------------------------------------------------------------------------
(* Calls of MCP clients. *)

\* A call of a tool that is not registered is not among the judged ones.
LEMMA CallToolKeeps ==
  ASSUME IInv, NEW k \in McpCall, NEW m \in McpSession, NEW t \in Tool, CallTool(k, m, t)
  PROVE  IInv'
<1> DEFINE there == t \in Range(registry)
           local == [Fresh EXCEPT !.policy = config, !.offer = {t}, !.found = there]
           asks == ~Forbidden(t, config) /\ ~Approved(t, config)
           judged == [local EXCEPT !.wanted = t, !.allowed = FALSE,
                                   !.pc = IF asks THEN "asking" ELSE "approved"]
           l == IF Forbidden(t, config) THEN Ended ELSE judged
<1>0. TypeOK /\ RequestsWaited /\ AllSound
  BY DEF IInv
<1>1. /\ k \in Caller /\ k \notin Chat /\ k \notin pending /\ registry \in Seq(Tool) /\ config \in Policy
  BY <1>0, CallerAssumption DEF Caller, TypeOK, RequestsWaited, CallTool
<1>a. there \in BOOLEAN
  OBVIOUS
<1>b. Fresh.running = None /\ Fresh \in Local
  BY FreshSound
<1> HIDE DEF there
<1>2. /\ local.policy = config /\ local.found = there /\ local.offer = {t}
      /\ local.running = None /\ local \in Local
  BY <1>a, <1>b, <1>1 DEF Local
<1>3. /\ UNCHANGED <<toolVars, mcpVars, chatVars>>
      /\ call' = [call EXCEPT ![k] = l]
      /\ rival' = rival \cup Rivals(registry, call')
      /\ pending' = IF asks THEN pending \cup {k} ELSE pending
  BY <1>2 DEF CallTool, Judge, there
<1> HIDE DEF local
<1>4. /\ judged \in Local /\ judged.policy = config /\ judged.found = there
      /\ judged.offer = {t} /\ judged.running = None /\ judged.wanted = t
      /\ judged.pc = IF asks THEN "asking" ELSE "approved"
  BY <1>2 DEF Local
<1>5. asks => ~Forbidden(t, config)
  OBVIOUS
<1>6. ~asks /\ ~Forbidden(t, config) => Approved(t, config)
  OBVIOUS
<1> HIDE DEF judged, asks
<1>7. l \in Local /\ l.running = None /\ (l.pc = "asking" <=> asks) /\ l.pc \in {"asking", "approved", "ended"}
  <2>1. CASE Forbidden(t, config)
    <3>1. l = Ended /\ ~asks
      BY <1>5, <2>1
    <3> QED BY <3>1, FreshSound
  <2>2. CASE ~Forbidden(t, config)
    <3>1. l = judged
      BY <2>2
    <3> QED BY <1>4, <3>1
  <2> QED BY <2>1, <2>2
<1>8. k \notin rival' => \A y \in l.offer, u \in Range(registry) : Bare[u] = Bare[y] => u = y
  <2>1. k \notin Rivals(registry, call') =>
          \A y \in call'[k].offer, u \in Range(registry) : Bare[u] = Bare[y] => u = y
    BY <1>1, RivalsFound
  <2>2. call'[k] = l /\ (k \notin rival' => k \notin Rivals(registry, call'))
    <3> HIDE DEF l
    <3> QED BY <1>0, <1>1, <1>3 DEF TypeOK
  <2> QED BY <2>1, <2>2
<1>9. Sound(k, l, registry, rival', kind, within, always)
  <2>1. CASE Forbidden(t, config)
    BY <2>1, FreshSound
  <2>2. CASE ~Forbidden(t, config)
    <3>1. l = judged
      BY <2>2
    <3> HIDE DEF l
    <3>2. k \notin rival' => \A u \in Range(registry) : Bare[u] = Bare[t] => u = t
      BY <1>4, <1>8, <3>1
    <3>3. k \notin rival' => /\ Approved(t, config) => Classify(t, config) = "auto_approve"
                             /\ there => Classify(t, config) # "disabled"
      BY <1>0, <1>1, <2>2, <3>2, JudgedAlone DEF there
    <3>4. judged.pc \in {"asking", "approved"} /\ (judged.pc = "approved" => Approved(t, config))
      BY <1>4, <1>6, <2>2
    <3> QED BY <1>1, <1>4, <3>1, <3>2, <3>3, <3>4 DEF Sound, Waits
  <2> QED BY <2>1, <2>2
<1> HIDE DEF l
<1>10. rival \subseteq rival' /\ rival' \subseteq Caller
  BY <1>0, <1>3 DEF TypeOK, Rivals
<1>11. pending' = IF l.pc = "asking" THEN pending \cup {k} ELSE pending \ {k}
  BY <1>1, <1>3, <1>7
<1> QED BY <1>0, <1>1, <1>3, <1>7, <1>9, <1>10, <1>11, CallKeeps DEF TypeOK, chatVars

\* The operator's answer to the request.
LEMMA DecideCallKeeps ==
  ASSUME IInv, NEW k \in McpCall, NEW allow \in BOOLEAN, DecideCall(k, allow)
  PROVE  IInv'
<1> DEFINE local == call[k]
           l == [local EXCEPT !.pc = "approved", !.allowed = TRUE]
<1>0. TypeOK /\ RequestsWaited /\ AllSound
  BY DEF IInv
<1>1. /\ k \in Caller /\ local \in Local /\ local.pc = "asking" /\ local.running = None
      /\ Sound(k, local, registry, rival, kind, within, always)
      /\ UNCHANGED <<toolVars, mcpVars, chatVars, rival>> /\ pending' = pending \ {k}
      /\ call' = [call EXCEPT ![k] = IF allow THEN l ELSE Ended]
  BY <1>0 DEF Caller, TypeOK, AllSound, RequestsWaited, DecideCall
<1>2. CASE ~allow
  BY <1>0, <1>1, <1>2, EndedKeeps DEF TypeOK, chatVars
<1>3. CASE allow
  <2>1. /\ l \in Local /\ l.pc = "approved" /\ l.running = None /\ l.allowed /\ l.wanted = local.wanted
        /\ l.offer = local.offer /\ l.policy = local.policy /\ l.found = local.found
    BY <1>1 DEF Local
  <2>2. call' = [call EXCEPT ![k] = l]
    BY <1>1, <1>3
  <2> HIDE DEF l, local
  <2>3. Sound(k, l, registry, rival, kind, within, always)
    BY <1>1, <2>1 DEF Sound, Waits
  <2> QED BY <1>0, <1>1, <2>1, <2>2, <2>3, CallKeeps DEF TypeOK, chatVars
<1> QED BY <1>2, <1>3

\* The tool of the session is run under the name it was called by.
LEMMA ExecuteCallKeeps ==
  ASSUME IInv, NEW k \in McpCall, ExecuteCall(k)
  PROVE  IInv'
<1> DEFINE local == call[k]
           l == [local EXCEPT !.pc = "running", !.running = local.wanted]
<1>0. TypeOK /\ RequestsWaited /\ AllSound
  BY DEF IInv
<1>1. /\ k \in Caller /\ local \in Local /\ local.pc = "approved" /\ k \notin pending
      /\ Sound(k, local, registry, rival, kind, within, always)
      /\ UNCHANGED <<toolVars, mcpVars, chatVars, rival, pending>>
      /\ call' = [call EXCEPT ![k] = IF local.wanted \in Range(registry) THEN l ELSE Ended]
  BY <1>0 DEF Caller, TypeOK, AllSound, RequestsWaited, ExecuteCall
<1>2. CASE local.wanted \notin Range(registry)
  BY <1>0, <1>1, <1>2, EndedKeeps DEF TypeOK, chatVars
<1>3. CASE local.wanted \in Range(registry)
  <2>1. local.wanted \in Tool
    BY <1>0, <1>3, RangeOfSeq DEF TypeOK
  <2>2. /\ l \in Local /\ l.pc = "running" /\ l.running = local.wanted /\ l.wanted = local.wanted
        /\ l.offer = local.offer /\ l.policy = local.policy /\ l.found = local.found /\ l.allowed = local.allowed
    BY <1>1, <2>1 DEF Local
  <2>3. call' = [call EXCEPT ![k] = l] /\ l.running # None
    <3>1. None \notin Tool
      BY ToolAssumption
    <3> QED BY <1>1, <1>3, <2>1, <2>2, <3>1
  <2> HIDE DEF l, local
  <2>4. Sound(k, l, registry, rival, kind, within, always)
    BY <1>1, <2>2 DEF Sound, Waits
  <2>5. /\ (l.pc = "running") = (l.running # None)
        /\ pending' = IF l.pc = "asking" THEN pending \cup {k} ELSE pending \ {k}
    BY <1>1, <2>2, <2>3
  <2> QED BY <1>0, <1>1, <2>2, <2>3, <2>4, <2>5, CallKeeps DEF TypeOK, chatVars
<1> QED BY <1>2, <1>3

--------------------------------------------------------------------------------
(* Sessions of MCP clients. *)

\* One session goes to a state st, and its request is listed if it is to wait.
LEMMA SessionKeeps ==
  ASSUME IInv, NEW m \in McpSession, NEW st \in {"none", "consent", "allowed", "open", "closed"},
         SetSession(m, st), consents' = IF st = "consent" THEN consents \cup {m} ELSE consents \ {m},
         captured' \in [McpSession -> SUBSET Tool], remembered' \subseteq Client,
         UNCHANGED <<toolVars, chatVars, call, pending, rival>>
  PROVE  IInv'
<1>0. TypeOK /\ RequestsWaited /\ AllSound
  BY DEF IInv
<1>1. session' = [session EXCEPT ![m] = st] /\ consents \subseteq McpSession
  BY <1>0 DEF SetSession, TypeOK
<1>2. \A n \in McpSession : session'[n] = IF n = m THEN st ELSE session[n]
  BY <1>0, <1>1 DEF TypeOK
<1>3. consents' \subseteq McpSession /\ \A n \in McpSession : n \in consents' <=> session'[n] = "consent"
  BY <1>0, <1>1, <1>2 DEF RequestsWaited
<1>4. session' \in [McpSession -> {"none", "consent", "allowed", "open", "closed"}]
  BY <1>0, <1>1 DEF TypeOK
<1>5. consents' = {n \in McpSession : session'[n] = "consent"}
  BY <1>3
<1>6. TypeOK'
  BY <1>0, <1>3, <1>4 DEF TypeOK, toolVars, chatVars
<1>7. AllSound' /\ pending' = {p \in Caller : call'[p].pc = "asking"}
  BY <1>0 DEF AllSound, RequestsWaited, toolVars, chatVars
<1> QED BY <1>5, <1>6, <1>7 DEF IInv, RequestsWaited

\* The steps of a session.
LEMMA SessionStepKeeps ==
  ASSUME IInv, NEW m \in McpSession, SessionStep(m)
  PROVE  IInv'
<1>0. /\ TypeOK /\ (m \in consents <=> session[m] = "consent")
      /\ captured \in [McpSession -> SUBSET Tool] /\ remembered \subseteq Client /\ Range(registry) \subseteq Tool
  BY RangeOfSeq DEF IInv, TypeOK, RequestsWaited
<1>1. CASE Initialize(m)
  <2>1. CASE ClientOf[m] \in remembered
    <3>1. consents' = consents \ {m}
      BY <1>0, <1>1, <2>1 DEF Initialize
    <3> QED BY <1>0, <1>1, <2>1, <3>1, SessionKeeps DEF Initialize
  <2>2. CASE ClientOf[m] \notin remembered
    BY <1>0, <1>1, <2>2, SessionKeeps DEF Initialize
  <2> QED BY <2>1, <2>2
<1>2. ASSUME NEW a \in BOOLEAN, NEW r \in BOOLEAN, DecideConsent(m, a, r)
      PROVE  IInv'
  <2>1. remembered' \subseteq Client
    BY <1>0, <1>2 DEF DecideConsent, Client
  <2>2. consents' = consents \ {m} /\ UNCHANGED <<toolVars, chatVars, call, pending, captured, rival>>
    BY <1>2 DEF DecideConsent
  <2>3. CASE a
    <3>1. SetSession(m, "allowed")
      BY <1>2, <2>3 DEF DecideConsent
    <3> QED BY <1>0, <2>1, <2>2, <3>1, SessionKeeps
  <2>4. CASE ~a
    <3>1. SetSession(m, "closed")
      BY <1>2, <2>4 DEF DecideConsent
    <3> QED BY <1>0, <2>1, <2>2, <3>1, SessionKeeps
  <2> QED BY <2>3, <2>4
<1>3. CASE ExpireConsent(m)
  BY <1>0, <1>3, SessionKeeps DEF ExpireConsent
<1>4. CASE Establish(m)
  <2> DEFINE T == {t \in Range(registry) : Classify(t, config) # "disabled"}
  <2>1. T \subseteq Tool
    BY <1>0
  <2>2. consents' = consents \ {m} /\ UNCHANGED <<toolVars, chatVars, call, pending, remembered, rival>>
    BY <1>0, <1>4 DEF Establish
  <2>3. \/ SetSession(m, "closed") /\ UNCHANGED captured
        \/ SetSession(m, "open") /\ captured' = [captured EXCEPT ![m] = T]
    BY <1>4 DEF Establish
  <2>4. captured' \in [McpSession -> SUBSET Tool] /\ remembered' \subseteq Client
    BY <1>0, <2>1, <2>2, <2>3
  <2> QED BY <2>2, <2>3, <2>4, SessionKeeps
<1>5. CASE Revoke(m)
  <2>1. consents' = consents \ {m} /\ captured' \in [McpSession -> SUBSET Tool]
    BY <1>0, <1>5 DEF Revoke
  <2> QED BY <1>0, <1>5, <2>1, SessionKeeps DEF Revoke
<1> QED BY <1>1, <1>2, <1>3, <1>4, <1>5 DEF SessionStep

\* Forgetting a client, and steps that change nothing.
LEMMA RestKeeps ==
  ASSUME IInv, (\E n \in Client : Forget(n)) \/ UNCHANGED vars
  PROVE  IInv'
<1>0. TypeOK /\ RequestsWaited /\ AllSound
  BY DEF IInv
<1>1. UNCHANGED <<toolVars, chatVars, call, pending, session, captured, consents, rival>>
  BY DEF Forget, vars, mcpVars
<1>2. remembered' \subseteq Client
  BY <1>0 DEF Forget, vars, mcpVars, TypeOK
<1>3. TypeOK'
  BY <1>0, <1>1, <1>2 DEF TypeOK, toolVars, chatVars
<1> QED BY <1>0, <1>1, <1>3 DEF IInv, AllSound, RequestsWaited, toolVars, chatVars

--------------------------------------------------------------------------------
(* The theorems. *)

\* At first nobody calls anything.
LEMMA InitInv == Init => IInv
<1> SUFFICES ASSUME Init PROVE IInv
  OBVIOUS
<1>1. registry \in Seq(Tool)
  BY SourceTools, EmptySeq DEF Init
<1>2. \A p \in Caller : call[p] = Fresh /\ call[p] \in Local /\ call[p].pc = "idle" /\ call[p].running = None
  BY FreshSound DEF Init
<1>3. TypeOK
  BY <1>1, <1>2, CallerAssumption DEF Init, TypeOK
<1>4. RequestsWaited
  BY <1>2 DEF Init, RequestsWaited
<1>5. AllSound
  BY <1>2, FreshSound DEF AllSound
<1> QED BY <1>3, <1>4, <1>5 DEF IInv

\* Every step keeps the invariant.
LEMMA StepInv == IInv /\ [Next]_vars => IInv'
<1> SUFFICES ASSUME IInv, [Next]_vars PROVE IInv'
  OBVIOUS
<1>1. CASE Environment
  BY <1>1, ConnectKeeps, DisconnectKeeps, ConfigureKeeps DEF Environment
<1>2. ASSUME NEW c \in Chat, ChatStep(c)
      PROVE  IInv'
  <2>1. CASE EndChat(c) \/ DropLate(c)
    <3>1. Finish(c) /\ c \in Caller
      BY <2>1 DEF EndChat, DropLate, Caller
    <3>2. TypeOK
      BY DEF IInv
    <3> QED BY <3>1, <3>2, EndedKeeps DEF Finish, chatVars, TypeOK
  <2> QED BY <1>2, <2>1, StartChatKeeps, ProposeKeeps, DecideChatKeeps, ExecuteChatKeeps, LeaveKeeps DEF ChatStep
<1>3. CASE \E m \in McpSession : SessionStep(m)
  BY <1>3, SessionStepKeeps
<1>4. ASSUME NEW k \in McpCall, McpStep(k)
      PROVE  IInv'
  <2>1. CASE ExpireCall(k)
    <3>1. k \in Caller /\ TypeOK
      BY DEF IInv, Caller
    <3> QED BY <2>1, <3>1, EndedKeeps DEF ExpireCall, chatVars, TypeOK
  <2> QED BY <1>4, <2>1, CallToolKeeps, DecideCallKeeps, ExecuteCallKeeps DEF McpStep
<1>5. CASE \E p \in Caller : Return(p)
  BY <1>5, ReturnKeeps
<1>6. CASE (\E n \in Client : Forget(n)) \/ UNCHANGED vars
  BY <1>6, RestKeeps
<1> QED BY <1>1, <1>2, <1>3, <1>4, <1>5, <1>6 DEF Next

\* What runs for a caller whose calls are judged is not disabled, and approved
\* by the policy or the user, unless another tool has its name.
LEMMA SoundRuns == IInv => PolicyHolds
<1> SUFFICES ASSUME IInv, NEW p \in Judged \ rival, call[p].pc = "running"
             PROVE  /\ Classify(call[p].running, call[p].policy) # "disabled"
                    /\ \/ Classify(call[p].running, call[p].policy) = "auto_approve"
                       \/ call[p].allowed
                       \/ p \in Chat /\ Bare[call[p].running] \in always[p]
  BY DEF PolicyHolds
<1>1. /\ p \in Caller /\ p \notin rival /\ (IF p \in Chat THEN kind[p] # "rpc" ELSE call[p].found)
      /\ Sound(p, call[p], registry, rival, kind, within, always)
  BY DEF Judged, IInv, AllSound
<1> QED BY <1>1 DEF Sound, Waits

\* What runs for a chat was offered to it, unless another tool has its name.
LEMMA SoundOffers == IInv => OfferedRuns
<1> SUFFICES ASSUME IInv, NEW c \in Chat \ rival, call[c].pc = "running"
             PROVE  /\ call[c].running = call[c].wanted /\ call[c].running \in call[c].offer
                    /\ Scope[From(call[c].running)] \in {None, within[c]}
  BY DEF OfferedRuns
<1>1. c \in Caller /\ Sound(c, call[c], registry, rival, kind, within, always)
  BY DEF Caller, IInv, AllSound
<1> QED BY <1>1 DEF Sound, Waits

\* The types of the state (tool-registry.ts, server.ts, mcp-server.ts).
THEOREM TypeCorrect == Spec => []TypeOK
<1>1. IInv => TypeOK
  BY DEF IInv
<1> QED BY InitInv, StepInv, <1>1, PTL DEF Spec

\* A request for approval or consent is listed exactly as long as someone waits
\* for the answer (server.ts:329-450).
THEOREM RequestsListed == Spec => []RequestsWaited
<1>1. IInv => RequestsWaited
  BY DEF IInv
<1> QED BY InitInv, StepInv, <1>1, PTL DEF Spec

\* What runs is what the policy or the user allowed (createToolValidator(),
\* tool-approval.ts:60).
THEOREM PolicyKept == Spec => []PolicyHolds
  BY InitInv, StepInv, SoundRuns, PTL DEF Spec

\* A chat runs what it was offered, none of another session's tools
\* (listForChat(), tool-registry.ts:213).
THEOREM OffersKept == Spec => []OfferedRuns
  BY InitInv, StepInv, SoundOffers, PTL DEF Spec
================================================================================
