--------------------------- MODULE ExtensionProofs ---------------------------
(***************************************************************************)
(* The VS Code extension: its chat sidebar and its services, which share no *)
(* state.                                                                   *)
(*                                                                          *)
(* For any number of prompts, chunks, sessions, reloads and faults of the   *)
(* sidebar: a prompt is sent once, a cancel reaches the answer under way,   *)
(* and an answer is shown below its own prompt, with the exceptions that    *)
(* CancelReaches and AnswersInPlace name.                                   *)
(*                                                                          *)
(* For any number of changes of the settings, notices and broken streams:   *)
(* the services of the extension run on what the last attempt made with the *)
(* last settings anybody was told of, unless an attempt that was given up   *)
(* went on, and VS Code has one provider, the current one, unless one was   *)
(* stopped while it fetched its models.                                     *)
(***************************************************************************)
EXTENDS ChatPanel, ExtensionServices, TLAPS, SequenceTheorems, FiniteSetTheorems, FunctionTheorems

-----------------------------------------------------------------------------
(* Queues. *)

\* A message is put at the end of a queue.
LEMMA PutAt ==
  ASSUME NEW S, NEW s \in Seq(S), NEW x \in S
  PROVE  /\ Append(s, x) \in Seq(S) /\ Len(Append(s, x)) = Len(s) + 1 /\ Len(s) \in Nat
         /\ Append(s, x)[Len(s) + 1] = x
         /\ \A i \in 1..Len(s) : Append(s, x)[i] = s[i] /\ i # Len(s) + 1 /\ s[i] \in S
         /\ 1..Len(Append(s, x)) = 1..Len(s) \cup {Len(s) + 1}
<1>1. Len(s) \in Nat
  BY LenProperties
<1>2. 1..(Len(s) + 1) = 1..Len(s) \cup {Len(s) + 1}
  BY <1>1
<1> QED BY <1>1, <1>2, AppendProperties

\* The first message is taken from a queue.
LEMMA TakeAt ==
  ASSUME NEW S, NEW s \in Seq(S), s # <<>>
  PROVE  /\ Tail(s) \in Seq(S) /\ Len(Tail(s)) = Len(s) - 1 /\ Len(s) \in Nat /\ Len(Tail(s)) \in Nat
         /\ Head(s) = s[1] /\ Head(s) \in S /\ 1 \in 1..Len(s)
         /\ \A i \in 1..Len(Tail(s)) : Tail(s)[i] = s[i + 1] /\ i + 1 \in 1..Len(s) /\ i + 1 # 1
<1>1. Len(s) \in Nat /\ Head(s) = s[1]
  OBVIOUS
<1>2. Len(s) # 0
  BY <1>1
<1>3. /\ Head(s) \in S /\ Tail(s) \in Seq(S) /\ Len(Tail(s)) = Len(s) - 1
      /\ \A i \in 1..Len(Tail(s)) : Tail(s)[i] = s[i + 1]
  BY HeadTailProperties
<1>4. \A i \in 1..(Len(s) - 1) : i + 1 \in 1..Len(s) /\ i + 1 # 1
  BY <1>1
<1> QED BY <1>1, <1>2, <1>3, <1>4

\* Where the messages of a kind are.
Kind(s, t) == {i \in 1..Len(s) : s[i].type = t}

\* They can be counted.
LEMMA KindFinite ==
  ASSUME NEW S, NEW s \in Seq(S), NEW t
  PROVE  IsFiniteSet(Kind(s, t)) /\ Cardinality(Kind(s, t)) \in Nat
<1>1. 1 \in Int /\ Len(s) \in Int /\ Kind(s, t) \in SUBSET (1..Len(s))
  BY LenProperties DEF Kind
<1>2. IsFiniteSet(1..Len(s))
  BY <1>1, FS_Interval
<1>3. IsFiniteSet(Kind(s, t))
  BY <1>1, <1>2, FS_Subset
<1> QED BY <1>3, FS_CardinalityType

\* One more message of its kind.
LEMMA KindPut ==
  ASSUME NEW S, NEW s \in Seq(S), NEW x \in S, NEW t
  PROVE  /\ IsFiniteSet(Kind(s, t)) /\ Cardinality(Kind(s, t)) \in Nat
         /\ Kind(Append(s, x), t) = IF x.type = t THEN Kind(s, t) \cup {Len(s) + 1} ELSE Kind(s, t)
         /\ Cardinality(Kind(Append(s, x), t))
              = Cardinality(Kind(s, t)) + (IF x.type = t THEN 1 ELSE 0)
<1>1. Len(s) \in Nat /\ Kind(s, t) \subseteq 1..Len(s) /\ Len(s) + 1 \notin Kind(s, t)
  BY PutAt DEF Kind
<1>2. IsFiniteSet(Kind(s, t))
  BY KindFinite
<1>3. Cardinality(Kind(s, t)) \in Nat
  BY KindFinite
<1>4. Kind(Append(s, x), t) = IF x.type = t THEN Kind(s, t) \cup {Len(s) + 1} ELSE Kind(s, t)
  BY PutAt DEF Kind
<1>5. Cardinality(Kind(s, t) \cup {Len(s) + 1}) = Cardinality(Kind(s, t)) + 1
  BY <1>1, <1>2, FS_AddElement
<1> QED BY <1>2, <1>3, <1>4, <1>5

\* One message less of its kind.
LEMMA KindTake ==
  ASSUME NEW S, NEW s \in Seq(S), s # <<>>, NEW t
  PROVE  Cardinality(Kind(s, t))
           = Cardinality(Kind(Tail(s), t)) + (IF Head(s).type = t THEN 1 ELSE 0)
<1> DEFINE Rest == Kind(s, t) \ {1}
           f == [i \in Kind(Tail(s), t) |-> i + 1]
<1>0. /\ Len(s) \in Nat /\ Len(Tail(s)) = Len(s) - 1 /\ Head(s) = s[1] /\ Tail(s) \in Seq(S)
      /\ \A i \in 1..Len(Tail(s)) : Tail(s)[i] = s[i + 1] /\ i + 1 \in 1..Len(s) /\ i + 1 # 1
      /\ 1 \in 1..Len(s)
  BY TakeAt
<1>1. IsFiniteSet(Kind(s, t)) /\ IsFiniteSet(Kind(Tail(s), t))
  BY <1>0, KindFinite
<1>2. f \in Bijection(Kind(Tail(s), t), Rest)
  <2>1. \A i \in Kind(Tail(s), t) : i + 1 \in Rest
    BY <1>0 DEF Kind
  <2>2. \A j \in Rest : j - 1 \in Kind(Tail(s), t) /\ f[j - 1] = j
    <3> SUFFICES ASSUME NEW j \in Rest PROVE j - 1 \in Kind(Tail(s), t) /\ f[j - 1] = j
      OBVIOUS
    <3>1. j \in 1..Len(s) /\ j # 1 /\ s[j].type = t
      BY DEF Kind
    <3>2. j - 1 \in 1..Len(Tail(s)) /\ (j - 1) + 1 = j
      BY <1>0, <3>1
    <3> QED BY <1>0, <3>1, <3>2 DEF Kind
  <2>3. \A i, j \in Kind(Tail(s), t) : f[i] = f[j] => i = j
    BY <1>0 DEF Kind
  <2>4. f \in [Kind(Tail(s), t) -> Rest]
    BY <2>1
  <2>5. \A j \in Rest : \E i \in Kind(Tail(s), t) : f[i] = j
    BY <2>2
  <2> HIDE DEF f, Rest
  <2> QED BY <2>3, <2>4, <2>5, Fun_IsBij
<1>3. Cardinality(Rest) = Cardinality(Kind(Tail(s), t))
  <2>1. ExistsBijection(Kind(Tail(s), t), Rest)
    BY <1>2 DEF ExistsBijection
  <2> QED BY <1>1, <2>1, FS_Bijection
<1>4. 1 \in Kind(s, t) <=> Head(s).type = t
  BY <1>0 DEF Kind
<1>5. Cardinality(Rest) = IF 1 \in Kind(s, t) THEN Cardinality(Kind(s, t)) - 1 ELSE Cardinality(Kind(s, t))
  BY <1>1, FS_RemoveElement
<1>6. Cardinality(Kind(s, t)) \in Nat
  BY KindFinite
<1> QED BY <1>3, <1>4, <1>5, <1>6

-----------------------------------------------------------------------------
(* Types. *)

HostMessage == [type : {"send", "cancel", "create"}, of : {0} \cup Prompt]
ViewMessage == [type : {"created", "text", "done", "error"}, of : {0} \cup Prompt]
Bubbled == [role : {"user", "assistant"}, text : Seq(Prompt)]
Stage == {"none", "asked", "open", "failed", "told", "ended"}

Bounded ==
  MaxPrompts \in Nat /\ MaxText \in Nat /\ MaxCreated \in Nat /\ MaxReloads \in Nat /\ MaxFaults \in Nat

\* TypeOK, one variable at a time; the number of sessions being made is bounded by
\* how many were asked for.
Typed ==
  /\ Bounded
  /\ visible \in BOOLEAN /\ inSession \in BOOLEAN /\ streaming \in BOOLEAN
  /\ text \in Seq(Prompt) /\ shown \in Seq(Bubbled) /\ streamed \in 0..Len(shown)
  /\ injected \in {0} \cup Prompt /\ draft \in {0} \cup Prompt /\ active \in {0} \cup Prompt
  /\ toHost \in Seq(HostMessage) /\ toView \in Seq(ViewMessage)
  /\ pc \in [Prompt -> Stage] /\ sent \in [Prompt -> 0..MaxText]
  /\ creating \in Nat /\ typed \in 0..MaxPrompts /\ created \in 0..MaxCreated
  /\ reloads \in 0..MaxReloads /\ faults \in 0..MaxFaults
  /\ aborted \subseteq Prompt /\ beside \subseteq Prompt /\ muddled \subseteq Prompt

Asking == creating + Cardinality(Kind(toHost, "create")) <= created

\* What there is in a set of elements, and in a union.
LEMMA Together ==
  /\ \A S, a, b, c : {a, b, c} \subseteq S <=> a \in S /\ b \in S /\ c \in S
  /\ \A S, a, b, c, d, e : {a, b, c, d, e} \subseteq S
                            <=> a \in S /\ b \in S /\ c \in S /\ d \in S /\ e \in S
  /\ \A S, a, b, c : UNION {a, b, c} \subseteq S <=> a \subseteq S /\ b \subseteq S /\ c \subseteq S
<1>1. ASSUME NEW S, NEW a, NEW b, NEW c
      PROVE  UNION {a, b, c} \subseteq S <=> a \subseteq S /\ b \subseteq S /\ c \subseteq S
  OBVIOUS
<1> QED BY <1>1

LEMMA TypedThen == Typed /\ Asking => TypeOK
<1> SUFFICES ASSUME Typed, Asking PROVE TypeOK
  OBVIOUS
<1>1. creating \in 0..MaxCreated
  <2>1. Cardinality(Kind(toHost, "create")) \in Nat
    BY KindFinite DEF Typed
  <2> QED BY <2>1 DEF Typed, Bounded, Asking
<1>2. {visible, inSession, streaming} \subseteq BOOLEAN
  BY DEF Typed
<1>3. {injected, draft, active} \subseteq {0} \cup Prompt
  BY DEF Typed
<1>4. UNION {aborted, beside, muddled} \subseteq Prompt
  BY Together DEF Typed
<1> QED BY <1>1, <1>2, <1>3, <1>4 DEF Typed, TypeOK, HostMessage, ViewMessage, Bubbled, Stage

LEMMA InitTyped == Bounded /\ Init => Typed /\ Asking
<1> SUFFICES ASSUME Bounded, Init PROVE Typed /\ Asking
  OBVIOUS
<1>1. <<>> \in Seq(Prompt) /\ <<>> \in Seq(Bubbled) /\ <<>> \in Seq(HostMessage)
      /\ <<>> \in Seq(ViewMessage) /\ Len(<<>>) = 0
  OBVIOUS
<1>2. Kind(<<>>, "create") = {} /\ Cardinality({}) = 0
  BY FS_EmptySet DEF Kind
<1>3. streamed \in 0..Len(shown)
  BY <1>1 DEF Init
<1>4. pc \in [Prompt -> Stage] /\ sent \in [Prompt -> 0..MaxText]
  BY DEF Init, Stage, Bounded
<1>5. /\ typed \in 0..MaxPrompts /\ created \in 0..MaxCreated /\ reloads \in 0..MaxReloads
      /\ faults \in 0..MaxFaults /\ creating \in Nat
  BY DEF Init, Bounded
<1>6. Asking
  <2>1. creating = 0 /\ toHost = <<>> /\ created = 0
    BY DEF Init
  <2>2. Cardinality(Kind(toHost, "create")) = 0
    BY <1>2, <2>1
  <2> QED BY <2>1, <2>2 DEF Asking
<1> QED BY <1>1, <1>3, <1>4, <1>5, <1>6 DEF Init, Typed

\* The kinds of messages there are.
LEMMA Messages ==
  /\ \A type \in {"send", "cancel", "create"}, of \in {0} \cup Prompt : Message(type, of) \in HostMessage
  /\ \A type \in {"created", "text", "done", "error"}, of \in {0} \cup Prompt :
       Message(type, of) \in ViewMessage
  /\ \A type, of : Message(type, of).type = type /\ Message(type, of).of = of
  /\ \A role \in {"user", "assistant"}, t \in Seq(Prompt) : Bubble(role, t) \in Bubbled
  /\ \A role, t : Bubble(role, t).role = role /\ Bubble(role, t).text = t
BY DEF Message, HostMessage, ViewMessage, Bubble, Bubbled

\* The bubble of a prompt.
LEMMA Single ==
  ASSUME NEW p \in Prompt
  PROVE  /\ <<p>> \in Seq(Prompt) /\ Len(<<p>>) = 1 /\ <<p>>[1] = p
         /\ Bubble("user", <<p>>) \in Bubbled
<1>1. <<p>> \in Seq(Prompt) /\ Len(<<p>>) = 1 /\ <<p>>[1] = p
  OBVIOUS
<1> QED BY <1>1, Messages

\* A post puts a message of its type at the end of the queue.
LEMMA PostType ==
  ASSUME Typed, NEW type \in {"send", "cancel", "create"}, NEW of \in {0} \cup Prompt, Post(type, of)
  PROVE  /\ toHost' \in Seq(HostMessage)
         /\ Cardinality(Kind(toHost', "create"))
              = Cardinality(Kind(toHost, "create")) + (IF type = "create" THEN 1 ELSE 0)
<1>1. Message(type, of) \in HostMessage /\ Message(type, of).type = type
  BY Messages
<1>2. toHost \in Seq(HostMessage) /\ toHost' = Append(toHost, Message(type, of))
  BY DEF Typed, Post
<1> QED BY <1>1, <1>2, PutAt, KindPut

LEMMA TellType ==
  ASSUME Typed, NEW type \in {"created", "text", "done", "error"}, NEW of \in {0} \cup Prompt, Tell(type, of)
  PROVE  toView' \in Seq(ViewMessage)
<1>1. Message(type, of) \in ViewMessage
  BY Messages
<1> QED BY <1>1, PutAt DEF Typed, Tell

\* A prompt that is sent.
LEMMA SendOnType ==
  ASSUME Typed, NEW p \in Prompt, NEW list \in Seq(Bubbled), SendOn(p, list)
  PROVE  /\ shown' \in Seq(Bubbled) /\ Len(shown') = Len(list) + 1 /\ Len(list) \in Nat
         /\ streaming' \in BOOLEAN
         /\ draft' \in {0} \cup Prompt /\ pc' \in [Prompt -> Stage] /\ muddled' \subseteq Prompt
         /\ toHost' \in Seq(HostMessage)
         /\ Cardinality(Kind(toHost', "create")) = Cardinality(Kind(toHost, "create"))
<1>1. Bubble("user", <<p>>) \in Bubbled
  BY Single
<1>2. Post("send", p)
  BY DEF SendOn
<1>3. Cardinality(Kind(toHost, "create")) \in Nat
  BY KindFinite DEF Typed
<1>4. /\ toHost' \in Seq(HostMessage)
      /\ Cardinality(Kind(toHost', "create")) = Cardinality(Kind(toHost, "create")) + 0
  BY <1>2, PostType
<1>5. shown' \in Seq(Bubbled) /\ Len(shown') = Len(list) + 1 /\ Len(list) \in Nat
  BY <1>1, PutAt DEF SendOn
<1>6. /\ streaming' \in BOOLEAN /\ draft' \in {0} \cup Prompt
      /\ pc' \in [Prompt -> Stage] /\ muddled' \subseteq Prompt
  BY DEF SendOn, Typed, Stage
<1> QED BY <1>3, <1>4, <1>5, <1>6

\* What Send and Inject do to a prompt p: they send it, put it by and ask for a session,
\* or leave it in the text area.
Prompting(p) ==
  /\ visible /\ p \in Prompt /\ p \in {draft, typed + 1}
  /\ typed' = IF p > typed THEN p ELSE typed
  /\ \/ /\ ~streaming /\ inSession
        /\ SendOn(p, shown)
        /\ UNCHANGED <<injected, text, streamed, created>>
     \/ /\ ~inSession
        /\ AskForSession(p)
        /\ draft' \in {draft, p}
        /\ UNCHANGED <<answer, pc, muddled>>
     \/ /\ draft' = p
        /\ UNCHANGED <<answer, toHost, pc, muddled, injected, created>>
  /\ UNCHANGED <<visible, inSession, toView, active, aborted, sent, creating, reloads, faults, beside>>

LEMMA Prompted == Typed /\ (Send \/ Inject) => \E p \in Prompt : Prompting(p)
<1>1. CASE Send
  BY <1>1 DEF Send, Prompting, MaySend
<1>2. ASSUME Typed, Inject PROVE Prompting(typed + 1)
  <2>1. typed \in Nat /\ typed < MaxPrompts /\ MaxPrompts \in Nat
    BY <1>2 DEF Typed, Bounded, Inject
  <2>2. typed + 1 \in Prompt /\ typed + 1 > typed
    BY <2>1 DEF Prompt
  <2> QED BY <1>2, <2>2 DEF Inject, Prompting, MaySend
<1> QED BY <1>1, <1>2 DEF Prompting

LEMMA PromptTyped ==
  ASSUME Typed, Asking, NEW p \in Prompt, Prompting(p)
  PROVE  Typed' /\ Asking'
<1>1. Cardinality(Kind(toHost, "create")) \in Nat /\ 0 \in {0} \cup Prompt /\ Len(shown) \in Nat
  BY KindFinite, LenProperties DEF Typed
<1>2. p \in {0} \cup Prompt /\ typed' \in 0..MaxPrompts /\ p \in Nat
  BY DEF Typed, Bounded, Prompt, Prompting
<1>3. CASE SendOn(p, shown) /\ UNCHANGED <<injected, text, streamed, created>>
  <2>1. /\ shown' \in Seq(Bubbled) /\ Len(shown') = Len(shown) + 1
        /\ streaming' \in BOOLEAN
        /\ draft' \in {0} \cup Prompt /\ pc' \in [Prompt -> Stage] /\ muddled' \subseteq Prompt
        /\ toHost' \in Seq(HostMessage)
        /\ Cardinality(Kind(toHost', "create")) = Cardinality(Kind(toHost, "create"))
    BY <1>3, SendOnType DEF Typed
  <2>2. streamed' \in 0..Len(shown')
    BY <1>1, <1>3, <2>1 DEF Typed
  <2> QED BY <1>2, <1>3, <2>1, <2>2 DEF Prompting, Typed, Asking, Bounded
<1>4. CASE AskForSession(p) /\ draft' \in {draft, p} /\ UNCHANGED <<answer, pc, muddled>>
  <2>1. /\ toHost' \in Seq(HostMessage)
        /\ Cardinality(Kind(toHost', "create")) = Cardinality(Kind(toHost, "create")) + 1
    BY <1>1, <1>4, PostType DEF AskForSession
  <2>2. created' \in 0..MaxCreated /\ created' = created + 1 /\ created \in Nat
    BY <1>4 DEF AskForSession, Typed, Bounded
  <2>3. Asking'
    BY <1>1, <2>1, <2>2 DEF Asking, Typed, Prompting
  <2> QED BY <1>2, <1>4, <2>1, <2>2, <2>3 DEF AskForSession, Prompting, Typed, Bounded, answer
<1>5. CASE draft' = p /\ UNCHANGED <<answer, toHost, pc, muddled, injected, created>>
  BY <1>2, <1>5 DEF Prompting, Typed, Asking, Bounded, answer
<1> QED BY <1>3, <1>4, <1>5 DEF Prompting

\* The message that is received, and what is left.
LEMMA ReceiveType ==
  ASSUME Typed, Receive
  PROVE  /\ toView' \in Seq(ViewMessage) /\ Head(toView) \in ViewMessage
         /\ Head(toView) = toView[1] /\ 1 \in 1..Len(toView)
         /\ Head(toView).of \in {0} \cup Prompt
         /\ UNCHANGED <<visible, active, aborted, sent, creating, typed, created, reloads, faults>>
<1>1. toView \in Seq(ViewMessage) /\ toView # <<>> /\ toView' = Tail(toView)
  BY DEF Receive, Typed
<1>2. /\ toView' \in Seq(ViewMessage) /\ Head(toView) \in ViewMessage
      /\ Head(toView) = toView[1] /\ 1 \in 1..Len(toView)
  BY <1>1, TakeAt
<1>3. Head(toView).of \in {0} \cup Prompt
  BY <1>2 DEF ViewMessage
<1> QED BY <1>2, <1>3 DEF Receive, counts

\* The host and the counters are not touched by it.
LEMMA ReceiveKeeps ==
  ASSUME Typed, Receive
  PROVE  /\ Bounded' /\ visible' \in BOOLEAN /\ active' \in {0} \cup Prompt /\ aborted' \subseteq Prompt
         /\ sent' \in [Prompt -> 0..MaxText] /\ creating' \in Nat /\ typed' \in 0..MaxPrompts
         /\ created' \in 0..MaxCreated /\ reloads' \in 0..MaxReloads /\ faults' \in 0..MaxFaults
         /\ toView' \in Seq(ViewMessage)
BY ReceiveType DEF Typed, Bounded

LEMMA CreatedTyped == Typed /\ Asking /\ Receive /\ Created => Typed' /\ Asking'
<1> SUFFICES ASSUME Typed, Asking, Receive, Created PROVE Typed' /\ Asking'
  OBVIOUS
<1>1. toView' \in Seq(ViewMessage)
  BY ReceiveType
<1>2. /\ <<>> \in Seq(Prompt) /\ <<>> \in Seq(Bubbled) /\ Len(<<>>) = 0
      /\ Cardinality(Kind(toHost, "create")) \in Nat
  BY KindFinite DEF Typed
<1>3. Sent \subseteq Prompt /\ inSession' \in BOOLEAN
  BY DEF Sent, Created
<1>4. streamed' \in 0..Len(shown') /\ text' \in Seq(Prompt) /\ injected' \in {0} \cup Prompt
  <2>1. streamed' = 0 /\ text' = <<>> /\ injected' \in {0} \cup Prompt
    BY DEF Created, TakeInjected, Typed
  <2>2. shown' \in Seq(Bubbled)
    <3>1. CASE shown' = <<>>
      BY <1>2, <3>1
    <3>2. CASE injected # 0 /\ shown' = <<Bubble("user", <<injected>>)>>
      <4>1. Bubble("user", <<injected>>) \in Bubbled
        BY <3>2, Single DEF Typed
      <4> QED BY <3>2, <4>1
    <3> QED BY <3>1, <3>2 DEF Created
  <2>3. Len(shown') \in Nat
    BY <2>2, LenProperties
  <2> QED BY <1>2, <2>1, <2>3
<1>5. CASE shown' = <<>> /\ Disturbed /\ UNCHANGED <<streaming, toHost, pc>> /\ draft' \in {draft, injected}
  BY <1>1, <1>2, <1>3, <1>4, <1>5 DEF Disturbed, Created, Receive, counts, Typed, Asking, Bounded
<1>6. CASE /\ injected # 0
           /\ shown' = <<Bubble("user", <<injected>>)>>
           /\ streaming' = TRUE
           /\ draft' = 0
           /\ pc' = [pc EXCEPT ![injected] = "asked"]
           /\ Post("send", injected)
           /\ muddled' = IF Clean THEN muddled ELSE muddled \cup Sent \cup {injected}
  <2>1. Bubble("user", <<injected>>) \in Bubbled /\ injected \in Prompt
    BY <1>6, Single DEF Typed
  <2>2. shown' \in Seq(Bubbled)
    BY <1>6, <2>1
  <2>3. /\ toHost' \in Seq(HostMessage)
        /\ Cardinality(Kind(toHost', "create")) = Cardinality(Kind(toHost, "create")) + 0
    BY <1>6, <2>1, PostType
  <2>4. pc' \in [Prompt -> Stage] /\ muddled' \subseteq Prompt /\ streaming' \in BOOLEAN
        /\ draft' \in {0} \cup Prompt
    BY <1>3, <1>6, <2>1 DEF Typed, Stage
  <2>5. Asking'
    BY <1>2, <2>3, ReceiveType DEF Asking, Typed
  <2>6. beside' \subseteq Prompt
    BY DEF Created, Typed
  <2> QED BY <1>3, <1>4, <2>2, <2>3, <2>4, <2>5, <2>6, ReceiveKeeps DEF Typed
<1> QED BY <1>5, <1>6 DEF Created, TakeInjected, MaySend

LEMMA ChunkTyped ==
  ASSUME Typed, Asking, Receive, NEW p \in Prompt, Chunk(p)
  PROVE  Typed' /\ Asking'
<1>1. toView' \in Seq(ViewMessage)
  BY ReceiveType
<1>2. text' \in Seq(Prompt)
  BY PutAt DEF Chunk, Typed
<1>3. Bubble("assistant", text') \in Bubbled
  BY <1>2, Messages
<1>4. Len(shown) \in Nat
  BY LenProperties DEF Typed
<1>5. shown' \in Seq(Bubbled) /\ streamed' \in 0..Len(shown')
  <2>1. CASE streamed = 0
    <3>1. shown' = Append(shown, Bubble("assistant", text')) /\ streamed' = Len(shown) + 1
      BY <2>1 DEF Chunk
    <3> QED BY <1>3, <1>4, <3>1, PutAt DEF Typed
  <2>2. CASE streamed # 0
    <3>1. shown' = [shown EXCEPT ![streamed].text = text'] /\ streamed' = streamed
      BY <2>2 DEF Chunk
    <3>2. streamed \in 1..Len(shown)
      BY <1>4, <2>2 DEF Typed
    <3>3. shown[streamed] \in Bubbled
      BY <3>2, ElementOfSeq DEF Typed
    <3>4. [shown[streamed] EXCEPT !.text = text'] \in Bubbled
      BY <1>2, <3>3 DEF Bubbled
    <3>5. shown' = [shown EXCEPT ![streamed] = [shown[streamed] EXCEPT !.text = text']]
      BY <3>1
    <3>6. shown' \in Seq(Bubbled) /\ Len(shown') = Len(shown)
      BY <3>2, <3>4, <3>5, ExceptSeq DEF Typed
    <3> QED BY <3>1, <3>2, <3>6
  <2> QED BY <2>1, <2>2
<1> QED BY <1>1, <1>2, <1>5 DEF Chunk, Receive, excuses, counts, Typed, Asking, Bounded

\* What is on its way to the view tells how far its stream is.
Told ==
  \A i \in 1..Len(toView) :
    LET m == toView[i] IN
      /\ m.type \in {"done", "text"} => m.of \in Prompt
      /\ m.type \in {"done", "error"} /\ m.of # 0 => pc[m.of] \in {"failed", "told", "ended"}
      /\ m.type = "done" => pc[m.of] \in {"told", "ended"}
      /\ m.type = "text" => pc[m.of] \notin {"none", "asked"}

LEMMA ReceiveTyped == Typed /\ Asking /\ Told /\ Receive => Typed' /\ Asking'
<1> SUFFICES ASSUME Typed, Asking, Told, Receive PROVE Typed' /\ Asking'
  OBVIOUS
<1> DEFINE m == Head(toView)
<1>1. /\ toView' \in Seq(ViewMessage) /\ m \in ViewMessage /\ m = toView[1] /\ 1 \in 1..Len(toView)
      /\ m.of \in {0} \cup Prompt
  BY ReceiveType
<1>2. CASE m.type = "created" /\ Created
  BY <1>2, CreatedTyped
<1>3. CASE m.type = "text" /\ Chunk(m.of)
  <2>1. m.of \in Prompt
    BY <1>1, <1>3 DEF Told
  <2> QED BY <1>3, <2>1, ChunkTyped
<1>4. CASE Finished(m.of) \/ Error(m.of)
  <2>1. Live \subseteq Prompt /\ Sent \subseteq Prompt /\ <<>> \in Seq(Prompt) /\ Len(shown) \in Nat
    BY LenProperties DEF Live, Sent, Typed
  <2> HIDE DEF m
  <2>2. beside' \subseteq Prompt /\ muddled' \subseteq Prompt
    BY <1>4, <2>1 DEF Finished, Error, Disturbed, Typed
  <2>3. Asking'
    BY <1>4, ReceiveType DEF Asking, Finished, Error
  <2>4. /\ inSession' \in BOOLEAN /\ streaming' \in BOOLEAN /\ injected' \in {0} \cup Prompt
        /\ draft' \in {0} \cup Prompt /\ toHost' \in Seq(HostMessage) /\ pc' \in [Prompt -> Stage]
        /\ shown' \in Seq(Bubbled) /\ shown' = shown
    BY <1>4 DEF Finished, Error, Typed
  <2>5. (text' = <<>> /\ streamed' = 0) \/ (text' = text /\ streamed' = streamed)
    BY <1>4 DEF Finished, Error
  <2>6. text' \in Seq(Prompt) /\ streamed' \in 0..Len(shown')
    <3>1. text' \in Seq(Prompt)
      BY <2>1, <2>5 DEF Typed
    <3>2. streamed' \in 0..Len(shown)
      BY <2>1, <2>5 DEF Typed
    <3> QED BY <2>4, <3>1, <3>2
  <2> QED BY <2>2, <2>3, <2>4, <2>6, ReceiveKeeps DEF Typed
<1> QED BY <1>2, <1>3, <1>4 DEF Receive

LEMMA LeaveTyped ==
  Typed /\ Asking /\ (Cancel \/ NewSession \/ DeleteSession \/ Hide \/ Close \/ Show) => Typed' /\ Asking'
<1> SUFFICES ASSUME Typed, Asking PROVE
      Cancel \/ NewSession \/ DeleteSession \/ Hide \/ Close \/ Show => Typed' /\ Asking'
  OBVIOUS
<1>1. /\ <<>> \in Seq(Prompt) /\ <<>> \in Seq(Bubbled) /\ <<>> \in Seq(HostMessage)
      /\ <<>> \in Seq(ViewMessage) /\ Len(<<>>) = 0 /\ 0 \in {0} \cup Prompt
      /\ Cardinality(Kind(toHost, "create")) \in Nat
  BY KindFinite DEF Typed
<1>2. Sent \subseteq Prompt /\ Live \subseteq Prompt /\ Open \subseteq Prompt
  BY DEF Sent, Live, Open
<1>3. ASSUME Disturbed PROVE muddled' \subseteq Prompt
  BY <1>2, <1>3 DEF Disturbed, Typed
<1>4. CASE Cancel
  <2>1. /\ toHost' \in Seq(HostMessage)
        /\ Cardinality(Kind(toHost', "create")) = Cardinality(Kind(toHost, "create")) + 0
    BY <1>1, <1>4, PostType DEF Cancel
  <2>2. muddled' \subseteq Prompt /\ streaming' \in BOOLEAN
    BY <1>3, <1>4 DEF Cancel
  <2>3. UNCHANGED <<visible, inSession, injected, draft, text, shown, streamed, toView, active, pc, aborted,
                    sent, creating, typed, created, reloads, faults, beside>>
    BY <1>4 DEF Cancel, area, host, counts
  <2>4. Asking'
    BY <1>1, <2>1, <2>3 DEF Asking
  <2> QED BY <2>1, <2>2, <2>3, <2>4 DEF Typed, Bounded
<1>5. CASE NewSession
  <2>1. /\ toHost' \in Seq(HostMessage)
        /\ Cardinality(Kind(toHost', "create")) = Cardinality(Kind(toHost, "create")) + 1
    BY <1>1, <1>5, PostType DEF NewSession
  <2>2. created' \in 0..MaxCreated /\ created' = created + 1 /\ created \in Nat /\ creating' = creating
    BY <1>5 DEF NewSession, Typed, Bounded, host
  <2>3. Asking'
    BY <1>1, <2>1, <2>2 DEF Asking, Typed
  <2> QED BY <1>5, <2>1, <2>2, <2>3 DEF NewSession, Typed, Bounded, area, answer, host, excuses
<1>6. CASE DeleteSession
  <2>1. shown' \in Seq(Bubbled) /\ streamed' \in 0..Len(shown') /\ text' \in Seq(Prompt)
    BY <1>1, <1>6 DEF DeleteSession
  <2>2. UNCHANGED <<visible, injected, draft, streaming, toHost, toView, active, pc, aborted, sent, creating,
                    typed, created, reloads, faults, beside>>
    BY <1>6 DEF DeleteSession, channels, host, counts
  <2>3. inSession' \in BOOLEAN /\ muddled' \subseteq Prompt
    BY <1>3, <1>6 DEF DeleteSession
  <2> QED BY <2>1, <2>2, <2>3 DEF Typed, Asking, Bounded
<1>7. CASE Hide \/ Close
  <2>1. Unload
    BY <1>7 DEF Hide, Close
  <2>2. shown' \in Seq(Bubbled) /\ streamed' \in 0..Len(shown') /\ text' \in Seq(Prompt)
        /\ toView' \in Seq(ViewMessage)
    BY <1>1, <2>1 DEF Unload
  <2>3. /\ visible' \in BOOLEAN /\ inSession' \in BOOLEAN /\ streaming' \in BOOLEAN
        /\ injected' \in {0} \cup Prompt /\ draft' \in {0} \cup Prompt
        /\ UNCHANGED <<pc, sent, typed, created, faults>>
    BY <1>1, <2>1 DEF Unload
  <2>5. muddled' \subseteq Prompt /\ beside' \subseteq Prompt
    BY <1>2, <1>3, <2>1 DEF Unload, Typed
  <2>6. reloads' \in 0..MaxReloads
    BY <2>1 DEF Unload, Typed, Bounded
  <2>4. /\ toHost' \in Seq(HostMessage) /\ active' \in {0} \cup Prompt /\ aborted' \subseteq Prompt
        /\ creating' \in Nat /\ Asking'
    <3>1. CASE Hide
      BY <3>1 DEF Hide, Typed, Asking, Unload
    <3>2. CASE Close
      <4>1. toHost' = <<>> /\ creating' = 0 /\ created' = created
        BY <3>2 DEF Close, Unload
      <4>2. Kind(<<>>, "create") = {} /\ Cardinality({}) = 0
        BY <1>1, FS_EmptySet DEF Kind
      <4>3. Cardinality(Kind(toHost', "create")) = 0
        BY <4>1, <4>2
      <4>4. Asking'
        BY <4>1, <4>3 DEF Asking, Typed, Bounded
      <4> QED BY <1>1, <1>2, <3>2, <4>1, <4>4 DEF Close, Typed
    <3> QED BY <1>7, <3>1, <3>2
  <2> QED BY <2>2, <2>3, <2>4, <2>5, <2>6 DEF Typed, Bounded
<1>8. CASE Show
  BY <1>8 DEF Show, Typed, Asking, Bounded, answer, channels, host, counts, excuses
<1> QED BY <1>4, <1>5, <1>6, <1>7, <1>8

\* The head of the queue to the host.
LEMMA HandleType ==
  ASSUME Typed, Handle
  PROVE  /\ toHost' \in Seq(HostMessage) /\ Head(toHost) \in HostMessage /\ Head(toHost) = toHost[1]
         /\ 1 \in 1..Len(toHost) /\ Len(toHost') = Len(toHost) - 1 /\ Len(toHost) \in Nat
         /\ \A i \in 1..Len(toHost') : toHost'[i] = toHost[i + 1] /\ i + 1 \in 1..Len(toHost)
         /\ Cardinality(Kind(toHost, "create")) = Cardinality(Kind(toHost', "create"))
              + (IF Head(toHost).type = "create" THEN 1 ELSE 0)
         /\ Cardinality(Kind(toHost', "create")) \in Nat
<1>1. toHost \in Seq(HostMessage) /\ toHost # <<>> /\ toHost' = Tail(toHost)
  BY DEF Handle, Typed
<1>2. toHost' \in Seq(HostMessage)
  BY <1>1, TakeAt
<1>3. Cardinality(Kind(toHost', "create")) \in Nat
  BY <1>2, KindFinite
<1>4. Cardinality(Kind(toHost, "create")) = Cardinality(Kind(toHost', "create"))
              + (IF Head(toHost).type = "create" THEN 1 ELSE 0)
  BY <1>1, KindTake
<1> QED BY <1>1, <1>2, <1>3, <1>4, TakeAt

\* What is on its way to the host has not begun, and is sent once.
Posted ==
  /\ \A i \in 1..Len(toHost) :
       toHost[i].type = "send" => toHost[i].of \in Prompt /\ pc[toHost[i].of] = "asked"
  /\ \A i, j \in 1..Len(toHost) :
       toHost[i].type = "send" /\ toHost[j].type = "send" /\ toHost[i].of = toHost[j].of => i = j

LEMMA HandleTyped == Typed /\ Asking /\ Posted /\ Handle => Typed' /\ Asking'
<1> SUFFICES ASSUME Typed, Asking, Posted, Handle PROVE Typed' /\ Asking'
  OBVIOUS
<1> DEFINE m == Head(toHost)
<1>1. UNCHANGED <<visible, inSession, injected, draft, streaming, text, shown, streamed, toView, sent,
                  typed, created, reloads, faults, muddled>>
  BY DEF Handle, area, answer, counts
<1>2. /\ m.type = "send" => m.of \in Prompt
      /\ toHost' \in Seq(HostMessage)
      /\ Cardinality(Kind(toHost, "create")) = Cardinality(Kind(toHost', "create"))
              + (IF m.type = "create" THEN 1 ELSE 0)
      /\ Cardinality(Kind(toHost', "create")) \in Nat
  BY HandleType DEF Posted
<1> HIDE DEF m
<1>3. \/ /\ m.type = "send"
         /\ pc' = [pc EXCEPT ![m.of] = "open"]
         /\ active' = m.of
         /\ beside' = IF Open = {} THEN beside ELSE beside \cup {m.of}
         /\ UNCHANGED <<aborted, creating>>
      \/ /\ m.type = "cancel"
         /\ AbortActive
         /\ UNCHANGED <<pc, creating, beside>>
      \/ /\ m.type = "create"
         /\ creating' = creating + 1
         /\ UNCHANGED <<active, pc, aborted, beside>>
  BY DEF Handle, m
<1>4. /\ active' \in {0} \cup Prompt /\ pc' \in [Prompt -> Stage] /\ aborted' \subseteq Prompt
      /\ beside' \subseteq Prompt
  BY <1>2, <1>3 DEF Typed, AbortActive, Stage
<1>5. creating' \in Nat /\ Asking'
  BY <1>1, <1>2, <1>3 DEF Typed, Asking, Bounded
<1> QED BY <1>1, <1>2, <1>4, <1>5 DEF Typed, Bounded

LEMMA RequestTyped == Typed /\ Asking /\ (SessionMade \/ RequestFails) => Typed' /\ Asking'
<1> SUFFICES ASSUME Typed, Asking, SessionMade \/ RequestFails PROVE Typed' /\ Asking'
  OBVIOUS
<1>1. toView' \in Seq(ViewMessage)
  BY TellType DEF SessionMade, RequestFails
<1>2. Cardinality(Kind(toHost, "create")) \in Nat
  BY KindFinite DEF Typed
<1>3. UNCHANGED <<visible, inSession, injected, draft, streaming, text, shown, streamed, toHost, active, pc,
                  aborted, sent, typed, created, reloads, beside, muddled>>
  BY DEF SessionMade, RequestFails, area, answer, counts, excuses
<1>4. creating' \in Nat /\ creating' <= creating
  BY DEF SessionMade, RequestFails, Typed
<1>5. faults' \in 0..MaxFaults
  BY DEF SessionMade, RequestFails, Fault, counts, Typed, Bounded
<1>6. Asking'
  BY <1>2, <1>3, <1>4 DEF Asking, Typed, Bounded
<1> QED BY <1>1, <1>3, <1>4, <1>5, <1>6 DEF Typed, Bounded

\* A step of a stream.
Streams(p) == Progress(p) \/ Failed(p) \/ Breaks(p)

\* Where a stream can go: its prompt is told of, and only its own stage changes.
LEMMA StreamMoves ==
  ASSUME Typed, NEW p \in Prompt, Streams(p)
  PROVE  /\ UNCHANGED <<visible, inSession, injected, draft, streaming, text, shown, streamed, toHost,
                        aborted, creating, typed, created, reloads, beside, muddled>>
         /\ pc[p] \in {"open", "failed", "told"}
         /\ \/ Text(p) /\ pc[p] = "open" /\ pc' = pc /\ active' = active
               /\ sent' = [sent EXCEPT ![p] = @ + 1]
            \/ /\ UNCHANGED sent
               /\ active' \in {0, active}
               /\ \E to \in {"failed", "told", "ended"} :
                    /\ pc' = [pc EXCEPT ![p] = to]
                    /\ to = "failed" => pc[p] = "open"
                    /\ to = "told" => pc[p] \in {"open", "failed"}
<1>1. CASE Text(p)
  <2>1. pc' = [pc EXCEPT ![p] = "open"] /\ pc[p] = "open"
    BY <1>1 DEF Text, Goes
  <2>2. pc' = pc
    BY <2>1 DEF Typed
  <2> QED BY <1>1, <2>1, <2>2 DEF Text, Goes, area, answer, excuses
<1>2. CASE Failed(p)
  BY <1>2 DEF Failed, Goes, area, answer, excuses
<1>3. CASE Done(p)
  BY <1>3 DEF Done, Goes, area, answer, excuses
<1>4. CASE End(p)
  BY <1>4 DEF End, Goes, area, answer, excuses
<1>5. CASE Breaks(p)
  BY <1>5 DEF Breaks, Goes, area, answer, excuses
<1>6. CASE Stop(p)
  BY <1>6 DEF Stop, Open, area, answer, channels, counts, excuses
<1> QED BY <1>1, <1>2, <1>3, <1>4, <1>5, <1>6 DEF Streams, Progress

LEMMA StreamTyped ==
  ASSUME Typed, Asking, NEW p \in Prompt, Streams(p)
  PROVE  Typed' /\ Asking'
<1>1. /\ pc' \in [Prompt -> Stage] /\ active' \in {0} \cup Prompt
  BY StreamMoves DEF Typed, Stage
<1>2. sent' \in [Prompt -> 0..MaxText]
  <2>1. CASE Text(p) /\ sent' = [sent EXCEPT ![p] = @ + 1]
    <3>1. sent[p] < MaxText /\ sent[p] \in 0..MaxText
      BY <2>1 DEF Text, Typed
    <3>2. sent[p] + 1 \in 0..MaxText
      BY <3>1 DEF Typed, Bounded
    <3> QED BY <2>1, <3>2 DEF Typed
  <2> QED BY <2>1, StreamMoves DEF Typed
<1>3. toView' \in Seq(ViewMessage)
  BY TellType DEF Streams, Progress, Text, Failed, Done, End, Breaks, Stop, channels, Typed
<1>4. faults' \in 0..MaxFaults
  BY DEF Streams, Progress, Text, Failed, Done, End, Breaks, Stop, Goes, Fault, counts, Typed, Bounded
<1>5. Asking'
  BY StreamMoves DEF Asking
<1> QED BY <1>1, <1>2, <1>3, <1>4, <1>5, StreamMoves DEF Typed, Bounded

-----------------------------------------------------------------------------
(* How far each prompt is. *)

\* A prompt that was not sent is known as such: one that is put by waits for a
\* session, and the numbers not yet given are those of no stream.
Fresh ==
  /\ inSession => injected = 0
  /\ \A p \in Prompt : p = injected \/ p = draft => pc[p] = "none" /\ p <= typed
  /\ \A p \in Prompt : p > typed => pc[p] = "none"

\* What can be new of a prompt.
LEMMA PromptNew ==
  ASSUME Typed, Fresh, NEW p \in Prompt, Prompting(p)
  PROVE  pc[p] = "none" /\ typed' >= typed /\ p <= typed' /\ typed' \in Nat /\ typed \in Nat /\ p \in Nat
<1>1. typed \in Nat /\ p \in Nat
  BY DEF Typed, Bounded, Prompt
<1>2. pc[p] = "none"
  BY <1>1 DEF Prompting, Fresh
<1> QED BY <1>1, <1>2 DEF Prompting

\* What a step does to the prompts that are sent and to the stream to be cancelled.
Asks(p) ==
  /\ pc[p] = "none" /\ ~streaming /\ streaming'
  /\ pc' = [pc EXCEPT ![p] = "asked"]
  /\ Post("send", p)
  /\ UNCHANGED <<active, aborted, beside>>

Posts(type) ==
  /\ Post(type, 0)
  /\ streaming' = streaming \/ type = "cancel"
  /\ UNCHANGED <<pc, active, aborted, beside>>

Idles == UNCHANGED <<toHost, pc, active, aborted, beside, streaming>>

Frees(p) ==
  /\ p # 0 => pc[p] \in {"failed", "told", "ended"}
  /\ beside' = beside \cup (Live \ {p})
  /\ UNCHANGED <<toHost, pc, active, aborted>>

Leaves ==
  /\ beside' = beside \cup Live
  /\ pc' = pc
  /\ toHost' \in {toHost, <<>>}

Effect ==
  \/ \E p \in Prompt : Asks(p)
  \/ \E type \in {"cancel", "create"} : Posts(type)
  \/ Idles
  \/ \E p \in {0} \cup Prompt : Frees(p)
  \/ Leaves
  \/ Handle
  \/ \E p \in Prompt : Streams(p)

LEMMA ReceiveEffect == Typed /\ Fresh /\ Told /\ Receive => Effect
<1> SUFFICES ASSUME Typed, Fresh, Told, Receive PROVE Effect
  OBVIOUS
<1> DEFINE m == Head(toView)
<1>1. m \in ViewMessage /\ m = toView[1] /\ 1 \in 1..Len(toView) /\ m.of \in {0} \cup Prompt
      /\ UNCHANGED <<active, aborted>>
  BY ReceiveType
<1>2. CASE Created
  <2>1. CASE UNCHANGED <<streaming, toHost, pc>>
    BY <1>1, <1>2, <2>1 DEF Created, Effect, Idles
  <2>2. CASE /\ injected # 0 /\ MaySend /\ streaming' = TRUE
             /\ pc' = [pc EXCEPT ![injected] = "asked"]
             /\ Post("send", injected)
    <3>1. injected \in Prompt /\ pc[injected] = "none"
      BY <2>2 DEF Typed, Fresh
    <3>2. Asks(injected)
      BY <1>1, <1>2, <2>2, <3>1 DEF Created, Asks, MaySend
    <3> QED BY <3>1, <3>2 DEF Effect
  <2> QED BY <1>2, <2>1, <2>2 DEF Created
<1>3. CASE m.type = "text" /\ Chunk(m.of)
  BY <1>1, <1>3 DEF Chunk, excuses, Effect, Idles
<1>4. CASE (m.type = "done" /\ Finished(m.of)) \/ (m.type = "error" /\ Error(m.of))
  <2>1. m.of # 0 => pc[m.of] \in {"failed", "told", "ended"}
    BY <1>1, <1>4 DEF Told
  <2> HIDE DEF m
  <2>2. Frees(m.of)
    BY <1>1, <1>4, <2>1 DEF Finished, Error, Frees
  <2> QED BY <1>1, <2>2 DEF Effect
<1> QED BY <1>2, <1>3, <1>4 DEF Receive

LEMMA StepEffect == Typed /\ Fresh /\ Told /\ [Next]_vars => Effect
<1> SUFFICES ASSUME Typed, Fresh, Told, [Next]_vars PROVE Effect
  OBVIOUS
<1>1. ASSUME NEW p \in Prompt, Prompting(p) PROVE Effect
  <2>1. CASE ~streaming /\ SendOn(p, shown)
    <3>1. Asks(p)
      BY <1>1, <2>1, PromptNew DEF SendOn, Asks, Prompting
    <3> QED BY <3>1 DEF Effect
  <2>2. CASE AskForSession(p) /\ UNCHANGED <<answer, pc>>
    <3>1. Posts("create")
      BY <1>1, <2>2 DEF AskForSession, answer, Prompting, Posts
    <3> QED BY <3>1 DEF Effect
  <2>3. CASE UNCHANGED <<answer, toHost, pc>>
    BY <1>1, <2>3 DEF answer, Prompting, Idles, Effect
  <2> QED BY <1>1, <2>1, <2>2, <2>3 DEF Prompting
<1>2. CASE Send \/ Inject
  BY <1>1, <1>2, Prompted
<1>3. CASE Cancel
  <2>1. Posts("cancel")
    BY <1>3 DEF Cancel, host, Posts
  <2> QED BY <2>1 DEF Effect
<1>4. CASE NewSession
  <2>1. Posts("create")
    BY <1>4 DEF NewSession, host, answer, excuses, Posts
  <2> QED BY <2>1 DEF Effect
<1>5. CASE DeleteSession
  BY <1>5 DEF DeleteSession, channels, host, Idles, Effect
<1>6. CASE Receive
  BY <1>6, ReceiveEffect
<1>7. CASE Hide \/ Close
  BY <1>7 DEF Hide, Close, Unload, Leaves, Effect
<1>8. CASE Show
  BY <1>8 DEF Show, answer, channels, host, excuses, Idles, Effect
<1>9. CASE Handle
  BY <1>9 DEF Effect
<1>10. CASE SessionMade \/ RequestFails
  BY <1>10 DEF SessionMade, RequestFails, answer, excuses, Idles, Effect
<1>11. CASE \E p \in Prompt : Progress(p) \/ Failed(p) \/ Breaks(p)
  BY <1>11 DEF Streams, Effect
<1>12. CASE UNCHANGED vars
  BY <1>12 DEF vars, answer, channels, host, excuses, Idles, Effect
<1> QED BY <1>2, <1>3, <1>4, <1>5, <1>6, <1>7, <1>8, <1>9, <1>10, <1>11, <1>12 DEF Next

\* The message that is handled.
LEMMA Handled ==
  ASSUME Typed, Posted, Handle
  PROVE  LET m == toHost[1] IN
         \/ /\ m.type = "send" /\ m.of \in Prompt /\ pc[m.of] = "asked"
            /\ pc' = [pc EXCEPT ![m.of] = "open"]
            /\ active' = m.of
            /\ beside' = IF Open = {} THEN beside ELSE beside \cup {m.of}
            /\ UNCHANGED <<aborted, creating>>
         \/ /\ m.type = "cancel"
            /\ AbortActive
            /\ UNCHANGED <<pc, creating, beside>>
         \/ /\ m.type = "create"
            /\ UNCHANGED <<active, pc, aborted, beside>>
<1> DEFINE m == Head(toHost)
<1>1. m = toHost[1] /\ 1 \in 1..Len(toHost)
  BY HandleType
<1>2. m.type = "send" => m.of \in Prompt /\ pc[m.of] = "asked"
  BY <1>1 DEF Posted
<1> QED BY <1>1, <1>2 DEF Handle

\* No stream goes back.
Grows ==
  \A p \in Prompt :
    /\ pc[p] \in {"failed", "told", "ended"} => pc'[p] \in {"failed", "told", "ended"}
    /\ pc[p] \in {"told", "ended"} => pc'[p] \in {"told", "ended"}
    /\ pc[p] \notin {"none", "asked"} => pc'[p] \notin {"none", "asked"}
    /\ pc[p] # "none" => pc'[p] # "none"

LEMMA EffectGrows == Typed /\ Posted /\ Effect => Grows
<1> SUFFICES ASSUME Typed, Posted, Effect PROVE Grows
  OBVIOUS
<1>1. CASE \E p \in Prompt : Asks(p)
  BY <1>1 DEF Asks, Typed, Grows
<1>2. CASE pc' = pc
  BY <1>2 DEF Grows
<1>3. CASE Handle
  <2>1. CASE pc' = pc
    BY <2>1, <1>2
  <2>2. CASE \E q \in Prompt : pc[q] = "asked" /\ pc' = [pc EXCEPT ![q] = "open"]
    BY <2>2 DEF Typed, Grows
  <2> QED BY <1>3, <2>1, <2>2, Handled DEF AbortActive
<1>4. ASSUME NEW p \in Prompt, Streams(p) PROVE Grows
  <2>1. CASE pc' = pc
    BY <2>1, <1>2
  <2>2. ASSUME NEW to \in {"failed", "told", "ended"}, pc' = [pc EXCEPT ![p] = to],
               to = "failed" => pc[p] = "open", to = "told" => pc[p] \in {"open", "failed"}
        PROVE  Grows
    BY <2>2 DEF Typed, Grows
  <2> QED BY <1>4, <2>1, <2>2, StreamMoves
<1> QED BY <1>1, <1>2, <1>3, <1>4 DEF Effect, Posts, Idles, Frees, Leaves

LEMMA PostedStep == Typed /\ Posted /\ Effect => Posted'
<1> SUFFICES ASSUME Typed, Posted, Effect PROVE Posted'
  OBVIOUS
<1>1. ASSUME NEW p \in Prompt, Asks(p) PROVE Posted'
  <2>1. /\ Message("send", p) \in HostMessage /\ Message("send", p).type = "send"
        /\ Message("send", p).of = p
    BY Messages
  <2>2. toHost \in Seq(HostMessage) /\ toHost' = Append(toHost, Message("send", p))
    BY <1>1 DEF Asks, Post, Typed
  <2>3. /\ toHost'[Len(toHost) + 1] = Message("send", p)
        /\ \A i \in 1..Len(toHost) : toHost'[i] = toHost[i]
        /\ 1..Len(toHost') = 1..Len(toHost) \cup {Len(toHost) + 1}
    BY <2>1, <2>2, PutAt
  <2>4. \A i \in 1..Len(toHost) : toHost[i].type = "send" => toHost[i].of # p
    BY <1>1 DEF Asks, Posted
  <2>5. pc'[p] = "asked" /\ \A q \in Prompt : q # p => pc'[q] = pc[q]
    BY <1>1 DEF Asks, Typed
  <2>6. \A i \in 1..Len(toHost') : toHost'[i].type = "send" =>
          toHost'[i].of \in Prompt /\ pc'[toHost'[i].of] = "asked"
    BY <2>1, <2>3, <2>4, <2>5 DEF Posted
  <2>7. \A i, j \in 1..Len(toHost') :
          toHost'[i].type = "send" /\ toHost'[j].type = "send" /\ toHost'[i].of = toHost'[j].of => i = j
    BY <2>1, <2>3, <2>4 DEF Posted
  <2> QED BY <2>6, <2>7 DEF Posted
<1>2. ASSUME NEW type \in {"cancel", "create"}, Posts(type) PROVE Posted'
  <2>1. Message(type, 0) \in HostMessage /\ Message(type, 0).type # "send"
    BY Messages
  <2>2. toHost \in Seq(HostMessage) /\ toHost' = Append(toHost, Message(type, 0)) /\ pc' = pc
    BY <1>2 DEF Posts, Post, Typed
  <2>3. /\ toHost'[Len(toHost) + 1] = Message(type, 0)
        /\ \A i \in 1..Len(toHost) : toHost'[i] = toHost[i]
        /\ 1..Len(toHost') = 1..Len(toHost) \cup {Len(toHost) + 1}
    BY <2>1, <2>2, PutAt
  <2> QED BY <2>1, <2>2, <2>3 DEF Posted
<1>3. CASE UNCHANGED <<toHost, pc>>
  BY <1>3 DEF Posted
<1>4. CASE toHost' = <<>>
  BY <1>4 DEF Posted
<1>5. CASE Handle
  <2>1. /\ 1 \in 1..Len(toHost)
        /\ \A i \in 1..Len(toHost') : toHost'[i] = toHost[i + 1] /\ i + 1 \in 1..Len(toHost) /\ i + 1 # 1
        /\ Len(toHost') \in Nat
    BY <1>5, TakeAt DEF Handle, Typed
  <2>2. \A i, j \in 1..Len(toHost') :
          toHost'[i].type = "send" /\ toHost'[j].type = "send" /\ toHost'[i].of = toHost'[j].of => i = j
    <3> SUFFICES ASSUME NEW i \in 1..Len(toHost'), NEW j \in 1..Len(toHost'),
                        toHost'[i].type = "send", toHost'[j].type = "send", toHost'[i].of = toHost'[j].of
                 PROVE  i = j
      OBVIOUS
    <3>1. i + 1 = j + 1
      BY <2>1 DEF Posted
    <3> QED BY <2>1, <3>1
  <2>3. \A i \in 1..Len(toHost') : toHost'[i].type = "send" =>
          toHost'[i].of \in Prompt /\ pc'[toHost'[i].of] = "asked"
    <3>1. CASE pc' = pc
      BY <2>1, <3>1 DEF Posted
    <3>2. CASE /\ toHost[1].type = "send" /\ toHost[1].of \in Prompt
               /\ pc' = [pc EXCEPT ![toHost[1].of] = "open"]
      <4> SUFFICES ASSUME NEW i \in 1..Len(toHost'), toHost'[i].type = "send"
                   PROVE  toHost'[i].of \in Prompt /\ pc'[toHost'[i].of] = "asked"
        OBVIOUS
      <4>1. toHost'[i].of \in Prompt /\ pc[toHost'[i].of] = "asked" /\ toHost'[i].of # toHost[1].of
        BY <2>1, <3>2 DEF Posted
      <4> QED BY <3>2, <4>1 DEF Typed
    <3> QED BY <1>5, <3>1, <3>2, Handled DEF AbortActive
  <2> QED BY <2>2, <2>3 DEF Posted
<1>6. ASSUME NEW p \in Prompt, Streams(p) PROVE Posted'
  <2>1. toHost' = toHost /\ pc[p] # "asked" /\ \A q \in Prompt : q # p => pc'[q] = pc[q]
    BY <1>6, StreamMoves DEF Typed
  <2> QED BY <2>1 DEF Posted
<1> QED BY <1>1, <1>2, <1>3, <1>4, <1>5, <1>6 DEF Effect, Idles, Frees, Leaves

LEMMA ToldStep ==
  ASSUME Typed, Told, Grows, [Next]_vars
  PROVE  Told'
<1>0. \A i \in 1..Len(toView) : toView[i].of \in {0} \cup Prompt
  <2>1. \A i \in 1..Len(toView) : toView[i] \in ViewMessage
    BY ElementOfSeq DEF Typed
  <2> QED BY <2>1 DEF ViewMessage
<1>1. ASSUME toView' = toView PROVE Told'
  BY <1>0, <1>1 DEF Told, Grows
<1>2. ASSUME toView' = <<>> PROVE Told'
  <2>1. Len(<<>>) = 0 /\ 1..0 = {}
    OBVIOUS
  <2> QED BY <1>2, <2>1 DEF Told
<1>3. ASSUME Receive PROVE Told'
  <2>1. \A i \in 1..Len(toView') : toView'[i] = toView[i + 1] /\ i + 1 \in 1..Len(toView)
    BY <1>3, TakeAt DEF Receive, Typed
  <2>2. \A i \in 1..Len(toView') : toView'[i] \in ViewMessage
    BY <1>3, ReceiveType, ElementOfSeq
  <2> SUFFICES ASSUME NEW i \in 1..Len(toView')
               PROVE  LET m == toView'[i] IN
                      /\ m.type \in {"done", "text"} => m.of \in Prompt
                      /\ m.type \in {"done", "error"} /\ m.of # 0 => pc'[m.of] \in {"failed", "told", "ended"}
                      /\ m.type = "done" => pc'[m.of] \in {"told", "ended"}
                      /\ m.type = "text" => pc'[m.of] \notin {"none", "asked"}
    BY DEF Told
  <2>3. toView'[i].of \in {0} \cup Prompt
    BY <2>2 DEF ViewMessage
  <2> QED BY <2>1, <2>3 DEF Told, Grows
<1>4. ASSUME NEW type \in {"created", "text", "done", "error"}, NEW p \in {0} \cup Prompt, Tell(type, p),
             type # "created" => \/ p = 0 /\ type = "error"
                                 \/ p \in Prompt /\ type = "error" /\ pc'[p] \in {"failed", "ended"}
                                 \/ p \in Prompt /\ type = "text" /\ pc'[p] = "open"
                                 \/ p \in Prompt /\ type = "done" /\ pc'[p] = "told",
             type = "created" => p = 0
      PROVE  Told'
  <2>1. CASE ~visible
    BY <1>1, <1>4, <2>1 DEF Tell
  <2>2. CASE visible
    <3>1. Message(type, p) \in ViewMessage /\ Message(type, p).type = type /\ Message(type, p).of = p
      BY Messages
    <3>2. toView \in Seq(ViewMessage) /\ toView' = Append(toView, Message(type, p))
      BY <1>4, <2>2 DEF Tell, Typed
    <3>3. /\ toView'[Len(toView) + 1] = Message(type, p)
          /\ \A i \in 1..Len(toView) : toView'[i] = toView[i] /\ toView[i] \in ViewMessage
          /\ 1..Len(toView') = 1..Len(toView) \cup {Len(toView) + 1}
      BY <3>1, <3>2, PutAt
    <3> DEFINE Fine(m) == /\ m.type \in {"done", "text"} => m.of \in Prompt
                          /\ m.type \in {"done", "error"} /\ m.of # 0 => pc'[m.of] \in {"failed", "told", "ended"}
                          /\ m.type = "done" => pc'[m.of] \in {"told", "ended"}
                          /\ m.type = "text" => pc'[m.of] \notin {"none", "asked"}
    <3>4. Fine(Message(type, p))
      BY <1>4, <3>1
    <3>5. \A i \in 1..Len(toView) : Fine(toView[i])
      BY <3>3 DEF Told, Grows, ViewMessage
    <3>6. \A i \in 1..Len(toView') : Fine(toView'[i])
      <4> HIDE DEF Fine
      <4> QED BY <3>3, <3>4, <3>5
    <3> QED BY <3>6 DEF Told
  <2> QED BY <2>1, <2>2 DEF Typed
<1>5. ASSUME NEW p \in Prompt, Streams(p) PROVE Told'
  <2>1. CASE Text(p)
    BY <1>4, <2>1 DEF Text, Goes, Typed
  <2>2. CASE Failed(p)
    BY <1>4, <2>2 DEF Failed, Goes, Typed
  <2>3. CASE Done(p)
    BY <1>4, <2>3 DEF Done, Goes, Typed
  <2>4. CASE Breaks(p)
    BY <1>4, <2>4 DEF Breaks, Goes, Typed
  <2>5. CASE End(p) \/ Stop(p)
    BY <1>1, <2>5 DEF End, Stop, channels
  <2> QED BY <1>5, <2>1, <2>2, <2>3, <2>4, <2>5 DEF Streams, Progress
<1>6. CASE SessionMade
  BY <1>4, <1>6 DEF SessionMade
<1>7. CASE RequestFails
  BY <1>4, <1>7 DEF RequestFails
<1>8. CASE Hide \/ Close
  BY <1>2, <1>8 DEF Hide, Close, Unload
<1>9. CASE Send \/ Inject \/ Cancel \/ NewSession \/ DeleteSession \/ Show \/ Handle \/ UNCHANGED vars
  BY <1>1, <1>9 DEF Send, Inject, Cancel, NewSession, DeleteSession, Show, Handle, vars, channels
<1> QED BY <1>3, <1>5, <1>6, <1>7, <1>8, <1>9 DEF Next, Streams

LEMMA FreshStep ==
  ASSUME Typed, Fresh, Told, Posted, [Next]_vars
  PROVE  Fresh'
<1>1. ASSUME NEW p \in Prompt, Prompting(p) PROVE Fresh'
  <2>1. pc[p] = "none" /\ typed' >= typed /\ p <= typed' /\ typed' \in Nat /\ typed \in Nat /\ p \in Nat
    BY <1>1, PromptNew
  <2>2. Prompt \subseteq Nat /\ 0 \notin Prompt
    BY DEF Prompt
  <2>3. CASE SendOn(p, shown) /\ inSession /\ UNCHANGED injected
    <3>1. pc' = [pc EXCEPT ![p] = "asked"] /\ draft' = 0 /\ injected' = 0 /\ injected = 0
      BY <2>3 DEF SendOn, Fresh
    <3>2. \A q \in Prompt : q > typed' => pc'[q] = "none"
      BY <2>1, <2>2, <3>1 DEF Fresh, Typed
    <3> QED BY <2>2, <3>1, <3>2 DEF Fresh
  <2>4. CASE AskForSession(p) /\ draft' \in {draft, p} /\ ~inSession /\ UNCHANGED pc
    <3>1. injected' = p /\ inSession' = FALSE
      BY <1>1, <2>4 DEF AskForSession, Prompting, Typed
    <3> QED BY <2>1, <2>2, <2>4, <3>1 DEF Fresh
  <2>5. CASE draft' = p /\ UNCHANGED <<injected, pc>>
    <3>1. inSession' = inSession
      BY <1>1 DEF Prompting
    <3> QED BY <2>1, <2>2, <2>5, <3>1 DEF Fresh
  <2> QED BY <1>1, <2>3, <2>4, <2>5 DEF Prompting
<1>2. ASSUME UNCHANGED <<pc, typed>>, injected' \in {0, injected}, draft' \in {0, draft, injected},
             inSession' => inSession \/ injected' = 0 PROVE Fresh'
  <2>1. 0 \notin Prompt
    BY DEF Prompt
  <2> QED BY <1>2, <2>1 DEF Fresh
<1>3. CASE Receive
  <2>1. CASE Created
    <3>1. CASE UNCHANGED pc
      BY <1>2, <1>3, <2>1, <3>1, ReceiveType DEF Created, TakeInjected
    <3>2. CASE injected # 0 /\ injected' = 0 /\ draft' = 0 /\ pc' = [pc EXCEPT ![injected] = "asked"]
      <4>1. injected \in Prompt /\ injected <= typed /\ typed' = typed /\ injected \in Nat /\ typed \in Nat
            /\ 0 \notin Prompt /\ Prompt \subseteq Nat
        BY <1>3, <3>2, ReceiveType DEF Typed, Bounded, Fresh, Prompt
      <4>2. \A q \in Prompt : q > typed => pc'[q] = "none"
        BY <3>2, <4>1 DEF Fresh, Typed
      <4> QED BY <3>2, <4>1, <4>2 DEF Fresh
    <3> QED BY <2>1, <3>1, <3>2 DEF Created, TakeInjected
  <2>2. ASSUME NEW p, Chunk(p) \/ Finished(p) \/ Error(p) PROVE Fresh'
    BY <1>2, <1>3, <2>2, ReceiveType DEF Chunk, Finished, Error
  <2> QED BY <1>3, <2>1, <2>2 DEF Receive
<1>4. CASE Cancel \/ NewSession \/ DeleteSession \/ Show
  BY <1>2, <1>4 DEF Cancel, NewSession, DeleteSession, Show, area, host, counts
<1>5. CASE Hide \/ Close
  BY <1>2, <1>5 DEF Hide, Close, Unload
<1>6. CASE Handle
  <2>1. UNCHANGED <<typed, injected, draft, inSession>>
    BY <1>6 DEF Handle, area, counts
  <2>2. pc' = pc \/ \E q \in Prompt : pc[q] = "asked" /\ pc' = [pc EXCEPT ![q] = "open"]
    BY <1>6, Handled
  <2>3. \A q \in Prompt : pc[q] = "none" => pc'[q] = "none"
    BY <2>2 DEF Typed
  <2> QED BY <2>1, <2>3 DEF Fresh
<1>7. CASE SessionMade \/ RequestFails
  BY <1>2, <1>7 DEF SessionMade, RequestFails, area, counts
<1>8. ASSUME NEW p \in Prompt, Streams(p) PROVE Fresh'
  <2>1. UNCHANGED <<typed, injected, draft, inSession>>
    BY <1>8, StreamMoves
  <2>2. \A q \in Prompt : pc[q] = "none" => pc'[q] = "none"
    BY <1>8, StreamMoves DEF Typed
  <2> QED BY <2>1, <2>2 DEF Fresh
<1>9. CASE UNCHANGED vars
  BY <1>2, <1>9 DEF vars, area, host, counts
<1> QED BY <1>1, <1>3, <1>4, <1>5, <1>6, <1>7, <1>8, <1>9, Prompted DEF Next, Streams

-----------------------------------------------------------------------------
(* What a cancel reaches. *)

\* Prompts whose stream the user can still be waiting for.
Wanted(p) == pc[p] \in {"asked", "open"} /\ p \notin beside /\ p \notin aborted

\* A cancel is on its way to the host between two places of the queue.
CutBetween(i, j) == \E k \in 1..Len(toHost) : i < k /\ k < j /\ toHost[k].type = "cancel"

\* The stream of p is the only one that is open and the one to be cancelled, or p is
\* in the queue at i.  As long as the input is locked no other prompt comes behind it;
\* once it is unlocked, a cancel does first.
Waits(p, i) ==
  /\ i = 0 => /\ pc[p] = "open" /\ active = p
              /\ \A q \in Prompt : pc[q] \in {"open", "failed", "told"} => q = p
  /\ i # 0 => pc[p] = "asked" /\ toHost[i].type = "send" /\ toHost[i].of = p
  /\ streaming \/ CutBetween(i, Len(toHost) + 1)
  /\ \A j \in 1..Len(toHost) : i < j /\ toHost[j].type = "send" => CutBetween(i, j)

CancelInv == \A p \in Prompt : Wanted(p) => \E i \in 0..Len(toHost) : Waits(p, i)

\* A message is put behind the others: no prompt if the input is locked.
LEMMA WaitsPut ==
  ASSUME NEW m \in HostMessage, toHost \in Seq(HostMessage), toHost' = Append(toHost, m),
         NEW p \in Prompt, NEW i \in 0..Len(toHost), Waits(p, i),
         m.type = "send" => ~streaming,
         streaming' \/ ~streaming \/ m.type = "cancel",
         UNCHANGED active, pc \in [Prompt -> Stage], pc'[p] = pc[p],
         \A q \in Prompt : pc'[q] \in {"open", "failed", "told"} => pc[q] \in {"open", "failed", "told"}
  PROVE  Waits(p, i)'
<1>1. /\ Len(toHost) \in Nat /\ Len(toHost') = Len(toHost) + 1
      /\ toHost'[Len(toHost) + 1] = m
      /\ \A j \in 1..Len(toHost) : toHost'[j] = toHost[j]
      /\ 1..Len(toHost') = 1..Len(toHost) \cup {Len(toHost) + 1}
  BY PutAt
<1>2. \A j \in Nat : CutBetween(i, j) => CutBetween(i, j)'
  BY <1>1 DEF CutBetween
<1>3. CutBetween(i, Len(toHost) + 1) => CutBetween(i, Len(toHost) + 2)'
  BY <1>1 DEF CutBetween
<1>4. m.type = "cancel" => CutBetween(i, Len(toHost) + 2)'
  BY <1>1 DEF CutBetween
<1>5. streaming' \/ CutBetween(i, Len(toHost) + 2)'
  BY <1>3, <1>4 DEF Waits
<1>6. Len(toHost)' + 1 = Len(toHost) + 2
  BY <1>1
<1>7. streaming' \/ CutBetween(i, Len(toHost) + 1)'
  BY <1>5, <1>6 DEF CutBetween
<1>8. ASSUME NEW j \in 1..Len(toHost'), i < j, toHost'[j].type = "send"
      PROVE  CutBetween(i, j)'
  <2>1. CASE j \in 1..Len(toHost)
    BY <1>1, <1>2, <1>8, <2>1 DEF Waits
  <2>2. CASE j = Len(toHost) + 1
    BY <1>1, <1>2, <1>8, <2>2 DEF Waits
  <2> QED BY <1>1, <2>1, <2>2
<1>9. i # 0 => pc'[p] = "asked" /\ toHost'[i].type = "send" /\ toHost'[i].of = p
  BY <1>1 DEF Waits
<1>10. i = 0 => /\ pc'[p] = "open" /\ active' = p
                /\ \A q \in Prompt : pc'[q] \in {"open", "failed", "told"} => q = p
  BY DEF Waits
<1> QED BY <1>7, <1>8, <1>9, <1>10 DEF Waits

\* The first message is taken: the queue moves up, also behind a stream that is open.
LEMMA WaitsTake ==
  ASSUME toHost \in Seq(HostMessage), toHost # <<>>, toHost' = Tail(toHost), UNCHANGED streaming,
         NEW p \in Prompt, NEW i \in 0..Len(toHost), Waits(p, i),
         NEW h \in 0..Len(toHost'), h = i - 1 \/ (i = 0 /\ h = 0 /\ toHost[1].type # "cancel"),
         h = 0 => /\ pc'[p] = "open" /\ active' = p
                  /\ \A q \in Prompt : pc'[q] \in {"open", "failed", "told"} => q = p,
         h # 0 => pc'[p] = "asked"
  PROVE  Waits(p, h)'
<1>1. /\ Len(toHost) \in Nat /\ Len(toHost') = Len(toHost) - 1 /\ 1 \in 1..Len(toHost)
      /\ \A j \in 1..Len(toHost') : toHost'[j] = toHost[j + 1] /\ j + 1 \in 1..Len(toHost)
  BY TakeAt
<1>2. ASSUME NEW j \in 1..(Len(toHost) + 1), CutBetween(i, j)
      PROVE  CutBetween(h, j - 1)'
  <2>1. PICK k \in 1..Len(toHost) : i < k /\ k < j /\ toHost[k].type = "cancel"
    BY <1>2 DEF CutBetween
  <2>2. k # 1
    BY <1>1, <2>1
  <2>3. k - 1 \in 1..Len(toHost') /\ (k - 1) + 1 = k /\ h < k - 1 /\ k - 1 < j - 1
    BY <1>1, <2>1, <2>2
  <2>4. toHost'[k - 1] = toHost[k]
    BY <1>1, <2>3
  <2> QED BY <2>1, <2>3, <2>4 DEF CutBetween
<1>3. PICK n \in 1..(Len(toHost) + 1) : n = Len(toHost) + 1 /\ n - 1 = Len(toHost') + 1
  BY <1>1
<1>4. streaming' \/ CutBetween(h, n - 1)'
  <2>1. CASE streaming
    BY <2>1
  <2>2. CASE CutBetween(i, n)
    BY <1>2, <2>2
  <2> QED BY <1>3, <2>1, <2>2 DEF Waits
<1>5. streaming' \/ CutBetween(h, Len(toHost) + 1)'
  BY <1>3, <1>4 DEF CutBetween
<1>6. ASSUME NEW j \in 1..Len(toHost'), h < j, toHost'[j].type = "send"
      PROVE  CutBetween(h, j)'
  <2>1. j + 1 \in 1..Len(toHost) /\ j + 1 \in 1..(Len(toHost) + 1) /\ i < j + 1 /\ toHost[j + 1].type = "send"
    BY <1>1, <1>6
  <2>2. CutBetween(i, j + 1)
    BY <2>1 DEF Waits
  <2>3. CutBetween(h, (j + 1) - 1)'
    BY <1>2, <2>1, <2>2
  <2>4. (j + 1) - 1 = j
    BY <1>1
  <2> QED BY <2>3, <2>4 DEF CutBetween
<1>7. h # 0 => toHost'[h].type = "send" /\ toHost'[h].of = p
  <2>1. CASE h # 0
    <3>1. toHost'[h] = toHost[i] /\ i # 0
      BY <1>1, <2>1
    <3> QED BY <3>1 DEF Waits
  <2> QED BY <2>1
<1> QED BY <1>5, <1>6, <1>7 DEF Waits

LEMMA CancelHandle ==
  ASSUME Typed, Posted, CancelInv, Handle, UNCHANGED streaming
  PROVE  CancelInv'
<1> SUFFICES ASSUME NEW p \in Prompt, Wanted(p)'
             PROVE  \E i \in 0..Len(toHost') : Waits(p, i)'
  BY DEF CancelInv
<1>1. /\ toHost \in Seq(HostMessage) /\ toHost # <<>> /\ toHost' = Tail(toHost)
      /\ Len(toHost) \in Nat /\ Len(toHost') = Len(toHost) - 1 /\ 1 \in 1..Len(toHost)
      /\ pc \in [Prompt -> Stage] /\ 0 \notin Prompt
  BY TakeAt DEF Handle, Typed, Prompt
<1> DEFINE m == toHost[1]
<1>2. /\ pc'[p] \in {"asked", "open"} /\ p \notin beside' /\ p \notin aborted'
  BY DEF Wanted
<1>3. CASE /\ m.type = "send" /\ m.of = p /\ pc[p] = "asked"
           /\ pc' = [pc EXCEPT ![p] = "open"]
           /\ active' = p
           /\ beside' = IF Open = {} THEN beside ELSE beside \cup {p}
           /\ UNCHANGED aborted
  <2>1. Open = {} /\ Wanted(p)
    BY <1>2, <1>3 DEF Wanted
  <2>2. PICK i \in 0..Len(toHost) : Waits(p, i)
    BY <2>1 DEF CancelInv
  <2>3. i \in 1..Len(toHost) /\ toHost[i].type = "send" /\ toHost[i].of = p
    BY <1>1, <1>3, <2>2 DEF Waits
  <2>4. i = 1
    BY <1>1, <1>3, <2>3 DEF Posted
  <2>5. \A q \in Prompt : pc'[q] \in {"open", "failed", "told"} => q = p
    BY <1>1, <1>3, <2>1 DEF Open
  <2>6. 0 \in 0..Len(toHost') /\ 0 = i - 1 /\ pc'[p] = "open"
    BY <1>1, <1>3, <2>4
  <2>7. Waits(p, 0)'
    BY <1>1, <1>3, <2>2, <2>5, <2>6, WaitsTake
  <2> QED BY <2>6, <2>7
<1>4. ASSUME NEW q \in Prompt, q # p, m.type = "send", m.of = q, pc[q] = "asked",
             pc' = [pc EXCEPT ![q] = "open"],
             beside \subseteq beside', UNCHANGED aborted
      PROVE  \E i \in 0..Len(toHost') : Waits(p, i)'
  <2>1. Wanted(p) /\ pc'[p] = pc[p]
    BY <1>1, <1>2, <1>4 DEF Wanted
  <2>2. PICK i \in 0..Len(toHost) : Waits(p, i)
    BY <2>1 DEF CancelInv
  <2>3. ~CutBetween(0, 1)
    BY <1>1 DEF CutBetween
  <2>4. i # 0
    BY <1>1, <1>4, <2>2, <2>3 DEF Waits
  <2>5. i # 1
    BY <1>4, <2>2 DEF Waits
  <2>6. i - 1 \in 0..Len(toHost') /\ i - 1 # 0 /\ pc'[p] = "asked"
    BY <1>1, <2>1, <2>2, <2>4, <2>5 DEF Waits
  <2>7. Waits(p, i - 1)'
    BY <1>1, <2>2, <2>6, WaitsTake
  <2> QED BY <2>6, <2>7
<1>5. CASE m.type = "cancel" /\ AbortActive /\ UNCHANGED <<pc, beside>>
  <2>1. Wanted(p) /\ pc'[p] = pc[p] /\ (active # 0 => active # p)
    BY <1>2, <1>5 DEF Wanted, AbortActive
  <2>2. PICK i \in 0..Len(toHost) : Waits(p, i)
    BY <2>1 DEF CancelInv
  <2>3. i # 0
    BY <1>1, <2>1, <2>2 DEF Waits
  <2>4. i # 1
    BY <1>5, <2>2 DEF Waits
  <2>5. i - 1 \in 0..Len(toHost') /\ i - 1 # 0 /\ pc'[p] = "asked"
    BY <1>1, <2>1, <2>2, <2>3, <2>4 DEF Waits
  <2>6. Waits(p, i - 1)'
    BY <1>1, <2>2, <2>5, WaitsTake
  <2> QED BY <2>5, <2>6
<1>6. CASE m.type = "create" /\ UNCHANGED <<active, pc, aborted, beside>>
  <2>1. Wanted(p) /\ pc'[p] = pc[p]
    BY <1>2, <1>6 DEF Wanted
  <2>2. PICK i \in 0..Len(toHost) : Waits(p, i)
    BY <2>1 DEF CancelInv
  <2>3. i # 1
    BY <1>6, <2>2 DEF Waits
  <2>4. PICK h \in 0..Len(toHost') : (h = i - 1 /\ h # 0) \/ (i = 0 /\ h = 0)
    <3>1. CASE i = 0
      <4>1. 0 \in 0..Len(toHost')
        BY <1>1
      <4> QED BY <3>1, <4>1
    <3>2. CASE i # 0
      <4>1. i - 1 \in 0..Len(toHost') /\ i - 1 # 0
        BY <1>1, <2>2, <2>3, <3>2
      <4> QED BY <4>1
    <3> QED BY <3>1, <3>2
  <2>5. /\ h = i - 1 \/ (i = 0 /\ h = 0 /\ toHost[1].type # "cancel")
        /\ h = 0 => /\ pc'[p] = "open" /\ active' = p
                    /\ \A q \in Prompt : pc'[q] \in {"open", "failed", "told"} => q = p
        /\ h # 0 => pc'[p] = "asked"
    BY <1>6, <2>2, <2>4 DEF Waits
  <2>6. Waits(p, h)'
    BY <1>1, <2>2, <2>4, <2>5, WaitsTake
  <2> QED BY <2>6
<1> QED BY <1>3, <1>4, <1>5, <1>6, Handled

LEMMA CancelStep ==
  ASSUME Typed, Posted, CancelInv, Effect, Handle => UNCHANGED streaming
  PROVE  CancelInv'
<1>0. toHost \in Seq(HostMessage) /\ pc \in [Prompt -> Stage] /\ 0 \notin Prompt /\ Len(toHost) \in Nat
  BY LenProperties DEF Typed, Prompt
<1>1. ASSUME NEW q \in Prompt, Asks(q) PROVE CancelInv'
  <2>1. /\ Message("send", q) \in HostMessage /\ Message("send", q).type = "send"
        /\ Message("send", q).of = q
    BY Messages
  <2>2. toHost' = Append(toHost, Message("send", q)) /\ ~streaming /\ streaming' /\ pc[q] = "none"
        /\ pc' = [pc EXCEPT ![q] = "asked"] /\ UNCHANGED <<active, aborted, beside>>
    BY <1>1 DEF Asks, Post
  <2>3. ASSUME NEW p \in Prompt, p # q, Wanted(p)' PROVE \E i \in 0..Len(toHost') : Waits(p, i)'
    <3>1. Wanted(p) /\ pc'[p] = pc[p]
      BY <1>0, <2>2, <2>3 DEF Wanted
    <3>2. PICK i \in 0..Len(toHost) : Waits(p, i)
      BY <3>1 DEF CancelInv
    <3>3. Waits(p, i)'
      BY <1>0, <2>1, <2>2, <3>1, <3>2, WaitsPut
    <3>4. i \in 0..Len(toHost')
      BY <1>0, <2>1, <2>2, PutAt
    <3> QED BY <3>3, <3>4
  <2>4. \E k \in 0..Len(toHost') : Waits(q, k)'
    <3>1. /\ Len(toHost') = Len(toHost) + 1 /\ toHost'[Len(toHost) + 1] = Message("send", q)
      BY <1>0, <2>1, <2>2, PutAt
    <3> DEFINE n == Len(toHost) + 1
    <3>2. n \in Nat /\ n # 0 /\ n = Len(toHost') /\ toHost'[n] = Message("send", q) /\ pc'[q] = "asked"
      BY <1>0, <2>2, <3>1
    <3>3. PICK k \in Nat : k = n
      BY <3>2
    <3>4. Waits(q, k)'
      BY <2>1, <2>2, <3>2, <3>3 DEF Waits
    <3>5. k \in 0..Len(toHost')
      BY <3>2, <3>3
    <3> QED BY <3>4, <3>5
  <2> QED BY <2>3, <2>4 DEF CancelInv
<1>2. ASSUME NEW type \in {"cancel", "create"}, Posts(type) PROVE CancelInv'
  <2>1. Message(type, 0) \in HostMessage /\ Message(type, 0).type = type
    BY Messages
  <2>2. toHost' = Append(toHost, Message(type, 0)) /\ (streaming' \/ ~streaming \/ type = "cancel")
        /\ UNCHANGED <<pc, active, aborted, beside>>
    BY <1>2 DEF Posts, Post
  <2>3. ASSUME NEW p \in Prompt, Wanted(p)' PROVE \E i \in 0..Len(toHost') : Waits(p, i)'
    <3>1. Wanted(p)
      BY <2>2, <2>3 DEF Wanted
    <3>2. PICK i \in 0..Len(toHost) : Waits(p, i)
      BY <3>1 DEF CancelInv
    <3>3. Waits(p, i)'
      BY <1>0, <2>1, <2>2, <3>2, WaitsPut
    <3>4. i \in 0..Len(toHost')
      BY <1>0, <2>1, <2>2, PutAt
    <3> QED BY <3>3, <3>4
  <2> QED BY <2>3 DEF CancelInv
<1>3. CASE Idles
  BY <1>3 DEF Idles, CancelInv, Wanted, Waits, CutBetween
<1>4. ASSUME NEW q \in {0} \cup Prompt, Frees(q) PROVE CancelInv'
  <2>1. \A p \in Prompt : ~Wanted(p)'
    BY <1>0, <1>4 DEF Frees, Wanted, Live
  <2> QED BY <2>1 DEF CancelInv
<1>5. CASE Leaves
  <2>1. \A p \in Prompt : ~Wanted(p)'
    BY <1>5 DEF Leaves, Wanted, Live
  <2> QED BY <2>1 DEF CancelInv
<1>6. CASE Handle
  BY <1>6, CancelHandle
<1>7. ASSUME NEW q \in Prompt, Streams(q) PROVE CancelInv'
  <2>1. CASE pc' = pc /\ active' = active
    BY <1>7, <2>1, StreamMoves DEF CancelInv, Wanted, Waits, CutBetween
  <2>2. ASSUME NEW to \in {"failed", "told", "ended"}, pc' = [pc EXCEPT ![q] = to]
        PROVE  CancelInv'
    <3>1. pc[q] \in {"open", "failed", "told"} /\ UNCHANGED <<toHost, streaming, beside, aborted>>
      BY <1>7, StreamMoves
    <3>2. ASSUME NEW p \in Prompt, Wanted(p)' PROVE \E i \in 0..Len(toHost') : Waits(p, i)'
      <4>1. p # q /\ pc'[p] = pc[p] /\ Wanted(p)
        BY <1>0, <2>2, <3>1, <3>2 DEF Wanted
      <4>2. PICK i \in 0..Len(toHost) : Waits(p, i)
        BY <4>1 DEF CancelInv
      <4>3. i # 0
        BY <3>1, <4>1, <4>2 DEF Waits
      <4>4. Waits(p, i)'
        BY <3>1, <4>1, <4>2, <4>3 DEF Waits, CutBetween
      <4> QED BY <3>1, <4>4
    <3> QED BY <3>2 DEF CancelInv
  <2> QED BY <1>7, <2>1, <2>2, StreamMoves
<1> QED BY <1>1, <1>2, <1>3, <1>4, <1>5, <1>6, <1>7 DEF Effect

-----------------------------------------------------------------------------
(* What is shown. *)

\* A text that answers p among others, and one that answers nothing else.
Shows(s, p) == \E k \in 1..Len(s) : s[k] = p
Only(s, p) == \A k \in 1..Len(s) : s[k] = p

\* The text of the answer under way is that of the bubble being streamed; a prompt
\* is alone in its bubble; and what is shown was sent.
Bubbles ==
  /\ streamed = 0 <=> text = <<>>
  /\ streamed # 0 => shown[streamed] = Bubble("assistant", text)
  /\ \A i \in 1..Len(shown) : shown[i].role = "user" => \E p \in Prompt : shown[i] = Bubble("user", <<p>>)
  /\ \A i \in 1..Len(shown), p \in Prompt : Shows(shown[i].text, p) => pc[p] # "none"

\* No text is posted before the stream is open.
Rested == \A p \in Prompt : pc[p] \in {"none", "asked"} => sent[p] = 0

LEMMA RestedStep ==
  ASSUME Typed, Rested, Posted, Effect, [Next]_vars
  PROVE  Rested'
<1>1. Grows
  BY EffectGrows
<1>2. CASE UNCHANGED sent
  BY <1>1, <1>2 DEF Rested, Grows, Typed, Stage
<1>3. ASSUME NEW p \in Prompt, Streams(p) PROVE Rested'
  <2>1. CASE Text(p) /\ pc[p] = "open" /\ pc' = pc /\ sent' = [sent EXCEPT ![p] = @ + 1]
    BY <2>1 DEF Rested, Typed
  <2> QED BY <1>2, <1>3, <2>1, StreamMoves
<1>4. CASE \E p \in Prompt : Prompting(p)
  BY <1>2, <1>4 DEF Prompting
<1>5. CASE Receive
  BY <1>2, <1>5 DEF Receive
<1>6. CASE Cancel \/ NewSession \/ DeleteSession \/ Show \/ Hide \/ Close \/ Handle \/ SessionMade
           \/ RequestFails \/ UNCHANGED vars
  BY <1>2, <1>6 DEF Cancel, NewSession, DeleteSession, Show, Hide, Close, Unload, Handle, SessionMade,
                    RequestFails, vars, host
<1> QED BY <1>3, <1>4, <1>5, <1>6, Prompted DEF Next, Streams

\* Nothing new is shown.
LEMMA BubblesSame ==
  ASSUME Typed, Bubbles, Grows, UNCHANGED <<text, shown, streamed>>
  PROVE  Bubbles'
BY DEF Bubbles, Grows

\* The bubbles are left, or go, and no answer is under way.
LEMMA BubblesRest ==
  ASSUME Typed, Bubbles, Grows, text' = <<>>, streamed' = 0, shown' \in {shown, <<>>}
  PROVE  Bubbles'
<1>1. Len(<<>>) = 0 /\ 1..0 = {}
  OBVIOUS
<1>2. CASE shown' = <<>>
  BY <1>1, <1>2 DEF Bubbles
<1>3. CASE shown' = shown
  BY <1>3 DEF Bubbles, Grows
<1> QED BY <1>2, <1>3

\* What there is in a bubble of a prompt.
LEMMA InSingle ==
  ASSUME NEW p \in Prompt
  PROVE  /\ \A q : Shows(Bubble("user", <<p>>).text, q) <=> q = p
         /\ Bubble("user", <<p>>).role = "user"
BY DEF Bubble, Shows

\* A prompt is shown below the others.
LEMMA BubblesPut ==
  ASSUME Typed, Bubbles, Grows, NEW q \in Prompt, pc'[q] # "none",
         shown' = Append(shown, Bubble("user", <<q>>)), UNCHANGED <<text, streamed>>
  PROVE  Bubbles'
<1> DEFINE b == Bubble("user", <<q>>)
<1>1. /\ Len(shown) \in Nat /\ shown'[Len(shown) + 1] = b
      /\ \A i \in 1..Len(shown) : shown'[i] = shown[i] /\ i # Len(shown) + 1
      /\ 1..Len(shown') = 1..Len(shown) \cup {Len(shown) + 1}
  <2>1. b \in Bubbled /\ shown \in Seq(Bubbled)
    BY Single DEF Typed
  <2> HIDE DEF b
  <2> QED BY <2>1, PutAt DEF b
<1>2. b.role = "user" /\ (\A p : Shows(b.text, p) <=> p = q) /\ b = Bubble("user", <<q>>)
  BY InSingle
<1> HIDE DEF b
<1>3. streamed' = 0 <=> text' = <<>>
  BY DEF Bubbles
<1>4. streamed' # 0 => shown'[streamed'] = Bubble("assistant", text')
  <2>1. streamed # 0 => streamed \in 1..Len(shown)
    BY <1>1 DEF Typed
  <2> QED BY <1>1, <2>1 DEF Bubbles
<1>5. \A i \in 1..Len(shown') : shown'[i].role = "user" => \E p \in Prompt : shown'[i] = Bubble("user", <<p>>)
  BY <1>1, <1>2 DEF Bubbles
<1>6. \A i \in 1..Len(shown'), p \in Prompt : Shows(shown'[i].text, p) => pc'[p] # "none"
  BY <1>1, <1>2 DEF Bubbles, Grows
<1> QED BY <1>3, <1>4, <1>5, <1>6 DEF Bubbles

\* It is the only one.
LEMMA BubblesOne ==
  ASSUME Typed, NEW q \in Prompt, pc'[q] # "none",
         shown' = <<Bubble("user", <<q>>)>>, text' = <<>>, streamed' = 0
  PROVE  Bubbles'
<1> DEFINE b == Bubble("user", <<q>>)
<1>1. b.role = "user" /\ (\A p : Shows(b.text, p) <=> p = q) /\ b = Bubble("user", <<q>>)
  BY InSingle
<1>2. 1..Len(shown') = {1} /\ shown'[1] = b
  OBVIOUS
<1> HIDE DEF b
<1> QED BY <1>1, <1>2 DEF Bubbles

\* What a chunk does to the text, and to the bubbles.
LEMMA Chunked ==
  ASSUME Typed, Bubbles, NEW q \in Prompt, Chunk(q)
  PROVE  /\ text' \in Seq(Prompt) /\ Len(text') = Len(text) + 1 /\ Len(text) \in Nat
         /\ \A p : Shows(text', p) <=> Shows(text, p) \/ p = q
         /\ \A p : Only(text', p) <=> Only(text, p) /\ p = q
         /\ text' # <<>>
         /\ Len(shown) \in Nat /\ Len(shown') \in Nat /\ streamed' \in 1..Len(shown')
         /\ shown'[streamed'] = Bubble("assistant", text')
         /\ \A i \in 1..Len(shown') : i # streamed' => i \in 1..Len(shown) /\ shown'[i] = shown[i]
         /\ 1..Len(shown) \subseteq 1..Len(shown')
         /\ \/ streamed = 0 /\ streamed' = Len(shown) + 1 /\ Len(shown') = Len(shown) + 1
            \/ /\ streamed # 0 /\ streamed' = streamed /\ Len(shown') = Len(shown)
               /\ streamed \in 1..Len(shown) /\ shown[streamed] = Bubble("assistant", text)
<1>1. /\ text' \in Seq(Prompt) /\ Len(text') = Len(text) + 1 /\ Len(text) \in Nat
      /\ text'[Len(text) + 1] = q
      /\ \A k \in 1..Len(text) : text'[k] = text[k]
      /\ 1..Len(text') = 1..Len(text) \cup {Len(text) + 1}
  <2>1. text \in Seq(Prompt) /\ text' = Append(text, q)
    BY DEF Chunk, Typed
  <2> QED BY <2>1, PutAt
<1>2. \A p : Shows(text', p) <=> Shows(text, p) \/ p = q
  BY <1>1 DEF Shows
<1>3. \A p : Only(text', p) <=> Only(text, p) /\ p = q
  BY <1>1 DEF Only
<1>4. text' # <<>>
  <2>1. Len(<<>>) = 0
    OBVIOUS
  <2> QED BY <1>1, <2>1
<1>5. Len(shown) \in Nat /\ shown \in Seq(Bubbled)
  BY LenProperties DEF Typed
<1>6. Bubble("assistant", text') \in Bubbled
  BY <1>1, Messages
<1>7. CASE streamed = 0
  <2>1. shown' = Append(shown, Bubble("assistant", text')) /\ streamed' = Len(shown) + 1
    BY <1>7 DEF Chunk
  <2>2. /\ Len(shown') = Len(shown) + 1 /\ shown'[Len(shown) + 1] = Bubble("assistant", text')
        /\ \A i \in 1..Len(shown) : shown'[i] = shown[i] /\ i # Len(shown) + 1
        /\ 1..Len(shown') = 1..Len(shown) \cup {Len(shown) + 1}
    BY <1>5, <1>6, <2>1, PutAt
  <2> QED BY <1>1, <1>2, <1>3, <1>4, <1>5, <1>7, <2>1, <2>2
<1>8. CASE streamed # 0
  <2>1. shown' = [shown EXCEPT ![streamed].text = text'] /\ streamed' = streamed
        /\ shown[streamed] = Bubble("assistant", text) /\ streamed \in 1..Len(shown)
    BY <1>5, <1>8 DEF Chunk, Bubbles, Typed
  <2>2. [shown[streamed] EXCEPT !.text = text'] = Bubble("assistant", text')
    BY <2>1 DEF Bubble
  <2>3. shown' = [shown EXCEPT ![streamed] = [shown[streamed] EXCEPT !.text = text']]
    BY <2>1
  <2>4. shown' = [shown EXCEPT ![streamed] = Bubble("assistant", text')]
    BY <2>2, <2>3
  <2>5. /\ Len(shown') = Len(shown)
        /\ \A j \in 1..Len(shown) : shown'[j] = IF j = streamed THEN Bubble("assistant", text') ELSE shown[j]
    BY <1>5, <1>6, <2>1, <2>4, ExceptSeq
  <2> QED BY <1>1, <1>2, <1>3, <1>4, <1>5, <1>8, <2>1, <2>5
<1> QED BY <1>7, <1>8

LEMMA BubblesChunk ==
  ASSUME Typed, Bubbles, NEW q \in Prompt, Chunk(q), pc[q] # "none"
  PROVE  Bubbles'
<1>1. pc' = pc
  BY DEF Chunk
<1>2. Bubble("assistant", text').role # "user" /\ Bubble("assistant", text').text = text'
  BY Messages
<1>3. \A p \in Prompt : Shows(text, p) => pc[p] # "none"
  <2>1. CASE streamed = 0
    <3>1. text = <<>> /\ Len(<<>>) = 0
      BY <2>1 DEF Bubbles
    <3>2. \A p : ~Shows(text, p)
      BY <3>1 DEF Shows
    <3> QED BY <3>2
  <2>2. CASE streamed # 0
    <3>1. streamed \in 1..Len(shown) /\ shown[streamed].text = text
      BY <2>2, Chunked, Messages
    <3> QED BY <3>1 DEF Bubbles
  <2> QED BY <2>1, <2>2
<1>4. \A p \in Prompt : Shows(text', p) => pc'[p] # "none"
  BY <1>1, <1>3, Chunked
<1>5. \A i \in 1..Len(shown') : shown'[i].role = "user" => \E p \in Prompt : shown'[i] = Bubble("user", <<p>>)
  BY <1>2, Chunked DEF Bubbles
<1>6. \A i \in 1..Len(shown'), p \in Prompt : Shows(shown'[i].text, p) => pc'[p] # "none"
  BY <1>1, <1>2, <1>4, Chunked DEF Bubbles
<1>7. streamed' # 0 /\ text' # <<>> /\ shown'[streamed'] = Bubble("assistant", text')
  BY Chunked
<1> QED BY <1>5, <1>6, <1>7 DEF Bubbles

LEMMA BubblesStep ==
  ASSUME Typed, Fresh, Told, Bubbles, Grows, [Next]_vars
  PROVE  Bubbles'
<1>1. ASSUME NEW p \in Prompt, Prompting(p) PROVE Bubbles'
  <2>1. CASE SendOn(p, shown) /\ UNCHANGED <<text, streamed>>
    <3>1. pc'[p] # "none"
      BY <2>1 DEF SendOn, Typed
    <3> QED BY <2>1, <3>1, BubblesPut DEF SendOn
  <2>2. CASE UNCHANGED answer
    BY <2>2, BubblesSame DEF answer
  <2> QED BY <1>1, <2>1, <2>2 DEF Prompting, answer
<1>2. CASE Receive
  <2> DEFINE m == Head(toView)
  <2>1. m = toView[1] /\ 1 \in 1..Len(toView)
    BY <1>2, ReceiveType
  <2>2. CASE Created
    <3>1. CASE shown' = <<>>
      BY <2>2, <3>1, BubblesRest DEF Created
    <3>2. CASE injected # 0 /\ shown' = <<Bubble("user", <<injected>>)>> /\ pc' = [pc EXCEPT ![injected] = "asked"]
      <4>1. injected \in Prompt /\ pc'[injected] # "none"
        BY <3>2 DEF Typed
      <4> QED BY <2>2, <3>2, <4>1, BubblesOne DEF Created
    <3> QED BY <2>2, <3>1, <3>2 DEF Created
  <2>3. CASE m.type = "text" /\ Chunk(m.of)
    <3>1. m.of \in Prompt /\ pc[m.of] # "none"
      BY <2>1, <2>3 DEF Told
    <3> QED BY <2>3, <3>1, BubblesChunk
  <2>4. CASE Finished(m.of)
    BY <2>4, BubblesRest DEF Finished
  <2>5. CASE Error(m.of)
    BY <2>5, BubblesSame DEF Error
  <2> QED BY <1>2, <2>2, <2>3, <2>4, <2>5 DEF Receive
<1>3. CASE DeleteSession \/ Hide \/ Close
  BY <1>3, BubblesRest DEF DeleteSession, Hide, Close, Unload
<1>4. CASE Cancel \/ NewSession \/ Show \/ Handle \/ SessionMade \/ RequestFails \/ UNCHANGED vars
  BY <1>4, BubblesSame DEF Cancel, NewSession, Show, Handle, SessionMade, RequestFails, vars, answer
<1>5. ASSUME NEW p \in Prompt, Streams(p) PROVE Bubbles'
  BY <1>5, StreamMoves, BubblesSame
<1> QED BY <1>1, <1>2, <1>3, <1>4, <1>5, Prompted DEF Next, Streams

-----------------------------------------------------------------------------
(* The places of the answers. *)

IsAnswer(m) == m.type \in {"text", "done"}

\* p is at the end of what is shown, the text under way below it.
Below(p) ==
  \E last \in 1..Len(shown) :
    /\ text = <<>> => last = Len(shown)
    /\ text # <<>> => streamed = Len(shown) /\ last + 1 = Len(shown)
    /\ shown[last] = Bubble("user", <<p>>)
    /\ \A i \in 1..Len(shown) : i < last => ~Shows(shown[i].text, p)

\* The answer to p is the only one, shown below it as far as it has come.
Underway(p) ==
  /\ streaming /\ visible
  /\ \A q \in Prompt : q # p => pc[q] \notin {"asked", "open", "failed"}
  /\ \A i \in 1..Len(toView) : IsAnswer(toView[i]) => toView[i].of = p
  /\ \A i, j \in 1..Len(toView) : toView[i].type = "done" /\ IsAnswer(toView[j]) => j <= i
  /\ Only(text, p)
  /\ Len(text) + Cardinality(Kind(toView, "text")) = sent[p]
  /\ Below(p)

\* What is shown of p is complete.
Placed(p) ==
  \A i \in 1..Len(shown) : Shows(shown[i].text, p) =>
    /\ shown[i].role = "user" /\ sent[p] > 0 =>
         i < Len(shown) /\ shown[i + 1] = Bubble("assistant", [k \in 1..sent[p] |-> p])
    /\ shown[i].role # "user" =>
         i > 1 /\ shown[i - 1] = Bubble("user", <<p>>) /\ Only(shown[i].text, p)

\* Nothing more comes of p.
Settled(p) ==
  /\ pc[p] \in {"told", "ended"}
  /\ \A i \in 1..Len(toView) : IsAnswer(toView[i]) => toView[i].of # p
  /\ ~Shows(text, p)
  /\ Placed(p)

InPlace == \A p \in Prompt : p \notin muddled /\ pc[p] # "none" => Underway(p) \/ Settled(p)

\* With nothing left of it, an answer under way is complete.
LEMMA CleanSettled ==
  ASSUME Typed, Bubbles, Clean, NEW p \in Prompt, Underway(p)
  PROVE  (Settled(p) /\ pc[p] \in {"told", "ended"}) \/ pc[p] = "none"
<1>1. text = <<>> /\ Len(text) = 0 /\ ~Shows(text, p)
  BY DEF Clean, Shows
<1>2. Kind(toView, "text") = {} /\ \A i \in 1..Len(toView) : ~IsAnswer(toView[i])
  BY DEF Clean, Kind, IsAnswer
<1>3. sent[p] = 0
  <2>1. Cardinality(Kind(toView, "text")) = 0
    BY <1>2, FS_EmptySet
  <2> QED BY <1>1, <2>1 DEF Underway
<1>4. pc[p] \in {"told", "ended", "none"}
  BY DEF Clean, Typed, Stage
<1>5. PICK last \in 1..Len(shown) :
        /\ last = Len(shown)
        /\ shown[last] = Bubble("user", <<p>>)
        /\ \A i \in 1..Len(shown) : i < last => ~Shows(shown[i].text, p)
  BY <1>1 DEF Underway, Below
<1>6. Len(shown) \in Nat
  BY LenProperties DEF Typed
<1>7. \A i \in 1..Len(shown) : Shows(shown[i].text, p) => i = last
  BY <1>5, <1>6
<1>8. shown[last].role = "user"
  BY <1>5, Messages
<1>9. Placed(p)
  BY <1>3, <1>7, <1>8 DEF Placed
<1> QED BY <1>1, <1>2, <1>4, <1>9 DEF Settled

\* An answer that is settled stays so while others are told of and shown elsewhere.
LEMMA SettledStays ==
  ASSUME NEW p \in Prompt, Settled(p), pc'[p] \in {"told", "ended"}, sent'[p] = sent[p],
         \A i \in 1..Len(toView') : IsAnswer(toView'[i]) =>
           \/ toView'[i].of # p
           \/ \E j \in 1..Len(toView) : toView'[i] = toView[j],
         ~Shows(text', p), Placed(p)'
  PROVE  Settled(p)'
BY DEF Settled

\* Where the session goes or an answer is cut off, what was complete stays complete.
LEMMA PlaceDisturbed ==
  ASSUME Typed, Bubbles, InPlace, Disturbed, UNCHANGED <<pc, sent>>,
         \A i \in 1..Len(toView') : \E j \in 1..Len(toView) : toView'[i] = toView[j],
         text' \in {text, <<>>}, shown' \in {shown, <<>>}
  PROVE  InPlace'
<1> SUFFICES ASSUME NEW p \in Prompt, p \notin muddled', pc'[p] # "none" PROVE Settled(p)'
  BY DEF InPlace
<1>1. Clean /\ p \notin muddled /\ pc[p] # "none"
  BY DEF Disturbed, Sent
<1>2. Settled(p)
  BY <1>1, CleanSettled DEF InPlace
<1>3. Len(<<>>) = 0 /\ 1..0 = {}
  OBVIOUS
<1>4. ~Shows(text', p)
  BY <1>2, <1>3 DEF Settled, Shows
<1>5. Placed(p)'
  <2>1. CASE shown' = shown
    BY <1>2, <2>1 DEF Settled, Placed
  <2>2. CASE shown' = <<>>
    BY <1>3, <2>2 DEF Placed
  <2> QED BY <2>1, <2>2
<1>6. pc'[p] \in {"told", "ended"}
  BY <1>2 DEF Settled
<1> QED BY <1>2, <1>4, <1>5, <1>6, SettledStays

\* No answer moves when a stream or a request goes on without text.
LEMMA PlaceSame ==
  ASSUME Typed, InPlace, Grows,
         UNCHANGED <<streaming, text, shown, streamed, sent, muddled>>, visible => visible',
         \A q \in Prompt : pc[q] \in {"none", "told", "ended"} => pc'[q] \in {"none", "told", "ended"},
         \A q \in Prompt : pc[q] = "none" => pc'[q] = "none",
         \/ toView' = toView
         \/ \E m \in ViewMessage : ~IsAnswer(m) /\ toView' = Append(toView, m)
  PROVE  InPlace'
<1> SUFFICES ASSUME NEW p \in Prompt, p \notin muddled, pc'[p] # "none" PROVE Underway(p)' \/ Settled(p)'
  BY DEF InPlace
<1> DEFINE Alike == /\ 1..Len(toView) \subseteq 1..Len(toView')
                    /\ \A i \in 1..Len(toView) : toView'[i] = toView[i]
                    /\ \A i \in 1..Len(toView') : IsAnswer(toView'[i]) => i \in 1..Len(toView)
                    /\ Cardinality(Kind(toView', "text")) = Cardinality(Kind(toView, "text"))
<1>1. Alike
  <2>1. CASE toView' = toView
    BY <2>1
  <2>2. ASSUME NEW m \in ViewMessage, ~IsAnswer(m), toView' = Append(toView, m)
        PROVE  Alike
    <3>1. toView \in Seq(ViewMessage) /\ m.type # "text"
      BY <2>2 DEF Typed, IsAnswer
    <3>2. /\ Cardinality(Kind(toView', "text")) = Cardinality(Kind(toView, "text")) + 0
          /\ Cardinality(Kind(toView, "text")) \in Nat
      BY <2>2, <3>1, KindPut
    <3>3. /\ toView'[Len(toView) + 1] = m
          /\ \A i \in 1..Len(toView) : toView'[i] = toView[i]
          /\ 1..Len(toView') = 1..Len(toView) \cup {Len(toView) + 1}
      BY <2>2, <3>1, PutAt
    <3> QED BY <2>2, <3>2, <3>3
  <2> QED BY <2>1, <2>2
<1>2. pc[p] # "none"
  BY DEF Grows
<1>3. CASE Underway(p)
  <2>1. \A q \in Prompt : q # p => pc'[q] \notin {"asked", "open", "failed"}
    BY <1>3 DEF Underway, Typed, Stage
  <2>2. Below(p)'
    BY <1>3 DEF Underway, Below
  <2>3. /\ \A i \in 1..Len(toView') : IsAnswer(toView'[i]) => toView'[i].of = p
        /\ \A i, j \in 1..Len(toView') : toView'[i].type = "done" /\ IsAnswer(toView'[j]) => j <= i
    <3>1. \A i \in 1..Len(toView') : toView'[i].type = "done" => IsAnswer(toView'[i])
      BY DEF IsAnswer
    <3> QED BY <1>1, <1>3, <3>1 DEF Underway
  <2> QED BY <1>1, <1>3, <2>1, <2>2, <2>3 DEF Underway
<1>4. CASE Settled(p)
  <2>1. pc'[p] \in {"told", "ended"} /\ ~Shows(text', p) /\ Placed(p)'
    BY <1>4 DEF Settled, Placed, Grows
  <2> QED BY <1>1, <1>4, <2>1, SettledStays
<1> QED BY <1>2, <1>3, <1>4 DEF InPlace

\* A prompt that is sent when nothing is left of the others is under way.
LEMMA PlaceNew ==
  ASSUME Typed, Rested, Clean, NEW q \in Prompt, pc[q] = "none",
         pc' = [pc EXCEPT ![q] = "asked"], streaming', visible', UNCHANGED sent, text' = <<>>,
         \A i \in 1..Len(toView') : \E j \in 1..Len(toView) : toView'[i] = toView[j],
         NEW last \in 1..Len(shown'), last = Len(shown'), shown'[last] = Bubble("user", <<q>>),
         \A i \in 1..Len(shown') : i < last => ~Shows(shown'[i].text, q)
  PROVE  Underway(q)'
<1>1. \A i \in 1..Len(toView') : ~IsAnswer(toView'[i]) /\ toView'[i].type # "done" /\ toView'[i].type # "text"
  BY DEF Clean, IsAnswer
<1>2. Kind(toView', "text") = {} /\ Cardinality({}) = 0
  BY <1>1, FS_EmptySet DEF Kind
<1>3. Len(text') = 0 /\ Only(text', q) /\ sent'[q] = 0
  <2>1. Len(<<>>) = 0 /\ 1..0 = {}
    OBVIOUS
  <2>2. sent[q] = 0
    BY DEF Rested
  <2> QED BY <2>1, <2>2 DEF Only
<1>4. Len(text') + Cardinality(Kind(toView', "text")) = sent'[q]
  <2>1. Cardinality(Kind(toView', "text")) = 0
    BY <1>2
  <2> QED BY <1>3, <2>1
<1>5. \A p \in Prompt : p # q => pc'[p] \notin {"asked", "open", "failed"}
  BY DEF Clean, Typed
<1>6. Below(q)'
  BY DEF Below
<1> QED BY <1>1, <1>3, <1>4, <1>5, <1>6 DEF Underway

LEMMA PlaceSend ==
  ASSUME Typed, Bubbles, Rested, InPlace, ~streaming, visible, NEW q \in Prompt, pc[q] = "none",
         SendOn(q, shown), UNCHANGED <<text, streamed, toView, sent, visible>>
  PROVE  InPlace'
<1> DEFINE b == Bubble("user", <<q>>)
<1>1. /\ Len(shown) \in Nat /\ Len(shown') = Len(shown) + 1 /\ shown'[Len(shown) + 1] = b
      /\ \A i \in 1..Len(shown) : shown'[i] = shown[i] /\ i # Len(shown) + 1
      /\ 1..Len(shown') = 1..Len(shown) \cup {Len(shown) + 1}
  <2>1. b \in Bubbled /\ shown \in Seq(Bubbled) /\ shown' = Append(shown, b)
    BY Single DEF Typed, SendOn
  <2> HIDE DEF b
  <2> QED BY <2>1, PutAt
<1>2. b.role = "user" /\ (\A p : Shows(b.text, p) <=> p = q)
  BY InSingle
<1>3. b = Bubble("user", <<q>>)
  OBVIOUS
<1> HIDE DEF b
<1>4. pc' = [pc EXCEPT ![q] = "asked"] /\ streaming' /\ visible'
  BY DEF SendOn
<1>5. ASSUME NEW p \in Prompt, p # q, p \notin muddled', pc'[p] # "none" PROVE Settled(p)'
  <2>1. p \notin muddled /\ pc[p] # "none" /\ pc'[p] = pc[p]
    BY <1>4, <1>5 DEF SendOn, Typed
  <2>2. Settled(p)
    <3>1. CASE Clean
      BY <2>1, <3>1, CleanSettled DEF InPlace
    <3>2. CASE ~Clean
      BY <2>1, <3>2 DEF InPlace, Underway
    <3> QED BY <3>1, <3>2
  <2>3. Placed(p)'
    <3> SUFFICES ASSUME NEW i \in 1..Len(shown'), Shows(shown'[i].text, p)
                 PROVE  /\ shown'[i].role = "user" /\ sent'[p] > 0 =>
                             i < Len(shown') /\ shown'[i + 1] = Bubble("assistant", [k \in 1..sent'[p] |-> p])
                        /\ shown'[i].role # "user" =>
                             i > 1 /\ shown'[i - 1] = Bubble("user", <<p>>) /\ Only(shown'[i].text, p)
      BY DEF Placed
    <3>1. i \in 1..Len(shown) /\ shown'[i] = shown[i] /\ Shows(shown[i].text, p)
      BY <1>1, <1>2, <1>5
    <3>2. /\ shown[i].role = "user" /\ sent[p] > 0 =>
               i < Len(shown) /\ shown[i + 1] = Bubble("assistant", [k \in 1..sent[p] |-> p])
          /\ shown[i].role # "user" =>
               i > 1 /\ shown[i - 1] = Bubble("user", <<p>>) /\ Only(shown[i].text, p)
      BY <2>2, <3>1 DEF Settled, Placed
    <3>3. i < Len(shown) => i + 1 \in 1..Len(shown) /\ i < Len(shown')
      BY <1>1, <3>1
    <3>4. i > 1 => i - 1 \in 1..Len(shown)
      BY <1>1, <3>1
    <3> QED BY <1>1, <3>1, <3>2, <3>3, <3>4
  <2>4. pc'[p] \in {"told", "ended"} /\ ~Shows(text', p)
    BY <2>1, <2>2 DEF Settled
  <2> QED BY <2>2, <2>3, <2>4, SettledStays
<1>6. ASSUME q \notin muddled' PROVE Underway(q)'
  <2>1. Clean /\ text' = <<>>
    BY <1>6 DEF SendOn, Clean
  <2>2. \A i \in 1..Len(shown') : i < Len(shown) + 1 => ~Shows(shown'[i].text, q)
    BY <1>1, <1>2 DEF Bubbles
  <2>3. PICK last \in 1..Len(shown') : last = Len(shown) + 1
    BY <1>1
  <2> QED BY <1>1, <1>3, <1>4, <2>1, <2>2, <2>3, PlaceNew
<1> QED BY <1>5, <1>6 DEF InPlace

LEMMA PlaceCreated ==
  ASSUME Typed, Fresh, Bubbles, Rested, InPlace, Receive, Created
  PROVE  InPlace'
<1>1. \A i \in 1..Len(toView') : \E j \in 1..Len(toView) : toView'[i] = toView[j]
  BY TakeAt DEF Receive, Typed
<1>2. UNCHANGED sent /\ text' = <<>> /\ visible'
  BY DEF Receive, Created
<1>3. CASE shown' = <<>> /\ Disturbed /\ UNCHANGED pc
  BY <1>1, <1>2, <1>3, PlaceDisturbed
<1>4. CASE /\ injected # 0
           /\ shown' = <<Bubble("user", <<injected>>)>>
           /\ streaming' = TRUE
           /\ pc' = [pc EXCEPT ![injected] = "asked"]
           /\ muddled' = IF Clean THEN muddled ELSE muddled \cup Sent \cup {injected}
  <2>1. injected \in Prompt /\ pc[injected] = "none"
    BY <1>4 DEF Typed, Fresh
  <2>2. PICK q \in Prompt : q = injected
    BY <2>1
  <2> DEFINE b == Bubble("user", <<q>>)
  <2>3. b.role = "user" /\ (\A p : Shows(b.text, p) <=> p = q) /\ b = Bubble("user", <<q>>)
    BY InSingle
  <2>4. 1..Len(shown') = {1} /\ shown'[1] = b /\ Len(shown') = 1
    BY <1>4, <2>2
  <2> HIDE DEF b
  <2>5. ASSUME NEW p \in Prompt, p # q, p \notin muddled', pc'[p] # "none" PROVE Settled(p)'
    <3>1. Clean /\ p \notin muddled /\ pc[p] # "none" /\ pc'[p] = pc[p]
      BY <1>4, <2>2, <2>5 DEF Sent, Typed
    <3>2. Settled(p)
      BY <3>1, CleanSettled DEF InPlace
    <3>3. Placed(p)'
      BY <2>3, <2>4, <2>5 DEF Placed
    <3>4. ~Shows(text', p) /\ pc'[p] \in {"told", "ended"}
      <4>1. Len(<<>>) = 0 /\ 1..0 = {}
        OBVIOUS
      <4> QED BY <1>2, <3>1, <3>2, <4>1 DEF Shows, Settled
    <3> QED BY <1>1, <1>2, <3>2, <3>3, <3>4, SettledStays
  <2>6. ASSUME q \notin muddled' PROVE Underway(q)'
    <3>1. Clean
      BY <1>4, <2>2, <2>6
    <3>2. PICK last \in 1..Len(shown') : last = 1
      BY <2>4
    <3>3. /\ last = Len(shown') /\ shown'[last] = Bubble("user", <<q>>)
          /\ \A i \in 1..Len(shown') : i < last => ~Shows(shown'[i].text, q)
      BY <2>3, <2>4, <3>2
    <3>4. pc[q] = "none" /\ pc' = [pc EXCEPT ![q] = "asked"] /\ streaming'
      BY <1>4, <2>1, <2>2
    <3> QED BY <1>1, <1>2, <3>1, <3>3, <3>4, PlaceNew
  <2> QED BY <2>5, <2>6 DEF InPlace
<1> QED BY <1>3, <1>4 DEF Created, TakeInjected

\* What is told of a stream that goes on.
LEMMA ToldOf ==
  ASSUME Typed, visible, NEW type \in {"text", "done"}, NEW p \in Prompt, Tell(type, p)
  PROVE  /\ Len(toView) \in Nat /\ Len(toView') = Len(toView) + 1
         /\ toView'[Len(toView) + 1].type = type /\ toView'[Len(toView) + 1].of = p
         /\ \A i \in 1..Len(toView) : toView'[i] = toView[i] /\ i # Len(toView) + 1
         /\ 1..Len(toView') = 1..Len(toView) \cup {Len(toView) + 1}
         /\ Cardinality(Kind(toView, "text")) \in Nat
         /\ Cardinality(Kind(toView', "text"))
              = Cardinality(Kind(toView, "text")) + (IF type = "text" THEN 1 ELSE 0)
<1>1. Message(type, p) \in ViewMessage /\ Message(type, p).type = type /\ Message(type, p).of = p
  BY Messages
<1>2. toView \in Seq(ViewMessage) /\ toView' = Append(toView, Message(type, p))
  BY DEF Typed, Tell
<1> QED BY <1>1, <1>2, PutAt, KindPut

LEMMA PlaceText ==
  ASSUME Typed, Told, InPlace, NEW q \in Prompt, Text(q)
  PROVE  InPlace'
<1>1. /\ pc[q] = "open" /\ pc' = pc /\ sent' = [sent EXCEPT ![q] = @ + 1]
      /\ UNCHANGED <<visible, streaming, text, shown, streamed, muddled>> /\ Tell("text", q)
  <2>1. Streams(q)
    BY DEF Streams, Progress
  <2>2. pc[q] = "open" /\ pc' = [pc EXCEPT ![q] = "open"]
    BY DEF Text, Goes
  <2>3. pc' = pc
    BY <2>2 DEF Typed
  <2> QED BY <2>1, <2>2, <2>3, StreamMoves DEF Text
<1> SUFFICES ASSUME NEW p \in Prompt, p \notin muddled, pc[p] # "none" PROVE Underway(p)' \/ Settled(p)'
  BY <1>1 DEF InPlace
<1>2. CASE Underway(p)
  <2>1. q = p /\ visible
    BY <1>1, <1>2 DEF Underway
  <2>2. /\ Len(toView) \in Nat /\ Len(toView') = Len(toView) + 1
        /\ toView'[Len(toView) + 1].type = "text" /\ toView'[Len(toView) + 1].of = p
        /\ \A i \in 1..Len(toView) : toView'[i] = toView[i] /\ i # Len(toView) + 1
        /\ 1..Len(toView') = 1..Len(toView) \cup {Len(toView) + 1}
        /\ Cardinality(Kind(toView, "text")) \in Nat
        /\ Cardinality(Kind(toView', "text")) = Cardinality(Kind(toView, "text")) + 1
    BY <1>1, <2>1, ToldOf
  <2>3. \A i \in 1..Len(toView) : toView[i].type # "done"
    <3> SUFFICES ASSUME NEW i \in 1..Len(toView), toView[i].type = "done" PROVE FALSE
      OBVIOUS
    <3>1. toView[i].of = p
      BY <1>2 DEF Underway, IsAnswer
    <3> QED BY <1>1, <2>1, <3>1 DEF Told
  <2>4. \A i \in 1..Len(toView') : toView'[i].type # "done"
    BY <2>2, <2>3
  <2>5. \A i \in 1..Len(toView') : IsAnswer(toView'[i]) => toView'[i].of = p
    BY <1>2, <2>2 DEF Underway
  <2>6. Len(text') + Cardinality(Kind(toView', "text")) = sent'[p]
    <3>1. Len(text) \in Nat /\ sent'[p] = sent[p] + 1 /\ text' = text
      BY <1>1, <2>1, LenProperties DEF Typed
    <3> QED BY <1>2, <2>2, <3>1 DEF Underway
  <2>7. Below(p)'
    BY <1>1, <1>2 DEF Underway, Below
  <2>8. /\ streaming' /\ visible' /\ Only(text', p)
        /\ \A r \in Prompt : r # p => pc'[r] \notin {"asked", "open", "failed"}
    BY <1>1, <1>2 DEF Underway
  <2> QED BY <2>4, <2>5, <2>6, <2>7, <2>8 DEF Underway
<1>3. CASE Settled(p)
  <2>1. q # p /\ sent'[p] = sent[p] /\ pc'[p] \in {"told", "ended"}
    BY <1>1, <1>3 DEF Settled, Typed
  <2>2. \A i \in 1..Len(toView') : IsAnswer(toView'[i]) =>
          toView'[i].of # p \/ \E j \in 1..Len(toView) : toView'[i] = toView[j]
    <3>1. CASE visible
      <4>1. /\ toView'[Len(toView) + 1].of = q
            /\ \A i \in 1..Len(toView) : toView'[i] = toView[i]
            /\ 1..Len(toView') = 1..Len(toView) \cup {Len(toView) + 1}
        BY <1>1, <3>1, ToldOf
      <4> QED BY <2>1, <4>1
    <3>2. CASE ~visible
      BY <1>1, <3>2 DEF Tell
    <3> QED BY <3>1, <3>2
  <2>3. ~Shows(text', p) /\ Placed(p)'
    BY <1>1, <1>3, <2>1 DEF Settled, Placed
  <2> QED BY <1>3, <2>1, <2>2, <2>3, SettledStays
<1> QED BY <1>2, <1>3 DEF InPlace

LEMMA PlaceDone ==
  ASSUME Typed, Told, InPlace, NEW q \in Prompt, Done(q)
  PROVE  InPlace'
<1>1. /\ pc[q] \in {"open", "failed"} /\ pc' = [pc EXCEPT ![q] = "told"]
      /\ UNCHANGED <<visible, streaming, text, shown, streamed, muddled, sent>> /\ Tell("done", q)
  BY DEF Done, Goes, area, answer, excuses
<1> SUFFICES ASSUME NEW p \in Prompt, p \notin muddled, pc[p] # "none" PROVE Underway(p)' \/ Settled(p)'
  BY <1>1 DEF InPlace, Typed
<1>2. CASE Underway(p)
  <2>1. q = p /\ visible
    BY <1>1, <1>2 DEF Underway
  <2>2. /\ Len(toView) \in Nat /\ Len(toView') = Len(toView) + 1
        /\ toView'[Len(toView) + 1].type = "done" /\ toView'[Len(toView) + 1].of = p
        /\ \A i \in 1..Len(toView) : toView'[i] = toView[i] /\ i # Len(toView) + 1
        /\ 1..Len(toView') = 1..Len(toView) \cup {Len(toView) + 1}
        /\ Cardinality(Kind(toView, "text")) \in Nat
        /\ Cardinality(Kind(toView', "text")) = Cardinality(Kind(toView, "text")) + 0
    BY <1>1, <2>1, ToldOf
  <2>3. \A i \in 1..Len(toView) : toView[i].type # "done"
    <3> SUFFICES ASSUME NEW i \in 1..Len(toView), toView[i].type = "done" PROVE FALSE
      OBVIOUS
    <3>1. toView[i].of = p
      BY <1>2 DEF Underway, IsAnswer
    <3> QED BY <1>1, <2>1, <3>1 DEF Told
  <2>4. \A i, j \in 1..Len(toView') : toView'[i].type = "done" /\ IsAnswer(toView'[j]) => j <= i
    <3>1. \A i \in 1..Len(toView') : toView'[i].type = "done" => i = Len(toView) + 1
      BY <2>2, <2>3
    <3> QED BY <2>2, <3>1
  <2>5. \A i \in 1..Len(toView') : IsAnswer(toView'[i]) => toView'[i].of = p
    BY <1>2, <2>2 DEF Underway
  <2>6. Len(text') + Cardinality(Kind(toView', "text")) = sent'[p]
    <3>1. sent'[p] = sent[p] /\ text' = text
      BY <1>1
    <3> QED BY <1>2, <2>2, <3>1 DEF Underway
  <2>7. Below(p)'
    BY <1>1, <1>2 DEF Underway, Below
  <2>8. /\ streaming' /\ visible' /\ Only(text', p)
        /\ \A r \in Prompt : r # p => pc'[r] \notin {"asked", "open", "failed"}
    BY <1>1, <1>2, <2>1 DEF Underway, Typed
  <2> QED BY <2>4, <2>5, <2>6, <2>7, <2>8 DEF Underway
<1>3. CASE Settled(p)
  <2>1. q # p /\ sent'[p] = sent[p] /\ pc'[p] \in {"told", "ended"}
    BY <1>1, <1>3 DEF Settled, Typed
  <2>2. \A i \in 1..Len(toView') : IsAnswer(toView'[i]) =>
          toView'[i].of # p \/ \E j \in 1..Len(toView) : toView'[i] = toView[j]
    <3>1. CASE visible
      <4>1. /\ toView'[Len(toView) + 1].of = q
            /\ \A i \in 1..Len(toView) : toView'[i] = toView[i]
            /\ 1..Len(toView') = 1..Len(toView) \cup {Len(toView) + 1}
        BY <1>1, <3>1, ToldOf
      <4> QED BY <2>1, <4>1
    <3>2. CASE ~visible
      BY <1>1, <3>2 DEF Tell
    <3> QED BY <3>1, <3>2
  <2>3. ~Shows(text', p) /\ Placed(p)'
    BY <1>1, <1>3, <2>1 DEF Settled, Placed
  <2> QED BY <1>3, <2>1, <2>2, <2>3, SettledStays
<1> QED BY <1>2, <1>3 DEF InPlace

\* The message the view takes up.
LEMMA TakenOf ==
  ASSUME Typed, Receive
  PROVE  /\ 1 \in 1..Len(toView) /\ Head(toView) = toView[1]
         /\ Len(toView') \in Nat
         /\ \A i \in 1..Len(toView') : toView'[i] = toView[i + 1] /\ i + 1 \in 1..Len(toView) /\ i + 1 # 1
         /\ Cardinality(Kind(toView', "text")) \in Nat
         /\ Cardinality(Kind(toView, "text")) = Cardinality(Kind(toView', "text"))
              + (IF toView[1].type = "text" THEN 1 ELSE 0)
         /\ \A i \in 1..Len(toView') : \E j \in 1..Len(toView) : toView'[i] = toView[j]
<1>1. toView \in Seq(ViewMessage) /\ toView # <<>> /\ toView' = Tail(toView)
  BY DEF Receive, Typed
<1>2. toView' \in Seq(ViewMessage) /\ Head(toView) = toView[1]
  BY <1>1, TakeAt
<1>3. Cardinality(Kind(toView', "text")) \in Nat
  BY <1>2, KindFinite
<1>4. Cardinality(Kind(toView, "text")) = Cardinality(Kind(toView', "text"))
              + (IF toView[1].type = "text" THEN 1 ELSE 0)
  BY <1>1, <1>2, KindTake
<1> QED BY <1>1, <1>3, <1>4, TakeAt

LEMMA PlaceChunk ==
  ASSUME Typed, Told, Bubbles, InPlace, Receive, NEW q \in Prompt, Chunk(q),
         toView[1].type = "text", toView[1].of = q
  PROVE  InPlace'
<1>1. UNCHANGED <<pc, sent, streaming, visible, muddled>>
  BY DEF Chunk, excuses, Receive
<1>2. IsAnswer(toView[1]) /\ 1 \in 1..Len(toView)
  BY TakenOf DEF IsAnswer
<1>3. Bubble("assistant", text').role = "assistant" /\ Bubble("assistant", text').text = text'
      /\ Bubble("assistant", text).role = "assistant" /\ Bubble("assistant", text).text = text
  BY Messages
<1> SUFFICES ASSUME NEW p \in Prompt, p \notin muddled, pc[p] # "none" PROVE Underway(p)' \/ Settled(p)'
  BY <1>1 DEF InPlace
<1>4. CASE Underway(p)
  <2>1. q = p
    BY <1>2, <1>4 DEF Underway
  <2>2. \A i \in 1..Len(toView') : IsAnswer(toView'[i]) => toView'[i].of = p
    <3>1. ASSUME NEW i \in 1..Len(toView'), IsAnswer(toView'[i])
          PROVE  toView'[i].of = p
      <4>1. PICK j \in 1..Len(toView) : toView'[i] = toView[j]
        BY <3>1, TakenOf
      <4> QED BY <1>4, <3>1, <4>1 DEF Underway, IsAnswer
    <3> QED BY <3>1
  <2>3. \A i, j \in 1..Len(toView') : toView'[i].type = "done" /\ IsAnswer(toView'[j]) => j <= i
    <3> SUFFICES ASSUME NEW i \in 1..Len(toView'), NEW j \in 1..Len(toView'),
                        toView'[i].type = "done", IsAnswer(toView'[j])
                 PROVE  j <= i
      OBVIOUS
    <3>1. /\ toView'[i] = toView[i + 1] /\ i + 1 \in 1..Len(toView)
          /\ toView'[j] = toView[j + 1] /\ j + 1 \in 1..Len(toView)
      BY TakenOf
    <3>2. j + 1 <= i + 1
      BY <1>4, <3>1 DEF Underway
    <3> QED BY <3>2
  <2>4. Len(text') + Cardinality(Kind(toView', "text")) = sent'[p]
    <3>1. Len(text) + Cardinality(Kind(toView, "text")) = sent[p]
      BY <1>4 DEF Underway
    <3>2. /\ Cardinality(Kind(toView, "text")) = Cardinality(Kind(toView', "text")) + 1
          /\ Cardinality(Kind(toView', "text")) \in Nat
      BY TakenOf
    <3>3. Len(text') = Len(text) + 1 /\ Len(text) \in Nat /\ sent'[p] = sent[p]
      BY <1>1, Chunked
    <3> QED BY <3>1, <3>2, <3>3
  <2>5. Below(p)'
    <3>1. PICK last \in 1..Len(shown) :
            /\ text = <<>> => last = Len(shown)
            /\ text # <<>> => streamed = Len(shown) /\ last + 1 = Len(shown)
            /\ shown[last] = Bubble("user", <<p>>)
            /\ \A i \in 1..Len(shown) : i < last => ~Shows(shown[i].text, p)
      BY <1>4 DEF Underway, Below
    <3>2. streamed' = Len(shown') /\ last + 1 = Len(shown') /\ last # streamed' /\ last \in 1..Len(shown')
      <4>1. CASE streamed = 0
        BY <3>1, <4>1, Chunked DEF Bubbles
      <4>2. CASE streamed # 0
        BY <3>1, <4>2, Chunked DEF Bubbles
      <4> QED BY <4>1, <4>2
    <3>3. shown'[last] = shown[last]
      BY <3>2, Chunked
    <3>4. \A i \in 1..Len(shown') : i < last => ~Shows(shown'[i].text, p)
      BY <3>1, <3>2, Chunked
    <3>5. text' # <<>>
      BY Chunked
    <3> QED BY <3>1, <3>2, <3>3, <3>4, <3>5 DEF Below
  <2>6. Only(text', p)
    BY <1>4, <2>1, Chunked DEF Underway
  <2>7. /\ streaming' /\ visible'
        /\ \A r \in Prompt : r # p => pc'[r] \notin {"asked", "open", "failed"}
    BY <1>1, <1>4 DEF Underway
  <2> QED BY <2>2, <2>3, <2>4, <2>5, <2>6, <2>7 DEF Underway
<1>5. CASE Settled(p)
  <2>1. q # p
    BY <1>2, <1>5 DEF Settled
  <2>2. ~Shows(text, p) /\ ~Shows(text', p)
    BY <1>5, <2>1, Chunked DEF Settled
  <2>3. Placed(p)'
    <3> SUFFICES ASSUME NEW i \in 1..Len(shown'), Shows(shown'[i].text, p)
                 PROVE  /\ shown'[i].role = "user" /\ sent'[p] > 0 =>
                             i < Len(shown') /\ shown'[i + 1] = Bubble("assistant", [k \in 1..sent'[p] |-> p])
                        /\ shown'[i].role # "user" =>
                             i > 1 /\ shown'[i - 1] = Bubble("user", <<p>>) /\ Only(shown'[i].text, p)
      BY DEF Placed
    <3>1. i # streamed' /\ i \in 1..Len(shown) /\ shown'[i] = shown[i] /\ Shows(shown[i].text, p)
      <4>1. i # streamed'
        BY <1>3, <2>2, Chunked
      <4> QED BY <4>1, Chunked
    <3>2. /\ shown[i].role = "user" /\ sent[p] > 0 =>
               i < Len(shown) /\ shown[i + 1] = Bubble("assistant", [k \in 1..sent[p] |-> p])
          /\ shown[i].role # "user" =>
               i > 1 /\ shown[i - 1] = Bubble("user", <<p>>) /\ Only(shown[i].text, p)
      BY <1>5, <3>1 DEF Settled, Placed
    <3>3. ASSUME shown[i].role = "user", sent[p] > 0
          PROVE  i < Len(shown') /\ shown'[i + 1] = shown[i + 1]
      <4>1. i < Len(shown) /\ i + 1 \in 1..Len(shown) /\ i + 1 \in 1..Len(shown') /\ i < Len(shown')
        BY <3>1, <3>2, <3>3, Chunked
      <4>2. i + 1 # streamed'
        <5> SUFFICES ASSUME i + 1 = streamed' PROVE FALSE
          OBVIOUS
        <5>1. shown[i + 1] = Bubble("assistant", text)
          BY <4>1, Chunked
        <5>2. text = [k \in 1..sent[p] |-> p]
          <6>1. Bubble("assistant", [k \in 1..sent[p] |-> p]).text = [k \in 1..sent[p] |-> p]
            BY Messages
          <6> QED BY <1>3, <3>2, <3>3, <5>1, <6>1
        <5>3. sent[p] \in Nat /\ 1 \in 1..sent[p]
          BY <3>3 DEF Typed, Bounded
        <5>4. Len(text) = sent[p] /\ text[1] = p
          BY <5>2, <5>3
        <5> QED BY <2>2, <5>3, <5>4 DEF Shows
      <4> QED BY <4>1, <4>2, Chunked
    <3>4. ASSUME shown[i].role # "user" PROVE i > 1 /\ shown'[i - 1] = shown[i - 1]
      <4>1. i > 1 /\ i - 1 \in 1..Len(shown) /\ shown[i - 1] = Bubble("user", <<p>>)
        BY <3>1, <3>2, <3>4, Chunked
      <4>2. i - 1 # streamed'
        <5>1. Bubble("user", <<p>>).role = "user"
          BY Messages
        <5> QED BY <1>3, <4>1, <5>1, Chunked
      <4> QED BY <4>1, <4>2, Chunked
    <3> QED BY <1>1, <3>1, <3>2, <3>3, <3>4
  <2>4. pc'[p] \in {"told", "ended"} /\ sent'[p] = sent[p]
    BY <1>1, <1>5 DEF Settled
  <2> QED BY <1>5, <2>2, <2>3, <2>4, TakenOf, SettledStays
<1> QED BY <1>4, <1>5 DEF InPlace

LEMMA PlaceFinished ==
  ASSUME Typed, Told, Bubbles, InPlace, Receive, NEW q \in Prompt, Finished(q),
         toView[1].type = "done", toView[1].of = q
  PROVE  InPlace'
<1>1. UNCHANGED <<pc, sent, visible, shown, muddled>> /\ text' = <<>>
  BY DEF Finished, Receive
<1>2. IsAnswer(toView[1]) /\ 1 \in 1..Len(toView)
  BY TakenOf DEF IsAnswer
<1> SUFFICES ASSUME NEW p \in Prompt, p \notin muddled, pc[p] # "none" PROVE Settled(p)'
  BY <1>1 DEF InPlace
<1>3. ~Shows(text', p) /\ Len(<<>>) = 0
  BY <1>1 DEF Shows
<1>4. CASE Underway(p)
  <2>1. q = p
    BY <1>2, <1>4 DEF Underway
  <2>2. \A j \in 1..Len(toView) : IsAnswer(toView[j]) => j <= 1
    BY <1>2, <1>4 DEF Underway
  <2>3. \A i \in 1..Len(toView') : ~IsAnswer(toView'[i])
    <3> SUFFICES ASSUME NEW i \in 1..Len(toView'), IsAnswer(toView'[i]) PROVE FALSE
      OBVIOUS
    <3>1. toView'[i] = toView[i + 1] /\ i + 1 \in 1..Len(toView)
      BY TakenOf
    <3>2. i + 1 <= 1
      BY <2>2, <3>1
    <3> QED BY <3>2
  <2>4. Kind(toView', "text") = {}
    BY <2>3 DEF Kind, IsAnswer
  <2>5. Cardinality(Kind(toView', "text")) = 0
    BY <2>4, FS_EmptySet
  <2>6. Len(text) = sent[p] /\ Len(text) \in Nat /\ text \in Seq(Prompt)
    <3>1. Cardinality(Kind(toView, "text")) = 0 + 0
      BY <2>5, TakenOf
    <3>2. Len(text) \in Nat /\ text \in Seq(Prompt)
      BY LenProperties DEF Typed
    <3> QED BY <1>4, <3>1, <3>2 DEF Underway
  <2>7. pc[p] \in {"told", "ended"}
    BY <1>2, <2>1 DEF Told
  <2>8. PICK last \in 1..Len(shown) :
          /\ text = <<>> => last = Len(shown)
          /\ text # <<>> => streamed = Len(shown) /\ last + 1 = Len(shown)
          /\ shown[last] = Bubble("user", <<p>>)
          /\ \A i \in 1..Len(shown) : i < last => ~Shows(shown[i].text, p)
    BY <1>4 DEF Underway, Below
  <2>9. text = [k \in 1..sent[p] |-> p]
    BY <1>4, <2>6 DEF Underway, Only
  <2>10. Placed(p)
    <3> SUFFICES ASSUME NEW i \in 1..Len(shown), Shows(shown[i].text, p)
                 PROVE  /\ shown[i].role = "user" /\ sent[p] > 0 =>
                             i < Len(shown) /\ shown[i + 1] = Bubble("assistant", [k \in 1..sent[p] |-> p])
                        /\ shown[i].role # "user" =>
                             i > 1 /\ shown[i - 1] = Bubble("user", <<p>>) /\ Only(shown[i].text, p)
      BY DEF Placed
    <3>1. Len(shown) \in Nat
      BY LenProperties DEF Typed
    <3>2. CASE i = last
      <4>1. shown[i].role = "user"
        BY <2>8, <3>2, Messages
      <4>2. ASSUME sent[p] > 0 PROVE i < Len(shown) /\ shown[i + 1] = Bubble("assistant", text)
        <5>1. text # <<>>
          BY <1>3, <2>6, <4>2
        <5>2. streamed = Len(shown) /\ i + 1 = Len(shown) /\ streamed # 0
          BY <2>8, <3>1, <3>2, <5>1
        <5> QED BY <3>1, <5>2 DEF Bubbles
      <4> QED BY <2>9, <4>1, <4>2
    <3>3. CASE i # last
      <4>1. i > last
        BY <2>8, <3>1, <3>3
      <4>2. text # <<>> /\ i = Len(shown) /\ i = last + 1 /\ streamed = i /\ streamed # 0
        BY <2>8, <3>1, <4>1
      <4>3. shown[i] = Bubble("assistant", text)
        BY <4>2 DEF Bubbles
      <4>4. shown[i].role = "assistant" /\ shown[i].text = text
        BY <4>3, Messages
      <4>5. i > 1 /\ i - 1 = last
        BY <3>1, <4>2
      <4>6. Only(shown[i].text, p)
        BY <1>4, <4>4 DEF Underway
      <4> QED BY <2>8, <4>4, <4>5, <4>6
    <3> QED BY <3>2, <3>3
  <2>11. Placed(p)'
    BY <1>1, <2>10 DEF Placed
  <2> QED BY <1>1, <1>3, <2>3, <2>7, <2>11 DEF Settled
<1>5. CASE Settled(p)
  <2>1. Placed(p)' /\ pc'[p] \in {"told", "ended"}
    BY <1>1, <1>5 DEF Settled, Placed
  <2> QED BY <1>1, <1>3, <1>5, <2>1, TakenOf, SettledStays
<1> QED BY <1>4, <1>5 DEF InPlace

LEMMA PlaceReceive ==
  ASSUME Typed, Fresh, Told, Bubbles, Rested, InPlace, Receive
  PROVE  InPlace'
<1> DEFINE m == Head(toView)
<1>1. m = toView[1] /\ 1 \in 1..Len(toView)
      /\ \A i \in 1..Len(toView') : \E j \in 1..Len(toView) : toView'[i] = toView[j]
  BY TakenOf
<1>2. CASE Created
  BY <1>2, PlaceCreated
<1>3. CASE m.type = "text" /\ Chunk(m.of)
  <2>1. m.of \in Prompt
    BY <1>1, <1>3 DEF Told
  <2> QED BY <1>1, <1>3, <2>1, PlaceChunk
<1>4. CASE m.type = "done" /\ Finished(m.of)
  <2>1. m.of \in Prompt
    BY <1>1, <1>4 DEF Told
  <2> QED BY <1>1, <1>4, <2>1, PlaceFinished
<1>5. CASE Error(m.of)
  <2>1. UNCHANGED <<pc, sent, text, shown>> /\ Disturbed
    BY <1>5 DEF Error, Receive
  <2> QED BY <1>1, <2>1, PlaceDisturbed
<1> QED BY <1>2, <1>3, <1>4, <1>5 DEF Receive

LEMMA PlaceStep ==
  ASSUME Typed, Fresh, Posted, Told, Bubbles, Rested, InPlace, Grows, [Next]_vars
  PROVE  InPlace'
<1>0. \A type, p : Tell(type, p) => toView' = toView \/ toView' = Append(toView, Message(type, p))
  BY DEF Tell
<1>1. ASSUME NEW p \in Prompt, Prompting(p) PROVE InPlace'
  <2>1. CASE ~streaming /\ SendOn(p, shown) /\ UNCHANGED <<text, streamed>>
    BY <1>1, <2>1, PromptNew, PlaceSend DEF Prompting
  <2>2. CASE UNCHANGED <<answer, pc, muddled>>
    BY <1>1, <2>2, PlaceSame DEF Prompting, answer
  <2> QED BY <1>1, <2>1, <2>2 DEF Prompting
<1>2. CASE Receive
  BY <1>2, PlaceReceive
<1>3. CASE Cancel \/ DeleteSession
  <2>1. UNCHANGED <<pc, sent, toView>> /\ text' \in {text, <<>>} /\ shown' \in {shown, <<>>} /\ Disturbed
    BY <1>3 DEF Cancel, DeleteSession, host, channels
  <2> QED BY <2>1, PlaceDisturbed
<1>4. CASE Hide \/ Close
  <2>1. UNCHANGED <<pc, sent>> /\ text' = <<>> /\ shown' = <<>> /\ toView' = <<>> /\ Disturbed
    BY <1>4 DEF Hide, Close, Unload
  <2>2. Len(<<>>) = 0 /\ 1..0 = {}
    OBVIOUS
  <2> QED BY <2>1, <2>2, PlaceDisturbed
<1>5. CASE NewSession \/ Show \/ UNCHANGED vars
  <2>1. UNCHANGED <<streaming, text, shown, streamed, sent, muddled, pc, toView>> /\ (visible => visible')
    BY <1>5 DEF NewSession, Show, vars, answer, area, host, channels, excuses
  <2> QED BY <2>1, PlaceSame
<1>6. CASE Handle
  <2>1. UNCHANGED <<streaming, text, shown, streamed, sent, muddled, toView, visible>>
    BY <1>6 DEF Handle, area, answer
  <2>2. pc' = pc \/ \E q \in Prompt : pc[q] = "asked" /\ pc' = [pc EXCEPT ![q] = "open"]
    BY <1>6, Handled
  <2>3. /\ \A q \in Prompt : pc[q] \in {"none", "told", "ended"} => pc'[q] \in {"none", "told", "ended"}
        /\ \A q \in Prompt : pc[q] = "none" => pc'[q] = "none"
    BY <2>2 DEF Typed
  <2> QED BY <2>1, <2>3, PlaceSame
<1>7. CASE SessionMade \/ RequestFails
  <2>1. UNCHANGED <<streaming, text, shown, streamed, sent, muddled, pc, visible>>
    BY <1>7 DEF SessionMade, RequestFails, area, answer, excuses
  <2>2. toView' = toView \/ \E m \in ViewMessage : ~IsAnswer(m) /\ toView' = Append(toView, m)
    <3>1. Message("created", 0) \in ViewMessage /\ ~IsAnswer(Message("created", 0))
          /\ Message("error", 0) \in ViewMessage /\ ~IsAnswer(Message("error", 0))
      BY Messages DEF IsAnswer
    <3> QED BY <1>0, <1>7, <3>1 DEF SessionMade, RequestFails
  <2> QED BY <2>1, <2>2, PlaceSame
<1>8. ASSUME NEW p \in Prompt, Streams(p) PROVE InPlace'
  <2>1. CASE Text(p)
    BY <2>1, PlaceText
  <2>2. CASE Done(p)
    BY <2>2, PlaceDone
  <2>3. CASE Failed(p) \/ End(p) \/ Breaks(p) \/ Stop(p)
    <3>1. UNCHANGED <<streaming, text, shown, streamed, sent, muddled, visible>>
      <4>1. UNCHANGED <<streaming, text, shown, streamed, muddled, visible>>
        BY <1>8, StreamMoves
      <4> QED BY <2>3, <4>1 DEF Failed, End, Breaks, Stop
    <3>2. /\ pc[p] \in {"open", "failed", "told"}
          /\ \E to \in {"failed", "ended"} :
               pc' = [pc EXCEPT ![p] = to] /\ (to = "failed" => pc[p] = "open")
      BY <1>8, <2>3, StreamMoves DEF Failed, End, Breaks, Stop, Goes
    <3>3. /\ \A q \in Prompt : pc[q] \in {"none", "told", "ended"} => pc'[q] \in {"none", "told", "ended"}
          /\ \A q \in Prompt : pc[q] = "none" => pc'[q] = "none"
      BY <3>2 DEF Typed
    <3>4. toView' = toView \/ \E m \in ViewMessage : ~IsAnswer(m) /\ toView' = Append(toView, m)
      <4>1. Message("error", p) \in ViewMessage /\ Message("error", p).type = "error"
        BY Messages
      <4>2. ~IsAnswer(Message("error", p))
        BY <4>1 DEF IsAnswer
      <4> QED BY <1>0, <2>3, <4>1, <4>2 DEF Failed, End, Breaks, Stop, channels
    <3> QED BY <3>1, <3>3, <3>4, PlaceSame
  <2> QED BY <1>8, <2>1, <2>2, <2>3 DEF Streams, Progress
<1> QED BY <1>1, <1>2, <1>3, <1>4, <1>5, <1>6, <1>7, <1>8, Prompted DEF Next, Streams

-----------------------------------------------------------------------------
(* The theorems. *)

PanelInv ==
  /\ Typed /\ Asking
  /\ Fresh /\ Posted /\ Told
  /\ CancelInv
  /\ Bubbles /\ Rested /\ InPlace

LEMMA InitInv == Bounded /\ Init => PanelInv
<1> SUFFICES ASSUME Bounded, Init PROVE PanelInv
  OBVIOUS
<1>1. Len(<<>>) = 0 /\ 1..0 = {} /\ 0 \notin Prompt
  BY DEF Prompt
<1>2. Typed /\ Asking
  BY InitTyped
<1>3. toHost = <<>> /\ toView = <<>> /\ shown = <<>> /\ text = <<>> /\ streamed = 0 /\ inSession = FALSE
      /\ draft = 0 /\ injected = 0
      /\ \A p \in Prompt : pc[p] = "none" /\ sent[p] = 0
  BY DEF Init
<1>4. Fresh /\ Posted /\ Told
  BY <1>1, <1>3 DEF Fresh, Posted, Told
<1>5. CancelInv /\ Rested /\ InPlace
  BY <1>3 DEF CancelInv, Wanted, Rested, InPlace
<1>6. Bubbles
  BY <1>1, <1>3 DEF Bubbles
<1> QED BY <1>2, <1>4, <1>5, <1>6 DEF PanelInv

LEMMA StepInv == PanelInv /\ [Next]_vars => PanelInv'
<1> SUFFICES ASSUME PanelInv, [Next]_vars PROVE PanelInv'
  OBVIOUS
<1> USE DEF PanelInv
<1>1. Effect
  BY StepEffect
<1>2. Grows
  BY <1>1, EffectGrows
<1>3. Typed' /\ Asking'
  <2>1. CASE Send \/ Inject
    BY <2>1, Prompted, PromptTyped
  <2>2. CASE Receive
    BY <2>2, ReceiveTyped
  <2>3. CASE Cancel \/ NewSession \/ DeleteSession \/ Hide \/ Close \/ Show
    BY <2>3, LeaveTyped
  <2>4. CASE Handle
    BY <2>4, HandleTyped
  <2>5. CASE SessionMade \/ RequestFails
    BY <2>5, RequestTyped
  <2>6. CASE \E p \in Prompt : Progress(p) \/ Failed(p) \/ Breaks(p)
    BY <2>6, StreamTyped DEF Streams
  <2>7. CASE UNCHANGED vars
    BY <2>7 DEF vars, area, answer, channels, host, counts, excuses, Typed, Asking, Bounded
  <2> QED BY <2>1, <2>2, <2>3, <2>4, <2>5, <2>6, <2>7 DEF Next
<1>4. Fresh'
  BY FreshStep
<1>5. Posted'
  BY <1>1, PostedStep
<1>6. Told'
  BY <1>2, ToldStep
<1>7. CancelInv'
  <2>1. Handle => UNCHANGED streaming
    BY DEF Handle, answer
  <2> QED BY <1>1, <2>1, CancelStep
<1>8. Bubbles'
  BY <1>2, BubblesStep
<1>9. Rested'
  BY <1>1, RestedStep
<1>10. InPlace'
  BY <1>2, PlaceStep
<1> QED BY <1>3, <1>4, <1>5, <1>6, <1>7, <1>8, <1>9, <1>10

LEMMA AlwaysInv == BoundsNat /\ Spec => []PanelInv
<1>1. BoundsNat => Bounded
  BY Together DEF BoundsNat, Bounded
<1> QED BY <1>1, InitInv, StepInv, PTL DEF Spec

LEMMA InvCancel == PanelInv => CancelReaches
<1> SUFFICES ASSUME PanelInv, NEW p \in Prompt, pc[p] = "open", p \notin aborted \cup beside
             PROVE  active = p
  BY DEF CancelReaches
<1>1. PICK i \in 0..Len(toHost) : Waits(p, i)
  BY DEF PanelInv, CancelInv, Wanted
<1> QED BY <1>1 DEF Waits

LEMMA InvOnce == PanelInv /\ [Next]_vars => \A p \in Sent : toHost' # Append(toHost, Message("send", p))
<1> SUFFICES ASSUME PanelInv, [Next]_vars, NEW p \in Sent, toHost' = Append(toHost, Message("send", p))
             PROVE  FALSE
  OBVIOUS
<1>1. PICK q \in Prompt : q = p /\ pc[q] # "none"
  BY DEF Sent
<1>2. /\ Message("send", q) \in HostMessage /\ Message("send", q).type = "send" /\ Message("send", q).of = q
      /\ toHost \in Seq(HostMessage)
  BY Messages DEF PanelInv, Typed
<1>3. /\ Len(toHost') = Len(toHost) + 1 /\ Len(toHost) \in Nat
      /\ toHost'[Len(toHost) + 1] = Message("send", q)
  BY <1>1, <1>2, PutAt
<1>4. Effect
  BY StepEffect DEF PanelInv
<1>5. toHost' # toHost /\ toHost' # <<>>
  BY <1>3
<1>6. ASSUME NEW m \in HostMessage, toHost' = Append(toHost, m) PROVE m = Message("send", q)
  <2>1. toHost'[Len(toHost) + 1] = m
    BY <1>2, <1>6, PutAt
  <2> QED BY <1>3, <2>1
<1>7. ASSUME NEW r \in Prompt, Asks(r) PROVE FALSE
  <2>1. Message("send", r) \in HostMessage /\ Message("send", r).of = r
    BY Messages
  <2>2. Message("send", r) = Message("send", q)
    BY <1>6, <1>7, <2>1 DEF Asks, Post
  <2>3. r = q
    BY <1>2, <2>1, <2>2
  <2> QED BY <1>1, <1>7, <2>3 DEF Asks
<1>8. ASSUME NEW type \in {"cancel", "create"}, Posts(type) PROVE FALSE
  <2>1. Message(type, 0) \in HostMessage /\ Message(type, 0).type = type
    BY Messages
  <2>2. Message(type, 0) = Message("send", q)
    BY <1>6, <1>8, <2>1 DEF Posts, Post
  <2> QED BY <1>2, <2>1, <2>2
<1>9. ~Handle
  <2>1. Handle => Len(toHost') = Len(toHost) - 1
    BY HandleType DEF PanelInv
  <2> QED BY <1>3, <2>1
<1>10. \A r \in Prompt : ~Streams(r)
  BY <1>5, StreamMoves DEF PanelInv
<1> QED BY <1>4, <1>5, <1>7, <1>8, <1>9, <1>10 DEF Effect, Idles, Frees, Leaves

LEMMA InvPlace == PanelInv => AnswersInPlace
<1> SUFFICES ASSUME PanelInv, NEW i \in 1..Len(shown),
                    NEW p \in {shown[i].text[k] : k \in 1..Len(shown[i].text)} \ muddled
             PROVE  IF shown[i].role = "user"
                    THEN (pc[p] \in {"told", "ended"} /\ ~OnItsWay(p) /\ sent[p] > 0) =>
                           /\ i < Len(shown) /\ shown[i + 1].role = "assistant"
                           /\ shown[i + 1].text = [k \in 1..sent[p] |-> p]
                    ELSE /\ i > 1 /\ shown[i - 1] = Bubble("user", <<p>>)
                         /\ \A k \in 1..Len(shown[i].text) : shown[i].text[k] = p
  BY Zenon DEF AnswersInPlace
<1>1. shown \in Seq(Bubbled) /\ Len(shown) \in Nat /\ shown[i] \in Bubbled
  BY LenProperties, ElementOfSeq DEF PanelInv, Typed
<1>2. shown[i].text \in Seq(Prompt)
  BY <1>1 DEF Bubbled
<1>3. p \in Prompt /\ p \notin muddled
  BY <1>2, ElementOfSeq
<1>4. Shows(shown[i].text, p) /\ pc[p] # "none"
  BY <1>3 DEF Shows, PanelInv, Bubbles
<1>5. Bubble("assistant", [j \in 1..sent[p] |-> p]).role = "assistant"
      /\ Bubble("assistant", [j \in 1..sent[p] |-> p]).text = [j \in 1..sent[p] |-> p]
  BY Messages
<1>6. CASE Settled(p)
  <2>1. /\ shown[i].role = "user" /\ sent[p] > 0 =>
             i < Len(shown) /\ shown[i + 1] = Bubble("assistant", [j \in 1..sent[p] |-> p])
        /\ shown[i].role # "user" =>
             i > 1 /\ shown[i - 1] = Bubble("user", <<p>>) /\ Only(shown[i].text, p)
    BY <1>4, <1>6 DEF Settled, Placed
  <2> QED BY <1>3, <1>5, <2>1 DEF Only
<1>7. CASE Underway(p)
  <2>1. PICK last \in 1..Len(shown) :
          /\ text = <<>> => last = Len(shown)
          /\ text # <<>> => streamed = Len(shown) /\ last + 1 = Len(shown)
          /\ shown[last] = Bubble("user", <<p>>)
          /\ \A h \in 1..Len(shown) : h < last => ~Shows(shown[h].text, p)
    BY <1>7 DEF Underway, Below
  <2>2. Len(text) \in Nat /\ text \in Seq(Prompt) /\ Len(<<>>) = 0
    BY LenProperties DEF PanelInv, Typed
  <2>3. text # <<>> => /\ shown[Len(shown)] = Bubble("assistant", text) /\ Len(shown) = last + 1
                       /\ shown[Len(shown)].role = "assistant" /\ shown[Len(shown)].text = text
    <3>1. streamed = Len(shown) => streamed # 0
      BY <1>1, <2>1
    <3> QED BY <2>1, <3>1, Messages DEF PanelInv, Bubbles
  <2>4. CASE i = last
    <3>1. shown[i].role = "user"
      BY <2>1, <2>4, Messages
    <3>2. ASSUME ~OnItsWay(p), sent[p] > 0
          PROVE  i < Len(shown) /\ shown[i + 1] = Bubble("assistant", text) /\ text = [j \in 1..sent[p] |-> p]
      <4>1. Kind(toView, "text") = {}
        BY <1>7, <3>2 DEF Kind, OnItsWay, Underway, IsAnswer
      <4>2. Cardinality(Kind(toView, "text")) = 0
        BY <4>1, FS_EmptySet
      <4>3. Len(text) = sent[p]
        BY <1>7, <2>2, <4>2 DEF Underway
      <4>4. text # <<>>
        BY <2>2, <3>2, <4>3
      <4>5. text = [j \in 1..sent[p] |-> p]
        BY <1>7, <2>2, <4>3 DEF Underway, Only
      <4> QED BY <1>1, <2>3, <2>4, <4>4, <4>5
    <3> QED BY <1>3, <1>5, <3>1, <3>2
  <2>5. CASE i # last
    <3>1. i > last
      BY <1>1, <1>4, <2>1, <2>5
    <3>2. text # <<>> /\ i = Len(shown) /\ i = last + 1
      BY <1>1, <2>1, <3>1
    <3>3. shown[i].role = "assistant" /\ shown[i].text = text /\ i > 1 /\ i - 1 = last
      BY <1>1, <2>3, <3>2
    <3> QED BY <1>3, <1>7, <2>1, <3>3 DEF Underway, Only
  <2> QED BY <2>4, <2>5
<1> QED BY <1>4, <1>6, <1>7, <1>3 DEF PanelInv, InPlace

\* Every variable of the sidebar keeps its type: what toHost and toView carry, the
\* bubbles that onMessage() draws and how far handleChatMessage() got with a prompt.
THEOREM PanelTypes == Spec => []TypeOK
BY BoundsNat, AlwaysInv, TypedThen, PTL DEF PanelInv

\* While the stream of a prompt is open and has not been aborted, activeStreamAbort
\* is its abort function, so that cancelActiveStream() stops it: only a prompt that was
\* sent while another stream was still open, and so shares the slot with it, or
\* that followed an error, a late end or a reload, can be out of its reach.
THEOREM CancelReachesTheAnswer == Spec => []CancelReaches
BY BoundsNat, AlwaysInv, InvCancel, PTL

\* What the view shows of a prompt stands directly below it, alone in its bubble
\* and, when the answer has ended, with every chunk that was sent: currentAssistantText
\* and the .streaming bubble are never another answer's, unless the prompt was sent over
\* something that was left of one.
THEOREM AnswersStayInPlace == Spec => []AnswersInPlace
BY BoundsNat, AlwaysInv, InvPlace, PTL

\* A prompt that was sent once is not sent again, by handleSend() or when
\* sessionCreated arrives: pendingInjectedPrompt is never one that was sent.
THEOREM PromptsSentOnce == Spec => PromptOnce
BY BoundsNat, AlwaysInv, InvOnce, PTL DEF Spec, PromptOnce

-----------------------------------------------------------------------------
(* The services: their inductive invariant. *)

\* There is an attempt for activation and at most one for each change; and no
\* reconnection is owed before activation or when none is under way.
Counted ==
  /\ attempt <= settings + 1
  /\ pending \/ phase = "unregistering" => attempt <= settings
  /\ pending /\ phase = "unregistering" => attempt + 1 <= settings
  /\ phase = "off" => attempt = 0 /\ ~pending /\ ~listening
  /\ phase # "off" => attempt # 0
  /\ phase = "idle" => ~pending

\* An attempt reads settings as new as any that a handler was called for, unless
\* another attempt is to come.
Informed ==
  /\ heard <= settings
  /\ phase \notin {"off", "unregistering"} /\ ~pending => used[attempt] >= heard

\* There is no provider before the models are asked for, and then there is one.
Provided ==
  /\ phase \notin {"models", "idle"} => provider = 0
  /\ phase = "models" => provider # 0

\* Providers that are registered, or may register yet, are current or strays.
Registering == (vendors \cup refreshing) \ strays \subseteq {provider}

\* What an attempt holds of the transport as it goes on, while no other attempt
\* has done anything.
Holding ==
  ~late =>
    /\ phase = "connecting" /\ work[attempt] \in {"token", "register", "connected"} => channel = attempt
    /\ phase = "connecting" /\ work[attempt] \in {"register", "connected"} => client = attempt
    /\ phase = "connecting" /\ work[attempt] = "connected" => clientId = attempt
    /\ phase \in {"health", "models"} \/ (phase = "idle" /\ provider # 0) =>
         channel = attempt /\ client = attempt /\ clientId = attempt
    /\ phase = "idle" /\ provider = 0 => channel = 0 /\ client = 0 /\ clientId = 0

ServicesInv == ServicesTypeOK /\ Counted /\ Informed /\ Provided /\ Registering /\ Holding

-----------------------------------------------------------------------------
(* ServicesTypes. *)

\* ServicesTypeOK, one variable at a time.
ServicesTyped ==
  /\ settings \in 0..MaxChanges /\ heard \in 0..MaxChanges
  /\ listening \in BOOLEAN /\ pending \in BOOLEAN /\ late \in BOOLEAN
  /\ phase \in {"off", "unregistering", "connecting", "disposing", "health", "models", "idle"}
  /\ attempt \in Or0 /\ channel \in Or0 /\ client \in Or0 /\ clientId \in Or0 /\ provider \in Or0
  /\ work \in [Attempt -> {"none", "waiting", "token", "register", "connected", "failed"}]
  /\ used \in [Attempt -> 0..MaxChanges]
  /\ refreshing \subseteq Attempt /\ vendors \subseteq Attempt /\ strays \subseteq Attempt
  /\ stream \in {"none", "open", "timer", "over"}
  /\ notices \in 0..MaxNotices /\ breaks \in 0..MaxBreaks

\* The two say the same, in a state and in the next.
LEMMA ServicesTypes == (ServicesTypeOK <=> ServicesTyped) /\ (ServicesTypeOK' <=> ServicesTyped')
<1>1. ServicesTypeOK <=> ServicesTyped
  <2>1. UNION {refreshing, vendors, strays} \subseteq Attempt
          <=> refreshing \subseteq Attempt /\ vendors \subseteq Attempt /\ strays \subseteq Attempt
    BY Together
  <2>2. {attempt, channel, client, clientId, provider} \subseteq Or0
          <=> attempt \in Or0 /\ channel \in Or0 /\ client \in Or0 /\ clientId \in Or0 /\ provider \in Or0
    BY Together
  <2> QED BY <2>1, <2>2, Zenon DEF ServicesTypeOK, ServicesTyped
<1>2. ServicesTypeOK' <=> ServicesTyped'
  <2>1. UNION {refreshing', vendors', strays'} \subseteq Attempt
          <=> refreshing' \subseteq Attempt /\ vendors' \subseteq Attempt /\ strays' \subseteq Attempt
    BY Together
  <2>2. {attempt', channel', client', clientId', provider'} \subseteq Or0
          <=> /\ attempt' \in Or0 /\ channel' \in Or0 /\ client' \in Or0 /\ clientId' \in Or0
              /\ provider' \in Or0
    BY Together
  <2> QED BY <2>1, <2>2, Zenon DEF ServicesTypeOK, ServicesTyped
<1> QED BY <1>1, <1>2

\* While an attempt is owed there is one left to be made.
LEMMA AttemptLeft ==
  ASSUME ServicesTypeOK, Counted, pending \/ phase = "unregistering" \/ phase = "off"
  PROVE  attempt + 1 \in Attempt
<1>1. settings \in 0..MaxChanges /\ attempt \in Nat /\ pending \in BOOLEAN
  BY ServicesBoundsNat, ServicesTypes DEF ServicesTyped, Or0
<1>2. attempt + 1 <= settings + 1
  BY <1>1, ServicesBoundsNat DEF Counted
<1> QED BY <1>1, <1>2, ServicesBoundsNat DEF Attempt

\* There are no attempts and no changes at the start.
LEMMA ServicesInitInv == ServicesInit => ServicesInv
<1> SUFFICES ASSUME ServicesInit PROVE ServicesInv
  OBVIOUS
<1>1. ServicesTypeOK
  <2>1. 0 \in 0..MaxChanges /\ 0 \in Or0 /\ 0 \in 0..MaxNotices /\ 0 \in 0..MaxBreaks
    BY ServicesBoundsNat DEF Or0
  <2> QED BY <2>1, ServicesTypes DEF ServicesTyped, ServicesInit
<1>2. Counted /\ Informed /\ Provided /\ Registering /\ Holding
  BY DEF ServicesInit, Counted, Informed, Provided, Registering, Holding
<1> QED BY <1>1, <1>2 DEF ServicesInv

-----------------------------------------------------------------------------
(* The transport's steps. *)

\* A new attempt, for a change that was owed or for activation.
LEMMA BeginKeeps ==
  ASSUME ServicesInv, NEW a \in Attempt, NEW now \in 0..MaxChanges, Begin(a, now),
         a <= settings' + 1, pending' => a <= settings',
         settings' \in 0..MaxChanges, heard' <= now, now <= settings', heard' \in 0..MaxChanges,
         pending' \in BOOLEAN, listening' \in BOOLEAN, provider' = 0,
         vendors' \subseteq Attempt, strays' \subseteq Attempt, UNCHANGED refreshing,
         Registering', stream' \in {"none", "open", "timer", "over"}, UNCHANGED serviceCounts
  PROVE  ServicesInv'
<1>0. ServicesTypeOK /\ a \in Nat /\ a # 0 /\ a \in Or0 /\ 0 \in Or0
  BY ServicesBoundsNat DEF ServicesInv, Attempt, Or0
<1>1. /\ attempt' = a /\ phase' = "connecting" /\ used' = [used EXCEPT ![a] = now]
      /\ client' = 0 /\ clientId' = 0 /\ UNCHANGED late
      /\ \/ work' = [work EXCEPT ![a] = "token"] /\ channel' = a
         \/ work' = [work EXCEPT ![a] = "waiting"] /\ channel' = 0
  BY DEF Begin
<1>2. ServicesTypeOK'
  <2>1. /\ work' \in [Attempt -> {"none", "waiting", "token", "register", "connected", "failed"}]
        /\ used' \in [Attempt -> 0..MaxChanges]
    BY <1>0, <1>1, ServicesTypes DEF ServicesTyped
  <2>2. /\ attempt' \in Or0 /\ channel' \in Or0 /\ client' \in Or0 /\ clientId' \in Or0
        /\ provider' \in Or0 /\ late' \in BOOLEAN
    BY <1>0, <1>1, ServicesTypes DEF ServicesTyped
  <2>3. refreshing' \subseteq Attempt /\ notices' \in 0..MaxNotices /\ breaks' \in 0..MaxBreaks
    BY <1>0, ServicesTypes DEF ServicesTyped, serviceCounts
  <2> QED BY <1>1, <2>1, <2>2, <2>3, ServicesTypes DEF ServicesTyped
<1>3. used'[a] = now /\ (work'[a] = "waiting" \/ (work'[a] = "token" /\ channel' = a))
  BY <1>0, <1>1, ServicesTypes DEF ServicesTyped
<1>4. Counted'
  BY <1>0, <1>1 DEF Counted
<1>5. Informed' /\ Provided' /\ Holding'
  BY <1>1, <1>3 DEF Informed, Provided, Holding
<1> QED BY <1>2, <1>4, <1>5 DEF ServicesInv

\* The work of an attempt: the current one's goes on in order, any other shows.
LEMMA WorkKeeps ==
  ASSUME ServicesInv, NEW a \in Attempt, Work(a)
  PROVE  ServicesInv'
<1>0. /\ ServicesTypeOK /\ a \in Or0 /\ 0 \in Or0 /\ attempt \in Or0
      /\ work \in [Attempt -> {"none", "waiting", "token", "register", "connected", "failed"}]
  BY ServicesBoundsNat, ServicesTypes DEF ServicesTyped, ServicesInv, Attempt, Or0
<1>1. UNCHANGED <<used, connection, loop, services, serviceCounts>>
  BY DEF Work, DaemonReady, TokenRead, ConnectFails, Registered, RegisterFails, Step
<1>2. late' = (late \/ a # attempt \/ phase # "connecting")
  BY DEF Work, DaemonReady, TokenRead, ConnectFails, Registered, RegisterFails, Step
<1>3. \/ work[a] = "waiting" /\ work' = [work EXCEPT ![a] = "token"]
         /\ channel' = a /\ UNCHANGED <<client, clientId>>
      \/ work[a] = "token" /\ work' = [work EXCEPT ![a] = "register"]
         /\ client' = a /\ UNCHANGED <<channel, clientId>>
      \/ work' = [work EXCEPT ![a] = "failed"] /\ channel' \in {0, channel}
         /\ client' \in {0, client} /\ clientId' \in {0, clientId}
      \/ work[a] = "register" /\ work' = [work EXCEPT ![a] = "connected"]
         /\ clientId' = a /\ UNCHANGED <<channel, client>>
  BY DEF Work, DaemonReady, TokenRead, ConnectFails, Registered, RegisterFails, Step,
         CloseChannel, transport
<1>4. ServicesTypeOK'
  BY <1>0, <1>1, <1>2, <1>3, ServicesTypes
     DEF ServicesTyped, connection, loop, services, models, serviceCounts
<1>5. Counted' /\ Informed' /\ Provided' /\ Registering'
  BY <1>1 DEF ServicesInv, Counted, Informed, Provided, Registering, connection, loop, services, models
<1>6. Holding'
  <2> SUFFICES ASSUME ~late' PROVE Holding'
    BY DEF Holding
  <2>1. ~late /\ a = attempt /\ phase = "connecting" /\ phase' = phase /\ attempt' = attempt
    BY <1>1, <1>2 DEF loop
  <2>2. Holding
    BY DEF ServicesInv
  <2> QED BY <1>0, <1>3, <2>1, <2>2 DEF Holding
<1> QED BY <1>4, <1>5, <1>6 DEF ServicesInv

-----------------------------------------------------------------------------
(* The attempts. *)

\* Activation, and the attempt after the client has unregistered.
LEMMA BegunKeeps ==
  ASSUME ServicesInv, Activate \/ Unregistered
  PROVE  ServicesInv'
<1>0. ServicesTypeOK /\ Counted /\ Informed /\ Provided /\ Registering
  BY DEF ServicesInv
<1>1. /\ settings \in 0..MaxChanges /\ heard \in 0..MaxChanges /\ attempt \in Nat
      /\ pending \in BOOLEAN /\ listening \in BOOLEAN
  BY <1>0, ServicesBoundsNat, ServicesTypes DEF ServicesTyped, Or0
<1>2. phase \in {"off", "unregistering"} /\ attempt + 1 \in Attempt
  BY <1>0, AttemptLeft DEF Activate, Unregistered
<1>3. Begin(attempt + 1, settings) /\ UNCHANGED <<connection, pending, services, serviceCounts>>
  BY <1>0 DEF Activate, Unregistered, Counted
<1>4. attempt + 1 <= settings + 1 /\ (pending => attempt + 1 <= settings)
  BY <1>0, <1>1, <1>2 DEF Counted
<1>5. Registering' /\ provider' = 0
  BY <1>0, <1>2, <1>3 DEF Registering, Provided, services, models
<1>6. heard <= settings
  BY <1>0 DEF Informed
<1> DEFINE a == attempt + 1
<1>7. a \in Attempt /\ Begin(a, settings) /\ a <= settings + 1 /\ (pending => a <= settings)
  BY <1>1, <1>2, <1>3, <1>4
<1> HIDE DEF a
<1>8. /\ UNCHANGED <<settings, heard, pending, listening, vendors, strays, refreshing, stream, serviceCounts>>
  BY <1>3 DEF connection, services, models
<1> QED BY <1>0, <1>1, <1>5, <1>6, <1>7, <1>8, BeginKeeps, ServicesTypes DEF ServicesTyped

\* The services are stopped: what the provider may still register is a stray.
LEMMA StopEffect ==
  ASSUME ServicesTypeOK, Registering, StopServices
  PROVE  /\ provider' = 0 /\ stream' = "none" /\ UNCHANGED refreshing /\ Registering'
         /\ vendors' \subseteq Attempt /\ strays' \subseteq Attempt
BY ServicesTypes DEF StopServices, Registering, ServicesTyped

\* One turn of the reconnection, for a change that is owed or that has just come.
LEMMA RestartKeeps ==
  ASSUME ServicesInv, NEW now \in 0..MaxChanges, Restart(now), attempt <= now,
         settings' = now, now >= settings, heard' \in 0..MaxChanges, heard' <= now,
         phase # "off", listening' \in BOOLEAN, UNCHANGED serviceCounts
  PROVE  ServicesInv'
<1>0. ServicesTypeOK /\ Counted /\ Registering
  BY DEF ServicesInv
<1>1. /\ provider' = 0 /\ stream' = "none" /\ UNCHANGED refreshing /\ Registering'
      /\ vendors' \subseteq Attempt /\ strays' \subseteq Attempt /\ pending' = FALSE
  BY <1>0, StopEffect DEF Restart
<1>2. CASE phase' = "unregistering" /\ UNCHANGED <<attempt, transport, works>>
  <2>1. attempt' \in Or0 /\ attempt # 0 /\ now \in Nat /\ 0 \in Or0 /\ attempt \in Nat
    BY <1>0, <1>2, ServicesBoundsNat, ServicesTypes DEF ServicesTyped, Counted, Or0
  <2>2. ServicesTypeOK'
    <3>1. /\ work' \in [Attempt -> {"none", "waiting", "token", "register", "connected", "failed"}]
          /\ used' \in [Attempt -> 0..MaxChanges] /\ late' \in BOOLEAN
          /\ channel' \in Or0 /\ client' \in Or0 /\ clientId' \in Or0
      BY <1>0, <1>2, ServicesTypes DEF ServicesTyped, transport, works
    <3>2. refreshing' \subseteq Attempt /\ notices' \in 0..MaxNotices /\ breaks' \in 0..MaxBreaks
      BY <1>0, <1>1, ServicesTypes DEF ServicesTyped, serviceCounts
    <3> QED BY <1>1, <1>2, <2>1, <3>1, <3>2, ServicesTypes DEF ServicesTyped
  <2>3. Counted'
    BY <1>1, <1>2, <2>1 DEF Counted
  <2>4. Informed' /\ Provided' /\ Holding'
    BY <1>1, <1>2 DEF Informed, Provided, Holding
  <2> QED BY <1>1, <2>2, <2>3, <2>4 DEF ServicesInv
<1>3. CASE Begin(attempt + 1, now)
  <2> DEFINE a == attempt + 1
  <2>1. attempt \in Nat /\ now \in Nat /\ now <= MaxChanges /\ MaxChanges \in Nat
    BY <1>0, ServicesBoundsNat, ServicesTypes DEF ServicesTyped, Or0
  <2>2. a \in Attempt /\ a <= now + 1 /\ Begin(a, now)
    BY <1>3, <2>1 DEF Attempt
  <2>3. settings' \in 0..MaxChanges /\ now <= settings' /\ a <= settings' + 1
    BY <2>1, <2>2
  <2> HIDE DEF a
  <2> QED BY <1>1, <2>2, <2>3, BeginKeeps
<1> QED BY <1>2, <1>3 DEF Restart

\* The end of an attempt that started nothing.
LEMMA FailedKeeps ==
  ASSUME ServicesInv, phase \in {"connecting", "disposing"}, StartFailed,
         UNCHANGED <<settings, heard, services, serviceCounts>>
  PROVE  ServicesInv'
<1>0. /\ ServicesTypeOK /\ Counted /\ Informed /\ Provided /\ Registering
      /\ settings \in 0..MaxChanges /\ heard \in 0..MaxChanges /\ attempt \in Nat
      /\ pending \in BOOLEAN /\ listening \in BOOLEAN /\ provider = 0 /\ 0 \in Or0
  BY ServicesBoundsNat, ServicesTypes DEF ServicesInv, ServicesTyped, Or0, Provided
<1>1. CASE Again /\ pending' = FALSE /\ Begin(attempt + 1, settings) /\ UNCHANGED listening
  <2> DEFINE a == attempt + 1
  <2>1. a \in Attempt /\ Begin(a, settings)
    BY <1>0, <1>1, AttemptLeft DEF Again
  <2>2. a <= settings + 1
    BY <1>0, <1>1, ServicesBoundsNat DEF Again, Counted
  <2>3. /\ Registering' /\ heard' <= settings /\ provider' = 0 /\ UNCHANGED <<refreshing, serviceCounts>>
        /\ vendors' \subseteq Attempt /\ strays' \subseteq Attempt
        /\ stream' \in {"none", "open", "timer", "over"}
    BY <1>0, ServicesTypes DEF Registering, Informed, ServicesTyped, services, models
  <2>4. /\ settings' \in 0..MaxChanges /\ settings <= settings' /\ heard' \in 0..MaxChanges
        /\ pending' = FALSE /\ listening' \in BOOLEAN
    BY <1>0, <1>1, ServicesBoundsNat
  <2>5. a <= settings' + 1
    BY <2>2
  <2> HIDE DEF a
  <2> QED BY <1>0, <2>1, <2>3, <2>4, <2>5, BeginKeeps
<1>2. CASE /\ ~Again /\ CloseChannel /\ phase' = "idle" /\ listening' = TRUE
           /\ UNCHANGED <<attempt, pending, works>>
  <2>1. ServicesTypeOK'
    BY <1>0, <1>2, ServicesTypes DEF ServicesTyped, CloseChannel, works, services, models, serviceCounts
  <2>2. Counted'
    BY <1>0, <1>2 DEF Counted, Again
  <2>3. Informed' /\ Provided' /\ Registering' /\ Holding'
    BY <1>0, <1>2 DEF Informed, Provided, Registering, Holding, CloseChannel, works, services, models, Again
  <2> QED BY <2>1, <2>2, <2>3 DEF ServicesInv
<1> QED BY <1>1, <1>2 DEF StartFailed

\* An attempt fails or is given up.
LEMMA GivenUpKeeps ==
  ASSUME ServicesInv, GiveUp \/ Disposed
  PROVE  ServicesInv'
<1>1. CASE /\ GiveUp /\ MustUnregister /\ phase' = "disposing"
           /\ UNCHANGED <<attempt, pending, transport, works, listening>>
  <2>0. ServicesTypeOK /\ Counted /\ Informed /\ Provided /\ Registering /\ phase = "connecting"
    BY <1>1 DEF ServicesInv, GiveUp
  <2>1. UNCHANGED <<settings, heard, services, serviceCounts>>
    BY <1>1 DEF GiveUp
  <2>2. ServicesTypeOK'
    BY <2>0, <2>1, <1>1, ServicesTypes DEF ServicesTyped, transport, works, services, models, serviceCounts
  <2>3. Counted' /\ Informed' /\ Provided' /\ Registering' /\ Holding'
    BY <2>0, <2>1, <1>1
       DEF Counted, Informed, Provided, Registering, Holding, transport, works, services, models
  <2> QED BY <2>2, <2>3 DEF ServicesInv
<1>2. CASE phase \in {"connecting", "disposing"} /\ StartFailed
          /\ UNCHANGED <<settings, heard, services, serviceCounts>>
  BY <1>2, FailedKeeps
<1> QED BY <1>1, <1>2 DEF GiveUp, Disposed

\* The steps of an attempt that got its client.
LEMMA StartingKeeps ==
  ASSUME ServicesInv, Connected \/ HealthChecked \/ Started
  PROVE  ServicesInv'
<1>0. /\ ServicesTypeOK /\ Counted /\ Informed /\ Provided /\ Registering /\ Holding
      /\ settings \in 0..MaxChanges /\ heard \in 0..MaxChanges /\ attempt \in Or0 /\ attempt \in Nat
      /\ pending \in BOOLEAN /\ refreshing \subseteq Attempt
  BY ServicesBoundsNat, ServicesTypes DEF ServicesInv, ServicesTyped, Or0
<1>1. CASE Connected
  <2>1. /\ phase = "connecting" /\ work[attempt] = "connected" /\ phase' = "health"
        /\ UNCHANGED <<connection, attempt, pending, transport, works, services, serviceCounts>>
    BY <1>1 DEF Connected
  <2>2. ServicesTypeOK'
    BY <1>0, <2>1, ServicesTypes DEF ServicesTyped, connection, transport, works, services, models, serviceCounts
  <2>3. Counted' /\ Informed' /\ Provided' /\ Registering' /\ Holding'
    BY <1>0, <2>1
       DEF Counted, Informed, Provided, Registering, Holding, connection, transport, works,
           services, models
  <2> QED BY <2>2, <2>3 DEF ServicesInv
<1>2. CASE HealthChecked
  <2>1. /\ phase = "health" /\ phase' = "models" /\ provider' = attempt
        /\ refreshing' = refreshing \cup {attempt}
        /\ UNCHANGED <<connection, attempt, pending, transport, works, vendors, strays, stream, serviceCounts>>
    BY <1>2 DEF HealthChecked
  <2>2. attempt \in Attempt /\ attempt # 0
    BY <1>0, <2>1, ServicesBoundsNat DEF Counted, Attempt, Or0
  <2>3. ServicesTypeOK'
    BY <1>0, <2>1, <2>2, ServicesTypes DEF ServicesTyped, connection, transport, works, serviceCounts
  <2>4. Counted' /\ Informed' /\ Provided' /\ Holding'
    BY <1>0, <2>1, <2>2
       DEF Counted, Informed, Provided, Holding, connection, transport, works
  <2>5. Registering'
    <3>1. provider = 0 /\ 0 \notin vendors \cup refreshing
      BY <1>0, <2>1, ServicesBoundsNat, ServicesTypes DEF Provided, ServicesTyped, Attempt
    <3> QED BY <1>0, <2>1, <3>1 DEF Registering
  <2> QED BY <2>3, <2>4, <2>5 DEF ServicesInv
<1>3. CASE Started
  <2>1. phase = "models" /\ UNCHANGED <<settings, heard, serviceCounts>>
    BY <1>3 DEF Started
  <2>2. CASE Again /\ Restart(settings) /\ UNCHANGED listening
    <3>1. attempt <= settings /\ listening' \in BOOLEAN
      BY <1>0, <2>1, <2>2, ServicesBoundsNat, ServicesTypes DEF Again, Counted, ServicesTyped
    <3> QED BY <1>0, <2>1, <2>2, <3>1, RestartKeeps, ServicesBoundsNat DEF Informed
  <2>3. CASE /\ ~Again /\ stream' = Opened /\ phase' = "idle" /\ listening' = TRUE
             /\ UNCHANGED <<attempt, pending, transport, works, models>>
    <3>1. ServicesTypeOK'
      BY <1>0, <2>1, <2>3, ServicesTypes DEF ServicesTyped, Opened, transport, works, models, serviceCounts
    <3>2. Counted' /\ Informed' /\ Provided' /\ Registering' /\ Holding'
      BY <1>0, <2>1, <2>3
         DEF Again, Counted, Informed, Provided, Registering, Holding, transport, works, models
    <3> QED BY <3>1, <3>2 DEF ServicesInv
  <2> QED BY <1>3, <2>2, <2>3 DEF Started
<1> QED BY <1>1, <1>2, <1>3

\* A change: whoever hears of it starts an attempt or owes one.
LEMMA ChangeKeeps ==
  ASSUME ServicesInv, ChangeSettings
  PROVE  ServicesInv'
<1>0. /\ ServicesTypeOK /\ Counted /\ Informed /\ Provided /\ Registering /\ Holding
      /\ settings \in 0..MaxChanges /\ heard \in 0..MaxChanges /\ attempt \in Nat
      /\ pending \in BOOLEAN /\ listening \in BOOLEAN
  BY ServicesBoundsNat, ServicesTypes DEF ServicesInv, ServicesTyped, Or0
<1>1. /\ settings' = settings + 1 /\ settings' \in 0..MaxChanges
      /\ heard' \in {heard, settings'} /\ UNCHANGED <<listening, serviceCounts>>
  BY <1>0, ServicesBoundsNat DEF ChangeSettings
<1>2. CASE /\ \/ ~listening /\ UNCHANGED <<heard, pending>>
              \/ listening /\ phase # "idle" /\ heard' = settings' /\ pending' = TRUE
           /\ UNCHANGED <<phase, attempt, transport, works, services>>
  <2>1. ServicesTypeOK'
    BY <1>0, <1>1, <1>2, ServicesTypes DEF ServicesTyped, transport, works, services, models, serviceCounts
  <2>2. Counted'
    BY <1>0, <1>1, <1>2, ServicesBoundsNat DEF Counted
  <2>3. Informed'
    BY <1>0, <1>1, <1>2, ServicesBoundsNat DEF Informed, works
  <2>4. Provided' /\ Registering' /\ Holding'
    BY <1>0, <1>2 DEF Provided, Registering, Holding, transport, works, services, models
  <2> QED BY <2>1, <2>2, <2>3, <2>4 DEF ServicesInv
<1>3. CASE listening /\ phase = "idle" /\ heard' = settings' /\ Restart(settings')
  <2>1. PICK now \in 0..MaxChanges : now = settings'
    BY <1>1
  <2>2. Restart(now) /\ settings' = now /\ heard' = now /\ attempt <= now /\ now >= settings /\ now <= now
    BY <1>0, <1>1, <1>3, <2>1, ServicesBoundsNat DEF Counted
  <2>3. heard' \in 0..MaxChanges /\ phase # "off" /\ listening' \in BOOLEAN
    BY <1>0, <1>1, <1>3
  <2> QED BY <1>1, <2>2, <2>3, RestartKeeps
<1> QED BY <1>2, <1>3 DEF ChangeSettings, loop

-----------------------------------------------------------------------------
(* The provider and the stream. *)

\* The models that arrive register the current provider, or a stray.
LEMMA ServiceKeeps ==
  ASSUME ServicesInv, (\E a \in Attempt : Refreshed(a)) \/ ModelsChanged \/ StreamBreaks \/ Reopen
  PROVE  ServicesInv'
<1>0. ServicesTypeOK /\ Counted /\ Informed /\ Provided /\ Registering /\ Holding
  BY DEF ServicesInv
<1>1. UNCHANGED <<connection, loop, transport, works, provider, strays>>
  BY DEF Refreshed, ModelsChanged, StreamBreaks, Reopen, models
<1>2. /\ vendors' \subseteq vendors \cup refreshing
      /\ refreshing' \subseteq refreshing \cup ({provider} \ {0})
  BY DEF Refreshed, ModelsChanged, StreamBreaks, Reopen, models
<1>3. /\ stream' \in {"none", "open", "timer", "over"}
      /\ notices' \in 0..MaxNotices /\ breaks' \in 0..MaxBreaks
  BY <1>0, ServicesTypes, ServicesBoundsNat
     DEF Refreshed, ModelsChanged, StreamBreaks, Reopen, Opened, serviceCounts, ServicesTyped
<1>4. ServicesTypeOK'
  <2>1. {provider} \ {0} \subseteq Attempt
    BY <1>0, ServicesTypes, ServicesBoundsNat DEF ServicesTyped, Or0, Attempt
  <2>2. vendors' \subseteq Attempt /\ refreshing' \subseteq Attempt
    BY <1>0, <1>2, <2>1, ServicesTypes DEF ServicesTyped
  <2> QED BY <1>0, <1>1, <1>3, <2>2, ServicesTypes DEF ServicesTyped, connection, loop, transport, works
<1>5. Counted' /\ Informed' /\ Provided' /\ Holding'
  BY <1>0, <1>1
     DEF Counted, Informed, Provided, Holding, connection, loop, transport, works
<1>6. Registering'
  BY <1>0, <1>1, <1>2 DEF Registering
<1> QED BY <1>4, <1>5, <1>6 DEF ServicesInv

\* Every step keeps the invariant.
LEMMA ServicesStepInv == ServicesInv /\ [ServicesNext]_servicesVars => ServicesInv'
<1> SUFFICES ASSUME ServicesInv, [ServicesNext]_servicesVars PROVE ServicesInv'
  OBVIOUS
<1>1. CASE UNCHANGED servicesVars
  <2>1. ServicesTypeOK /\ Counted /\ Informed /\ Provided /\ Registering /\ Holding
    BY DEF ServicesInv
  <2>2. ServicesTypeOK'
    BY <1>1, <2>1, ServicesTypes
       DEF ServicesTyped, servicesVars, connection, loop, transport, works, services, models, serviceCounts
  <2>3. Counted' /\ Informed' /\ Provided' /\ Registering' /\ Holding'
    BY <1>1, <2>1
       DEF Counted, Informed, Provided, Registering, Holding,
           servicesVars, connection, loop, transport, works, services, models
  <2> QED BY <2>2, <2>3 DEF ServicesInv
<1> QED BY <1>1, WorkKeeps, BegunKeeps, GivenUpKeeps, StartingKeeps, ChangeKeeps, ServiceKeeps
        DEF ServicesNext, Loop

-----------------------------------------------------------------------------
\* Every variable keeps its type: there are never more attempts than activation
\* and one for each change.
THEOREM ServicesTypeCorrect == ServicesSpec => []ServicesTypeOK
<1>1. ServicesInv => ServicesTypeOK
  BY DEF ServicesInv
<1> QED BY ServicesInitInv, ServicesStepInv, <1>1, PTL DEF ServicesSpec

\* When no attempt is under way, the services run on what the last one made with
\* the settings of the last change that reconnectDaemonServices() was called for,
\* and if it failed nothing is left of it, unless an attempt that was given up
\* went on.
THEOREM LastSettingsUsed == ServicesSpec => []LatestSettings
<1>1. ServicesInv => LatestSettings
  BY DEF ServicesInv, Counted, Informed, Holding, LatestSettings
<1> QED BY ServicesInitInv, ServicesStepInv, <1>1, PTL DEF ServicesSpec

\* VS Code has one provider at most, the current one, unless one was stopped while
\* refreshModels() was under way.
THEOREM OneProvider == ServicesSpec => []OneVendor
<1>1. ServicesInv => OneVendor
  BY DEF ServicesInv, Registering, OneVendor
<1> QED BY ServicesInitInv, ServicesStepInv, <1>1, PTL DEF ServicesSpec
=============================================================================
