------------------------------ MODULE ToolNames ------------------------------
(***************************************************************************)
(* How a tool is named, listed and judged: core/tool-registry.ts and       *)
(* core/tool-approval.ts, as operators on a registry.  A registry is the   *)
(* sequence of its tools in the order of the map.  A tool is a model value *)
(* that stands for a namespaced name; its bare name, its source and the    *)
(* session it is scoped to never change.                                   *)
(*                                                                         *)
(* Patterns are given by the set of tools they match.  Aliases are left    *)
(* out: nothing in the program calls setAliases().                         *)
(***************************************************************************)
EXTENDS Naturals, FiniteSets, Sequences, SequencesExt

CONSTANTS Source,      \* tool servers and workspace folders
          Session,     \* chat sessions a source may be scoped to
          ToolsOf,     \* ToolsOf[s]: the tools of s, a sequence
          Bare,        \* Bare[t]: the name of t without its source
          Scope,       \* Scope[s]: the session s was registered for, or None
          None

Tool == UNION {Range(ToolsOf[s]) : s \in Source}
Name == {Bare[t] : t \in Tool}
From(t) == CHOOSE s \in Source : t \in Range(ToolsOf[s])

ASSUME ToolAssumption ==
  /\ \A s \in Source : ToolsOf[s] \in Seq(Range(ToolsOf[s])) /\ IsInjective(ToolsOf[s])
  /\ \A s, r \in Source : s # r => Range(ToolsOf[s]) \cap Range(ToolsOf[r]) = {}
  /\ Scope \in [Source -> Session \cup {None}]
  /\ None \notin Session \cup Tool \cup Name

Policies == [disabled : SUBSET Tool, require : SUBSET Tool, auto : SUBSET Tool]
Tier     == {"disabled", "require_approval", "auto_approve", "default_ask"}

-----------------------------------------------------------------------------
(* The registry. *)

\* unregisterSource(): the other tools keep their order.
Without(reg, s) ==
  LET kept == {i \in DOMAIN reg : reg[i] \notin Range(ToolsOf[s])}
  IN  [n \in 1..Cardinality(kept) |->
         reg[CHOOSE i \in kept : Cardinality({j \in kept : j <= i}) = n]]

\* unregisterSource() and register(): the source's tools come last.
With(reg, s) == Without(reg, s) \o ToolsOf[s]

\* The tools of reg with bare name n.
Named(reg, n) == {t \in Range(reg) : Bare[t] = n}

\* The first of the tools T of reg.
FirstOf(reg, T) == reg[CHOOSE i \in DOMAIN reg :
                         reg[i] \in T /\ \A j \in 1..i-1 : reg[j] \notin T]

\* resolve() of a bare name: the first tool that has it.
Resolve(reg, n) == IF Named(reg, n) = {} THEN None ELSE FirstOf(reg, Named(reg, n))

\* classifyToolPolicy(); a name that resolves to nothing matches no pattern.
Classify(t, policy) ==
  IF t \in policy.disabled THEN "disabled"
  ELSE IF t \in policy.require THEN "require_approval"
  ELSE IF t \in policy.auto THEN "auto_approve"
  ELSE "default_ask"

\* Mutant: scopes are not looked at.
ListForAnyone(reg, policy, session) ==
  LET shown == {t \in Range(reg) : Classify(t, policy) # "disabled"}
  IN  {FirstOf(reg, {u \in shown : Bare[u] = Bare[t]}) : t \in shown}

\* listForChat(): what a chat of the given session is offered.
ListForChat(reg, policy, session) ==
  LET shown == {t \in Range(reg) : /\ Scope[From(t)] \in {None, session}
                                   /\ Classify(t, policy) # "disabled"}
  IN  {FirstOf(reg, {u \in shown : Bare[u] = Bare[t]}) : t \in shown}
==============================================================================
