---------------------------- MODULE PolicyResolution ----------------------------
(***************************************************************************)
(* How the policies that match a draft are turned into one decision and    *)
(* one winning policy (packages/policy-core/src/resolve.ts).  The server   *)
(* and the plugin share this code; they differ in what they make of an LLM *)
(* policy that could not be evaluated.                                     *)
(***************************************************************************)
EXTENDS Integers

CONSTANTS
  Policy,       \* policies of a sender
  NoPolicy,     \* no winning policy
  IdRank,       \* the order of policy ids (localeCompare)
  MaxPriority,  \* priorities are 0 .. MaxPriority
  LLMFallback   \* what an LLM policy without a verdict counts as:
                \* an effect, or "skip" to leave it out

Scope == {"user", "role", "global", "group"}
Effect == {"allow", "ask", "deny"}
Phase == {"deterministic", "contextual_llm"}

ASSUME PolicyAssumption ==
  /\ NoPolicy \notin Policy
  /\ IdRank \in [Policy -> Nat]
  /\ \A p, q \in Policy : IdRank[p] = IdRank[q] => p = q
  /\ MaxPriority \in Nat
  /\ LLMFallback \in Effect \cup {"skip"}

\* A policy as far as its resolution goes, and one that matched: with the effect
\* it has, or the fallback when its verdict is missing (degraded).
Attributes == [scope : Scope, effect : Effect, phase : Phase, priority : 0 .. MaxPriority]

Match == [policy : Policy, scope : Scope, effect : Effect, phase : Phase,
          priority : 0 .. MaxPriority, degraded : BOOLEAN]

\* At most one match of each policy.
MatchSets == {M \in SUBSET Match : \A a, b \in M : a.policy = b.policy => a = b}

-----------------------------------------------------------------------------
(* Verdicts *)

\* Outcome of evaluating a policy; a deterministic evaluator that fails counts
\* as no match, an LLM may fail to answer.
Verdicts(phase) ==
  IF phase = "deterministic" THEN {"match", "pass"} ELSE {"match", "pass", "unknown"}

MatchOf(p, attr, effect, degraded) ==
  [policy |-> p, scope |-> attr.scope, effect |-> effect, phase |-> attr.phase,
   priority |-> attr.priority, degraded |-> degraded]

\* Mutant: a policy without a verdict is left out.
BugMatches(attrs, verdict) ==
  {MatchOf(p, attrs[p], attrs[p].effect, FALSE) :
     p \in {q \in DOMAIN verdict : verdict[q] = "match"}}

\* The matches of policies with these attributes and verdicts.
Matches(attrs, verdict) ==
  {MatchOf(p, attrs[p], attrs[p].effect, FALSE) :
     p \in {q \in DOMAIN verdict : verdict[q] = "match"}}
  \cup
  {MatchOf(p, attrs[p], LLMFallback, TRUE) :
     p \in {q \in DOMAIN verdict : verdict[q] = "unknown" /\ LLMFallback # "skip"}}

-----------------------------------------------------------------------------
(* Resolution *)

EFFECT_PRECEDENCE == [allow |-> 0, ask |-> 1, deny |-> 2]
PHASE_PRECEDENCE == [deterministic |-> 1, contextual_llm |-> 0]

\* comparePolicyMatches(a, b) < 0
Precedes(a, b) ==
  \/ EFFECT_PRECEDENCE[a.effect] > EFFECT_PRECEDENCE[b.effect]
  \/ /\ a.effect = b.effect
     /\ \/ a.priority > b.priority
        \/ /\ a.priority = b.priority
           /\ \/ PHASE_PRECEDENCE[a.phase] > PHASE_PRECEDENCE[b.phase]
              \/ a.phase = b.phase /\ IdRank[a.policy] < IdRank[b.policy]

\* resolveScopeMatches: the first of the sorted matches.
ScopeWinner(M) == CHOOSE a \in M : \A b \in M \ {a} : Precedes(a, b)

InScope(M, s) == {m \in M : m.scope = s}

\* The matches of the most specific of the scopes user, role and global.
Base(M) ==
  IF InScope(M, "user") # {} THEN InScope(M, "user")
  ELSE IF InScope(M, "role") # {} THEN InScope(M, "role")
  ELSE InScope(M, "global")

BaseEffect(M) == IF Base(M) = {} THEN "allow" ELSE ScopeWinner(Base(M)).effect

stricterEffect(a, b) == IF EFFECT_PRECEDENCE[a] >= EFFECT_PRECEDENCE[b] THEN a ELSE b

\* resolveMatchedPolicySet: the policies of the group come on top.
FinalEffect(M) ==
  IF InScope(M, "group") = {} THEN BaseEffect(M)
  ELSE stricterEffect(BaseEffect(M), ScopeWinner(InScope(M, "group")).effect)

\* The matches the winner is taken from: none when nothing matched.
Deciding(M) ==
  IF InScope(M, "group") # {} /\ (FinalEffect(M) # BaseEffect(M) \/ Base(M) = {})
  THEN InScope(M, "group") ELSE Base(M)

\* The policy that is charged for the decision: not one whose verdict is missing
\* (resolveCommittedWinningPolicyId).
ChargedPolicy(M) ==
  IF Deciding(M) = {} \/ (ScopeWinner(Deciding(M)).degraded /\ FinalEffect(M) = "ask")
  THEN NoPolicy
  ELSE ScopeWinner(Deciding(M)).policy
=============================================================================
