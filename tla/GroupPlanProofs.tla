---------------------------- MODULE GroupPlanProofs ----------------------------
(***************************************************************************)
(* Proofs about the resolution of policies and about drafts to a group:    *)
(* what holds for any policies, priorities and verdicts, any number of     *)
(* members, tries and interferences.                                       *)
(***************************************************************************)
EXTENDS GroupPlan, WellFoundedInduction, FiniteSetTheorems, TLAPS

-----------------------------------------------------------------------------
(* The winner of a scope exists *)

\* A function into the naturals has a least value on a nonempty set.
LEMMA LeastValue ==
  ASSUME NEW S, S # {}, NEW f, \A x \in S : f[x] \in Nat
  PROVE  \E x \in S : \A y \in S : f[x] <= f[y]
<1> DEFINE T == {f[x] : x \in S}
           R == OpToRel(<, Nat)
<1>1. T \subseteq Nat /\ T # {}
  OBVIOUS
<1>2. IsWellFoundedOn(R, Nat)
  BY NatLessThanWellFounded
<1>3. PICK n \in T : \A k \in T : ~(<<k, n>> \in R)
  <2> HIDE DEF T, R
  <2> QED
    BY <1>1, <1>2, WFMin
<1>4. \A k, j \in Nat : k < j => <<k, j>> \in R
  BY DEF OpToRel
<1>5. ASSUME NEW k \in T PROVE n <= k
  <2>1. k \in Nat /\ n \in Nat
    BY <1>1
  <2>2. ~(k < n)
    <3> HIDE DEF T, R
    <3> QED BY <1>3, <1>4, <2>1, Zenon
  <2> QED
    BY <2>1, <2>2
<1> QED
  BY <1>5

\* resolveScopeMatches picks a match that goes before every other one: whatever
\* the order of the list, the same one.
THEOREM ScopeWinnerIsFirst ==
  ASSUME NEW M \in MatchSets, M # {}
  PROVE  /\ ScopeWinner(M) \in M
         /\ \A b \in M \ {ScopeWinner(M)} : Precedes(ScopeWinner(M), b)
<1> USE PolicyAssumption DEF MatchSets, Match, Effect, Phase, EFFECT_PRECEDENCE,
        PHASE_PRECEDENCE
<1> DEFINE f == [m \in M |-> 2 - EFFECT_PRECEDENCE[m.effect]]
           g == [m \in M |-> MaxPriority - m.priority]
           h == [m \in M |-> 1 - PHASE_PRECEDENCE[m.phase]]
           r == [m \in M |-> IdRank[m.policy]]
<1>1. \A m \in M : f[m] \in Nat /\ g[m] \in Nat /\ h[m] \in Nat /\ r[m] \in Nat
  OBVIOUS
<1>2. PICK w \in M : \A b \in M : f[w] <= f[b]
  <2> HIDE DEF f
  <2> QED BY <1>1, LeastValue
<1> DEFINE F == {m \in M : f[m] = f[w]}
<1>3. PICK x \in F : \A b \in F : g[x] <= g[b]
  <2> HIDE DEF f, g
  <2> QED BY <1>1, LeastValue
<1> DEFINE G == {m \in F : g[m] = g[x]}
<1>4. PICK y \in G : \A b \in G : h[y] <= h[b]
  <2> HIDE DEF f, g, h
  <2> QED BY <1>1, LeastValue
<1> DEFINE H == {m \in G : h[m] = h[y]}
<1>5. PICK z \in H : \A b \in H : r[z] <= r[b]
  <2> HIDE DEF f, g, h, r
  <2> QED BY <1>1, LeastValue
<1>6. ASSUME NEW b \in M \ {z}
      PROVE  Precedes(z, b)
  <2>1. z \in M /\ b \in M
    OBVIOUS
  <2>2. f[z] <= f[b]
    BY <1>2
  <2>3. f[z] = f[b] => z.effect = b.effect /\ g[z] <= g[b]
    BY <1>2, <1>3
  <2>4. f[z] = f[b] /\ g[z] = g[b] => z.priority = b.priority /\ h[z] <= h[b]
    BY <1>2, <1>3, <1>4
  <2>5. f[z] = f[b] /\ g[z] = g[b] /\ h[z] = h[b] => z.phase = b.phase /\ r[z] <= r[b]
    BY <1>2, <1>3, <1>4, <1>5
  <2>6. r[z] # r[b]
    <3>1. z.policy # b.policy
      BY <2>1
    <3>2. z.policy \in Policy /\ b.policy \in Policy
      BY <2>1
    <3> QED BY <3>1, <3>2, <2>1
  <2>7. CASE f[z] # f[b]
    BY <2>1, <2>2, <2>7 DEF Precedes
  <2>8. CASE f[z] = f[b] /\ g[z] # g[b]
    BY <2>1, <2>3, <2>8 DEF Precedes
  <2>9. CASE f[z] = f[b] /\ g[z] = g[b] /\ h[z] # h[b]
    BY <2>1, <2>3, <2>4, <2>9 DEF Precedes
  <2>10. CASE f[z] = f[b] /\ g[z] = g[b] /\ h[z] = h[b]
    BY <2>1, <2>3, <2>4, <2>5, <2>6, <2>10 DEF Precedes
  <2> QED BY <2>7, <2>8, <2>9, <2>10
<1>7. \E a \in M : \A b \in M \ {a} : Precedes(a, b)
  BY <1>6
<1> QED
  BY <1>7, Zenon DEF ScopeWinner

\* Part of a set of matches is a set of matches.
LEMMA SubsetOfMatchSet ==
  ASSUME NEW M \in MatchSets, NEW N \in SUBSET M
  PROVE  N \in MatchSets
BY DEF MatchSets

\* The winner of a scope has the strictest effect of the scope.
LEMMA ScopeWinnerIsStrictest ==
  ASSUME NEW M \in MatchSets, M # {}
  PROVE  /\ ScopeWinner(M) \in M
         /\ ScopeWinner(M).effect \in Effect
         /\ \A b \in M : EFFECT_PRECEDENCE[ScopeWinner(M).effect] >= EFFECT_PRECEDENCE[b.effect]
<1>1. ScopeWinner(M) \in M /\ \A b \in M \ {ScopeWinner(M)} : Precedes(ScopeWinner(M), b)
  BY ScopeWinnerIsFirst
<1>2. \A b \in M : b.effect \in Effect
  BY DEF MatchSets, Match
<1>3. ASSUME NEW b \in M
      PROVE  EFFECT_PRECEDENCE[ScopeWinner(M).effect] >= EFFECT_PRECEDENCE[b.effect]
  BY <1>1, <1>2 DEF Precedes, Effect, EFFECT_PRECEDENCE
<1> QED
  BY <1>1, <1>2, <1>3

-----------------------------------------------------------------------------
(* The decision *)

\* So are the parts the resolver looks at.
LEMMA PartsOfMatchSet ==
  ASSUME NEW M \in MatchSets
  PROVE  /\ Base(M) \in MatchSets
         /\ \A s \in Scope : InScope(M, s) \in MatchSets
         /\ Deciding(M) \in MatchSets
BY SubsetOfMatchSet DEF Base, InScope, Deciding

\* The most specific scope allows exactly if all of its matches do.
LEMMA BaseEffectType ==
  ASSUME NEW M \in MatchSets
  PROVE  /\ BaseEffect(M) \in Effect
         /\ BaseEffect(M) = "allow" <=> \A m \in Base(M) : m.effect = "allow"
<1>1. CASE Base(M) = {}
  BY <1>1 DEF BaseEffect, Effect
<1>2. CASE Base(M) # {}
  <2>1. \A m \in Base(M) : m.effect \in Effect
    BY PartsOfMatchSet DEF MatchSets, Match
  <2>2. /\ ScopeWinner(Base(M)) \in Base(M)
        /\ ScopeWinner(Base(M)).effect \in Effect
        /\ \A b \in Base(M) :
             EFFECT_PRECEDENCE[ScopeWinner(Base(M)).effect] >= EFFECT_PRECEDENCE[b.effect]
    BY <1>2, PartsOfMatchSet, ScopeWinnerIsStrictest
  <2> QED
    BY <1>2, <2>1, <2>2 DEF BaseEffect, Effect, EFFECT_PRECEDENCE
<1> QED
  BY <1>1, <1>2

\* A draft is allowed exactly if all matches of the most specific scope and all
\* matches of the group allow it.
THEOREM AllowedMeansAllAllow ==
  ASSUME NEW M \in MatchSets
  PROVE  /\ FinalEffect(M) \in Effect
         /\ FinalEffect(M) = "allow" <=>
              \A m \in Base(M) \cup InScope(M, "group") : m.effect = "allow"
<1> DEFINE G == InScope(M, "group")
<1>1. BaseEffect(M) \in Effect
      /\ (BaseEffect(M) = "allow" <=> \A m \in Base(M) : m.effect = "allow")
  BY BaseEffectType
<1>2. CASE G = {}
  BY <1>1, <1>2 DEF FinalEffect
<1>3. CASE G # {}
  <2>1. \A m \in G : m.effect \in Effect
    BY DEF MatchSets, Match, InScope
  <2>2. /\ ScopeWinner(G) \in G
        /\ ScopeWinner(G).effect \in Effect
        /\ \A b \in G : EFFECT_PRECEDENCE[ScopeWinner(G).effect] >= EFFECT_PRECEDENCE[b.effect]
    <3>1. G \in MatchSets
      BY PartsOfMatchSet DEF Scope
    <3> QED BY <1>3, <3>1, ScopeWinnerIsStrictest
  <2>3. FinalEffect(M) = stricterEffect(BaseEffect(M), ScopeWinner(G).effect)
    BY <1>3 DEF FinalEffect
  <2>4. FinalEffect(M) \in Effect
        /\ (FinalEffect(M) = "allow" <=>
             BaseEffect(M) = "allow" /\ ScopeWinner(G).effect = "allow")
    BY <1>1, <2>2, <2>3 DEF stricterEffect, Effect, EFFECT_PRECEDENCE
  <2>5. ScopeWinner(G).effect = "allow" <=> \A m \in G : m.effect = "allow"
    BY <2>1, <2>2 DEF Effect, EFFECT_PRECEDENCE
  <2> QED
    BY <1>1, <2>4, <2>5
<1> QED
  BY <1>2, <1>3

\* Policies of the group never loosen what the other policies decide.
THEOREM GroupTightens ==
  ASSUME NEW M \in MatchSets
  PROVE  EFFECT_PRECEDENCE[FinalEffect(M)] >=
           EFFECT_PRECEDENCE[FinalEffect(M \ InScope(M, "group"))]
<1> DEFINE N == M \ InScope(M, "group")
<1>1. Base(N) = Base(M)
  <2>1. \A s \in {"user", "role", "global"} : InScope(N, s) = InScope(M, s)
    BY DEF InScope
  <2> QED BY <2>1 DEF Base
<1>2. FinalEffect(N) = BaseEffect(M)
  <2>1. InScope(N, "group") = {}
    BY DEF InScope
  <2> QED BY <1>1, <2>1 DEF FinalEffect, BaseEffect
<1>3. BaseEffect(M) \in Effect
  BY BaseEffectType
<1>4. CASE InScope(M, "group") = {}
  BY <1>2, <1>3, <1>4 DEF FinalEffect, Effect, EFFECT_PRECEDENCE
<1>5. CASE InScope(M, "group") # {}
  <2>1. ScopeWinner(InScope(M, "group")).effect \in Effect
    BY <1>5, PartsOfMatchSet, ScopeWinnerIsStrictest DEF Scope
  <2> QED
    BY <1>2, <1>3, <1>5, <2>1 DEF FinalEffect, stricterEffect, Effect, EFFECT_PRECEDENCE
<1> QED
  BY <1>4, <1>5

\* The winner carries the decision.
THEOREM WinnerDecides ==
  ASSUME NEW M \in MatchSets, Deciding(M) # {}
  PROVE  /\ ScopeWinner(Deciding(M)) \in M
         /\ ScopeWinner(Deciding(M)).effect = FinalEffect(M)
<1>1. ScopeWinner(Deciding(M)) \in Deciding(M) /\ ScopeWinner(Deciding(M)).effect \in Effect
  BY PartsOfMatchSet, ScopeWinnerIsStrictest
<1>2. Deciding(M) \subseteq M
  BY DEF Deciding, Base, InScope
<1>3. BaseEffect(M) \in Effect
  BY BaseEffectType
<1>4. CASE Deciding(M) = InScope(M, "group") /\ InScope(M, "group") # {}
            /\ (FinalEffect(M) # BaseEffect(M) \/ Base(M) = {})
  BY <1>1, <1>2, <1>3, <1>4
     DEF FinalEffect, BaseEffect, stricterEffect, Effect, EFFECT_PRECEDENCE
<1>5. CASE Deciding(M) = Base(M)
           /\ (InScope(M, "group") = {} \/ FinalEffect(M) = BaseEffect(M))
  BY <1>1, <1>2, <1>5 DEF FinalEffect, BaseEffect
<1> QED
  BY <1>1, <1>2, <1>4, <1>5 DEF Deciding

-----------------------------------------------------------------------------
(* Verdicts *)

Verdict == {"match", "pass", "unknown"}

\* m is what policy p counts as with a verdict, and without one.
Own(m, b, p) == m = MatchOf(p, b[p], b[p].effect, FALSE)
Fallback(m, b, p) == m = MatchOf(p, b[p], LLMFallback, TRUE)

CountsAs(m, b, v, p) ==
  \/ v[p] = "match" /\ Own(m, b, p)
  \/ v[p] = "unknown" /\ LLMFallback # "skip" /\ Fallback(m, b, p)

\* The matches are what the evaluated policies count as.
LEMMA MatchesExactly ==
  ASSUME NEW b, NEW D, NEW v \in [D -> Verdict], NEW m
  PROVE  m \in Matches(b, v) <=> \E p \in D : CountsAs(m, b, v, p)
<1>1. DOMAIN v = D
  OBVIOUS
<1> QED
  BY <1>1 DEF Matches, CountsAs, Own, Fallback

\* A match names its policy and has the scope of its policy.
LEMMA MatchFields ==
  ASSUME NEW b, NEW v, NEW p, NEW m, CountsAs(m, b, v, p)
  PROVE  m.policy = p /\ m.scope = b[p].scope
BY DEF CountsAs, Own, Fallback, MatchOf

\* The matches of typed policies are a set of matches, one for each policy.
LEMMA MatchesTyped ==
  ASSUME NEW b \in [Policy -> Entry], NEW D \in SUBSET Policy, NEW v \in [D -> Verdict]
  PROVE  Matches(b, v) \in MatchSets
<1>1. \A p \in Policy : /\ b[p].scope \in Scope /\ b[p].effect \in Effect
                        /\ b[p].phase \in Phase /\ b[p].priority \in 0 .. MaxPriority
  BY DEF Entry
<1>2. ASSUME NEW m, NEW p \in Policy, Own(m, b, p)
      PROVE  m \in Match
  <2>1. MatchOf(p, b[p], b[p].effect, FALSE) \in Match
    BY <1>1 DEF MatchOf, Match
  <2> QED BY <1>2, <2>1 DEF Own
<1>3. ASSUME NEW m, NEW p \in Policy, LLMFallback # "skip", Fallback(m, b, p)
      PROVE  m \in Match
  <2>1. LLMFallback \in Effect
    BY <1>3, PolicyAssumption
  <2>2. MatchOf(p, b[p], LLMFallback, TRUE) \in Match
    BY <1>1, <2>1 DEF MatchOf, Match
  <2> QED BY <1>3, <2>2 DEF Fallback
<1>4. Matches(b, v) \subseteq Match
  BY <1>2, <1>3, MatchesExactly DEF CountsAs
<1>5. ASSUME NEW x \in Matches(b, v), NEW y \in Matches(b, v), x.policy = y.policy
      PROVE  x = y
  <2>1. PICK p \in D : CountsAs(x, b, v, p)
    BY MatchesExactly
  <2>2. PICK q \in D : CountsAs(y, b, v, q)
    BY MatchesExactly
  <2>3. p = q
    BY <1>5, <2>1, <2>2, MatchFields
  <2> QED
    BY <2>1, <2>2, <2>3 DEF CountsAs, Own, Fallback
<1> QED
  BY <1>4, <1>5 DEF MatchSets

\* A scope holds what its policies count as.
LEMMA MatchesInScope ==
  ASSUME NEW b, NEW D, NEW v \in [D -> Verdict], NEW s, NEW m
  PROVE  m \in InScope(Matches(b, v), s) <=>
           \E p \in D : b[p].scope = s /\ CountsAs(m, b, v, p)
<1>1. m \in InScope(Matches(b, v), s) <=> m \in Matches(b, v) /\ m.scope = s
  BY DEF InScope
<1>2. \A p \in D : CountsAs(m, b, v, p) => m.scope = b[p].scope
  BY MatchFields
<1> QED
  BY <1>1, <1>2, MatchesExactly

\* A draft that is allowed although verdicts are missing is allowed whatever
\* the verdicts, as long as a missing verdict counts as more than "allow".
THEOREM MissingVerdictsAreSafe ==
  ASSUME NEW b \in [Policy -> Entry], NEW D \in SUBSET Policy, NEW v \in [D -> Verdict],
         LLMFallback \in {"ask", "deny"},
         FinalEffect(Matches(b, v)) = "allow",
         NEW w \in Completions(v)
  PROVE  FinalEffect(Matches(b, w)) = "allow"
<1> DEFINE M == Matches(b, v)
           N == Matches(b, w)
<1>1. w \in [D -> Verdict] /\ \A p \in D : w[p] \in {"match", "pass"} /\ v[p] \in {w[p], "unknown"}
  BY DEF Completions, Verdict
<1>2. M \in MatchSets /\ N \in MatchSets
  BY <1>1, MatchesTyped
<1>3. \A m \in Base(M) \cup InScope(M, "group") : m.effect = "allow"
  BY <1>2, AllowedMeansAllAllow
<1>4. ASSUME NEW s \in Scope, InScope(N, s) # {}
      PROVE  InScope(M, s) # {}
  <2>1. PICK m : m \in InScope(N, s)
    BY <1>4
  <2>2. PICK p \in D : b[p].scope = s /\ CountsAs(m, b, w, p)
    BY <1>1, <2>1, MatchesInScope
  <2>3. v[p] \in {"match", "unknown"}
    BY <1>1, <2>2 DEF CountsAs
  <2>4. PICK n : CountsAs(n, b, v, p)
    BY <2>3 DEF CountsAs, Own, Fallback
  <2>5. n \in InScope(M, s)
    BY <2>2, <2>4, MatchesInScope
  <2> QED
    BY <2>5
<1>5. ASSUME NEW s \in Scope, \A m \in InScope(M, s) : m.effect = "allow"
      PROVE  InScope(N, s) = InScope(M, s)
  <2>1. ASSUME NEW p \in D, b[p].scope = s
        PROVE  v[p] # "unknown"
    <3>1. SUFFICES ASSUME v[p] = "unknown" PROVE FALSE
      OBVIOUS
    <3> DEFINE m == MatchOf(p, b[p], LLMFallback, TRUE)
    <3>2. Fallback(m, b, p) /\ m.effect # "allow"
      BY DEF Fallback, MatchOf
    <3> HIDE DEF m
    <3>3. CountsAs(m, b, v, p)
      BY <3>1, <3>2 DEF CountsAs
    <3>4. m \in InScope(M, s)
      BY <2>1, <3>3, MatchesInScope
    <3> QED
      BY <1>5, <3>2, <3>4
  <2>2. \A p \in D : b[p].scope = s => v[p] = w[p] /\ w[p] # "unknown"
    BY <1>1, <2>1
  <2>3. ASSUME NEW m, NEW p \in D, b[p].scope = s
        PROVE  CountsAs(m, b, w, p) <=> CountsAs(m, b, v, p)
    BY <2>2, <2>3 DEF CountsAs
  <2>4. \A m : m \in InScope(N, s) <=> m \in InScope(M, s)
    BY <1>1, <2>3, MatchesInScope
  <2> HIDE DEF M, N
  <2> QED
    BY <2>4 DEF InScope
<1>6. InScope(N, "group") = InScope(M, "group")
  BY <1>3, <1>5 DEF Scope
<1>7. Base(N) = Base(M)
  <2>1. CASE InScope(M, "user") # {}
    BY <1>3, <1>5, <2>1 DEF Base, Scope
  <2>2. CASE InScope(M, "user") = {} /\ InScope(M, "role") # {}
    <3>1. InScope(N, "user") = {}
      BY <1>4, <2>2 DEF Scope
    <3> QED
      BY <1>3, <1>5, <2>2, <3>1 DEF Base, Scope
  <2>3. CASE InScope(M, "user") = {} /\ InScope(M, "role") = {}
    <3>1. InScope(N, "user") = {} /\ InScope(N, "role") = {}
      BY <1>4, <2>3 DEF Scope
    <3> QED
      BY <1>3, <1>5, <2>3, <3>1 DEF Base, Scope
  <2> QED
    BY <2>1, <2>2, <2>3
<1> QED
  BY <1>2, <1>3, <1>6, <1>7, AllowedMeansAllAllow

\* The policy that is charged was evaluated, and has the effect that was decided.
THEOREM ChargedPolicyHasTheEffect ==
  ASSUME NEW b \in [Policy -> Entry], NEW D \in SUBSET Policy, NEW v \in [D -> Verdict],
         ChargedPolicy(Matches(b, v)) # NoPolicy
  PROVE  /\ ChargedPolicy(Matches(b, v)) \in D
         /\ LLMFallback = "ask" =>
              b[ChargedPolicy(Matches(b, v))].effect = FinalEffect(Matches(b, v))
<1> DEFINE M == Matches(b, v)
           w == ScopeWinner(Deciding(M))
<1>1. M \in MatchSets
  BY MatchesTyped
<1>2. Deciding(M) # {} /\ ~(w.degraded /\ FinalEffect(M) = "ask")
      /\ ChargedPolicy(M) = w.policy
  BY DEF ChargedPolicy
<1>3. w \in M /\ w.effect = FinalEffect(M)
  BY <1>1, <1>2, WinnerDecides
<1>4. PICK p \in D : CountsAs(w, b, v, p)
  <2> HIDE DEF w
  <2> QED BY <1>3, MatchesExactly
<1>5. CASE Own(w, b, p)
  BY <1>2, <1>3, <1>5 DEF Own, MatchOf
<1>6. CASE Fallback(w, b, p)
  BY <1>2, <1>3, <1>6 DEF Fallback, MatchOf
<1> QED
  BY <1>4, <1>5, <1>6 DEF CountsAs

-----------------------------------------------------------------------------
(* The inductive invariant *)

Stored(m) == [try |-> tries, to |-> m, effect |-> plan[m].effect] \in rows

\* What has been stored at each point of the plan.
Progress ==
  /\ pc # "idle" => tries >= 1
  /\ pc \in {"committing", "sending"} => Len(plan) = MemberCount
  /\ pc = "committing" => \A m \in Member : m < next => Stored(m)
  /\ pc = "sending" => \A m \in Member : Stored(m)

KeyedDraftIsStoredOnce ==
  keyed => \A r, q \in rows : r.to = q.to => r = q

LastIsDecided == Evaluated => Last = DecisionOn(verdict)

\* The policy that is charged has the effect that was decided, or the server
\* would refuse the commit as inconsistent (routes/plugin.ts:2943).
ChargedPolicyDecided ==
  \A i \in DOMAIN plan : plan[i].charged # NoPolicy =>
    book[plan[i].charged].effect = plan[i].effect


ChargedPolicyDecidedIfAsking == LLMFallback = "ask" => ChargedPolicyDecided

IInv ==
  /\ PlanTypeOK
  /\ Progress
  /\ SentWasAllowed
  /\ AllStoredBeforeAnySent
  /\ KeyedDraftIsStoredOnce
  /\ LastIsDecided
  /\ ChargedPolicyDecidedIfAsking

-----------------------------------------------------------------------------
(* Helpers keep their types *)

\* A decision has an effect and charges an evaluated policy or none.
LEMMA DecisionTyped ==
  ASSUME NEW D \in SUBSET Policy, NEW v \in [D -> Verdict], book \in [Policy -> Entry]
  PROVE  /\ DecisionOn(v) \in Decision
         /\ DecisionOn(v).charged \in D \cup {NoPolicy}
         /\ LLMFallback = "ask" /\ DecisionOn(v).charged # NoPolicy =>
              book[DecisionOn(v).charged].effect = DecisionOn(v).effect
<1>1. FinalEffect(Matches(book, v)) \in Effect
  BY MatchesTyped, AllowedMeansAllAllow
<1>2. ChargedPolicy(Matches(book, v)) \in D \cup {NoPolicy}
  BY ChargedPolicyHasTheEffect
<1>3. LLMFallback = "ask" /\ ChargedPolicy(Matches(book, v)) # NoPolicy =>
        book[ChargedPolicy(Matches(book, v))].effect = FinalEffect(Matches(book, v))
  BY ChargedPolicyHasTheEffect
<1> QED
  BY <1>1, <1>2, <1>3 DEF DecisionOn, Decision

\* Charging keeps counts of uses.
LEMMA ChargeTyped ==
  ASSUME PlanTypeOK, NEW p \in Policy \cup {NoPolicy}
  PROVE  Charge(p) \in [Policy -> Uses]
<1>1. CASE p = NoPolicy
  BY <1>1 DEF Charge, PlanTypeOK
<1>2. CASE p \in Policy
  <2>1. uses \in [Policy -> Uses] /\ uses[p] \in Nat \cup {Unlimited}
        /\ book[p].limit \in (Nat \ {0}) \cup {Unlimited}
    BY <1>2 DEF PlanTypeOK, Entry, Uses
  <2>2. CASE uses[p] = 0
    BY <2>1, <2>2 DEF Charge
  <2>3. CASE uses[p] # 0 /\ uses[p] # Unlimited
    <3>1. uses[p] - 1 \in Nat
      BY <2>1, <2>3
    <3> QED BY <1>2, <2>1, <2>3, <3>1, PolicyAssumption DEF Charge, Uses
  <2>4. CASE uses[p] = Unlimited /\ book[p].limit # Unlimited
    <3>1. book[p].limit - 1 \in Nat
      BY <2>1, <2>4
    <3> QED BY <1>2, <2>1, <2>4, <3>1, PolicyAssumption DEF Charge, Uses
  <2>5. CASE uses[p] = Unlimited /\ book[p].limit = Unlimited
    BY <2>1, <2>5 DEF Charge
  <2> QED BY <2>2, <2>3, <2>4, <2>5
<1> QED
  BY <1>1, <1>2

\* So does the plugin's own copy.
LEMMA SpendTyped ==
  ASSUME PlanTypeOK, NEW p \in DOMAIN bundle \cup {NoPolicy}
  PROVE  /\ DOMAIN Spend(p) = DOMAIN bundle
         /\ Spend(p) \in [DOMAIN bundle -> Uses]
<1>0. bundle \in [DOMAIN bundle -> Uses] /\ DOMAIN bundle \subseteq Policy
  BY DEF PlanTypeOK
<1>1. CASE p = NoPolicy
  BY <1>0, <1>1 DEF Spend
<1>2. CASE p \in DOMAIN bundle
  <2>1. bundle[p] \in Nat \cup {Unlimited}
        /\ book[p].limit \in (Nat \ {0}) \cup {Unlimited}
    BY <1>0, <1>2 DEF PlanTypeOK, Entry, Uses
  <2>2. CASE bundle[p] = 0
    BY <1>0, <2>1, <2>2 DEF Spend
  <2>3. CASE bundle[p] # 0 /\ bundle[p] # Unlimited
    <3>1. bundle[p] - 1 \in Nat
      BY <2>1, <2>3
    <3> QED BY <1>0, <1>2, <2>1, <2>3, <3>1, PolicyAssumption DEF Spend, Uses
  <2>4. CASE bundle[p] = Unlimited /\ book[p].limit # Unlimited
    <3>1. book[p].limit - 1 \in Nat
      BY <2>1, <2>4
    <3> QED BY <1>0, <1>2, <2>1, <2>4, <3>1, PolicyAssumption DEF Spend, Uses
  <2>5. CASE bundle[p] = Unlimited /\ book[p].limit = Unlimited
    BY <1>0, <2>1, <2>5 DEF Spend
  <2> QED BY <2>2, <2>3, <2>4, <2>5
<1> QED
  BY <1>1, <1>2

-----------------------------------------------------------------------------
(* It is an invariant *)

\* A new draft satisfies it.
LEMMA InitEstablishes == Init => IInv
<1> SUFFICES ASSUME Init PROVE IInv
  OBVIOUS
<1> USE GroupPlanAssumption DEF Init, NoVerdict
<1>1. book \in [Policy -> Entry]
  OBVIOUS
<1>2. uses \in [Policy -> Uses]
  BY <1>1 DEF Entry, Uses
<1>3. PlanTypeOK
  BY <1>1, <1>2 DEF PlanTypeOK
<1> QED
  BY <1>3 DEF IInv, Progress, SentWasAllowed, AllStoredBeforeAnySent, KeyedDraftIsStoredOnce,
       LastIsDecided, Evaluated, ChargedPolicyDecidedIfAsking, ChargedPolicyDecided

\* Steps that change neither what is stored nor what is sent nor the plan.
LEMMA QuietSteps ==
  ASSUME IInv, UNCHANGED <<book, rows, sent, keyed, tries, plan>>, PlanTypeOK', Progress',
         LastIsDecided'
  PROVE  IInv'
BY DEF IInv, SentWasAllowed, AllStoredBeforeAnySent, KeyedDraftIsStoredOnce,
     ChargedPolicyDecidedIfAsking, ChargedPolicyDecided

\* A new try forgets the plan of the last one, not what it stored.
LEMMA FetchBundlePreserves ==
  ASSUME IInv, FetchBundle
  PROVE  IInv'
<1> USE GroupPlanAssumption DEF FetchBundle, server
<1>1. PlanTypeOK'
  BY DEF IInv, PlanTypeOK, Available
<1>2. Progress' /\ LastIsDecided' /\ ChargedPolicyDecidedIfAsking'
  BY DEF IInv, PlanTypeOK, Progress, LastIsDecided, Evaluated, ChargedPolicyDecidedIfAsking,
    ChargedPolicyDecided
<1>3. SentWasAllowed' /\ AllStoredBeforeAnySent' /\ KeyedDraftIsStoredOnce'
  BY DEF IInv, SentWasAllowed, AllStoredBeforeAnySent, KeyedDraftIsStoredOnce
<1> QED
  BY <1>1, <1>2, <1>3 DEF IInv

\* One more decision of the plan, by the verdicts just given.
LEMMA EvaluateMemberPreserves ==
  ASSUME IInv, EvaluateMember
  PROVE  IInv'
<1> USE GroupPlanAssumption
<1>1. PlanTypeOK
  BY DEF IInv
<1> DEFINE D == MemberPolicies(Len(plan) + 1)
<1>2. D \subseteq DOMAIN bundle /\ DOMAIN bundle \subseteq Policy
  BY <1>1 DEF MemberPolicies, PlanTypeOK
<1>3. PICK v \in [D -> Verdict] :
        /\ plan' = Append(plan, DecisionOn(v))
        /\ bundle' = Spend(DecisionOn(v).charged)
        /\ verdict' = v
  BY DEF EvaluateMember, Evaluations, Verdict
<1>4. /\ UNCHANGED <<book, uses, live, rows, sent, keyed, pc, tries, next, others>>
      /\ pc = "evaluating" /\ Len(plan) < MemberCount
  BY DEF EvaluateMember, server
<1>5. /\ DecisionOn(v) \in Decision
      /\ DecisionOn(v).charged \in D \cup {NoPolicy}
      /\ LLMFallback = "ask" /\ DecisionOn(v).charged # NoPolicy =>
           book[DecisionOn(v).charged].effect = DecisionOn(v).effect
  <2> HIDE DEF D
  <2> QED BY <1>1, <1>2, DecisionTyped DEF PlanTypeOK
<1>6. /\ plan \in Seq(Decision) /\ Len(plan) \in Nat
      /\ plan' \in Seq(Decision) /\ Len(plan') = Len(plan) + 1
      /\ plan'[Len(plan')] = DecisionOn(v)
      /\ \A i \in DOMAIN plan : plan'[i] = plan[i]
      /\ DOMAIN plan' = 1 .. Len(plan) + 1 /\ DOMAIN plan = 1 .. Len(plan)
  <2> HIDE DEF D
  <2>1. plan \in Seq(Decision)
    BY <1>1 DEF PlanTypeOK
  <2> QED BY <1>3, <1>5, <2>1
<1>7. PlanTypeOK'
  <2>1. DOMAIN bundle' = DOMAIN bundle /\ bundle' \in [DOMAIN bundle -> Uses]
    BY <1>1, <1>2, <1>3, <1>5, SpendTyped
  <2>2. DOMAIN verdict' \subseteq Policy /\ verdict' \in [DOMAIN verdict' -> Verdict]
    BY <1>2, <1>3
  <2>3. Len(plan') <= MemberCount
    BY <1>4, <1>6
  <2> HIDE DEF D
  <2> QED
    BY <1>1, <1>4, <1>6, <2>1, <2>2, <2>3 DEF PlanTypeOK, Verdict
<1>8. Progress'
  BY <1>4 DEF IInv, Progress
<1>9. LastIsDecided'
  BY <1>3, <1>4, <1>6 DEF LastIsDecided, Last, DecisionOn
<1>10. ChargedPolicyDecidedIfAsking'
  <2>1. SUFFICES ASSUME LLMFallback = "ask", NEW i \in DOMAIN plan', plan'[i].charged # NoPolicy
                 PROVE  book[plan'[i].charged].effect = plan'[i].effect
    BY <1>4 DEF ChargedPolicyDecidedIfAsking, ChargedPolicyDecided
  <2>2. CASE i \in DOMAIN plan
    BY <1>6, <2>1, <2>2 DEF IInv, ChargedPolicyDecidedIfAsking, ChargedPolicyDecided
  <2>3. CASE i = Len(plan) + 1
    BY <1>5, <1>6, <2>1, <2>3
  <2> QED
    BY <1>6, <2>2, <2>3
<1>11. SentWasAllowed' /\ AllStoredBeforeAnySent' /\ KeyedDraftIsStoredOnce'
  BY <1>4 DEF IInv, SentWasAllowed, AllStoredBeforeAnySent, KeyedDraftIsStoredOnce
<1> QED
  BY <1>7, <1>8, <1>9, <1>10, <1>11 DEF IInv

\* A decision is stored for the next member, for whom the key was free.
LEMMA CommitStoredPreserves ==
  ASSUME IInv, CommitStored
  PROVE  IInv'
<1> USE GroupPlanAssumption
<1>1. PlanTypeOK
  BY DEF IInv
<1> DEFINE new == [try |-> tries, to |-> next, effect |-> plan[next].effect]
<1>2. /\ pc = "committing" /\ next \in Member /\ ~Conflict(next)
      /\ rows' = rows \cup {new}
      /\ uses' = Charge(plan[next].charged) /\ next' = next + 1
      /\ UNCHANGED <<book, live, sent, keyed, tries, bundle, plan, pc, verdict, others>>
  BY <1>1 DEF CommitStored, plugin, PlanTypeOK, Member
<1>3. Len(plan) = MemberCount /\ tries \in 1 .. MaxTries /\ next \in Nat
  BY <1>1, <1>2 DEF IInv, Progress, PlanTypeOK
<1>4. plan[next] \in Decision
  BY <1>1, <1>2, <1>3 DEF PlanTypeOK, Member
<1>5. new \in Row /\ new.try = tries /\ new.to = next /\ new.effect = plan[next].effect
  BY <1>2, <1>3, <1>4 DEF Row, Decision
<1> HIDE DEF new
<1>6. PlanTypeOK'
  <2>1. uses' \in [Policy -> Uses]
    BY <1>1, <1>2, <1>4, ChargeTyped DEF Decision
  <2> QED
    BY <1>1, <1>2, <1>5, <2>1 DEF PlanTypeOK, Member
<1>7. Progress'
  <2>1. ASSUME NEW m \in Member, m < next + 1
        PROVE  [try |-> tries, to |-> m, effect |-> plan[m].effect] \in rows \cup {new}
    <3>1. m \in Nat
      BY DEF Member
    <3>2. CASE m < next
      BY <1>2, <3>2 DEF IInv, Progress, Stored
    <3>3. CASE m = next
      BY <3>3 DEF new
    <3> QED BY <1>3, <2>1, <3>1, <3>2, <3>3
  <2> QED
    BY <1>2, <2>1 DEF IInv, Progress, Stored
<1>8. SentWasAllowed' /\ AllStoredBeforeAnySent'
  BY <1>2 DEF IInv, SentWasAllowed, AllStoredBeforeAnySent
<1>9. KeyedDraftIsStoredOnce'
  BY <1>2, <1>5 DEF IInv, KeyedDraftIsStoredOnce, Conflict
<1>10. LastIsDecided' /\ ChargedPolicyDecidedIfAsking'
  BY <1>2 DEF IInv, LastIsDecided, Evaluated, ChargedPolicyDecidedIfAsking, ChargedPolicyDecided
<1> QED
  BY <1>6, <1>7, <1>8, <1>9, <1>10 DEF IInv

\* A message is sent for a stored decision, when all of them are stored.
LEMMA SendNextPreserves ==
  ASSUME IInv, SendNext
  PROVE  IInv'
<1> USE GroupPlanAssumption
<1>1. PlanTypeOK
  BY DEF IInv
<1>2. /\ pc = "sending" /\ next \in Member /\ next' = next + 1
      /\ UNCHANGED <<book, uses, live, rows, keyed, tries, bundle, plan, pc, verdict, others>>
  BY <1>1 DEF SendNext, server, plugin, PlanTypeOK, Member
<1>3. sent' = sent \/ (sent' = sent \cup {<<tries, next>>} /\ plan[next].effect = "allow")
  BY DEF SendNext
<1>4. \A m \in Member : Stored(m)
  BY <1>2 DEF IInv, Progress
<1>5. tries \in 1 .. MaxTries
  BY <1>1, <1>2 DEF IInv, Progress, PlanTypeOK
<1>6. PlanTypeOK'
  BY <1>1, <1>2, <1>3, <1>5 DEF PlanTypeOK, Member
<1>7. Progress'
  BY <1>2 DEF IInv, Progress, Stored
<1>8. SentWasAllowed'
  <2>1. ASSUME plan[next].effect = "allow"
        PROVE  [try |-> tries, to |-> next, effect |-> "allow"] \in rows
    BY <1>2, <1>4, <2>1 DEF Stored
  <2>2. <<tries, next>>[1] = tries /\ <<tries, next>>[2] = next
    OBVIOUS
  <2> DEFINE Allowed(s) == [try |-> s[1], to |-> s[2], effect |-> "allow"] \in rows
  <2>3. \A s \in sent : Allowed(s)
    BY DEF IInv, SentWasAllowed
  <2>4. plan[next].effect = "allow" => Allowed(<<tries, next>>)
    BY <2>1, <2>2
  <2>5. \A s \in sent' : Allowed(s)
    <3> HIDE DEF Allowed
    <3> QED BY <1>3, <2>3, <2>4
  <2> QED
    BY <1>2, <2>5 DEF SentWasAllowed
<1>9. AllStoredBeforeAnySent'
  <2>1. \A m \in Member : \E r \in rows : r.try = tries /\ r.to = m
    BY <1>4 DEF Stored
  <2> QED
    BY <1>2, <1>3, <2>1 DEF IInv, AllStoredBeforeAnySent
<1>10. KeyedDraftIsStoredOnce' /\ LastIsDecided' /\ ChargedPolicyDecidedIfAsking'
  BY <1>2 DEF IInv, KeyedDraftIsStoredOnce, LastIsDecided, Evaluated,
    ChargedPolicyDecidedIfAsking, ChargedPolicyDecided
<1> QED
  BY <1>6, <1>7, <1>8, <1>9, <1>10 DEF IInv

\* Every step keeps it.
LEMMA NextPreserves == IInv /\ [Next]_vars => IInv'
<1> SUFFICES ASSUME IInv, [Next]_vars PROVE IInv'
  OBVIOUS
<1> USE GroupPlanAssumption
<1>0. PlanTypeOK /\ Progress /\ LastIsDecided
  BY DEF IInv
<1>1. CASE FetchBundle
  BY <1>1, FetchBundlePreserves
<1>2. CASE EvaluateMember
  BY <1>2, EvaluateMemberPreserves
<1>3. CASE StartCommits
  <2>1. PlanTypeOK' /\ Progress' /\ LastIsDecided'
    BY <1>0, <1>3 DEF StartCommits, server, plugin, PlanTypeOK, Progress, LastIsDecided,
      Evaluated, NoVerdict, Member
  <2> QED BY <1>3, <2>1, QuietSteps DEF StartCommits, server, plugin
<1>4. CASE CommitStored
  BY <1>4, CommitStoredPreserves
<1>5. CASE CommitRefused
  <2>1. PlanTypeOK' /\ Progress' /\ LastIsDecided'
    BY <1>0, <1>5 DEF CommitRefused, server, plugin, PlanTypeOK, Progress, LastIsDecided,
      Evaluated
  <2> QED BY <1>5, <2>1, QuietSteps DEF CommitRefused, server, plugin
<1>6. CASE StartSends
  <2>1. PlanTypeOK' /\ Progress' /\ LastIsDecided'
    BY <1>0, <1>6 DEF StartSends, server, plugin, PlanTypeOK, Progress, LastIsDecided,
      Evaluated, Stored, Member
  <2> QED BY <1>6, <2>1, QuietSteps DEF StartSends, server, plugin
<1>7. CASE SendNext
  BY <1>7, SendNextPreserves
<1>8. CASE Finish
  <2>1. PlanTypeOK' /\ Progress' /\ LastIsDecided'
    BY <1>0, <1>8 DEF Finish, server, plugin, PlanTypeOK, Progress, LastIsDecided, Evaluated
  <2> QED BY <1>8, <2>1, QuietSteps DEF Finish, server, plugin
<1>9. CASE PlanDies
  <2>1. PlanTypeOK' /\ Progress' /\ LastIsDecided'
    BY <1>0, <1>9 DEF PlanDies, server, plugin, PlanTypeOK, Progress, LastIsDecided,
      Evaluated, NoVerdict
  <2> QED BY <1>9, <2>1, QuietSteps DEF PlanDies, server, plugin
<1>10. ASSUME NEW p \in Policy, OthersCharge(p) PROVE IInv'
  <2>1. uses' \in [Policy -> Uses]
    BY <1>0, <1>10, ChargeTyped DEF OthersCharge
  <2>2. PlanTypeOK'
    BY <1>0, <1>10, <2>1 DEF OthersCharge, plugin, PlanTypeOK
  <2>3. Progress' /\ LastIsDecided'
    BY <1>0, <1>10 DEF OthersCharge, plugin, Progress, Stored, LastIsDecided, Evaluated, Last,
      DecisionOn
  <2> QED BY <1>10, <2>2, <2>3, QuietSteps DEF OthersCharge, plugin
<1>11. ASSUME NEW p \in Policy, PolicySwitches(p) PROVE IInv'
  <2>1. PlanTypeOK'
    BY <1>0, <1>11 DEF PolicySwitches, plugin, PlanTypeOK
  <2>2. Progress' /\ LastIsDecided'
    BY <1>0, <1>11 DEF PolicySwitches, plugin, Progress, Stored, LastIsDecided, Evaluated, Last,
      DecisionOn
  <2> QED BY <1>11, <2>1, <2>2, QuietSteps DEF PolicySwitches, plugin
<1>12. CASE UNCHANGED vars
  <2>1. PlanTypeOK' /\ Progress' /\ LastIsDecided'
    BY <1>0, <1>12 DEF vars, PlanTypeOK, Progress, Stored, LastIsDecided, Evaluated, Last,
      DecisionOn
  <2> QED BY <1>12, <2>1, QuietSteps DEF vars
<1> QED
  BY <1>1, <1>2, <1>3, <1>4, <1>5, <1>6, <1>7, <1>8, <1>9, <1>10, <1>11, <1>12 DEF Next
\* The inductive invariant holds in every reachable state.
THEOREM InductiveInvariant == Spec => []IInv
<1>1. Init => IInv
  BY InitEstablishes
<1>2. IInv /\ [Next]_vars => IInv'
  BY NextPreserves
<1> QED
  BY <1>1, <1>2, PTL DEF Spec

-----------------------------------------------------------------------------
(* What it says *)

\* The state of a draft keeps its type.
THEOREM PlanTypeCorrect == Spec => []PlanTypeOK
<1>1. IInv => PlanTypeOK
  BY DEF IInv
<1> QED
  BY <1>1, InductiveInvariant, PTL

\* Nobody is sent anything that was not stored as allowed (executeGroupLocalSend
\* sends only what it has committed).
THEOREM OnlyAllowedIsSent == Spec => []SentWasAllowed
<1>1. IInv => SentWasAllowed
  BY DEF IInv
<1> QED
  BY <1>1, InductiveInvariant, PTL

\* Nobody is sent anything before all decisions of the try are stored, although
\* any commit may be refused and the plugin may die at any point.
THEOREM NothingIsSentEarly == Spec => []AllStoredBeforeAnySent
<1>1. IInv => AllStoredBeforeAnySent
  BY DEF IInv
<1> QED
  BY <1>1, InductiveInvariant, PTL

\* A draft with a key reaches each member once, however often it is tried: the
\* key of a member is bound to the first decision stored for it.
THEOREM KeyedDraftsAreSentOnce == Spec => []KeyedDraftIsSentOnce
<1>1. IInv => KeyedDraftIsSentOnce
  <2>1. SUFFICES ASSUME IInv, keyed, NEW s \in sent, NEW t \in sent, s[2] = t[2]
                 PROVE  s = t
    BY DEF KeyedDraftIsSentOnce
  <2> DEFINE R(x) == [try |-> x[1], to |-> x[2], effect |-> "allow"]
  <2>2. R(s) \in rows /\ R(t) \in rows
    BY <2>1 DEF IInv, SentWasAllowed
  <2>3. R(s).to = R(t).to
    BY <2>1
  <2>4. R(s) = R(t)
    <3> HIDE DEF R
    <3> QED BY <2>1, <2>2, <2>3 DEF IInv, KeyedDraftIsStoredOnce
  <2>5. R(s).try = s[1] /\ R(t).try = t[1]
    OBVIOUS
  <2>6. s[1] = t[1]
    <3> HIDE DEF R
    <3> QED BY <2>4, <2>5
  <2>7. s \in (1 .. MaxTries) \X Member /\ t \in (1 .. MaxTries) \X Member
    BY <2>1 DEF IInv, PlanTypeOK
  <2> QED
    BY <2>1, <2>6, <2>7
<1> QED
  BY <1>1, InductiveInvariant, PTL

\* A verdict an LLM fails to give never lets a draft through that a verdict would
\* have stopped, if such a policy counts as ask (the plugin) or as deny.
THEOREM MissingVerdictsAlwaysFailClosed ==
  ASSUME LLMFallback \in {"ask", "deny"}
  PROVE  Spec => []MissingVerdictsFailClosed
<1>1. IInv => MissingVerdictsFailClosed
  <2>1. SUFFICES ASSUME IInv, Evaluated, Last.effect = "allow", NEW w \in Completions(verdict)
                 PROVE  FinalEffect(Matches(book, w)) = "allow"
    BY DEF MissingVerdictsFailClosed
  <2>2. /\ book \in [Policy -> Entry] /\ DOMAIN verdict \subseteq Policy
        /\ verdict \in [DOMAIN verdict -> Verdict]
    BY <2>1 DEF IInv, PlanTypeOK, Verdict
  <2>3. FinalEffect(Matches(book, verdict)) = "allow"
    BY <2>1 DEF IInv, LastIsDecided, DecisionOn
  <2> QED
    BY <2>1, <2>2, <2>3, MissingVerdictsAreSafe
<1> QED
  BY <1>1, InductiveInvariant, PTL

\* No decision about a member of a group is looser than without the policies of
\* the group.
THEOREM GroupsOnlyTighten == Spec => []GroupOnlyTightens
<1>1. IInv => GroupOnlyTightens
  <2>1. SUFFICES ASSUME IInv, Evaluated
                 PROVE  LET M == Matches(book, verdict)
                        IN EFFECT_PRECEDENCE[Last.effect] >=
                             EFFECT_PRECEDENCE[FinalEffect(M \ InScope(M, "group"))]
    BY DEF GroupOnlyTightens
  <2>2. /\ book \in [Policy -> Entry] /\ DOMAIN verdict \subseteq Policy
        /\ verdict \in [DOMAIN verdict -> Verdict]
    BY <2>1 DEF IInv, PlanTypeOK, Verdict
  <2>3. Last.effect = FinalEffect(Matches(book, verdict))
    BY <2>1 DEF IInv, LastIsDecided, DecisionOn
  <2>4. Matches(book, verdict) \in MatchSets
    BY <2>2, MatchesTyped
  <2> QED
    BY <2>3, <2>4, GroupTightens
<1> QED
  BY <1>1, InductiveInvariant, PTL

\* A policy that is charged for a decision of the plugin has the effect of the
\* decision, so that the server never refuses a commit as inconsistent.
THEOREM ChargedPoliciesDecide ==
  ASSUME LLMFallback = "ask"
  PROVE  Spec => []ChargedPolicyDecided
<1>1. IInv => ChargedPolicyDecided
  BY DEF IInv, ChargedPolicyDecidedIfAsking
<1> QED
  BY <1>1, InductiveInvariant, PTL

-----------------------------------------------------------------------------
(* Counting the decisions a policy is charged for *)

\* The decisions of a plan, from one on, that are charged to a policy.
Charges(s, p, from) == {i \in DOMAIN s : i >= from /\ s[i].charged = p}

\* They can be counted.
LEMMA ChargesFinite ==
  ASSUME NEW s \in Seq(Decision), NEW p, NEW from
  PROVE  IsFiniteSet(Charges(s, p, from)) /\ Cardinality(Charges(s, p, from)) \in Nat
<1>1. DOMAIN s = 1 .. Len(s) /\ Len(s) \in Nat
  OBVIOUS
<1>2. IsFiniteSet(DOMAIN s)
  BY <1>1, FS_Interval
<1>3. Charges(s, p, from) \in SUBSET (DOMAIN s)
  BY DEF Charges
<1> QED
  BY <1>2, <1>3, FS_Subset, FS_CardinalityType

\* Another decision counts for the policy it charges only.
LEMMA ChargesAppend ==
  ASSUME NEW s \in Seq(Decision), NEW d \in Decision, NEW p, NEW from \in 1 .. Len(s) + 1
  PROVE  Cardinality(Charges(Append(s, d), p, from)) =
           Cardinality(Charges(s, p, from)) + (IF d.charged = p THEN 1 ELSE 0)
<1> DEFINE t == Append(s, d)
           n == Len(s) + 1
<1>1. /\ DOMAIN s = 1 .. Len(s) /\ DOMAIN t = 1 .. n /\ Len(s) \in Nat
      /\ \A i \in 1 .. Len(s) : t[i] = s[i]
      /\ t[n] = d
  OBVIOUS
<1>2. n \notin Charges(s, p, from) /\ IsFiniteSet(Charges(s, p, from))
  <2>1. n \notin Charges(s, p, from)
    BY <1>1 DEF Charges
  <2> QED
    BY <2>1, ChargesFinite
<1>3. \A i \in DOMAIN t : i \in DOMAIN s \/ i = n
  BY <1>1
<1> HIDE DEF t
<1>4. CASE d.charged = p
  <2>1. Charges(t, p, from) = Charges(s, p, from) \cup {n}
    BY <1>1, <1>3, <1>4 DEF Charges
  <2> QED
    BY <1>2, <1>4, <2>1, FS_AddElement DEF t
<1>5. CASE d.charged # p
  <2>1. Charges(t, p, from) = Charges(s, p, from)
    BY <1>1, <1>3, <1>5 DEF Charges
  <2> QED
    BY <1>5, <2>1, ChargesFinite DEF t
<1> QED
  BY <1>4, <1>5

\* What is left to commit once the next decision is stored.
LEMMA ChargesRest ==
  ASSUME NEW s \in Seq(Decision), NEW p, NEW from \in DOMAIN s
  PROVE  Cardinality(Charges(s, p, from)) =
           Cardinality(Charges(s, p, from + 1)) + (IF s[from].charged = p THEN 1 ELSE 0)
<1>1. DOMAIN s = 1 .. Len(s) /\ Len(s) \in Nat
  OBVIOUS
<1>2. from \notin Charges(s, p, from + 1) /\ IsFiniteSet(Charges(s, p, from + 1))
  <2>1. from \notin Charges(s, p, from + 1)
    BY <1>1 DEF Charges
  <2> QED
    BY <2>1, ChargesFinite
<1>3. CASE s[from].charged = p
  <2>1. Charges(s, p, from) = Charges(s, p, from + 1) \cup {from}
    BY <1>1, <1>3 DEF Charges
  <2> QED
    BY <1>2, <1>3, <2>1, FS_AddElement
<1>4. CASE s[from].charged # p
  <2>1. Charges(s, p, from) = Charges(s, p, from + 1)
    BY <1>1, <1>4 DEF Charges
  <2> QED
    BY <1>4, <2>1, ChargesFinite
<1> QED
  BY <1>3, <1>4

-----------------------------------------------------------------------------
(* The plugin's copy of the uses and the server's *)

Limited(p) == book[p].limit # Unlimited

Planned(p) == Cardinality(Charges(plan, p, 1))

\* Decisions of the plan that are not committed yet.
From == IF pc = "evaluating" THEN 1 ELSE next
Uncommitted(p) == Cardinality(Charges(plan, p, From))

\* The server never counts up beyond the limit.
UsesWithinLimits ==
  \A p \in Policy : Limited(p) /\ uses[p] \in Nat => uses[p] <= book[p].limit

\* Only policies of the bundle are charged, and only for members they are about.
ChargedFromBundle ==
  \A i \in DOMAIN plan : plan[i].charged # NoPolicy =>
    plan[i].charged \in DOMAIN bundle /\ i \in book[plan[i].charged].members

\* The plugin's copy and the plan share the limit.
BundleSharesLimit ==
  \A p \in DOMAIN bundle : Limited(p) =>
    IF bundle[p] = Unlimited THEN Planned(p) = 0 ELSE Planned(p) + bundle[p] <= book[p].limit

\* As long as nobody interferes, the server has the uses of the plugin's copy
\* and those the uncommitted part of the plan will take.
Agrees(p) ==
  /\ p \in live
  /\ bundle[p] # Unlimited /\ uses[p] # Unlimited => uses[p] = Uncommitted(p) + bundle[p]
  /\ bundle[p] # Unlimited /\ uses[p] = Unlimited =>
       Limited(p) /\ book[p].limit = Uncommitted(p) + bundle[p]
  /\ bundle[p] = Unlimited => uses[p] = Unlimited /\ (Limited(p) => Uncommitted(p) = 0)

ServerAgrees ==
  others = 0 /\ pc \in {"evaluating", "committing"} => \A p \in DOMAIN bundle : Agrees(p)

\* What the shared limits rest on, and the part of it that interference spares.
UsesInv ==
  /\ UsesWithinLimits
  /\ ChargedFromBundle
  /\ BundleSharesLimit
  /\ ServerAgrees

\* Charging a use keeps the count within the limit.
LEMMA ChargeWithinLimits ==
  ASSUME PlanTypeOK, UsesWithinLimits, NEW p \in Policy \cup {NoPolicy}
  PROVE  \A q \in Policy : Limited(q) /\ Charge(p)[q] \in Nat => Charge(p)[q] <= book[q].limit
<1> USE GroupPlanAssumption, PolicyAssumption
<1>1. \A q \in Policy : /\ uses[q] \in Nat \cup {Unlimited}
                        /\ book[q].limit \in (Nat \ {0}) \cup {Unlimited}
  BY DEF PlanTypeOK, Entry, Uses
<1>2. uses \in [Policy -> Uses]
  BY DEF PlanTypeOK
<1>3. CASE p = NoPolicy
  BY <1>3 DEF Charge, UsesWithinLimits
<1>4. CASE p \in Policy
  <2>1. \A q \in Policy : q # p => Charge(p)[q] = uses[q]
    BY <1>2, <1>4 DEF Charge
  <2>2. /\ uses[p] = 0 => Charge(p)[p] = uses[p]
        /\ uses[p] # 0 /\ uses[p] # Unlimited => Charge(p)[p] = uses[p] - 1
        /\ uses[p] = Unlimited /\ Limited(p) => Charge(p)[p] = book[p].limit - 1
    BY <1>1, <1>2, <1>4 DEF Charge, Limited
  <2>3. Limited(p) /\ Charge(p)[p] \in Nat => Charge(p)[p] <= book[p].limit
    BY <1>1, <1>4, <2>2 DEF UsesWithinLimits, Limited
  <2> QED
    BY <1>4, <2>1, <2>3 DEF UsesWithinLimits
<1> QED
  BY <1>3, <1>4

\* No decision is left uncommitted, or planned, of an empty plan.
LEMMA NothingPlanned ==
  ASSUME NEW p, NEW from
  PROVE  Cardinality(Charges(<<>>, p, from)) = 0
<1>1. Charges(<<>>, p, from) = {}
  BY DEF Charges
<1> QED
  BY <1>1, FS_EmptySet

\* Counts are numbers.
LEMMA CountsTyped ==
  ASSUME PlanTypeOK, NEW p \in Policy
  PROVE  /\ Planned(p) \in Nat /\ Uncommitted(p) \in Nat
         /\ uses[p] \in Nat \cup {Unlimited}
         /\ book[p].limit \in (Nat \ {0}) \cup {Unlimited}
         /\ p \in DOMAIN bundle => bundle[p] \in Nat \cup {Unlimited}
<1>1. plan \in Seq(Decision)
  BY DEF PlanTypeOK
<1>2. Planned(p) \in Nat /\ Uncommitted(p) \in Nat
  BY <1>1, ChargesFinite DEF Planned, Uncommitted
<1> QED
  BY <1>2 DEF PlanTypeOK, Entry, Uses

\* A bundle is a copy, and nothing is planned on it yet.
LEMMA FetchKeepsUses ==
  ASSUME IInv, UsesInv, FetchBundle
  PROVE  UsesInv'
<1> USE GroupPlanAssumption
<1>1. PlanTypeOK
  BY DEF IInv
<1>2. /\ bundle' = [p \in Available |-> uses[p]]
      /\ plan' = <<>> /\ pc' = "evaluating"
      /\ UNCHANGED <<book, uses, live, next>>
  BY DEF FetchBundle, server
<1>3. Available \subseteq Policy /\ Available \subseteq live
  BY <1>1 DEF Available, PlanTypeOK
<1>4. \A p : Planned(p)' = 0 /\ Uncommitted(p)' = 0
  BY <1>2, NothingPlanned DEF Planned, Uncommitted, From
<1>5. UsesWithinLimits'
  BY <1>2 DEF UsesInv, UsesWithinLimits, Limited
<1>6. ChargedFromBundle'
  BY <1>2 DEF ChargedFromBundle
<1>7. \A p \in DOMAIN bundle' : p \in Policy /\ p \in live /\ bundle'[p] = uses[p]
  BY <1>2, <1>3
<1>8. BundleSharesLimit'
  <2>1. ASSUME NEW p \in DOMAIN bundle', Limited(p)
        PROVE  IF bundle'[p] = Unlimited THEN Planned(p)' = 0
               ELSE Planned(p)' + bundle'[p] <= book[p].limit
    BY <1>1, <1>4, <1>7, <2>1, CountsTyped DEF UsesInv, UsesWithinLimits
  <2> QED
    BY <1>2, <2>1 DEF BundleSharesLimit, Limited
<1>9. ServerAgrees'
  <2>1. ASSUME NEW p \in DOMAIN bundle' PROVE Agrees(p)'
    <3>1. uses[p] \in Nat \cup {Unlimited}
      BY <1>1, <1>7, CountsTyped
    <3> QED
      BY <1>2, <1>4, <1>7, <3>1 DEF Agrees
  <2> QED
    BY <2>1 DEF ServerAgrees
<1> QED
  BY <1>5, <1>6, <1>8, <1>9 DEF UsesInv

\* A decision takes its use from the copy before the next member is decided for.
LEMMA EvaluationKeepsUses ==
  ASSUME IInv, UsesInv, EvaluateMember
  PROVE  UsesInv'
<1> USE GroupPlanAssumption, PolicyAssumption
<1>1. PlanTypeOK
  BY DEF IInv
<1> DEFINE m == Len(plan) + 1
           D == MemberPolicies(m)
<1>2. D \subseteq DOMAIN bundle /\ DOMAIN bundle \subseteq Policy
  BY <1>1 DEF MemberPolicies, PlanTypeOK
<1>3. PICK v \in [D -> Verdict] :
        /\ plan' = Append(plan, DecisionOn(v))
        /\ bundle' = Spend(DecisionOn(v).charged)
  BY DEF EvaluateMember, Evaluations, Verdict
<1> DEFINE d == DecisionOn(v)
<1>4. /\ pc = "evaluating" /\ pc' = pc
      /\ UNCHANGED <<book, uses, live, others>>
  BY DEF EvaluateMember, server
<1>5. d \in Decision /\ d.charged \in D \cup {NoPolicy}
  <2> HIDE DEF D
  <2> QED BY <1>1, <1>2, DecisionTyped DEF PlanTypeOK
<1>6. /\ plan \in Seq(Decision) /\ Len(plan) \in Nat
      /\ DOMAIN plan' = 1 .. m
      /\ \A i \in 1 .. Len(plan) : plan'[i] = plan[i]
      /\ plan'[m] = d
  <2>1. plan \in Seq(Decision) /\ Len(plan) \in Nat
    BY <1>1 DEF PlanTypeOK
  <2> HIDE DEF D, d
  <2> QED BY <1>3, <2>1 DEF d
<1>7. \A p \in D : p \in DOMAIN bundle /\ m \in book[p].members /\ bundle[p] # 0
  BY DEF MemberPolicies
<1>8. bundle' = Spend(d.charged)
  BY <1>3
<1> HIDE DEF D, d
<1>9. DOMAIN bundle' = DOMAIN bundle /\ bundle \in [DOMAIN bundle -> Uses]
  BY <1>1, <1>2, <1>5, <1>8, SpendTyped DEF PlanTypeOK
<1>10. \A p : /\ Planned(p)' = Planned(p) + (IF d.charged = p THEN 1 ELSE 0)
              /\ Uncommitted(p)' = Uncommitted(p) + (IF d.charged = p THEN 1 ELSE 0)
  <2>1. 1 \in 1 .. Len(plan) + 1
    BY <1>6
  <2>2. \A p : Cardinality(Charges(plan', p, 1)) =
                 Cardinality(Charges(plan, p, 1)) + (IF d.charged = p THEN 1 ELSE 0)
    BY <1>3, <1>5, <1>6, <2>1, ChargesAppend DEF d
  <2> QED
    BY <1>4, <2>2 DEF Planned, Uncommitted, From
<1>11. /\ \A p \in DOMAIN bundle : p # d.charged => bundle'[p] = bundle[p]
       /\ d.charged # NoPolicy =>
            /\ d.charged \in DOMAIN bundle /\ bundle[d.charged] # 0
            /\ bundle[d.charged] # Unlimited => bundle'[d.charged] = bundle[d.charged] - 1
            /\ bundle[d.charged] = Unlimited =>
                 bundle'[d.charged] = IF Limited(d.charged) THEN book[d.charged].limit - 1
                                      ELSE Unlimited
  BY <1>2, <1>5, <1>7, <1>8, <1>9 DEF Spend, Limited
<1>12. UsesWithinLimits'
  BY <1>4 DEF UsesInv, UsesWithinLimits, Limited
<1>13. ChargedFromBundle'
  <2>1. ASSUME NEW i \in DOMAIN plan', plan'[i].charged # NoPolicy
        PROVE  plan'[i].charged \in DOMAIN bundle /\ i \in book[plan'[i].charged].members
    <3>1. CASE i = m
      BY <1>5, <1>6, <1>7, <2>1, <3>1
    <3>2. CASE i # m
      <4>1. i \in 1 .. Len(plan) /\ DOMAIN plan = 1 .. Len(plan)
        BY <1>6, <3>2
      <4> QED
        BY <1>6, <2>1, <4>1 DEF UsesInv, ChargedFromBundle
    <3> QED
      BY <3>1, <3>2
  <2> QED
    BY <1>4, <1>9, <2>1 DEF ChargedFromBundle
<1>14. BundleSharesLimit'
  <2>1. ASSUME NEW p \in DOMAIN bundle, Limited(p)
        PROVE  IF bundle'[p] = Unlimited THEN Planned(p)' = 0
               ELSE Planned(p)' + bundle'[p] <= book[p].limit
    <3>1. /\ p \in Policy /\ Planned(p) \in Nat
          /\ bundle[p] \in Nat \cup {Unlimited}
          /\ book[p].limit \in Nat \ {0}
      BY <1>1, <1>2, <2>1, CountsTyped DEF Limited
    <3>2. IF bundle[p] = Unlimited THEN Planned(p) = 0 ELSE Planned(p) + bundle[p] <= book[p].limit
      BY <2>1 DEF UsesInv, BundleSharesLimit
    <3>3. CASE p # d.charged
      BY <1>10, <1>11, <3>1, <3>2, <3>3
    <3>4. CASE p = d.charged /\ bundle[p] # Unlimited
      <4>1. /\ Planned(p)' = Planned(p) + 1 /\ bundle'[p] = bundle[p] - 1
            /\ bundle'[p] \in Nat
        BY <1>2, <1>10, <1>11, <3>1, <3>4
      <4> QED
        BY <3>1, <3>2, <3>4, <4>1
    <3>5. CASE p = d.charged /\ bundle[p] = Unlimited
      <4>1. Planned(p)' = 1 /\ bundle'[p] = book[p].limit - 1
        BY <1>2, <1>10, <1>11, <2>1, <3>1, <3>2, <3>5
      <4> QED
        BY <3>1, <4>1
    <3> QED
      BY <3>3, <3>4, <3>5
  <2> QED
    BY <1>4, <1>9, <2>1 DEF BundleSharesLimit, Limited
<1>15. ServerAgrees'
  <2>1. ASSUME NEW p \in DOMAIN bundle, others = 0 PROVE Agrees(p)'
    <3>1. /\ p \in Policy /\ Uncommitted(p) \in Nat
          /\ bundle[p] \in Nat \cup {Unlimited}
          /\ uses[p] \in Nat \cup {Unlimited}
          /\ book[p].limit \in (Nat \ {0}) \cup {Unlimited}
      BY <1>1, <1>2, <2>1, CountsTyped
    <3>2. Agrees(p)
      BY <1>4, <2>1 DEF UsesInv, ServerAgrees
    <3>3. CASE p # d.charged
      <4>1. Uncommitted(p)' = Uncommitted(p) /\ bundle'[p] = bundle[p]
        BY <1>10, <1>11, <3>1, <3>3
      <4> QED
        BY <1>4, <3>2, <4>1 DEF Agrees, Limited
    <3>4. CASE p = d.charged /\ bundle[p] # Unlimited
      <4>1. /\ Uncommitted(p)' = Uncommitted(p) + 1 /\ bundle'[p] = bundle[p] - 1
            /\ bundle'[p] \in Nat
        BY <1>2, <1>10, <1>11, <3>1, <3>4
      <4> QED
        BY <1>4, <3>1, <3>2, <3>4, <4>1 DEF Agrees, Limited
    <3>5. CASE p = d.charged /\ bundle[p] = Unlimited
      <4>1. /\ Uncommitted(p)' = Uncommitted(p) + 1
            /\ bundle'[p] = IF Limited(p) THEN book[p].limit - 1 ELSE Unlimited
        BY <1>2, <1>10, <1>11, <3>1, <3>5
      <4>2. Limited(p) => book[p].limit - 1 \in Nat /\ bundle'[p] # Unlimited
        BY <3>1, <4>1 DEF Limited
      <4> QED
        BY <1>4, <3>1, <3>2, <3>5, <4>1, <4>2 DEF Agrees, Limited
    <3> QED
      BY <3>3, <3>4, <3>5
  <2> QED
    BY <1>4, <1>9, <2>1 DEF ServerAgrees
<1> QED
  BY <1>12, <1>13, <1>14, <1>15 DEF UsesInv

\* What a commit charges leaves the uncommitted part of the plan with the rest.
LEMMA CommitKeepsUses ==
  ASSUME IInv, UsesInv, CommitStored
  PROVE  UsesInv'
<1> USE GroupPlanAssumption, PolicyAssumption
<1>1. PlanTypeOK
  BY DEF IInv
<1> DEFINE c == plan[next].charged
<1>2. /\ pc = "committing" /\ next \in DOMAIN plan
      /\ uses' = Charge(c) /\ next' = next + 1
      /\ UNCHANGED <<book, live, bundle, plan, pc, others>>
  <2>1. Len(plan) = MemberCount /\ next \in 1 .. MemberCount
    BY <1>1 DEF CommitStored, IInv, Progress, PlanTypeOK
  <2>2. DOMAIN plan = 1 .. Len(plan)
    BY <1>1 DEF PlanTypeOK
  <2> QED
    BY <2>1, <2>2 DEF CommitStored, plugin
<1>3. plan[next] \in Decision /\ c \in Policy \cup {NoPolicy}
  <2>1. plan \in Seq(Decision)
    BY <1>1 DEF PlanTypeOK
  <2>2. plan[next] \in Decision
    BY <1>2, <2>1
  <2> QED
    BY <2>2 DEF Decision
<1>4. \A p : /\ Planned(p)' = Planned(p)
             /\ Uncommitted(p) = Uncommitted(p)' + (IF c = p THEN 1 ELSE 0)
             /\ Uncommitted(p)' \in Nat
  <2>1. plan \in Seq(Decision)
    BY <1>1 DEF PlanTypeOK
  <2>2. \A p : Cardinality(Charges(plan, p, next)) =
                 Cardinality(Charges(plan, p, next + 1)) + (IF c = p THEN 1 ELSE 0)
    BY <1>2, <2>1, ChargesRest
  <2>3. \A p : Cardinality(Charges(plan, p, next + 1)) \in Nat
    BY <2>1, ChargesFinite
  <2> QED
    BY <1>2, <2>2, <2>3 DEF Planned, Uncommitted, From
<1> HIDE DEF c
<1>5. UsesWithinLimits'
  <2>1. \A q \in Policy : Limited(q) /\ Charge(c)[q] \in Nat => Charge(c)[q] <= book[q].limit
    BY <1>1, <1>3, ChargeWithinLimits DEF UsesInv
  <2> QED
    BY <1>2, <2>1 DEF UsesWithinLimits, Limited
<1>6. ChargedFromBundle' /\ BundleSharesLimit'
  BY <1>2, <1>4 DEF UsesInv, ChargedFromBundle, BundleSharesLimit, Limited
<1>7. ServerAgrees'
  <2>1. ASSUME NEW p \in DOMAIN bundle, others = 0 PROVE Agrees(p)'
    <3>1. /\ p \in Policy /\ Uncommitted(p) \in Nat
          /\ bundle[p] \in Nat \cup {Unlimited}
          /\ uses[p] \in Nat \cup {Unlimited}
          /\ book[p].limit \in (Nat \ {0}) \cup {Unlimited}
          /\ uses \in [Policy -> Uses]
      <4>1. p \in Policy
        BY <1>1 DEF PlanTypeOK
      <4> QED
        BY <1>1, <2>1, <4>1, CountsTyped DEF PlanTypeOK
    <3>2. Agrees(p)
      BY <1>2, <2>1 DEF UsesInv, ServerAgrees
    <3>3. CASE p # c
      <4>1. uses'[p] = uses[p] /\ Uncommitted(p)' = Uncommitted(p)
        BY <1>2, <1>3, <1>4, <3>1, <3>3 DEF Charge
      <4> QED
        BY <1>2, <3>2, <4>1 DEF Agrees, Limited
    <3>4. CASE p = c
      <4>1. Uncommitted(p) = Uncommitted(p)' + 1 /\ Uncommitted(p)' \in Nat
        BY <1>4, <3>4
      <4>2. CASE uses[p] # Unlimited
        <5>1. bundle[p] # Unlimited /\ uses[p] = Uncommitted(p) + bundle[p]
          BY <3>2, <4>2 DEF Agrees
        <5>2. uses'[p] = uses[p] - 1
          BY <1>2, <3>1, <3>4, <4>1, <4>2, <5>1 DEF Charge
        <5>3. uses'[p] = Uncommitted(p)' + bundle[p] /\ uses'[p] \in Nat
          BY <3>1, <4>1, <5>1, <5>2
        <5> QED
          BY <1>2, <3>2, <5>1, <5>3 DEF Agrees, Limited
      <4>3. CASE uses[p] = Unlimited /\ Limited(p)
        <5>1. bundle[p] # Unlimited /\ book[p].limit = Uncommitted(p) + bundle[p]
          BY <3>1, <3>2, <4>1, <4>3 DEF Agrees
        <5>2. uses'[p] = book[p].limit - 1
          BY <1>2, <3>1, <3>4, <4>3 DEF Charge, Limited
        <5>3. uses'[p] = Uncommitted(p)' + bundle[p] /\ uses'[p] \in Nat
          BY <3>1, <4>1, <5>1, <5>2
        <5> QED
          BY <1>2, <3>2, <5>1, <5>3 DEF Agrees, Limited
      <4>4. CASE uses[p] = Unlimited /\ ~Limited(p)
        <5>1. bundle[p] = Unlimited
          BY <3>2, <4>4 DEF Agrees
        <5>2. uses'[p] = Unlimited
          BY <1>2, <3>1, <3>4, <4>4 DEF Charge, Limited
        <5> QED
          BY <1>2, <3>2, <4>4, <5>1, <5>2 DEF Agrees, Limited
      <4> QED
        BY <4>2, <4>3, <4>4
    <3> QED
      BY <3>3, <3>4
  <2> QED
    BY <1>2, <2>1 DEF ServerAgrees
<1> QED
  BY <1>5, <1>6, <1>7 DEF UsesInv

\* Interference keeps the counts within the limits, and ends the agreement.
LEMMA OthersKeepUses ==
  ASSUME IInv, UsesInv, NEW p \in Policy, OthersCharge(p) \/ PolicySwitches(p)
  PROVE  UsesInv'
<1> USE GroupPlanAssumption
<1>1. PlanTypeOK
  BY DEF IInv
<1>2. /\ others' = others + 1 /\ others \in Nat
      /\ uses' = uses \/ uses' = Charge(p)
      /\ UNCHANGED <<book, bundle, plan>>
  BY <1>1 DEF OthersCharge, PolicySwitches, plugin, PlanTypeOK
<1>3. \A q \in Policy : Limited(q) /\ Charge(p)[q] \in Nat => Charge(p)[q] <= book[q].limit
  BY <1>1, ChargeWithinLimits DEF UsesInv
<1>4. UsesWithinLimits'
  BY <1>2, <1>3 DEF UsesInv, UsesWithinLimits, Limited
<1>5. ChargedFromBundle' /\ BundleSharesLimit'
  BY <1>2 DEF UsesInv, ChargedFromBundle, BundleSharesLimit, Limited, Planned
<1>6. ServerAgrees'
  BY <1>2 DEF ServerAgrees
<1> QED
  BY <1>4, <1>5, <1>6 DEF UsesInv

\* Steps that touch neither the counts nor the plan, and commit nothing.
LEMMA QuietKeepsUses ==
  ASSUME UsesInv, UNCHANGED <<book, uses, live, bundle, plan, others>>,
         pc' \in {"evaluating", "committing"} =>
           pc \in {"evaluating", "committing"} /\ From' = From
  PROVE  UsesInv'
<1>1. \A p : Planned(p)' = Planned(p) /\ (From' = From => Uncommitted(p)' = Uncommitted(p))
  BY DEF Planned, Uncommitted
<1>2. UsesWithinLimits' /\ ChargedFromBundle' /\ BundleSharesLimit'
  BY <1>1 DEF UsesInv, UsesWithinLimits, ChargedFromBundle, BundleSharesLimit, Limited
<1>3. ServerAgrees'
  <2>1. ASSUME others = 0, pc' \in {"evaluating", "committing"}, NEW p \in DOMAIN bundle
        PROVE  Agrees(p)'
    BY <1>1, <2>1 DEF UsesInv, ServerAgrees, Agrees, Limited
  <2> QED
    BY <2>1 DEF ServerAgrees
<1> QED
  BY <1>2, <1>3 DEF UsesInv

\* Every step keeps the counts and the plan in agreement.
LEMMA NextKeepsUses == IInv /\ UsesInv /\ [Next]_vars => UsesInv'
<1> SUFFICES ASSUME IInv, UsesInv, [Next]_vars PROVE UsesInv'
  OBVIOUS
<1>1. CASE FetchBundle
  BY <1>1, FetchKeepsUses
<1>2. CASE EvaluateMember
  BY <1>2, EvaluationKeepsUses
<1>3. CASE StartCommits
  BY <1>3, QuietKeepsUses DEF StartCommits, server, plugin, From
<1>4. CASE CommitStored
  BY <1>4, CommitKeepsUses
<1>5. CASE CommitRefused
  BY <1>5, QuietKeepsUses DEF CommitRefused, server, plugin
<1>6. CASE StartSends
  BY <1>6, QuietKeepsUses DEF StartSends, server, plugin
<1>7. CASE SendNext
  BY <1>7, QuietKeepsUses DEF SendNext, server, plugin
<1>8. CASE Finish
  BY <1>8, QuietKeepsUses DEF Finish, server, plugin
<1>9. CASE PlanDies
  BY <1>9, QuietKeepsUses DEF PlanDies, server, plugin
<1>10. ASSUME NEW p \in Policy, OthersCharge(p) \/ PolicySwitches(p) PROVE UsesInv'
  BY <1>10, OthersKeepUses
<1>11. CASE UNCHANGED vars
  BY <1>11, QuietKeepsUses DEF vars, From
<1> QED
  BY <1>1, <1>2, <1>3, <1>4, <1>5, <1>6, <1>7, <1>8, <1>9, <1>10, <1>11 DEF Next

\* Every policy starts with its limit of uses, or with none counted yet.
LEMMA InitKeepsUses == Init => UsesInv
<1> USE GroupPlanAssumption
<1> SUFFICES ASSUME Init PROVE UsesInv
  OBVIOUS
<1>1. \A p \in Policy : uses[p] = Unlimited \/ uses[p] = book[p].limit
  BY DEF Init
<1>2. book \in [Policy -> Entry]
  BY DEF Init
<1>3. UsesWithinLimits
  BY <1>1, <1>2 DEF UsesWithinLimits, Entry, Limited
<1>4. ChargedFromBundle /\ BundleSharesLimit /\ ServerAgrees
  BY DEF Init, ChargedFromBundle, BundleSharesLimit, ServerAgrees
<1> QED
  BY <1>3, <1>4 DEF UsesInv

\* The agreement of counts and plan holds in every reachable state.
THEOREM UsesInvariant == Spec => [](IInv /\ UsesInv)
<1>1. Init => UsesInv
  BY InitKeepsUses
<1>2. IInv /\ UsesInv /\ [Next]_vars => UsesInv'
  BY NextKeepsUses
<1> QED
  BY <1>1, <1>2, InductiveInvariant, PTL DEF Spec

\* A limited policy decides for no more members of a draft than it has uses, even
\* though each decision is made before any of them is charged on the server
\* (consumeSharedPolicyUse, local-policy-runtime.ts).
THEOREM LimitsAreShared == Spec => []SharedLimitsHold
<1>1. IInv /\ UsesInv => SharedLimitsHold
  <2> SUFFICES ASSUME IInv, UsesInv, NEW p \in Policy, book[p].limit # Unlimited
               PROVE  Cardinality({i \in DOMAIN plan : plan[i].charged = p}) <= book[p].limit
    BY DEF SharedLimitsHold
  <2> USE GroupPlanAssumption
  <2>1. /\ PlanTypeOK /\ DOMAIN plan = 1 .. Len(plan) /\ p # NoPolicy
    BY PolicyAssumption DEF IInv, PlanTypeOK
  <2>2. {i \in DOMAIN plan : plan[i].charged = p} = Charges(plan, p, 1)
    BY <2>1 DEF Charges
  <2>3. Planned(p) \in Nat /\ book[p].limit \in Nat \ {0}
    BY <2>1, CountsTyped
  <2>4. CASE p \in DOMAIN bundle
    <3>1. bundle[p] \in Nat \cup {Unlimited}
      BY <2>1, <2>4, CountsTyped
    <3>2. IF bundle[p] = Unlimited THEN Planned(p) = 0
          ELSE Planned(p) + bundle[p] <= book[p].limit
      BY <2>4 DEF UsesInv, BundleSharesLimit, Limited
    <3>3. Planned(p) <= book[p].limit
      BY <2>3, <3>1, <3>2
    <3> QED
      BY <2>2, <3>3 DEF Planned
  <2>5. CASE p \notin DOMAIN bundle
    <3>1. {i \in DOMAIN plan : plan[i].charged = p} = {}
      BY <2>1, <2>5 DEF UsesInv, ChargedFromBundle
    <3>2. Cardinality({i \in DOMAIN plan : plan[i].charged = p}) = 0
      BY <3>1, FS_EmptySet
    <3> QED
      BY <2>3, <3>2
  <2> QED
    BY <2>4, <2>5
<1> QED
  BY <1>1, UsesInvariant, PTL

\* While nobody else touches the sender's policies, the server still has the use a
\* commit of the draft asks for (docs/openclaw-plugin-server-contract.md:601).
THEOREM UndisturbedDraftsCommit == Spec => []UndisturbedCommitsAreEligible
<1>1. IInv /\ UsesInv => UndisturbedCommitsAreEligible
  <2> SUFFICES ASSUME IInv, UsesInv, pc = "committing", others = 0, next <= MemberCount
               PROVE  Eligible(next)
    BY DEF UndisturbedCommitsAreEligible
  <2> USE GroupPlanAssumption
  <2> DEFINE p == plan[next].charged
  <2>1. PlanTypeOK /\ plan \in Seq(Decision) /\ DOMAIN plan = 1 .. Len(plan)
    BY DEF IInv, PlanTypeOK
  <2>2. next \in DOMAIN plan
    BY <2>1 DEF IInv, PlanTypeOK, Progress
  <2>3. CASE p = NoPolicy
    BY <2>3 DEF Eligible
  <2>4. CASE p # NoPolicy
    <3>1. p \in DOMAIN bundle /\ next \in book[p].members
      BY <2>2, <2>4 DEF UsesInv, ChargedFromBundle
    <3>2. p \in Policy
      BY <2>1, <3>1 DEF PlanTypeOK
    <3>3. Agrees(p)
      BY <3>1 DEF UsesInv, ServerAgrees
    <3>4. Uncommitted(p) >= 1
      <4>1. Cardinality(Charges(plan, p, next)) = Cardinality(Charges(plan, p, next + 1)) + 1
        BY <2>1, <2>2, ChargesRest
      <4>2. Cardinality(Charges(plan, p, next + 1)) \in Nat
        BY <2>1, ChargesFinite
      <4> QED
        BY <4>1, <4>2 DEF Uncommitted, From
    <3>5. uses[p] # 0
      <4>1. /\ Uncommitted(p) \in Nat /\ uses[p] \in Nat \cup {Unlimited}
            /\ bundle[p] \in Nat \cup {Unlimited}
        BY <2>1, <3>1, <3>2, CountsTyped
      <4> HIDE DEF p
      <4> QED
        BY <3>3, <3>4, <4>1 DEF Agrees
    <3> QED
      BY <3>1, <3>3, <3>5 DEF Eligible, Applicable, Available, Agrees
  <2> QED
    BY <2>3, <2>4
<1> QED
  BY <1>1, UsesInvariant, PTL
=============================================================================
