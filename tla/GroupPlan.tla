------------------------------- MODULE GroupPlan -------------------------------
(***************************************************************************)
(* A draft to a group, decided by the plugin: it fetches a bundle of the   *)
(* sender's policies, decides for one member after the other while it      *)
(* counts down the uses of limited policies on its own copy                *)
(* (local-policy-runtime.ts), commits the decisions in the same order and  *)
(* only then sends to the members that were allowed (tools.ts).            *)
(* Meanwhile other sends of the user charge the same policies on the       *)
(* server, policies are switched on and off, and the plugin may die.       *)
(* One policy set serves all members; Policy, verdicts and their           *)
(* resolution are those of PolicyResolution.                               *)
(***************************************************************************)
EXTENDS PolicyResolution, Sequences, FiniteSets

CONSTANTS
  MemberCount,  \* members of the group besides the sender
  Books,        \* the policies a sender may have
  Unlimited,    \* max_uses or remaining_uses is null
  MaxTries,     \* bound: times the draft is tried
  MaxOthers     \* bound: interferences by others during a try

Member == 1 .. MemberCount

\* A stored policy: its max_uses and the members it is about.
Entry == [scope : Scope, effect : Effect, phase : Phase, priority : 0 .. MaxPriority,
          limit : (Nat \ {0}) \cup {Unlimited}, members : SUBSET Member]

ASSUME GroupPlanAssumption ==
  /\ MemberCount \in Nat /\ MaxTries \in Nat /\ MaxOthers \in Nat
  /\ Unlimited \notin Nat
  /\ Books \subseteq [Policy -> Entry]

VARIABLES
  book,     \* the sender's policies
  uses,     \* remaining_uses of each policy, on the server
  live,     \* policies that are enabled and inside their effective window
  rows,     \* committed decisions
  sent,     \* messages the server has accepted for transport
  keyed,    \* the draft carries an idempotency key
  pc,       \* what the plugin is doing
  tries,    \* times it has fetched a bundle for the draft
  bundle,   \* its copy of remaining_uses of the policies in the bundle
  plan,     \* its decisions, in the order of the members
  next,     \* the member whose decision it commits or sends next
  verdict,  \* history: what the policies said of the member decided last
  others    \* history: times others have changed a policy since the bundle was made

server == <<book, uses, live>>
plugin == <<keyed, tries, bundle, plan>>
vars == <<book, uses, live, rows, sent, keyed, pc, tries, bundle, plan, next, verdict,
          others>>

Uses == Nat \cup {Unlimited}

Decision == [effect : Effect, charged : Policy \cup {NoPolicy}]

NoVerdict == [p \in {} |-> "pass"]

Row == [try : 1 .. MaxTries, to : Member, effect : Effect]

PlanTypeOK ==
  /\ book \in [Policy -> Entry]
  /\ uses \in [Policy -> Uses]
  /\ live \subseteq Policy
  /\ rows \subseteq Row
  /\ sent \subseteq (1 .. MaxTries) \X Member
  /\ keyed \in BOOLEAN
  /\ pc \in {"idle", "evaluating", "committing", "sending", "aborted", "done"}
  /\ tries \in 0 .. MaxTries
  /\ DOMAIN bundle \subseteq Policy /\ bundle \in [DOMAIN bundle -> Uses]
  /\ plan \in Seq(Decision) /\ Len(plan) <= MemberCount
  /\ next \in 1 .. MemberCount + 1
  /\ DOMAIN verdict \subseteq Policy
  /\ verdict \in [DOMAIN verdict -> {"match", "pass", "unknown"}]
  /\ others \in 0 .. MaxOthers

-----------------------------------------------------------------------------
(* The server: what it would apply now, and how it charges a use *)

Available == {p \in live : uses[p] # 0}
Applicable(m) == {p \in Available : m \in book[p].members}

\* consumeWinningPolicyUse
Charge(p) ==
  IF p = NoPolicy \/ uses[p] = 0 THEN uses
  ELSE IF uses[p] # Unlimited THEN [uses EXCEPT ![p] = @ - 1]
  ELSE IF book[p].limit # Unlimited THEN [uses EXCEPT ![p] = book[p].limit - 1]
  ELSE uses

-----------------------------------------------------------------------------
(* The plugin evaluates *)

\* POST /plugin/bundles/group-fanout
FetchBundle ==
  /\ pc \in {"idle", "aborted"} /\ tries < MaxTries
  /\ tries' = tries + 1
  /\ bundle' = [p \in Available |-> uses[p]]
  /\ plan' = <<>>
  /\ pc' = "evaluating"
  /\ others' = 0
  /\ UNCHANGED <<server, rows, sent, keyed, next, verdict>>

\* Mutant: the plugin works on the counts of the bundle.
BugSpend(p) == bundle

\* consumeSharedPolicyUse
Spend(p) ==
  IF p = NoPolicy \/ bundle[p] = 0 THEN bundle
  ELSE IF bundle[p] # Unlimited THEN [bundle EXCEPT ![p] = @ - 1]
  ELSE IF book[p].limit # Unlimited THEN [bundle EXCEPT ![p] = book[p].limit - 1]
  ELSE bundle

\* Mutant: policies without uses left are evaluated too.
BugMemberPolicies(m) == {p \in DOMAIN bundle : m \in book[p].members}

\* buildMemberEvaluationPolicies
MemberPolicies(m) == {p \in DOMAIN bundle : m \in book[p].members /\ bundle[p] # 0}

Evaluations(m) ==
  {v \in [MemberPolicies(m) -> {"match", "pass", "unknown"}] :
     \A p \in DOMAIN v : v[p] \in Verdicts(book[p].phase)}

DecisionOn(v) ==
  [effect |-> FinalEffect(Matches(book, v)), charged |-> ChargedPolicy(Matches(book, v))]

\* The next member, once the LLM has answered for it.
EvaluateMember ==
  /\ pc = "evaluating" /\ Len(plan) < MemberCount
  /\ \E v \in Evaluations(Len(plan) + 1) :
        /\ plan' = Append(plan, DecisionOn(v))
        /\ bundle' = Spend(DecisionOn(v).charged)
        /\ verdict' = v
  /\ UNCHANGED <<server, rows, sent, keyed, pc, tries, next, others>>

StartCommits ==
  /\ pc = "evaluating" /\ Len(plan) = MemberCount
  /\ pc' = "committing"
  /\ next' = 1
  /\ verdict' = NoVerdict
  /\ UNCHANGED <<server, rows, sent, plugin, others>>

-----------------------------------------------------------------------------
(* The plugin commits, then sends *)

\* The winner is still eligible; otherwise LOCAL_DECISION_STALE.
Eligible(m) == plan[m].charged \in Applicable(m) \cup {NoPolicy}

\* Mutant: the key of the draft is not the key of the member's decision.
BugConflict(m) == FALSE

\* The member's key is bound to the resolution of an earlier try.
Conflict(m) == keyed /\ \E r \in rows : r.to = m

\* Mutant: a member is sent to as soon as its decision is stored.
BugCommitStored ==
  /\ pc = "committing" /\ next <= MemberCount
  /\ Eligible(next) /\ ~Conflict(next)
  /\ rows' = rows \cup {[try |-> tries, to |-> next, effect |-> plan[next].effect]}
  /\ uses' = Charge(plan[next].charged)
  /\ sent' = IF plan[next].effect = "allow" THEN sent \cup {<<tries, next>>} ELSE sent
  /\ next' = next + 1
  /\ UNCHANGED <<book, live, plugin, pc, verdict, others>>

\* POST /plugin/local-decisions/commit
CommitStored ==
  /\ pc = "committing" /\ next <= MemberCount
  /\ Eligible(next) /\ ~Conflict(next)
  /\ rows' = rows \cup {[try |-> tries, to |-> next, effect |-> plan[next].effect]}
  /\ uses' = Charge(plan[next].charged)
  /\ next' = next + 1
  /\ UNCHANGED <<book, live, sent, plugin, pc, verdict, others>>

\* The first refusal ends the tool call.
CommitRefused ==
  /\ pc = "committing" /\ next <= MemberCount
  /\ ~Eligible(next) \/ Conflict(next)
  /\ pc' = "aborted"
  /\ UNCHANGED <<server, rows, sent, plugin, next, verdict, others>>

StartSends ==
  /\ pc = "committing" /\ next = MemberCount + 1
  /\ pc' = "sending"
  /\ next' = 1
  /\ UNCHANGED <<server, rows, sent, plugin, verdict, others>>

\* POST /messages/send for a member that is allowed.  A send that fails is noted
\* and the next member's turn comes.
SendNext ==
  /\ pc = "sending" /\ next <= MemberCount
  /\ sent' \in {sent} \cup
       {sent \cup {<<tries, next>>} : e \in {plan[next].effect} \cap {"allow"}}
  /\ next' = next + 1
  /\ UNCHANGED <<server, rows, plugin, pc, verdict, others>>

Finish ==
  /\ pc = "sending" /\ next = MemberCount + 1
  /\ pc' = "done"
  /\ UNCHANGED <<server, rows, sent, plugin, next, verdict, others>>

\* The plugin dies, or a request fails before or after the server has acted.
PlanDies ==
  /\ pc \in {"evaluating", "committing", "sending"}
  /\ pc' = "aborted"
  /\ verdict' = NoVerdict
  /\ UNCHANGED <<server, rows, sent, plugin, next, others>>

-----------------------------------------------------------------------------
(* Others *)

\* Another send or commit of the user is decided by a policy.
OthersCharge(p) ==
  /\ p \in Available
  /\ uses' = Charge(p)
  /\ uses' # uses
  /\ others < MaxOthers /\ others' = others + 1
  /\ UNCHANGED <<book, live, rows, sent, plugin, pc, next, verdict>>

\* A policy is switched, edited or deleted, takes effect or expires.
PolicySwitches(p) ==
  /\ live' = IF p \in live THEN live \ {p} ELSE live \cup {p}
  /\ others < MaxOthers /\ others' = others + 1
  /\ UNCHANGED <<book, uses, rows, sent, plugin, pc, next, verdict>>

-----------------------------------------------------------------------------
Init ==
  /\ book \in Books
  /\ \E null \in SUBSET Policy : uses = [p \in Policy |->
       IF p \in null THEN Unlimited ELSE book[p].limit]
  /\ live = Policy
  /\ rows = {} /\ sent = {}
  /\ keyed \in BOOLEAN
  /\ pc = "idle" /\ tries = 0
  /\ bundle = [p \in {} |-> 0]
  /\ plan = <<>> /\ next = 1
  /\ verdict = NoVerdict /\ others = 0

Next ==
  \/ FetchBundle
  \/ EvaluateMember
  \/ StartCommits
  \/ CommitStored
  \/ CommitRefused
  \/ StartSends
  \/ SendNext
  \/ Finish
  \/ PlanDies
  \/ \E p \in Policy : OthersCharge(p)
  \/ \E p \in Policy : PolicySwitches(p)

Spec == Init /\ [][Next]_vars

-----------------------------------------------------------------------------
(* Safety *)

Evaluated == pc = "evaluating" /\ plan # <<>>
Last == plan[Len(plan)]

\* The plugin decides for later members on counts that already include what it
\* has not committed yet.  Unless others interfere, no commit of the draft is
\* refused because its winning policy has run out
\* (docs/openclaw-plugin-server-contract.md:601).
UndisturbedCommitsAreEligible ==
  pc = "committing" /\ others = 0 /\ next <= MemberCount => Eligible(next)

\* A limited policy decides for no more members of one draft than it has uses.
SharedLimitsHold ==
  \A p \in Policy : book[p].limit # Unlimited =>
    Cardinality({i \in DOMAIN plan : plan[i].charged = p}) <= book[p].limit

\* No member is sent anything before the decisions about all members are stored,
\* so that a refused commit leaves nobody with the message.
AllStoredBeforeAnySent ==
  \A s \in sent : \A m \in Member : \E r \in rows : r.try = s[1] /\ r.to = m

\* Only a stored decision to allow is sent.
SentWasAllowed ==
  \A s \in sent : [try |-> s[1], to |-> s[2], effect |-> "allow"] \in rows

\* However often a draft with a key is tried again, each member gets it once.
KeyedDraftIsSentOnce ==
  keyed => \A s, t \in sent : s[2] = t[2] => s = t

\* The verdicts an LLM might have given where it gave none.
Completions(v) ==
  {w \in [DOMAIN v -> {"match", "pass"}] : \A p \in DOMAIN v : v[p] \in {w[p], "unknown"}}

\* A draft is allowed although an LLM policy could not be evaluated only if it
\* is allowed whatever the verdict (docs/openclaw-plugin-server-contract.md:50).
MissingVerdictsFailClosed ==
  Evaluated /\ Last.effect = "allow" =>
    \A w \in Completions(verdict) : FinalEffect(Matches(book, w)) = "allow"

\* The policies of the group can only tighten what the sender's other policies say.
GroupOnlyTightens ==
  Evaluated =>
    LET M == Matches(book, verdict)
    IN EFFECT_PRECEDENCE[Last.effect] >=
         EFFECT_PRECEDENCE[FinalEffect(M \ InScope(M, "group"))]
=============================================================================
