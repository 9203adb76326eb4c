---------------------------- MODULE LocalDecisions ----------------------------
(***************************************************************************)
(* What may be sent, and on whose authority: local decisions committed by  *)
(* a plugin (POST /plugin/local-decisions/commit, routes/plugin.ts), sends *)
(* (POST /messages/send to a user, routes/messages.ts) that resume them or *)
(* are evaluated by the server, and the uses of limited policies both      *)
(* spend (services/policy.ts).  One sender, one recipient.                 *)
(*                                                                         *)
(* A handler is one step between two waits.  A commit never waits.  A send *)
(* waits only while the server evaluates policies (Trusted, plaintext),    *)
(* where an LLM may be asked, so that it ends on what it read before.  A   *)
(* request that is refused changes nothing and is no step of its own.      *)
(***************************************************************************)
EXTENDS Integers, FiniteSets

CONSTANTS
  Res,        \* resolution ids the plugin makes up
  Fresh,      \* resolution ids the server makes up for sends that bring none
  NoRes,      \* resolution_id left out
  Key,        \* idempotency keys
  NoKey,      \* idempotency_key left out
  Content,    \* payload, selectors and context of a draft
  Encrypted,  \* contents of type application/mahilo+ciphertext
  Guarded,    \* contents a platform guardrail blocks
  Inbound,    \* contents whose direction is inbound: a request to the recipient
  Policy,     \* policies that apply between the two users
  NoPolicy,   \* no winning policy
  Effect,     \* effect of each policy
  MaxUses,    \* max_uses of each policy, Unlimited for null
  Unlimited,
  Call,       \* evaluations that may be under way at a time
  MaxGrant,   \* bound: uses a PATCH may bring a policy to, the charged ones included
  Trusted,    \* config.trustedMode
  HoldInbound \* config.inboundAskMode is hold_for_approval

ASSUME LocalDecisionsAssumption ==
  /\ NoRes \notin Res \cup Fresh /\ Res \cap Fresh = {}
  /\ NoKey \notin Key /\ NoPolicy \notin Policy
  /\ Encrypted \subseteq Content /\ Guarded \subseteq Content /\ Inbound \subseteq Content
  /\ Effect \in [Policy -> {"allow", "ask", "deny"}]
  /\ MaxUses \in [Policy -> (Nat \ {0}) \cup {Unlimited}] /\ Unlimited \notin Nat
  /\ MaxGrant \in Nat
  /\ Trusted \in BOOLEAN /\ HoldInbound \in BOOLEAN

VARIABLES
  rows,     \* messages of the sender
  uses,     \* remaining_uses of each policy
  live,     \* policies that are enabled and inside their effective window
  friend,   \* the two users are friends
  member,   \* both are active members of the group
  evals,    \* sends that wait for their evaluation
  spent,    \* history: uses charged to each policy
  given,    \* history: uses each limited policy was given
  posts     \* history: times the message of a resolution was handed to deliverMessage

vars == <<rows, uses, live, friend, member, evals, spent, given, posts>>

-----------------------------------------------------------------------------
(* Types *)

\* A decision with its delivery mode: full_send, review_required,
\* hold_for_approval, blocked.
Decision == {"allow", "review", "hold", "deny"}

EffectOf(d) == IF d \in {"review", "hold"} THEN "ask" ELSE d

\* The message's status follows from these: it is pending until deliverMessage
\* has settled it when decision is "allow", review_required, approval_pending
\* or rejected otherwise.
Row == [res : Res \cup Fresh, key : Key \cup {NoKey}, content : Content,
        decision : Decision, policy : Policy \cup {NoPolicy},
        local : BOOLEAN,   \* carries a local_decision_commit marker
        group : BOOLEAN,   \* the marker names the group
        sent : BOOLEAN]    \* recipient_connection_id is set

Request == [res : Res \cup {NoRes}, key : Key \cup {NoKey}, content : Content]

\* What a send read before its wait: the policies that applied, and those of
\* them whose remaining_uses was null.
Evaluation == [call : Call, request : Request, applicable : SUBSET Policy,
               unused : SUBSET Policy]

Limited(p) == MaxUses[p] # Unlimited
Bound(p) == IF Limited(p) THEN MaxUses[p] ELSE 0

TypeOK ==
  /\ rows \subseteq Row
  /\ uses \in [Policy -> Nat \cup {Unlimited}]
  /\ \A p \in Policy : uses[p] \in 0 .. Bound(p) \cup {Unlimited}
  /\ live \subseteq Policy
  /\ friend \in BOOLEAN /\ member \in BOOLEAN
  /\ evals \subseteq Evaluation
  /\ spent \in [Policy -> Nat] /\ given \in [Policy -> Nat]
  /\ posts \in [Res \cup Fresh -> Nat]

-----------------------------------------------------------------------------
(* Reads *)

ByRes(r) == {m \in rows : m.res = r}
ByKey(k) == {m \in rows : k # NoKey /\ m.key = k}

\* loadApplicablePolicies: enabled, in effect and not spent.
Applicable == {p \in live : uses[p] # 0}

Unused == {p \in Policy : uses[p] = Unlimited}

\* Mutant: a recorded recipient_connection_id is not looked at.
BugAwaiting(m) == m.local /\ m.decision = "allow"

\* isCommittedLocalAllowAwaitingTransport
Awaiting(m) == m.local /\ m.decision = "allow" /\ ~m.sent

\* A committed decision for a group member stands in for the friendship.
Access(m) == friend \/ (m.local /\ m.group /\ member)

\* shouldDeliverForDecision: a request to the recipient is delivered for review.
Delivers(d, c) == d = "allow" \/ (d = "review" /\ c \in Inbound)

\* resolveDeliveryMode
DecisionFor(effect, c) ==
  IF effect # "ask" THEN effect
  ELSE IF c \in Inbound /\ HoldInbound THEN "hold" ELSE "review"

-----------------------------------------------------------------------------
(* Writes *)

Charge(p) ==
  /\ uses' = [uses EXCEPT ![p] = IF @ = Unlimited THEN MaxUses[p] - 1 ELSE @ - 1]
  /\ spent' = [spent EXCEPT ![p] = @ + 1]

\* Mutant: a policy whose remaining_uses is null is not charged.
BugConsumeNot(p, unused) ==
  IF p # NoPolicy /\ Limited(p) /\ uses[p] \notin {0, Unlimited}
  THEN Charge(p)
  ELSE UNCHANGED <<uses, spent>>

\* Mutant: the update is not guarded by remaining_uses > 0.
BugConsumeUnguarded(p, unused) ==
  IF p # NoPolicy /\ Limited(p)
  THEN Charge(p)
  ELSE UNCHANGED <<uses, spent>>

\* consumeWinningPolicyUse: a guarded update, whose result nobody looks at.
\* remaining_uses is null until the first use of some limited policies; which of
\* the two updates is made, and its guard, depend on what was read before.
Consume(p, unused) ==
  IF p # NoPolicy /\ Limited(p) /\ uses[p] # 0 /\ (p \in unused <=> uses[p] = Unlimited)
  THEN Charge(p)
  ELSE UNCHANGED <<uses, spent>>

\* The unique indexes on (sender, resolution id) and (sender, idempotency key).
Insertable(m) == ByRes(m.res) = {} /\ ByKey(m.key) = {}

Post(r) == posts' = [posts EXCEPT ![r] = @ + 1]

-----------------------------------------------------------------------------
(* POST /plugin/local-decisions/commit *)

Commit(r, k, c, d, p, g) ==
  LET new == [res |-> r, key |-> k, content |-> c, decision |-> d, policy |-> p,
              local |-> TRUE, group |-> g, sent |-> FALSE]
  IN /\ IF g THEN member ELSE friend
     /\ ByRes(r) = {} /\ ByKey(k) = {}
     /\ p # NoPolicy => p \in Applicable /\ Effect[p] = EffectOf(d)
     /\ Consume(p, Unused)
     /\ rows' = rows \cup {new}
     /\ UNCHANGED <<live, friend, member, evals, posts, given>>

\* assertCommittedMessageMatchesLocalDecision
Matches(m, r, c, d, g) ==
  /\ m.res = r
  /\ m.content = c
  /\ m.group = g
  /\ m.decision = d

\* A retry is answered from the row of its resolution or of its key; rows of
\* two resolutions are a conflict.
CommitAgain(r, k, c, d, g) ==
  /\ IF g THEN member ELSE friend
  /\ \E m \in ByRes(r) \cup ByKey(k) :
        /\ ByRes(r) \subseteq {m} /\ ByKey(k) \subseteq {m}
        /\ Matches(m, r, c, d, g)
  /\ UNCHANGED <<rows, uses, live, friend, member, evals, spent, given, posts>>

\* The process dies after the use is charged and before the row is stored.
CommitDies(p) ==
  /\ p \in Applicable
  /\ friend \/ member
  /\ Consume(p, Unused)
  /\ evals' = {}
  /\ UNCHANGED <<rows, live, friend, member, posts, given>>

-----------------------------------------------------------------------------
(* POST /messages/send *)

\* The row of the key answers the request, unless it awaits transport under the
\* resolution the request brings.
KeyAnswers(q, m) ==
  m \in ByKey(q.key) /\ ~(m.res = q.res /\ Awaiting(m))

\* The request changes nothing, whatever its content is: that is not compared.
SendAgainByKey(q) ==
  /\ \E m \in rows : KeyAnswers(q, m)
  /\ UNCHANGED <<rows, uses, live, friend, member, evals, spent, given, posts>>

\* The handler goes past the key.
PastKey(q) == \A m \in rows : ~KeyAnswers(q, m)

\* assertResolutionBoundMessageMatchesRequest
BoundTo(q, m) == m \in ByRes(q.res) /\ Access(m) /\ m.content = q.content

\* The message was transported, kept or blocked before: the request changes nothing.
SendAgainByRes(q) ==
  /\ PastKey(q)
  /\ \E m \in rows : BoundTo(q, m) /\ ~Awaiting(m)
  /\ UNCHANGED <<rows, uses, live, friend, member, evals, spent, given, posts>>

\* Mutant: the key of the retry replaces the one that is stored.
BugResumeRebinds(q, m) ==
  /\ PastKey(q)
  /\ BoundTo(q, m) /\ Awaiting(m)
  /\ rows' = (rows \ {m}) \cup {[m EXCEPT !.key = q.key, !.sent = TRUE]}
  /\ Post(m.res)
  /\ UNCHANGED <<uses, live, friend, member, evals, spent, given>>

\* Transport of a committed allow.
Resume(q, m) ==
  /\ PastKey(q)
  /\ BoundTo(q, m) /\ Awaiting(m)
  /\ rows' = (rows \ {m}) \cup
       {[m EXCEPT !.key = IF @ = NoKey THEN q.key ELSE @, !.sent = TRUE]}
  /\ Post(m.res)
  /\ UNCHANGED <<uses, live, friend, member, evals, spent, given>>

\* The row a send stores when it has none to resume: decided now, and delivered
\* or kept from delivery.
Stored(q, r, d, p) ==
  [res |-> r, key |-> q.key, content |-> q.content, decision |-> d, policy |-> p,
   local |-> FALSE, group |-> FALSE, sent |-> TRUE]

ResOf(q) == IF q.res = NoRes THEN Fresh ELSE {q.res}

NothingToResume(q) == PastKey(q) /\ friend /\ ByRes(q.res) = {}

Readable(q) == Trusted /\ q.content \notin Encrypted
Evaluates(q) == Readable(q) /\ q.content \notin Guarded /\ Applicable # {}

\* Mutant: a resolution id of a preview is good enough.
BugSendAtOnce(q, r) ==
  LET d == IF Readable(q) /\ q.content \in Guarded THEN "deny" ELSE "allow"
  IN /\ NothingToResume(q) /\ ~Evaluates(q)
     /\ r \in ResOf(q) /\ ByRes(r) = {}
     /\ rows' = rows \cup {Stored(q, r, d, NoPolicy)}
     /\ IF d = "allow" THEN Post(r) ELSE UNCHANGED posts
     /\ UNCHANGED <<uses, live, friend, member, evals, spent, given>>

\* The handler does not wait: the server cannot read the message, is not trusted
\* to while the sender brings no resolution, blocks it by a guardrail, or finds
\* no policy to evaluate.
SendAtOnce(q, r) ==
  LET d == IF Readable(q) /\ q.content \in Guarded THEN "deny" ELSE "allow"
  IN /\ NothingToResume(q) /\ ~Evaluates(q)
     /\ Trusted \/ q.res = NoRes
     /\ r \in ResOf(q) /\ ByRes(r) = {}
     /\ rows' = rows \cup {Stored(q, r, d, NoPolicy)}
     /\ IF d = "allow" THEN Post(r) ELSE UNCHANGED posts
     /\ UNCHANGED <<uses, live, friend, member, evals, spent, given>>

\* The policies are read; then the handler may wait for the LLM.
EvaluationStarts(q, n) ==
  /\ NothingToResume(q) /\ Evaluates(q)
  /\ n \notin {e.call : e \in evals}
  /\ evals' = evals \cup {[call |-> n, request |-> q, applicable |-> Applicable,
                               unused |-> Unused \cap Applicable]}
  /\ UNCHANGED <<rows, uses, live, friend, member, spent, given, posts>>

\* Mutant: a blocked message is delivered too.
BugEvaluationEnds(e, r, p) ==
  LET q == e.request
      d == IF p = NoPolicy THEN "allow" ELSE DecisionFor(Effect[p], q.content)
      new == Stored(q, r, d, p)
  IN /\ r \in ResOf(q) /\ (q.res = NoRes => ByRes(r) = {})
     /\ evals' = evals \ {e}
     /\ Consume(p, e.unused)
     /\ IF Insertable(new)
        THEN rows' = rows \cup {new} /\ Post(r)
        ELSE UNCHANGED <<rows, posts>>
     /\ UNCHANGED <<live, friend, member, given>>

\* The winner, one of the policies read before or none of them, is charged and
\* the message stored.  When another request has stored a row under the same
\* resolution or key meanwhile, the insert fails and the request with it.
EvaluationEnds(e, r, p) ==
  LET q == e.request
      d == IF p = NoPolicy THEN "allow" ELSE DecisionFor(Effect[p], q.content)
      new == Stored(q, r, d, p)
  IN /\ r \in ResOf(q) /\ (q.res = NoRes => ByRes(r) = {})
     /\ evals' = evals \ {e}
     /\ Consume(p, e.unused)
     /\ IF Insertable(new)
        THEN /\ rows' = rows \cup {new}
             /\ IF Delivers(d, q.content) THEN Post(r) ELSE UNCHANGED posts
        ELSE UNCHANGED <<rows, posts>>
     /\ UNCHANGED <<live, friend, member, given>>

-----------------------------------------------------------------------------
(* The rest of the world *)

\* Policies are created, switched off, take effect and expire.
PolicySwitches(p) ==
  /\ live' = IF p \in live THEN live \ {p} ELSE live \cup {p}
  /\ UNCHANGED <<rows, uses, friend, member, evals, spent, given, posts>>

\* PATCH /policies/:id by its owner, remaining_uses included: null becomes max_uses.
PolicyPatched(p, n) ==
  /\ Limited(p) /\ n \in 0 .. MaxUses[p] /\ n # uses[p]
  /\ spent[p] + n <= MaxGrant
  /\ uses' = [uses EXCEPT ![p] = n]
  /\ given' = [given EXCEPT ![p] = spent[p] + n]
  /\ UNCHANGED <<rows, live, friend, member, evals, spent, posts>>

FriendshipChanges ==
  /\ friend' = ~friend
  /\ UNCHANGED <<rows, uses, live, member, evals, spent, given, posts>>

MembershipChanges ==
  /\ member' = ~member
  /\ UNCHANGED <<rows, uses, live, friend, evals, spent, given, posts>>

Restart ==
  /\ evals # {}
  /\ evals' = {}
  /\ UNCHANGED <<rows, uses, live, friend, member, spent, given, posts>>

-----------------------------------------------------------------------------
Init ==
  /\ rows = {}
  /\ \E null \in SUBSET Policy : uses = [p \in Policy |->
       IF p \in null \/ ~Limited(p) THEN Unlimited ELSE MaxUses[p]]
  /\ live \in SUBSET Policy
  /\ friend \in BOOLEAN /\ member \in BOOLEAN
  /\ evals = {}
  /\ spent = [p \in Policy |-> 0]
  /\ given = [p \in Policy |-> Bound(p)]
  /\ posts = [r \in Res \cup Fresh |-> 0]

Next ==
  \/ \E r \in Res, k \in Key \cup {NoKey}, c \in Content, d \in Decision,
        p \in Policy \cup {NoPolicy}, g \in BOOLEAN : Commit(r, k, c, d, p, g)
  \/ \E r \in Res, k \in Key \cup {NoKey}, c \in Content, d \in Decision,
        g \in BOOLEAN : CommitAgain(r, k, c, d, g)
  \/ \E p \in Policy : CommitDies(p)
  \/ \E q \in Request : SendAgainByKey(q)
  \/ \E q \in Request : SendAgainByRes(q)
  \/ \E q \in Request, m \in rows : Resume(q, m)
  \/ \E q \in Request, r \in Res \cup Fresh : SendAtOnce(q, r)
  \/ \E q \in Request, n \in Call : EvaluationStarts(q, n)
  \/ \E e \in evals, r \in Res \cup Fresh, p \in Policy \cup {NoPolicy} :
        p \in e.applicable \cup {NoPolicy} /\ EvaluationEnds(e, r, p)
  \/ \E p \in Policy : PolicySwitches(p)
  \/ \E p \in Policy : \E n \in 0 .. Bound(p) : PolicyPatched(p, n)
  \/ FriendshipChanges
  \/ MembershipChanges
  \/ Restart

Spec == Init /\ [][Next]_vars

-----------------------------------------------------------------------------
(* Safety, in both modes *)

Decided(p) == {m \in rows : m.policy = p}

\* A limited policy is never charged more uses than its owner gave it, whatever
\* races, retries and changes of its remaining_uses.
ChargedWithinLimit == \A p \in Policy : Limited(p) => spent[p] <= given[p]

\* However often a send or a commit is repeated, a resolution is transported once.
TransportedOnce == \A r \in DOMAIN posts : posts[r] <= 1

\* What was transported is a message that was decided to be delivered: never one
\* that was held for approval, kept for review by the sender, or denied.
TransportedWasDecided ==
  \A r \in DOMAIN posts : posts[r] > 0 =>
    \E m \in ByRes(r) : m.sent /\ Delivers(m.decision, m.content)

\* A stored decision stands: no later commit, send or race replaces it, its
\* content, its policy, its key or the fact that it was transported.
DecisionStands ==
  [][\A m \in rows : \E n \in rows' :
       /\ [m EXCEPT !.key = n.key, !.sent = n.sent] = n
       /\ m.key \in {NoKey, n.key}
       /\ m.sent => n.sent]_vars

-----------------------------------------------------------------------------
(* Safety while the server does not evaluate policies *)

\* Each stored decision of a limited policy has been charged to it, so that no
\* more decisions rest on the policy than it allows.
DecisionsAreCharged ==
  \A p \in Policy : Limited(p) => Cardinality(Decided(p)) <= spent[p]

\* At the moment a message leaves, the two are friends or share the group on
\* whose behalf it was decided; and what a resolution id of the plugin names
\* leaves only on a committed local decision to allow it.
AuthorisedTransport ==
  \A r \in DOMAIN posts : posts'[r] > posts[r] =>
    IF r \in Fresh THEN friend
    ELSE \E m \in ByRes(r) : m.local /\ m.decision = "allow" /\ Access(m)

TransportIsAuthorised == [][AuthorisedTransport]_vars

-----------------------------------------------------------------------------
(* What the documents promise and a wait for the evaluation breaks *)

\* docs/prd-server-policy-platform.md:251: a one-time override is consumed by
\* its use, so that no more decisions rest on a policy than it allows.
OneTimeDecidesOnce ==
  \A p \in Policy : Limited(p) => Cardinality(Decided(p)) <= MaxUses[p]
=============================================================================
