------------------------- MODULE LocalDecisionsProofs -------------------------
(***************************************************************************)
(* What LocalDecisions keeps in both modes of the server, for any number   *)
(* of policies, resolutions, keys, contents and evaluations under way: the *)
(* limits of policies, one transport of each resolution and only as it was *)
(* decided, and stored decisions that stand.                               *)
(***************************************************************************)
EXTENDS DecisionModes, FiniteSetTheorems, TLAPS

\* Uses the row of a limited policy still allows to charge.
Left(p) == IF uses[p] = Unlimited THEN MaxUses[p] ELSE uses[p]

\* What was charged and what may be charged is covered by what the owner gave.
Balance == \A p \in Policy : Limited(p) => spent[p] + Left(p) <= given[p]

\* No two rows carry the same resolution.
OneRowEach == \A m, n \in rows : m.res = n.res => m = n

\* A resolution that was handed to deliverMessage has its row, sent as decided.
PostedAsDecided ==
  \A r \in Res \cup Fresh :
    /\ posts[r] <= 1
    /\ posts[r] > 0 =>
         \E m \in rows : m.res = r /\ m.sent /\ Delivers(m.decision, m.content)

USE LocalDecisionsAssumption DEF LocalDecisionsAssumption

-----------------------------------------------------------------------------
(* The charge *)

\* What the policies have left, were charged and were given.
Counts ==
  /\ uses \in [Policy -> Nat \cup {Unlimited}]
  /\ \A p \in Policy : uses[p] \in 0 .. Bound(p) \cup {Unlimited}
  /\ spent \in [Policy -> Nat] /\ given \in [Policy -> Nat]
  /\ Balance

\* A charge is taken from what the policy has left.
LEMMA ConsumeKeepsCounts ==
  ASSUME Counts, NEW p \in Policy \cup {NoPolicy}, NEW unused,
         Consume(p, unused), given' = given
  PROVE  Counts'
<1>1. CASE UNCHANGED <<uses, spent>>
  BY <1>1 DEF Counts, Balance, Left, Bound
<1>2. CASE p \in Policy /\ Limited(p) /\ uses[p] # 0 /\ Charge(p)
  <2> DEFINE u == IF uses[p] = Unlimited THEN MaxUses[p] - 1 ELSE uses[p] - 1
  <2>1. MaxUses[p] \in Nat \ {0} /\ Bound(p) = MaxUses[p]
    BY <1>2 DEF Limited, Bound
  <2>2. uses[p] # Unlimited => uses[p] \in 1 .. MaxUses[p]
    BY <1>2, <2>1 DEF Counts
  <2>3. u \in 0 .. MaxUses[p] /\ u # Unlimited /\ u + 1 = Left(p)
    BY <2>1, <2>2 DEF Left
  <2>4. /\ uses' = [uses EXCEPT ![p] = u]
        /\ spent' = [spent EXCEPT ![p] = spent[p] + 1]
    BY <1>2 DEF Charge
  <2> HIDE DEF u
  <2>5. /\ uses' \in [Policy -> Nat \cup {Unlimited}]
        /\ \A q \in Policy : uses'[q] \in 0 .. Bound(q) \cup {Unlimited}
        /\ spent' \in [Policy -> Nat]
    BY <2>1, <2>3, <2>4, <1>2 DEF Counts, Bound
  <2>6. ASSUME NEW q \in Policy, Limited(q)
        PROVE  spent'[q] + Left(q)' <= given'[q]
    <3>1. CASE q = p
      <4>1. spent'[q] = spent[p] + 1 /\ uses'[q] = u
        BY <2>4, <3>1 DEF Counts
      <4>2. Left(q)' = u
        BY <4>1, <2>3, <3>1 DEF Left
      <4>3. spent[p] + (u + 1) <= given[p]
        BY <2>3, <1>2 DEF Counts, Balance
      <4> QED  BY <4>1, <4>2, <4>3, <2>3, <2>1, <3>1, <1>2 DEF Counts
    <3>2. CASE q # p
      BY <2>4, <2>6, <3>2 DEF Counts, Balance, Left
    <3> QED  BY <3>1, <3>2
  <2> QED  BY <2>5, <2>6 DEF Counts, Balance, Bound
<1> QED  BY <1>1, <1>2 DEF Consume

\* The owner gives a policy at least what it had left.
LEMMA PatchKeepsCounts ==
  ASSUME Counts, NEW p \in Policy, NEW n \in 0 .. Bound(p), PolicyPatched(p, n)
  PROVE  Counts'
<1>1. /\ n \in Nat /\ n # Unlimited
      /\ uses' = [uses EXCEPT ![p] = n]
      /\ given' = [given EXCEPT ![p] = spent[p] + n]
      /\ spent' = spent
  BY DEF PolicyPatched, Bound, Limited
<1>2. /\ uses' \in [Policy -> Nat \cup {Unlimited}] /\ given' \in [Policy -> Nat]
      /\ \A q \in Policy : uses'[q] \in 0 .. Bound(q) \cup {Unlimited}
  BY <1>1 DEF Counts, Bound
<1>3. ASSUME NEW q \in Policy, Limited(q)
      PROVE  spent'[q] + Left(q)' <= given'[q]
  <2>1. CASE q = p
    BY <1>1, <2>1 DEF Counts, Left
  <2>2. CASE q # p
    BY <1>1, <1>3, <2>2 DEF Counts, Balance, Left
  <2> QED  BY <2>1, <2>2
<1> QED  BY <1>1, <1>2, <1>3 DEF Counts, Balance, Bound

-----------------------------------------------------------------------------
(* The rows *)

\* One typed row per resolution, handed over at most once and as decided.
Rows ==
  /\ rows \subseteq Row
  /\ OneRowEach
  /\ posts \in [Res \cup Fresh -> Nat]
  /\ PostedAsDecided

\* Every row is still there, but for a key and the note that it was transported.
Stands ==
  \A m \in rows : \E n \in rows' :
    /\ [m EXCEPT !.key = n.key, !.sent = n.sent] = n
    /\ m.key \in {NoKey, n.key}
    /\ m.sent => n.sent

\* A row is what it is under its own key and note.
LEMMA RowIsItself ==
  ASSUME NEW m \in Row
  PROVE  [m EXCEPT !.key = m.key, !.sent = m.sent] = m
BY DEF Row

\* What leaves every row in place lets the decisions stand.
LEMMA KeptRowsStand ==
  ASSUME rows \subseteq Row, rows \subseteq rows'
  PROVE  Stands
<1> SUFFICES ASSUME NEW m \in rows
             PROVE  \E n \in rows' :
                      /\ [m EXCEPT !.key = n.key, !.sent = n.sent] = n
                      /\ m.key \in {NoKey, n.key}
                      /\ m.sent => n.sent
  BY DEF Stands
<1>1. m \in rows' /\ [m EXCEPT !.key = m.key, !.sent = m.sent] = m
  BY RowIsItself
<1> QED  BY <1>1

\* A new row of a resolution that had none, handed over only as it was decided.
LEMMA InsertKeepsRows ==
  ASSUME Rows, NEW m \in Row, ByRes(m.res) = {},
         rows' = rows \cup {m},
         \/ posts' = posts
         \/ Post(m.res) /\ m.sent /\ Delivers(m.decision, m.content)
  PROVE  Rows' /\ Stands
<1>1. \A n \in rows : n.res # m.res
  BY DEF ByRes
<1>2. rows' \subseteq Row /\ OneRowEach'
  BY <1>1 DEF Rows, OneRowEach
<1>3. m.res \in Res \cup Fresh
  BY DEF Row
<1>4. posts[m.res] = 0
  BY <1>1, <1>3 DEF Rows, PostedAsDecided
<1>5. posts' \in [Res \cup Fresh -> Nat]
  BY <1>3 DEF Rows, Post
<1>6. ASSUME NEW r \in Res \cup Fresh
      PROVE  /\ posts'[r] <= 1
             /\ posts'[r] > 0 =>
                  \E n \in rows' : n.res = r /\ n.sent /\ Delivers(n.decision, n.content)
  <2>1. CASE posts'[r] = posts[r]
    BY <2>1 DEF Rows, PostedAsDecided
  <2>2. CASE r = m.res /\ Post(m.res) /\ m.sent /\ Delivers(m.decision, m.content)
    <3>1. posts'[r] = 1
      BY <2>2, <1>3, <1>4 DEF Rows, Post
    <3> QED  BY <2>2, <3>1
  <2> QED  BY <2>1, <2>2 DEF Rows, Post
<1>7. PostedAsDecided'
  BY <1>6 DEF PostedAsDecided, Delivers
<1>8. Stands
  BY KeptRowsStand DEF Rows
<1> QED  BY <1>2, <1>5, <1>7, <1>8 DEF Rows

\* The row that awaited transport is the only one of its resolution, which was
\* not handed over before.
LEMMA ResumeKeepsRows ==
  ASSUME Rows, NEW q \in Request, NEW m \in rows, Resume(q, m)
  PROVE  Rows' /\ Stands
<1> DEFINE n == [m EXCEPT !.key = IF m.key = NoKey THEN q.key ELSE m.key, !.sent = TRUE]
<1>1. /\ m \in Row /\ ~m.sent /\ m.decision = "allow"
      /\ rows' = (rows \ {m}) \cup {n}
      /\ posts' = [posts EXCEPT ![m.res] = posts[m.res] + 1]
  BY DEF Rows, Resume, Awaiting, Post
<1>2. /\ n \in Row /\ n.res = m.res /\ n.decision = "allow" /\ n.content = m.content
      /\ n.sent /\ [m EXCEPT !.key = n.key, !.sent = n.sent] = n
      /\ m.key \in {NoKey, n.key}
  BY <1>1 DEF Row, Request
<1> HIDE DEF n
<1>3. rows' \subseteq Row /\ OneRowEach'
  BY <1>1, <1>2 DEF Rows, OneRowEach
<1>4. m.res \in Res \cup Fresh
  BY <1>1 DEF Row
<1>5. posts[m.res] = 0
  BY <1>1, <1>4 DEF Rows, OneRowEach, PostedAsDecided
<1>6. posts' \in [Res \cup Fresh -> Nat]
  BY <1>1, <1>4 DEF Rows
<1>7. ASSUME NEW r \in Res \cup Fresh
      PROVE  /\ posts'[r] <= 1
             /\ posts'[r] > 0 =>
                  \E k \in rows' : k.res = r /\ k.sent /\ Delivers(k.decision, k.content)
  <2>1. CASE r = m.res
    <3>1. posts'[r] = 1
      BY <2>1, <1>1, <1>4, <1>5 DEF Rows
    <3>2. n \in rows' /\ n.res = r /\ n.sent /\ Delivers(n.decision, n.content)
      BY <2>1, <1>1, <1>2 DEF Delivers
    <3> QED  BY <3>1, <3>2
  <2>2. CASE r # m.res
    <3>1. posts'[r] = posts[r]
      BY <2>2, <1>1 DEF Rows
    <3>2. \A k \in rows : k.res = r => k \in rows'
      BY <2>2, <1>1
    <3> QED  BY <3>1, <3>2 DEF Rows, PostedAsDecided
  <2> QED  BY <2>1, <2>2
<1>8. PostedAsDecided'
  BY <1>7 DEF PostedAsDecided, Delivers
<1>9. Stands
  <2> SUFFICES ASSUME NEW k \in rows
               PROVE  \E l \in rows' :
                        /\ [k EXCEPT !.key = l.key, !.sent = l.sent] = l
                        /\ k.key \in {NoKey, l.key}
                        /\ k.sent => l.sent
    BY DEF Stands
  <2>1. CASE k = m
    BY <2>1, <1>1, <1>2
  <2>2. CASE k # m
    <3>1. k \in rows' /\ [k EXCEPT !.key = k.key, !.sent = k.sent] = k
      BY <2>2, <1>1, RowIsItself DEF Rows
    <3> QED  BY <3>1
  <2> QED  BY <2>1, <2>2
<1> QED  BY <1>3, <1>6, <1>8, <1>9 DEF Rows

-----------------------------------------------------------------------------
(* The invariant *)

\* The types of what the other actions move.
World ==
  /\ live \subseteq Policy
  /\ friend \in BOOLEAN /\ member \in BOOLEAN
  /\ evals \subseteq Evaluation

\* The inductive invariant.
LInv == Counts /\ Rows /\ World

\* It holds of a server that has stored nothing.
LEMMA InitLInv == Init => LInv
<1> SUFFICES ASSUME Init PROVE LInv
  OBVIOUS
<1>1. /\ uses \in [Policy -> Nat \cup {Unlimited}]
      /\ \A p \in Policy : uses[p] = Unlimited \/ (Limited(p) /\ uses[p] = MaxUses[p])
  BY DEF Init, Limited
<1>2. /\ spent = [p \in Policy |-> 0] /\ given = [p \in Policy |-> Bound(p)]
      /\ \A p \in Policy : Limited(p) => MaxUses[p] \in Nat \ {0}
      /\ \A p \in Policy : Bound(p) \in Nat /\ (Limited(p) => Bound(p) = MaxUses[p])
  BY DEF Init, Limited, Bound
<1>3. \A p \in Policy : uses[p] \in 0 .. Bound(p) \cup {Unlimited}
  BY <1>1, <1>2
<1>4. \A p \in Policy : Limited(p) => spent[p] + Left(p) <= given[p]
  BY <1>1, <1>2 DEF Left
<1>5. Counts
  <2>1. spent \in [Policy -> Nat] /\ given \in [Policy -> Nat]
    BY <1>2
  <2>2. Balance
    BY <1>4 DEF Balance
  <2>3. uses \in [Policy -> Nat \cup {Unlimited}]
    BY <1>1
  <2> QED  BY <1>3, <2>1, <2>2, <2>3 DEF Counts
<1>6. Rows
  BY DEF Init, Rows, OneRowEach, PostedAsDecided
<1>7. World
  BY DEF Init, World
<1> QED  BY <1>5, <1>6, <1>7 DEF LInv

\* The decision a winner stands for.
LEMMA DecisionTyped ==
  ASSUME NEW p \in Policy, NEW c \in Content
  PROVE  DecisionFor(Effect[p], c) \in Decision
BY DEF DecisionFor, Decision

\* A first commit charges its winner and stores an unsent row.
LEMMA CommitStep ==
  ASSUME LInv, NEW r \in Res, NEW k \in Key \cup {NoKey}, NEW c \in Content,
         NEW d \in Decision, NEW p \in Policy \cup {NoPolicy}, NEW g \in BOOLEAN,
         Commit(r, k, c, d, p, g)
  PROVE  LInv' /\ Stands
<1> DEFINE new == [res |-> r, key |-> k, content |-> c, decision |-> d, policy |-> p,
                   local |-> TRUE, group |-> g, sent |-> FALSE]
<1>1. /\ new \in Row /\ new.res = r
      /\ rows' = rows \cup {new} /\ posts' = posts
      /\ ByRes(r) = {} /\ Consume(p, Unused)
      /\ given' = given /\ UNCHANGED <<live, friend, member, evals>>
  BY DEF Commit, Row
<1> HIDE DEF new
<1>2. Rows' /\ Stands
  BY <1>1, InsertKeepsRows DEF LInv
<1>3. Counts'
  BY <1>1, ConsumeKeepsCounts DEF LInv
<1> QED  BY <1>1, <1>2, <1>3 DEF LInv, World

\* A send that waits for no evaluation is stored, and handed over if allowed.
LEMMA SendAtOnceStep ==
  ASSUME LInv, NEW q \in Request, NEW r \in Res \cup Fresh, SendAtOnce(q, r)
  PROVE  LInv' /\ Stands
<1> DEFINE d == IF Readable(q) /\ q.content \in Guarded THEN "deny" ELSE "allow"
           new == Stored(q, r, d, NoPolicy)
<1>1. /\ new \in Row /\ new.res = r /\ new.sent /\ new.decision = d
      /\ rows' = rows \cup {new} /\ ByRes(r) = {}
      /\ IF d = "allow" THEN Post(r) ELSE posts' = posts
      /\ UNCHANGED <<uses, live, friend, member, evals, spent, given>>
  BY DEF SendAtOnce, Stored, Row, Request, Decision
<1> HIDE DEF new, d
<1>2. Rows' /\ Stands
  BY <1>1, InsertKeepsRows DEF LInv, Delivers
<1> QED  BY <1>1, <1>2 DEF LInv, World, Counts, Balance, Left, Bound

\* An evaluation that ends charges its winner even when the row is refused.
LEMMA EvaluationEndsStep ==
  ASSUME LInv, NEW e \in evals, NEW r \in Res \cup Fresh, NEW p \in Policy \cup {NoPolicy},
         EvaluationEnds(e, r, p)
  PROVE  LInv' /\ Stands
<1> DEFINE q == e.request
           d == IF p = NoPolicy THEN "allow" ELSE DecisionFor(Effect[p], q.content)
           new == Stored(q, r, d, p)
<1>1. q \in Request
  BY DEF LInv, World, Evaluation
<1>2. d \in Decision
  BY <1>1, DecisionTyped DEF Decision, Request
<1>3. /\ evals' = evals \ {e} /\ Consume(p, e.unused)
      /\ IF Insertable(new)
         THEN /\ rows' = rows \cup {new}
              /\ IF Delivers(d, q.content) THEN Post(r) ELSE posts' = posts
         ELSE rows' = rows /\ posts' = posts
      /\ UNCHANGED <<live, friend, member, given>>
  BY DEF EvaluationEnds
<1> HIDE DEF d
<1>4. new \in Row /\ new.res = r /\ new.sent /\ new.decision = d /\ new.content = q.content
  BY <1>1, <1>2 DEF Stored, Row, Request
<1> HIDE DEF new, q
<1>5. Rows' /\ Stands
  <2>1. CASE Insertable(new)
    BY <2>1, <1>3, <1>4, InsertKeepsRows DEF LInv, Insertable
  <2>2. CASE ~Insertable(new)
    BY <2>2, <1>3, KeptRowsStand DEF LInv, Rows, OneRowEach, PostedAsDecided
  <2> QED  BY <2>1, <2>2
<1>6. Counts'
  BY <1>3, ConsumeKeepsCounts DEF LInv
<1> QED  BY <1>3, <1>5, <1>6 DEF LInv, World

\* A step that leaves rows and posts alone.
LEMMA SameRows ==
  ASSUME Rows, UNCHANGED <<rows, posts>>
  PROVE  Rows' /\ Stands
BY KeptRowsStand DEF Rows, OneRowEach, PostedAsDecided

\* A step that leaves the uses of policies alone.
LEMMA SameCounts ==
  ASSUME Counts, UNCHANGED <<uses, spent, given>>
  PROVE  Counts'
BY DEF Counts, Balance, Left, Bound

\* Every step keeps the invariant and lets the stored decisions stand.
LEMMA NextKeepsLInv == LInv /\ [Next]_vars => LInv' /\ Stands
<1> SUFFICES ASSUME LInv, [Next]_vars PROVE LInv' /\ Stands
  OBVIOUS
<1>1. ASSUME NEW r \in Res, NEW k \in Key \cup {NoKey}, NEW c \in Content,
             NEW d \in Decision, NEW p \in Policy \cup {NoPolicy}, NEW g \in BOOLEAN,
             Commit(r, k, c, d, p, g)
      PROVE  LInv' /\ Stands
  BY <1>1, CommitStep
<1>2. CASE UNCHANGED vars
  BY <1>2, SameRows, SameCounts DEF LInv, World, vars
<1>3. ASSUME NEW r \in Res, NEW k \in Key \cup {NoKey}, NEW c \in Content,
             NEW d \in Decision, NEW g \in BOOLEAN, CommitAgain(r, k, c, d, g)
      PROVE  UNCHANGED vars
  BY <1>3 DEF CommitAgain, vars
<1>4. ASSUME NEW p \in Policy, CommitDies(p)
      PROVE  LInv' /\ Stands
  <2>1. Consume(p, Unused) /\ evals' = {} /\ UNCHANGED <<rows, live, friend, member, posts, given>>
    BY <1>4 DEF CommitDies
  <2> QED  BY <2>1, SameRows, ConsumeKeepsCounts DEF LInv, World
<1>5. ASSUME NEW q \in Request, SendAgainByKey(q)
      PROVE  UNCHANGED vars
  BY <1>5 DEF SendAgainByKey, vars
<1>6. ASSUME NEW q \in Request, SendAgainByRes(q)
      PROVE  UNCHANGED vars
  BY <1>6 DEF SendAgainByRes, vars
<1>7. ASSUME NEW q \in Request, NEW m \in rows, Resume(q, m)
      PROVE  LInv' /\ Stands
  <2>1. Rows' /\ Stands
    BY <1>7, ResumeKeepsRows DEF LInv
  <2>2. UNCHANGED <<uses, live, friend, member, evals, spent, given>>
    BY <1>7 DEF Resume
  <2> QED  BY <2>1, <2>2, SameCounts DEF LInv, World
<1>8. ASSUME NEW q \in Request, NEW r \in Res \cup Fresh, SendAtOnce(q, r)
      PROVE  LInv' /\ Stands
  BY <1>8, SendAtOnceStep
<1>9. ASSUME NEW q \in Request, NEW n \in Call, EvaluationStarts(q, n)
      PROVE  LInv' /\ Stands
  <2>1. /\ evals' = evals \cup {[call |-> n, request |-> q, applicable |-> Applicable,
                                 unused |-> Unused \cap Applicable]}
        /\ UNCHANGED <<rows, uses, live, friend, member, spent, given, posts>>
    BY <1>9 DEF EvaluationStarts
  <2>2. Applicable \subseteq Policy
    BY DEF Applicable, LInv, World
  <2>3. evals' \subseteq Evaluation
    BY <2>1, <2>2 DEF Evaluation, LInv, World
  <2> QED  BY <2>1, <2>3, SameRows, SameCounts DEF LInv, World
<1>10. ASSUME NEW e \in evals, NEW r \in Res \cup Fresh, NEW p \in Policy \cup {NoPolicy},
              EvaluationEnds(e, r, p)
       PROVE  LInv' /\ Stands
  BY <1>10, EvaluationEndsStep
<1>11. ASSUME NEW p \in Policy, PolicySwitches(p)
       PROVE  LInv' /\ Stands
  <2>1. live' \subseteq Policy
        /\ UNCHANGED <<rows, uses, friend, member, evals, spent, given, posts>>
    BY <1>11 DEF PolicySwitches, LInv, World
  <2> QED  BY <2>1, SameRows, SameCounts DEF LInv, World
<1>12. ASSUME NEW p \in Policy, NEW n \in 0 .. Bound(p), PolicyPatched(p, n)
       PROVE  LInv' /\ Stands
  <2>1. Counts'
    BY <1>12, PatchKeepsCounts DEF LInv
  <2>2. UNCHANGED <<rows, live, friend, member, evals, posts>>
    BY <1>12 DEF PolicyPatched
  <2> QED  BY <2>1, <2>2, SameRows DEF LInv, World
<1>13. CASE FriendshipChanges \/ MembershipChanges \/ Restart
  <2>1. /\ friend' \in BOOLEAN /\ member' \in BOOLEAN /\ evals' \subseteq evals
        /\ UNCHANGED <<rows, uses, live, spent, given, posts>>
    BY <1>13 DEF FriendshipChanges, MembershipChanges, Restart, LInv, World
  <2> QED  BY <2>1, SameRows, SameCounts DEF LInv, World
<1> QED
  BY <1>1, <1>2, <1>3, <1>4, <1>5, <1>6, <1>7, <1>8, <1>9, <1>10, <1>11, <1>12, <1>13 DEF Next

-----------------------------------------------------------------------------
(* The server that does not evaluate policies *)

\* Every stored decision of a limited policy was charged.
Booked ==
  /\ IsFiniteSet(rows)
  /\ DecisionsAreCharged

\* And no send waits.
Recorded == evals = {} /\ Booked

\* A new row costs its policy a use, and a row replaced by one of its policy none.
LEMMA DecidedGrows ==
  ASSUME IsFiniteSet(rows), NEW gone \in SUBSET rows, NEW new, NEW p \in Policy,
         rows' = (rows \ gone) \cup {new}
  PROVE  /\ IsFiniteSet(rows')
         /\ Cardinality(Decided(p)) \in Nat /\ Cardinality(Decided(p)') \in Nat
         /\ Cardinality(Decided(p)') <= Cardinality(Decided(p)) + 1
         /\ new.policy # p \/ (\E m \in gone : m.policy = p) =>
              Cardinality(Decided(p)') <= Cardinality(Decided(p))
<1> DEFINE kept == Decided(p) \ gone
<1>1. IsFiniteSet(rows') /\ IsFiniteSet(kept) /\ IsFiniteSet(Decided(p))
  <2>1. IsFiniteSet(rows \ gone) /\ IsFiniteSet(Decided(p))
    BY FS_Subset DEF Decided
  <2>2. IsFiniteSet(rows')
    BY <2>1, FS_AddElement
  <2>3. IsFiniteSet(kept)
    BY <2>1, FS_Subset
  <2> QED  BY <2>1, <2>2, <2>3
<1>2. Decided(p)' = IF new.policy = p THEN kept \cup {new} ELSE kept
  BY DEF Decided
<1>3. /\ Cardinality(kept) \in Nat /\ Cardinality(Decided(p)) \in Nat
      /\ Cardinality(kept) <= Cardinality(Decided(p))
  BY <1>1, FS_Subset, FS_CardinalityType
<1>4. /\ Cardinality(kept \cup {new}) \in Nat
      /\ Cardinality(kept \cup {new}) <= Cardinality(kept) + 1
  <2>1. Cardinality(kept \cup {new}) =
          IF new \in kept THEN Cardinality(kept) ELSE Cardinality(kept) + 1
    BY <1>1, FS_AddElement
  <2> QED  BY <1>3, <2>1
<1>5. ASSUME NEW m \in gone, m.policy = p
      PROVE  Cardinality(kept) + 1 <= Cardinality(Decided(p))
  <2>1. m \in Decided(p) /\ m \notin kept
    BY <1>5 DEF Decided
  <2>2. kept # Decided(p) /\ kept \subseteq Decided(p)
    BY <2>1
  <2>3. Cardinality(kept) < Cardinality(Decided(p))
    BY <1>1, <1>3, <2>2, FS_Subset
  <2> QED  BY <1>3, <2>3
<1> HIDE DEF kept
<1>6. Cardinality(Decided(p)') \in Nat
  BY <1>2, <1>3, <1>4
<1>7. Cardinality(Decided(p)') <= Cardinality(Decided(p)) + 1
  BY <1>2, <1>3, <1>4
<1>8. ASSUME new.policy # p \/ (\E m \in gone : m.policy = p)
      PROVE  Cardinality(Decided(p)') <= Cardinality(Decided(p))
  BY <1>8, <1>2, <1>3, <1>4, <1>5
<1> QED  BY <1>1, <1>3, <1>6, <1>7, <1>8

\* A charge never falls back.
LEMMA ConsumeOnlyAdds ==
  ASSUME Counts, NEW q \in Policy \cup {NoPolicy}, NEW unused, Consume(q, unused)
  PROVE  \A p \in Policy : spent'[p] >= spent[p]
BY DEF Consume, Charge, Counts

\* A commit charges its limited policy exactly when it stores the row.
LEMMA CommitIsCharged ==
  ASSUME LInv, Booked, NEW r \in Res, NEW k \in Key \cup {NoKey}, NEW c \in Content,
         NEW d \in Decision, NEW p \in Policy \cup {NoPolicy}, NEW g \in BOOLEAN,
         Commit(r, k, c, d, p, g)
  PROVE  Booked'
<1> DEFINE new == [res |-> r, key |-> k, content |-> c, decision |-> d, policy |-> p,
                   local |-> TRUE, group |-> g, sent |-> FALSE]
<1>1. /\ rows' = (rows \ {}) \cup {new} /\ new.policy = p
      /\ p # NoPolicy => p \in live /\ uses[p] # 0
      /\ Consume(p, Unused)
  BY DEF Commit, Applicable
<1> HIDE DEF new
<1>2. ASSUME NEW q \in Policy, Limited(q)
      PROVE  Cardinality(Decided(q)') <= spent'[q]
  <2>1. Cardinality(Decided(q)) <= spent[q] /\ spent[q] \in Nat /\ spent'[q] >= spent[q]
    BY <1>1, <1>2, ConsumeOnlyAdds DEF Booked, DecisionsAreCharged, LInv, Counts
  <2>2. /\ Cardinality(Decided(q)) \in Nat /\ Cardinality(Decided(q)') \in Nat
        /\ Cardinality(Decided(q)') <= Cardinality(Decided(q)) + 1
        /\ p # q => Cardinality(Decided(q)') <= Cardinality(Decided(q))
    BY <1>1, DecidedGrows DEF Booked
  <2>3. p = q => spent'[q] = spent[q] + 1
    BY <1>1, <1>2 DEF Consume, Charge, Unused, LInv, Counts
  <2>4. spent'[q] \in Nat
    BY <1>1, ConsumeKeepsCounts DEF Commit, LInv, Counts
  <2> QED  BY <2>1, <2>2, <2>3, <2>4
<1>3. IsFiniteSet(rows')
  BY <1>1, FS_AddElement DEF Booked
<1> QED  BY <1>1, <1>2, <1>3 DEF Booked, DecisionsAreCharged

\* A step that charges nothing and adds no row of a policy.
LEMMA NothingDecided ==
  ASSUME LInv, Booked, NEW gone \in SUBSET rows, NEW new,
         rows' = (rows \ gone) \cup {new},
         new.policy \notin Policy \/ (\E m \in gone : m.policy = new.policy),
         spent' = spent
  PROVE  Booked'
<1>1. IsFiniteSet(rows')
  <2>1. IsFiniteSet(rows \ gone)
    BY FS_Subset DEF Booked
  <2> QED  BY <2>1, FS_AddElement
<1>2. ASSUME NEW q \in Policy, Limited(q)
      PROVE  Cardinality(Decided(q)') <= spent'[q]
  <2>1. /\ Cardinality(Decided(q)) \in Nat /\ Cardinality(Decided(q)') \in Nat
        /\ Cardinality(Decided(q)') <= Cardinality(Decided(q))
    BY DecidedGrows DEF Booked
  <2>2. Cardinality(Decided(q)) <= spent[q] /\ spent[q] \in Nat
    BY <1>2 DEF Booked, DecisionsAreCharged, LInv, Counts
  <2> QED  BY <2>1, <2>2
<1> QED  BY <1>1, <1>2 DEF Booked, DecisionsAreCharged

\* A step that leaves the rows alone and takes back no charge.
LEMMA ChargesOnlyGrow ==
  ASSUME LInv, LInv', Booked, rows' = rows,
         \A p \in Policy : spent'[p] >= spent[p]
  PROVE  Booked'
<1>1. ASSUME NEW q \in Policy, Limited(q)
      PROVE  Cardinality(Decided(q)') <= spent'[q]
  <2>1. Cardinality(Decided(q)) \in Nat
    BY FS_Subset, FS_CardinalityType DEF Decided, Booked
  <2>2. Decided(q)' = Decided(q)
    BY DEF Decided
  <2>3. Cardinality(Decided(q)) <= spent[q] /\ spent[q] \in Nat /\ spent'[q] \in Nat
    BY <1>1 DEF Booked, DecisionsAreCharged, LInv, Counts
  <2> QED  BY <2>1, <2>2, <2>3
<1> QED  BY <1>1 DEF Booked, DecisionsAreCharged

\* Every step of such a server stores what it charged, and transports a
\* resolution only with the access and the decision it needs.
LEMMA NextKeepsRecorded ==
  ASSUME ~Trusted, LInv, LInv', Recorded, [Next]_vars
  PROVE  Recorded' /\ [AuthorisedTransport]_vars
<1>1. CASE UNCHANGED vars
  BY <1>1, ChargesOnlyGrow DEF vars, Recorded, LInv, Counts
<1>2. ASSUME NEW r \in Res, NEW k \in Key \cup {NoKey}, NEW c \in Content,
             NEW d \in Decision, NEW p \in Policy \cup {NoPolicy}, NEW g \in BOOLEAN,
             Commit(r, k, c, d, p, g)
      PROVE  Recorded' /\ AuthorisedTransport
  <2>1. Recorded'
    BY <1>2, CommitIsCharged DEF Recorded, Commit
  <2>2. posts' = posts
    BY <1>2 DEF Commit
  <2> QED  BY <2>1, <2>2 DEF AuthorisedTransport, LInv, Rows
<1>3. ASSUME NEW q \in Request, NEW m \in rows, Resume(q, m)
      PROVE  Recorded' /\ AuthorisedTransport
  <2> DEFINE n == [m EXCEPT !.key = IF m.key = NoKey THEN q.key ELSE m.key, !.sent = TRUE]
  <2>1. /\ rows' = (rows \ {m}) \cup {n} /\ spent' = spent /\ evals' = {}
        /\ posts' = [posts EXCEPT ![m.res] = posts[m.res] + 1]
        /\ m \in ByRes(q.res) /\ Access(m) /\ m.local /\ m.decision = "allow"
    BY <1>3 DEF Resume, Recorded, Post, BoundTo, Awaiting
  <2>2. n.policy = m.policy
    BY DEF LInv, Rows, Row
  <2> HIDE DEF n
  <2>3. Recorded'
    BY <2>1, <2>2, NothingDecided DEF Recorded
  <2>4. m.res = q.res /\ m.res \in Res
    BY <2>1 DEF ByRes, Request, LInv, Rows, Row
  <2>5. ASSUME NEW r \in DOMAIN posts, posts'[r] > posts[r]
        PROVE  r = m.res
    BY <2>1, <2>5 DEF LInv, Rows
  <2>6. AuthorisedTransport
    BY <2>1, <2>4, <2>5 DEF AuthorisedTransport, ByRes
  <2> QED  BY <2>3, <2>6
<1>4. ASSUME NEW q \in Request, NEW r \in Res \cup Fresh, SendAtOnce(q, r)
      PROVE  Recorded' /\ AuthorisedTransport
  <2> DEFINE new == Stored(q, r, "allow", NoPolicy)
  <2>1. /\ rows' = (rows \ {}) \cup {new} /\ spent' = spent /\ evals' = {}
        /\ posts' = [posts EXCEPT ![r] = posts[r] + 1]
        /\ friend /\ r \in Fresh
    BY <1>4 DEF SendAtOnce, Readable, Recorded, Post, NothingToResume, ResOf
  <2>2. new.policy = NoPolicy
    BY DEF Stored
  <2> HIDE DEF new
  <2>3. Recorded'
    BY <2>1, <2>2, NothingDecided DEF Recorded
  <2>4. ASSUME NEW s \in DOMAIN posts, posts'[s] > posts[s]
        PROVE  s = r
    BY <2>1, <2>4 DEF LInv, Rows
  <2>5. AuthorisedTransport
    BY <2>1, <2>4 DEF AuthorisedTransport
  <2> QED  BY <2>3, <2>5
<1>5. ASSUME NEW q \in Request, NEW n \in Call, EvaluationStarts(q, n)
      PROVE  FALSE
  BY <1>5 DEF EvaluationStarts, Evaluates, Readable
<1>6. ASSUME NEW p \in Policy, CommitDies(p)
      PROVE  Recorded' /\ AuthorisedTransport
  <2>1. rows' = rows /\ evals' = {} /\ posts' = posts /\ Consume(p, Unused)
    BY <1>6 DEF CommitDies, Recorded
  <2> QED  BY <2>1, ConsumeOnlyAdds, ChargesOnlyGrow DEF Recorded, AuthorisedTransport, LInv, Rows
<1>7. ASSUME UNCHANGED <<rows, spent, posts>>, evals' \subseteq evals
      PROVE  Recorded' /\ AuthorisedTransport
  <2>1. Recorded'
    BY <1>7, ChargesOnlyGrow DEF LInv, Counts, Recorded
  <2> QED  BY <2>1, <1>7 DEF AuthorisedTransport, LInv, Rows
<1>8. ASSUME NEW r \in Res, NEW k \in Key \cup {NoKey}, NEW c \in Content,
             NEW d \in Decision, NEW g \in BOOLEAN, CommitAgain(r, k, c, d, g)
      PROVE  UNCHANGED vars
  BY <1>8 DEF CommitAgain, vars
<1>9. ASSUME NEW q \in Request, SendAgainByKey(q) \/ SendAgainByRes(q)
      PROVE  UNCHANGED vars
  BY <1>9 DEF SendAgainByKey, SendAgainByRes, vars
<1>10. ASSUME NEW p \in Policy, PolicySwitches(p) \/ \E n \in 0 .. Bound(p) : PolicyPatched(p, n)
       PROVE  UNCHANGED <<rows, spent, posts>> /\ evals' \subseteq evals
  BY <1>10 DEF PolicySwitches, PolicyPatched
<1>11. CASE FriendshipChanges \/ MembershipChanges \/ Restart
  BY <1>11, <1>7 DEF FriendshipChanges, MembershipChanges, Restart
<1>12. \A e \in evals : FALSE
  BY DEF Recorded
<1> QED
  BY <1>1, <1>2, <1>3, <1>4, <1>5, <1>6, <1>7, <1>8, <1>9, <1>10, <1>11, <1>12 DEF Next

-----------------------------------------------------------------------------
(* The server that evaluates policies, while what it has read stays current *)

\* While a send waits for its evaluation, nobody changes the remaining_uses of a
\* policy it has read.
ReadsStayCurrent ==
  \A e \in evals : e \in evals' => \A p \in e.applicable : uses'[p] = uses[p]

\* What the sends that wait have read is what is stored.
Current ==
  \A e \in evals : \A p \in e.applicable :
    uses[p] # 0 /\ (p \in e.unused <=> uses[p] = Unlimited)

\* Sends that go on waiting keep what they have read.
LEMMA CurrentStays ==
  ASSUME Current, ReadsStayCurrent, evals' \subseteq evals
  PROVE  Current'
BY DEF Current, ReadsStayCurrent

\* An evaluation that ends on current reads charges the policy that decides.
LEMMA CurrentEndIsCharged ==
  ASSUME LInv, Booked, Current, NEW e \in evals, NEW r \in Res \cup Fresh,
         NEW p \in Policy \cup {NoPolicy}, p \in e.applicable \cup {NoPolicy}, EvaluationEnds(e, r, p)
  PROVE  Booked'
<1> DEFINE d == IF p = NoPolicy THEN "allow" ELSE DecisionFor(Effect[p], e.request.content)
           new == Stored(e.request, r, d, p)
<1>1. /\ rows' = (rows \ {}) \cup {new} \/ rows' = rows
      /\ Consume(p, e.unused) /\ given' = given
  BY DEF EvaluationEnds
<1>2. new.policy = p
  BY DEF Stored
<1> HIDE DEF d, new
<1>3. Counts' /\ \A q \in Policy : spent'[q] >= spent[q] /\ spent[q] \in Nat /\ spent'[q] \in Nat
  <2>1. Counts'
    BY <1>1, ConsumeKeepsCounts DEF LInv
  <2>2. \A q \in Policy : spent'[q] >= spent[q]
    BY <1>1, ConsumeOnlyAdds DEF LInv
  <2> QED  BY <2>1, <2>2 DEF LInv, Counts
<1>4. ASSUME NEW q \in Policy, Limited(q)
      PROVE  Cardinality(Decided(q)') <= spent'[q]
  <2>1. Cardinality(Decided(q)) <= spent[q] /\ Cardinality(Decided(q)) \in Nat
    BY <1>4, FS_Subset, FS_CardinalityType DEF Booked, DecisionsAreCharged, Decided
  <2>2. CASE rows' = rows
    <3>1. Decided(q)' = Decided(q)
      BY <2>2 DEF Decided
    <3> QED  BY <1>3, <2>1, <3>1
  <2>3. CASE rows' = (rows \ {}) \cup {new}
    <3>1. /\ Cardinality(Decided(q)') \in Nat
          /\ Cardinality(Decided(q)') <= Cardinality(Decided(q)) + 1
          /\ p # q => Cardinality(Decided(q)') <= Cardinality(Decided(q))
      BY <1>2, <2>3, DecidedGrows DEF Booked
    <3>2. p = q => spent'[q] = spent[q] + 1
      <4> SUFFICES ASSUME p = q PROVE spent'[q] = spent[q] + 1
        OBVIOUS
      <4>1. uses[p] # 0 /\ (p \in e.unused <=> uses[p] = Unlimited)
        BY DEF Current
      <4>2. Charge(p)
        BY <1>1, <1>4, <4>1 DEF Consume
      <4> QED  BY <4>2 DEF Charge, LInv, Counts
    <3> QED  BY <1>3, <2>1, <3>1, <3>2
  <2> QED  BY <1>1, <2>2, <2>3
<1>5. IsFiniteSet(rows')
  BY <1>1, FS_AddElement DEF Booked
<1> QED  BY <1>4, <1>5 DEF Booked, DecisionsAreCharged

\* Every step keeps the books and the reads.
LEMMA NextKeepsCurrent ==
  ASSUME LInv, LInv', Booked, Current, ReadsStayCurrent, [Next]_vars
  PROVE  Booked' /\ Current'
<1>1. CASE UNCHANGED vars
  BY <1>1, CurrentStays, ChargesOnlyGrow DEF vars, LInv, Counts
<1>2. ASSUME NEW r \in Res, NEW k \in Key \cup {NoKey}, NEW c \in Content,
             NEW d \in Decision, NEW p \in Policy \cup {NoPolicy}, NEW g \in BOOLEAN,
             Commit(r, k, c, d, p, g)
      PROVE  Booked' /\ Current'
  <2>1. evals' = evals
    BY <1>2 DEF Commit
  <2> QED  BY <1>2, <2>1, CommitIsCharged, CurrentStays
<1>3. ASSUME NEW q \in Request, NEW m \in rows, Resume(q, m)
      PROVE  Booked' /\ Current'
  <2> DEFINE n == [m EXCEPT !.key = IF m.key = NoKey THEN q.key ELSE m.key, !.sent = TRUE]
  <2>1. rows' = (rows \ {m}) \cup {n} /\ spent' = spent /\ evals' = evals
    BY <1>3 DEF Resume
  <2>2. n.policy = m.policy
    BY DEF LInv, Rows, Row
  <2> HIDE DEF n
  <2> QED  BY <2>1, <2>2, NothingDecided, CurrentStays
<1>4. ASSUME NEW q \in Request, NEW r \in Res \cup Fresh, SendAtOnce(q, r)
      PROVE  Booked' /\ Current'
  <2> DEFINE d == IF Readable(q) /\ q.content \in Guarded THEN "deny" ELSE "allow"
             new == Stored(q, r, d, NoPolicy)
  <2>1. rows' = (rows \ {}) \cup {new} /\ spent' = spent /\ evals' = evals
    BY <1>4 DEF SendAtOnce
  <2>2. new.policy = NoPolicy
    BY DEF Stored
  <2> HIDE DEF d, new
  <2> QED  BY <2>1, <2>2, NothingDecided, CurrentStays
<1>5. ASSUME NEW q \in Request, NEW n \in Call, EvaluationStarts(q, n)
      PROVE  Booked' /\ Current'
  <2> DEFINE e == [call |-> n, request |-> q, applicable |-> Applicable,
                   unused |-> Unused \cap Applicable]
  <2>1. /\ evals' = evals \cup {e} /\ UNCHANGED <<rows, uses, spent>>
    BY <1>5 DEF EvaluationStarts
  <2>2. /\ e.applicable = Applicable /\ e.unused = Unused \cap Applicable
    OBVIOUS
  <2> HIDE DEF e
  <2>3. Applicable \subseteq Policy
    BY DEF Applicable, LInv, World
  <2>4. Current'
    BY <2>1, <2>2, <2>3 DEF Current, Applicable, Unused
  <2> QED  BY <2>1, <2>4, ChargesOnlyGrow DEF LInv, Counts
<1>6. ASSUME NEW e \in evals, NEW r \in Res \cup Fresh, NEW p \in Policy \cup {NoPolicy},
             p \in e.applicable \cup {NoPolicy}, EvaluationEnds(e, r, p)
      PROVE  Booked' /\ Current'
  <2>1. evals' \subseteq evals
    BY <1>6 DEF EvaluationEnds
  <2> QED  BY <1>6, <2>1, CurrentEndIsCharged, CurrentStays
<1>7. ASSUME NEW p \in Policy, CommitDies(p)
      PROVE  Booked' /\ Current'
  <2>1. rows' = rows /\ evals' = {} /\ Consume(p, Unused)
    BY <1>7 DEF CommitDies
  <2> QED  BY <2>1, ConsumeOnlyAdds, ChargesOnlyGrow, CurrentStays DEF LInv
<1>8. ASSUME UNCHANGED <<rows, spent>>, evals' \subseteq evals
      PROVE  Booked' /\ Current'
  BY <1>8, ChargesOnlyGrow, CurrentStays DEF LInv, Counts
<1>9. ASSUME NEW r \in Res, NEW k \in Key \cup {NoKey}, NEW c \in Content,
             NEW d \in Decision, NEW g \in BOOLEAN, CommitAgain(r, k, c, d, g)
      PROVE  UNCHANGED <<rows, spent>> /\ evals' \subseteq evals
  BY <1>9 DEF CommitAgain
<1>10. ASSUME NEW q \in Request, SendAgainByKey(q) \/ SendAgainByRes(q)
       PROVE  UNCHANGED <<rows, spent>> /\ evals' \subseteq evals
  BY <1>10 DEF SendAgainByKey, SendAgainByRes
<1>11. ASSUME NEW p \in Policy, PolicySwitches(p) \/ \E n \in 0 .. Bound(p) : PolicyPatched(p, n)
       PROVE  UNCHANGED <<rows, spent>> /\ evals' \subseteq evals
  BY <1>11 DEF PolicySwitches, PolicyPatched
<1>12. ASSUME FriendshipChanges \/ MembershipChanges \/ Restart
       PROVE  UNCHANGED <<rows, spent>> /\ evals' \subseteq evals
  BY <1>12 DEF FriendshipChanges, MembershipChanges, Restart
<1> QED
  BY <1>1, <1>2, <1>3, <1>4, <1>5, <1>6, <1>7, <1>8, <1>9, <1>10, <1>11, <1>12 DEF Next

-----------------------------------------------------------------------------
(* The theorems *)

\* The invariant of every behaviour.
LEMMA LInvHolds == Spec => []LInv
BY InitLInv, NextKeepsLInv, PTL DEF Spec

\* The type invariant of LocalDecisions: remaining_uses never leaves 0 .. max_uses.
THEOREM DecisionsTypeCorrect == Spec => []TypeOK
<1>1. LInv => TypeOK
  BY DEF LInv, Counts, Rows, World, TypeOK
<1> QED  BY <1>1, LInvHolds, PTL

\* A limited policy is never charged more uses than its owner gave it, however
\* commits, sends that wait for their evaluation, crashes and edits interleave.
THEOREM LimitsAreKept == Spec => []ChargedWithinLimit
<1>1. LInv => ChargedWithinLimit
  <2> SUFFICES ASSUME LInv, NEW p \in Policy, Limited(p)
               PROVE  spent[p] <= given[p]
    BY DEF ChargedWithinLimit
  <2>1. Left(p) \in Nat /\ spent[p] \in Nat /\ given[p] \in Nat
    BY DEF LInv, Counts, Left, Limited
  <2>2. spent[p] + Left(p) <= given[p]
    BY DEF LInv, Counts, Balance
  <2> QED  BY <2>1, <2>2
<1> QED  BY <1>1, LInvHolds, PTL

\* However often a send or a commit is repeated, a resolution is handed to
\* deliverMessage once.
THEOREM TransportHappensOnce == Spec => []TransportedOnce
<1>1. LInv => TransportedOnce
  BY DEF LInv, Rows, PostedAsDecided, TransportedOnce
<1> QED  BY <1>1, LInvHolds, PTL

\* What is held for approval, kept for review by its sender or denied is not
\* transported, whatever arrives under its resolution.
THEOREM OnlyDecidedIsTransported == Spec => []TransportedWasDecided
<1>1. LInv => TransportedWasDecided
  BY DEF LInv, Rows, PostedAsDecided, TransportedWasDecided, ByRes
<1> QED  BY <1>1, LInvHolds, PTL

\* No later commit, send or race replaces a stored decision.
THEOREM StoredDecisionsStand == Spec => DecisionStands
<1>1. LInv /\ [Next]_vars => Stands
  BY NextKeepsLInv
<1>2. LInv /\ [Next]_vars => [Stands]_vars
  BY <1>1
<1> QED  BY <1>2, LInvHolds, PTL DEF Spec, DecisionStands, Stands

\* A server that does not evaluate policies itself has charged each stored
\* decision of a limited policy.
THEOREM RecordedDecisionsAreCharged ==
  ASSUME ~Trusted
  PROVE  Spec => []DecisionsAreCharged
<1>1. Init => Recorded
  BY FS_EmptySet DEF Init, Recorded, Booked, DecisionsAreCharged, Decided
<1>2. LInv /\ LInv' /\ Recorded /\ [Next]_vars => Recorded'
  BY NextKeepsRecorded
<1>3. Recorded => DecisionsAreCharged
  BY DEF Recorded, Booked
<1> QED  BY <1>1, <1>2, <1>3, LInvHolds, PTL DEF Spec

\* Such a server transports what a resolution id names only on a committed local
\* allow and between friends or fellow members of its group.
THEOREM RecordedTransportIsAuthorised ==
  ASSUME ~Trusted
  PROVE  Spec => TransportIsAuthorised
<1>1. Init => Recorded
  BY FS_EmptySet DEF Init, Recorded, Booked, DecisionsAreCharged, Decided
<1>2. LInv /\ LInv' /\ Recorded /\ [Next]_vars => Recorded' /\ [AuthorisedTransport]_vars
  BY NextKeepsRecorded
<1> QED  BY <1>1, <1>2, LInvHolds, PTL DEF Spec, TransportIsAuthorised

\* The books are kept while the reads stay current.
LEMMA BookedHolds == Spec /\ [][ReadsStayCurrent]_vars => []Booked
<1>1. Init => Booked /\ Current
  BY FS_EmptySet DEF Init, Booked, Current, DecisionsAreCharged, Decided
<1>2. LInv /\ LInv' /\ Booked /\ Current /\ [Next]_vars /\ [ReadsStayCurrent]_vars => Booked' /\ Current'
  <2>1. UNCHANGED vars => (\A e \in evals : \A p \in e.applicable : uses'[p] = uses[p])
    BY DEF vars
  <2> QED  BY <2>1, NextKeepsCurrent DEF ReadsStayCurrent
<1> QED  BY <1>1, <1>2, LInvHolds, PTL DEF Spec

\* What a trusted server needs for the same (EvaluationEnds charges the policy
\* that decided only if its remaining_uses is what was read before the wait):
\* decisions go uncharged only when somebody uses up or edits a policy while a send
\* that has read it waits for its evaluation.
THEOREM CurrentReadsAreCharged ==
  Spec /\ [][ReadsStayCurrent]_vars => []DecisionsAreCharged
<1>1. Booked => DecisionsAreCharged
  BY DEF Booked
<1> QED  BY <1>1, BookedHolds, PTL

\* Then a one-time override decides once, unless its owner gave it more uses.
THEOREM CurrentReadsDecideOnce ==
  Spec /\ [][ReadsStayCurrent]_vars /\ [](\A p \in Policy : given[p] <= Bound(p))
    => []OneTimeDecidesOnce
<1>1. LInv /\ Booked /\ (\A p \in Policy : given[p] <= Bound(p)) => OneTimeDecidesOnce
  <2> SUFFICES ASSUME LInv, Booked, NEW p \in Policy, Limited(p), given[p] <= Bound(p)
               PROVE  Cardinality(Decided(p)) <= MaxUses[p]
    BY DEF OneTimeDecidesOnce
  <2>1. /\ Left(p) \in Nat /\ spent[p] \in Nat /\ given[p] \in Nat
        /\ spent[p] + Left(p) <= given[p]
    BY DEF LInv, Counts, Balance, Left, Limited
  <2>2. Cardinality(Decided(p)) \in Nat /\ Cardinality(Decided(p)) <= spent[p]
    BY FS_Subset, FS_CardinalityType DEF Booked, DecisionsAreCharged, Decided
  <2>3. Bound(p) = MaxUses[p] /\ MaxUses[p] \in Nat
    BY DEF Bound, Limited
  <2> QED  BY <2>1, <2>2, <2>3
<1> QED  BY <1>1, BookedHolds, LInvHolds, PTL

-----------------------------------------------------------------------------
(* The same next to the other configurations *)

RecordsInv == mode = "records" => LInv /\ Recorded

\* The configuration is chosen once, so that the others say nothing of this one.
LEMMA RecordsInvHolds ==
  ASSUME ~Trusted
  PROVE  /\ AnyInit => RecordsInv
         /\ RecordsInv /\ [AnyNext]_<<vars, mode>> =>
              RecordsInv' /\ [mode = "records" => AuthorisedTransport]_<<vars, mode>>
<1>1. Init => LInv /\ Recorded
  BY InitLInv, FS_EmptySet DEF Init, Recorded, Booked, DecisionsAreCharged, Decided
<1>2. AnyInit => RecordsInv
  BY <1>1 DEF AnyInit, RecordsInv
<1>3. ASSUME RecordsInv, [AnyNext]_<<vars, mode>>, mode' = "records"
      PROVE  LInv' /\ Recorded' /\ [AuthorisedTransport]_vars
  <2>1. mode = "records" /\ [Next]_vars
    BY <1>3 DEF AnyNext
  <2>2. LInv /\ Recorded
    BY <1>3, <2>1 DEF RecordsInv
  <2>3. LInv'
    BY <2>1, <2>2, NextKeepsLInv
  <2> QED
    BY <2>1, <2>2, <2>3, NextKeepsRecorded
<1>4. [AnyNext]_<<vars, mode>> => mode' = mode
  BY DEF AnyNext
<1>5. ASSUME RecordsInv, [AnyNext]_<<vars, mode>>
      PROVE  RecordsInv' /\ [mode = "records" => AuthorisedTransport]_<<vars, mode>>
  <2>1. CASE mode = "records"
    BY <1>3, <1>4, <1>5, <2>1 DEF RecordsInv
  <2>2. CASE mode # "records"
    BY <1>4, <1>5, <2>2 DEF RecordsInv
  <2> QED
    BY <2>1, <2>2
<1> QED
  BY <1>2, <1>5

\* Whatever the other configurations do, the server that only records has charged
\* each stored decision of a limited policy.
THEOREM LocalDecisionsStayCharged ==
  ASSUME ~Trusted
  PROVE  AnySpec => []LocalDecisionsAreCharged
<1>1. /\ AnyInit => RecordsInv
      /\ RecordsInv /\ [AnyNext]_<<vars, mode>> => RecordsInv'
  BY RecordsInvHolds
<1>2. RecordsInv => LocalDecisionsAreCharged
  BY DEF RecordsInv, Recorded, Booked, LocalDecisionsAreCharged
<1> QED
  BY <1>1, <1>2, PTL DEF AnySpec

\* And it transports what a resolution id names only as authorised.
THEOREM LocalTransportStaysAuthorised ==
  ASSUME ~Trusted
  PROVE  AnySpec => LocalTransportIsAuthorised
<1>1. /\ AnyInit => RecordsInv
      /\ RecordsInv /\ [AnyNext]_<<vars, mode>> =>
           RecordsInv' /\ [mode = "records" => AuthorisedTransport]_<<vars, mode>>
  BY RecordsInvHolds
<1> QED
  BY <1>1, PTL DEF AnySpec, LocalTransportIsAuthorised
=============================================================================
