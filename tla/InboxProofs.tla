------------------------------ MODULE InboxProofs ------------------------------
(***************************************************************************)
(* Proofs about the recipient's plugin behind Delivery: what holds for any *)
(* threads, contacts, sessions and messages, and any overlap of runs.      *)
(***************************************************************************)
EXTENDS Inbox, DeliveryProofs

-----------------------------------------------------------------------------
(* The plugin is a recipient like any other *)

\* Whatever the plugin does is a step of Delivery or invisible to the server.
LEMMA InboxStepIsDelivery == [InboxNext]_<<vars, inboxVars>> => [Next]_vars
<1> SUFFICES ASSUME [InboxNext]_<<vars, inboxVars>> PROVE [Next]_vars
  OBVIOUS
<1>1. CASE \/ \E t \in Thread : Ask(t) \/ HookSeesError(t) \/ SessionExpires(t)
           \/ \E t \in Thread, awaited \in SUBSET Peer : HookRuns(t, awaited)
           \/ \E k \in Key : RouteExpires(k)
           \/ \E i \in Item : Forget(i)
           \/ PluginRestart
           \/ UNCHANGED <<vars, inboxVars>>
  BY <1>1 DEF Ask, HookRuns, HookSeesError, RouteExpires, SessionExpires, Forget, PluginRestart
<1>2. CASE \E a \in inFlight : Receive(a)
  BY <1>2 DEF Receive, Next
<1>3. CASE \E a \in inFlight : Refuse(a)
  BY <1>3 DEF Refuse, Next
<1>4. CASE Serves(\E i \in Item, c \in Conn : Replies(i, c))
  BY <1>4 DEF Serves, Replies, Next
<1>5. CASE \/ Serves(\E a \in inFlight : AttemptOk(a))
           \/ Serves(\E a \in inFlight : AttemptFails(a))
           \/ Serves(\E i \in Item : BackoffElapses(i))
  BY <1>5 DEF Serves, Next
<1>6. CASE \/ Serves(\E r \in Run : StartRun(r))
           \/ Serves(\E r \in Run, i \in Item : Visit(r, i))
  BY <1>6 DEF Serves, Next
<1>7. CASE \/ Serves(\E c \in Conn : Reregister(c))
           \/ Serves(\E c \in Conn : DeleteConnection(c))
           \/ Serves(Restart)
  BY <1>7 DEF Serves, Next
<1> QED
  BY <1>1, <1>2, <1>3, <1>4, <1>5, <1>6, <1>7, KeyAssumption DEF InboxNext

\* The server with this plugin behind its callbacks is a server of Delivery.
THEOREM PluginIsARecipient == InboxSpec => Spec
<1>1. InboxInit => Init
  BY DEF InboxInit
<1> QED
  BY <1>1, InboxStepIsDelivery, PTL DEF InboxSpec, Spec

\* With no two runs at a time the budget of attempts also holds against a plugin
\* that turns messages down and answers too late.
THEOREM PluginCannotDrainTheBudget ==
  ASSUME \A r, s \in Run : r = s
  PROVE  InboxSpec => []BudgetRespected
BY PluginIsARecipient, SerialBudgetIsRespected, PTL

\* With no two runs at a time the server keeps its promise to senders against
\* this plugin, too.
THEOREM PluginImplementsLifecycle ==
  ASSUME \A r, s \in Run : r = s
  PROVE  InboxSpec => ImplementsLifecycle
BY PluginIsARecipient, SerialDeliveryImplementsLifecycle, PTL

-----------------------------------------------------------------------------
(* Delivered and processed *)

\* The memory of duplicates holds only what was processed, and what a recipient
\* took from the server was processed or is there to be fetched.
KeptInv ==
  /\ handed \subseteq kept
  /\ seen \subseteq kept

\* Every step keeps KeptInv: an id is marked only when its message is processed,
\* and a refusal hands nothing over.
LEMMA KeptStep == KeptInv /\ [InboxNext]_<<vars, inboxVars>> => KeptInv'
<1> SUFFICES ASSUME KeptInv, [InboxNext]_<<vars, inboxVars>> PROVE KeptInv'
  OBVIOUS
<1> USE DEF KeptInv
<1>1. CASE \/ \E t \in Thread : Ask(t) \/ HookSeesError(t) \/ SessionExpires(t)
           \/ \E t \in Thread, awaited \in SUBSET Peer : HookRuns(t, awaited)
           \/ \E k \in Key : RouteExpires(k)
           \/ \E i \in Item : Forget(i)
           \/ PluginRestart
           \/ UNCHANGED <<vars, inboxVars>>
  BY <1>1 DEF Ask, HookRuns, HookSeesError, RouteExpires, SessionExpires, Forget, PluginRestart, vars, history, inboxVars, pluginVars,
     inboxHistory
<1>2. ASSUME NEW a \in inFlight, Receive(a) PROVE KeptInv'
  <2>1. handed' = handed \cup {a.item}
    BY <1>2 DEF Receive, RecipientAccepts
  <2>2. CASE a.item \in seen
    BY <1>2, <2>1, <2>2 DEF Receive, inboxVars, pluginVars, inboxHistory
  <2>3. CASE a.item \notin seen
    <3>1. seen' = seen \cup {a.item} /\ kept' = kept \cup {a.item}
      BY <1>2, <2>3 DEF Receive, Route
    <3> QED
      BY <2>1, <3>1
  <2> QED
    BY <2>2, <2>3
<1>3. CASE \E a \in inFlight : Refuse(a)
  BY <1>3 DEF Refuse, AttemptFails, inboxVars, pluginVars, inboxHistory
<1>4. ASSUME kept' = kept \cup (handed' \ handed), seen' = seen PROVE KeptInv'
  BY <1>4
<1>5. CASE \/ Serves(\E i \in Item, c \in Conn : Replies(i, c))
           \/ Serves(\E a \in inFlight : AttemptOk(a))
           \/ Serves(\E a \in inFlight : AttemptFails(a))
           \/ Serves(\E i \in Item : BackoffElapses(i))
           \/ Serves(\E r \in Run : StartRun(r))
           \/ Serves(\E r \in Run, i \in Item : Visit(r, i))
           \/ Serves(\E c \in Conn : Reregister(c))
           \/ Serves(\E c \in Conn : DeleteConnection(c))
           \/ Serves(Restart)
  BY <1>4, <1>5 DEF Serves, pluginVars
<1> QED
  BY <1>1, <1>2, <1>3, <1>5, KeyAssumption DEF InboxNext

\* No message is called delivered that the recipient's plugin neither processed
\* nor finds in its inbox.
THEOREM NothingIsDismissedUnread == InboxSpec => []DeliveredWasRouted
<1>1. InboxInit => IInv /\ KeptInv
  BY IInvInit DEF InboxInit, Init, KeptInv
<1>2. IInv /\ KeptInv /\ [InboxNext]_<<vars, inboxVars>> => IInv' /\ KeptInv'
  BY InboxStepIsDelivery, IInvStep, KeptStep
<1>3. IInv /\ KeptInv => DeliveredWasRouted
  BY DEF IInv, DeliveredWasHandedOver, KeptInv, DeliveredWasRouted
<1> QED
  BY <1>1, <1>2, <1>3, PTL DEF InboxSpec

-----------------------------------------------------------------------------
(* Keys and routes *)

RouteType == [session : Session \cup {NoRef}, thread : Thread \cup {NoRef},
              msg : (Thread \X Peer) \cup {NoRef}]

InboxTypeOK ==
  /\ letter \in [Item -> Letter]
  /\ asked \in [Thread -> {"no", "under way", "over"}]
  /\ routes \in [Key -> RouteType]
  /\ sessions \in [Thread -> Seq(Item \cup {NoRef})]

\* A thread, a question, a pair and a participant are different keys, and none of
\* them is a missing field.
LEMMA KindsOfKeys ==
  ASSUME NEW t \in Thread, NEW u \in Thread, NEW p \in Peer, NEW q \in Peer
  PROVE  /\ t \in Key /\ <<u, p>> \in Key /\ <<"pair", q>> \in Key /\ <<"peer", q>> \in Key
         /\ t # NoRef /\ <<u, p>> # NoRef
         /\ t # <<u, p>> /\ t # <<"pair", q>> /\ t # <<"peer", q>>
         /\ <<u, p>> # <<"pair", q>> /\ <<u, p>> # <<"peer", q>>
<1>1. t \in Key /\ <<u, p>> \in Key /\ <<"pair", q>> \in Key /\ <<"peer", q>> \in Key
  BY DEF Key
<1>2. t # NoRef /\ <<u, p>> # NoRef
  BY <1>1, KeyAssumption
<1>3. t # <<u, p>> /\ t # <<"pair", q>> /\ t # <<"peer", q>>
  BY KeyAssumption
<1>4. u # "pair" /\ u # "peer"
  BY KeyAssumption
<1> QED
  BY <1>1, <1>2, <1>3, <1>4

\* The first of the keys that hit is one that hits.
LEMMA LeastOfFour ==
  ASSUME NEW S \in SUBSET (1 .. 4), S # {}
  PROVE  Min(S) \in S /\ \A n \in S : Min(S) <= n
<1>1. \E x \in S : \A y \in S : x =< y
  <2>1. \A y \in S : y \in {1, 2, 3, 4}
    OBVIOUS
  <2>2. CASE 1 \in S
    BY <2>1, <2>2
  <2>3. CASE 1 \notin S /\ 2 \in S
    BY <2>1, <2>3
  <2>4. CASE 1 \notin S /\ 2 \notin S /\ 3 \in S
    <3>1. \A y \in S : y = 3 \/ y = 4
      BY <2>1, <2>4
    <3>2. \A y \in S : 3 =< y
      BY <3>1
    <3> QED
      BY <2>4, <3>2
  <2>5. CASE 1 \notin S /\ 2 \notin S /\ 3 \notin S
    <3>1. \A y \in S : y = 4
      BY <2>1, <2>5
    <3>2. PICK x \in S : TRUE
      OBVIOUS
    <3>3. x = 4 /\ \A y \in S : x =< y
      BY <3>1
    <3> QED
      BY <3>3
  <2> QED
    BY <2>2, <2>3, <2>4, <2>5
<1> QED
  BY <1>1 DEF Min

\* What a letter may say, whoever wrote it.
Sayable(l) ==
  l.from \in Peer /\ l.thread \in Thread \cup {NoRef} /\ l.answers \in BOOLEAN

\* resolveInboundRoute ends at the default session or at a route that is there.
LEMMA ResolveFinds ==
  ASSUME NEW l, Sayable(l)
  PROVE  \/ Resolve(l) = [NoRoute EXCEPT !.session = Main]
         \/ \E k \in Key : routes[k] # NoRoute /\ Resolve(l) = routes[k]
<1> DEFINE keys == KeysInOrder(l)
           hits == {n \in DOMAIN keys : keys[n] \in Key /\ routes[keys[n]] # NoRoute}
<1>1. DOMAIN keys = 1 .. 4
  BY DEF KeysInOrder
<1>2. Resolve(l) = IF hits = {} THEN [NoRoute EXCEPT !.session = Main] ELSE routes[keys[Min(hits)]]
  BY DEF Resolve
<1>3. hits # {} => Min(hits) \in hits
  BY <1>1, LeastOfFour
<1>4. \A n \in hits : keys[n] \in Key /\ routes[keys[n]] # NoRoute
  OBVIOUS
<1> HIDE DEF hits, keys
<1> QED
  BY <1>2, <1>3, <1>4

\* A letter that names a thread with a route is routed by the route of the
\* question it answers, if there is one, or else by that of the thread.
LEMMA ResolveByThread ==
  ASSUME NEW l, Sayable(l), l.thread \in Thread, routes[l.thread] # NoRoute
  PROVE  \/ Resolve(l) = routes[l.thread]
         \/ routes[<<l.thread, l.from>>] # NoRoute /\ Resolve(l) = routes[<<l.thread, l.from>>]
<1> DEFINE keys == KeysInOrder(l)
           hits == {n \in DOMAIN keys : keys[n] \in Key /\ routes[keys[n]] # NoRoute}
<1>1. DOMAIN keys = 1 .. 4
  BY DEF KeysInOrder
<1>2. Resolve(l) = IF hits = {} THEN [NoRoute EXCEPT !.session = Main] ELSE routes[keys[Min(hits)]]
  BY DEF Resolve
<1>3. keys[1] \in {NoRef, <<l.thread, l.from>>} /\ keys[2] = l.thread
  BY DEF KeysInOrder
<1>4. 2 \in hits
  <2>1. l.thread \in Key
    BY DEF Key
  <2> HIDE DEF keys
  <2> QED
    BY <1>1, <1>3, <2>1
<1>5. hits \subseteq 1 .. 4
  BY <1>1
<1>6. Min(hits) \in hits /\ Min(hits) <= 2
  BY <1>4, <1>5, LeastOfFour
<1>7. Min(hits) \in {1, 2}
  BY <1>5, <1>6
<1>8. keys[Min(hits)] \in Key /\ routes[keys[Min(hits)]] # NoRoute
  BY <1>6
<1> HIDE DEF hits, keys
<1>9. CASE Min(hits) = 2
  BY <1>2, <1>3, <1>4, <1>9
<1>10. CASE Min(hits) = 1
  BY <1>2, <1>3, <1>4, <1>8, <1>10, KeyAssumption
<1> QED
  BY <1>7, <1>9, <1>10

\* What Remember leaves and writes.
LEMMA Remembered ==
  ASSUME NEW table, NEW keys, NEW route, NEW k \in Key
  PROVE  Remember(table, keys, route)[k] = IF k \in keys THEN route ELSE table[k]
BY DEF Remember

-----------------------------------------------------------------------------
(* Replies are routed and counted *)

\* The route of a thread carries the thread.
ThreadHasRoute == \A t \in Thread : routes[t] # NoRoute => routes[t].thread = t

\* The route of a question leads to the session that asked.
QuestionsLeadBack ==
  \A t \in Thread, p \in Peer :
    routes[<<t, p>>] # NoRoute => routes[<<t, p>>].session = asker[t]

\* A route that remembers a question knows who asked it: refreshing it under the
\* key of the question does no harm.
RoutesKnowTheirQuestion ==
  \A k \in Key, t \in Thread, p \in Peer :
    routes[k].msg = <<t, p>> => routes[k].session = asker[t]

\* A route that carries a thread leads to the session that asked, unless a
\* reply of the thread was routed while the thread had no route.
RoutesKnowTheirThread ==
  \A k \in Key, t \in Thread :
    routes[k].thread = t => t \in strayed \/ routes[k].session = asker[t]

\* No id is twice among the replies of a thread.
RepliesAreDistinct == \A t \in Thread : IsInjective(sessions[t])

\* What the routing of a message relies on, and preserves.
RouteInv ==
  /\ InboxTypeOK
  /\ ThreadHasRoute
  /\ QuestionsLeadBack
  /\ RoutesKnowTheirQuestion
  /\ RoutesKnowTheirThread
  /\ RepliesAreDistinct

\* A message that names a thread with a route leads to the session that asked.
LEMMA ResolvedToAsker ==
  ASSUME RouteInv, NEW l, Sayable(l), l.thread \in Thread,
         routes[l.thread] # NoRoute, l.thread \notin strayed
  PROVE  Resolve(l).session = asker[l.thread]
<1>1. l.thread \in Key
  BY DEF Key
<1>2. routes[l.thread].thread = l.thread
  BY DEF RouteInv, ThreadHasRoute
<1>3. routes[l.thread].session = asker[l.thread]
  BY <1>1, <1>2 DEF RouteInv, RoutesKnowTheirThread
<1>4. routes[<<l.thread, l.from>>] # NoRoute =>
        routes[<<l.thread, l.from>>].session = asker[l.thread]
  BY DEF RouteInv, QuestionsLeadBack, Sayable
<1> QED
  BY <1>3, <1>4, ResolveByThread

\* The value for a thread that is not known counts nothing twice either.
LEMMA NoRepliesYet == NoSession \in Seq(Item \cup {NoRef}) /\ IsInjective(NoSession)
<1>1. NoSession \in Seq(Item \cup {NoRef}) /\ Len(NoSession) = 1
  BY DEF NoSession
<1>2. \A n \in DOMAIN NoSession : n = 1
  BY <1>1
<1> QED
  BY <1>1, <1>2 DEF IsInjective

\* Empty tables satisfy RouteInv.
LEMMA RouteInit == InboxInit => RouteInv
<1> SUFFICES ASSUME InboxInit PROVE RouteInv
  OBVIOUS
<1>1. NoRoute \in RouteType /\ NoRoute.thread = NoRef /\ NoRoute.msg = NoRef
  BY DEF NoRoute, RouteType
<1>2. NoSession \in Seq(Item \cup {NoRef}) /\ IsInjective(NoSession)
  BY NoRepliesYet
<1>3. InboxTypeOK
  BY <1>1, <1>2 DEF InboxInit, InboxTypeOK
<1>4. (\A t \in Thread : t \in Key) /\ \A t \in Thread, p \in Peer : <<t, p>> \in Key
  BY DEF Key
<1>5. /\ \A k \in Key : routes[k] = NoRoute
      /\ \A t \in Thread : sessions[t] = NoSession
  BY DEF InboxInit
<1>6. (\A t \in Thread : t # NoRef) /\ \A t \in Thread, p \in Peer : <<t, p>> # NoRef
  BY <1>4, KeyAssumption
<1>7. ThreadHasRoute
  BY <1>4, <1>5 DEF ThreadHasRoute
<1>10. QuestionsLeadBack
  BY <1>4, <1>5 DEF QuestionsLeadBack
<1>8. RoutesKnowTheirQuestion /\ RoutesKnowTheirThread
  <2>1. \A k \in Key : routes[k].msg = NoRef /\ routes[k].thread = NoRef
    BY <1>1, <1>5
  <2>2. /\ \A k \in Key, t \in Thread, p \in Peer : routes[k].msg # <<t, p>>
        /\ \A k \in Key, t \in Thread : routes[k].thread # t
    BY <1>6, <2>1
  <2> QED
    BY <2>2 DEF RoutesKnowTheirQuestion, RoutesKnowTheirThread
<1>9. RepliesAreDistinct
  BY <1>2, <1>5 DEF RepliesAreDistinct
<1> QED
  BY <1>3, <1>7, <1>8, <1>9, <1>10 DEF RouteInv

\* The question is sent, or its sending failed as a whole: no route changes.
LEMMA AskKeepsRoutes ==
  ASSUME RouteInv, NEW t \in Thread, Ask(t) \/ HookSeesError(t)
  PROVE  RouteInv'
<1>1. /\ asked' = [asked EXCEPT ![t] = "under way"] \/ asked' = [asked EXCEPT ![t] = "over"]
      /\ UNCHANGED <<letter, routes, sessions, strayed>>
  BY DEF Ask, HookSeesError, inboxHistory
<1>2. InboxTypeOK'
  BY <1>1 DEF RouteInv, InboxTypeOK
<1>3. ThreadHasRoute' /\ QuestionsLeadBack'
  BY <1>1 DEF RouteInv, ThreadHasRoute, QuestionsLeadBack
<1>4. RoutesKnowTheirQuestion' /\ RoutesKnowTheirThread' /\ RepliesAreDistinct'
  BY <1>1 DEF RouteInv, RoutesKnowTheirQuestion, RoutesKnowTheirThread, RepliesAreDistinct
<1> QED
  BY <1>2, <1>3, <1>4 DEF RouteInv

\* What the hook writes: under each key the old route, or one of a question of
\* the thread; nothing under other threads and their questions.
LEMMA HookWrites ==
  ASSUME RouteInv, NEW t \in Thread, NEW awaited \in SUBSET Peer, HookRuns(t, awaited)
  PROVE  /\ routes' = [k \in Key |-> routes'[k]]
         /\ \A k \in Key : routes'[k] = routes[k] \/ \E p \in Peer : routes'[k] = RouteOf(t, p)
         /\ \A u \in Thread : u # t => routes'[u] = routes[u]
         /\ \A u \in Thread, p \in Peer : u # t => routes'[<<u, p>>] = routes[<<u, p>>]
<1> DEFINE has(k, p) == k \in {<<t, p>>, <<"peer", p>>}
           new(k) == IF k = t THEN RouteOf(t, CHOOSE p \in awaited : TRUE)
                     ELSE IF \E p \in awaited : has(k, p)
                     THEN RouteOf(t, CHOOSE p \in awaited : has(k, p))
                     ELSE routes[k]
<1>1. CASE awaited = {}
  <2>1. routes' = routes
    BY <1>1 DEF HookRuns
  <2> QED
    BY <2>1 DEF RouteInv, InboxTypeOK
<1>2. CASE awaited # {}
  <2>1. routes' = [k \in Key |-> new(k)]
    BY <1>2 DEF HookRuns
  <2>2. \A k \in Key : routes'[k] = new(k)
    BY <2>1
  <2>3. ASSUME NEW k, k = t \/ \E p \in awaited : has(k, p)
        PROVE  \E p \in Peer : new(k) = RouteOf(t, p)
    <3>1. (CHOOSE p \in awaited : TRUE) \in Peer
      BY <1>2
    <3>2. (\E p \in awaited : has(k, p)) => (CHOOSE p \in awaited : has(k, p)) \in Peer
      OBVIOUS
    <3> QED
      BY <2>3, <3>1, <3>2
  <2>4. \A k : k # t /\ (\A p \in awaited : ~has(k, p)) => new(k) = routes[k]
    OBVIOUS
  <2>5. \A u \in Thread, p \in awaited : ~has(u, p)
    BY KindsOfKeys
  <2>6. \A u \in Thread, q \in Peer, p \in awaited : u # t => ~has(<<u, q>>, p) /\ <<u, q>> # t
    BY KindsOfKeys
  <2>7. \A u \in Thread, q \in Peer : u \in Key /\ <<u, q>> \in Key
    BY DEF Key
  <2> HIDE DEF new, has
  <2>8. \A k \in Key : new(k) = routes[k] \/ \E p \in Peer : new(k) = RouteOf(t, p)
    BY <2>3, <2>4
  <2>9. routes' = [k \in Key |-> routes'[k]]
    BY <2>1
  <2>10. ASSUME NEW u \in Thread, u # t PROVE routes'[u] = routes[u]
    <3>1. \A p \in awaited : ~has(u, p)
      BY <2>5
    <3>2. new(u) = routes[u]
      BY <2>4, <2>10, <3>1
    <3> QED
      BY <2>2, <2>7, <3>2 DEF Key
  <2>11. ASSUME NEW u \in Thread, NEW q \in Peer, u # t
         PROVE  routes'[<<u, q>>] = routes[<<u, q>>]
    <3>1. <<u, q>> # t /\ \A p \in awaited : ~has(<<u, q>>, p)
      BY <2>6, <2>11, KindsOfKeys
    <3>2. new(<<u, q>>) = routes[<<u, q>>]
      BY <2>4, <3>1
    <3> QED
      BY <2>2, <2>7, <3>2
  <2>12. \A k \in Key : routes'[k] = routes[k] \/ \E p \in Peer : routes'[k] = RouteOf(t, p)
    BY <2>2, <2>8
  <2> QED
    BY <2>9, <2>10, <2>11, <2>12
<1> QED
  BY <1>1, <1>2

\* after_tool_call remembers the thread, and the questions and peers it awaits
\* replies to and from.
LEMMA HookKeepsRoutes ==
  ASSUME RouteInv, NEW t \in Thread, NEW awaited \in SUBSET Peer, HookRuns(t, awaited)
  PROVE  RouteInv'
<1>0. /\ routes' = [k \in Key |-> routes'[k]]
      /\ \A k \in Key : routes'[k] = routes[k] \/ \E p \in Peer : routes'[k] = RouteOf(t, p)
      /\ \A u \in Thread : u # t => routes'[u] = routes[u]
      /\ \A u \in Thread, p \in Peer : u # t => routes'[<<u, p>>] = routes[<<u, p>>]
  BY HookWrites
<1>1. /\ asked' = [asked EXCEPT ![t] = "over"]
      /\ sessions' = [sessions EXCEPT ![t] = IF @ = NoSession THEN <<>> ELSE @]
      /\ UNCHANGED <<letter, strayed>>
  BY DEF HookRuns, inboxHistory
<1>2. \A p \in Peer : /\ RouteOf(t, p) \in RouteType
                      /\ RouteOf(t, p).session = asker[t]
                      /\ RouteOf(t, p).thread = t
                      /\ RouteOf(t, p).msg = <<t, p>>
  BY InboxAssumption DEF RouteOf, RouteType
<1>3. asked' \in [Thread -> {"no", "under way", "over"}]
  BY <1>1 DEF RouteInv, InboxTypeOK
<1>4. routes' \in [Key -> RouteType]
  <2>1. \A k \in Key : routes'[k] \in RouteType
    BY <1>0, <1>2 DEF RouteInv, InboxTypeOK
  <2> QED
    BY <1>0, <2>1
<1>5. sessions' \in [Thread -> Seq(Item \cup {NoRef})] /\ RepliesAreDistinct'
  <2>1. <<>> \in Seq(Item \cup {NoRef}) /\ IsInjective(<<>>)
    BY DEF IsInjective
  <2> QED
    BY <1>1, <2>1 DEF RouteInv, InboxTypeOK, RepliesAreDistinct
<1>6. ThreadHasRoute'
  <2>1. ASSUME NEW u \in Thread, routes'[u] # NoRoute PROVE routes'[u].thread = u
    <3>1. CASE routes'[u] = routes[u]
      BY <2>1, <3>1 DEF RouteInv, ThreadHasRoute
    <3>2. CASE u = t /\ \E p \in Peer : routes'[u] = RouteOf(t, p)
      BY <1>2, <3>2
    <3>3. u \in Key
      BY DEF Key
    <3> QED
      BY <1>0, <3>1, <3>2, <3>3
  <2> QED
    BY <2>1 DEF ThreadHasRoute
<1>7. QuestionsLeadBack'
  <2>1. ASSUME NEW u \in Thread, NEW q \in Peer, routes'[<<u, q>>] # NoRoute
        PROVE  routes'[<<u, q>>].session = asker[u]
    <3>1. CASE routes'[<<u, q>>] = routes[<<u, q>>]
      BY <2>1, <3>1 DEF RouteInv, QuestionsLeadBack
    <3>2. CASE u = t /\ \E p \in Peer : routes'[<<u, q>>] = RouteOf(t, p)
      BY <1>2, <3>2
    <3>3. <<u, q>> \in Key
      BY DEF Key
    <3> QED
      BY <1>0, <3>1, <3>2, <3>3
  <2> QED
    BY <2>1 DEF QuestionsLeadBack
<1>8. RoutesKnowTheirQuestion'
  <2>1. ASSUME NEW k \in Key, NEW u \in Thread, NEW q \in Peer, routes'[k].msg = <<u, q>>
        PROVE  routes'[k].session = asker[u]
    <3>1. CASE routes'[k] = routes[k]
      BY <2>1, <3>1 DEF RouteInv, RoutesKnowTheirQuestion
    <3>2. CASE \E p \in Peer : routes'[k] = RouteOf(t, p)
      BY <1>2, <2>1, <3>2
    <3> QED
      BY <1>0, <3>1, <3>2
  <2> QED
    BY <2>1 DEF RoutesKnowTheirQuestion
<1>9. RoutesKnowTheirThread'
  <2>1. ASSUME NEW k \in Key, NEW u \in Thread, routes'[k].thread = u
        PROVE  u \in strayed \/ routes'[k].session = asker[u]
    <3>1. CASE routes'[k] = routes[k]
      BY <2>1, <3>1 DEF RouteInv, RoutesKnowTheirThread
    <3>2. CASE \E p \in Peer : routes'[k] = RouteOf(t, p)
      BY <1>2, <2>1, <3>2
    <3> QED
      BY <1>0, <3>1, <3>2
  <2> QED
    BY <1>1, <2>1 DEF RoutesKnowTheirThread
<1> QED
  BY <1>1, <1>3, <1>4, <1>5, <1>6, <1>7, <1>8, <1>9 DEF RouteInv, InboxTypeOK

\* mergeAskAroundReplies adds a reply once.
LEMMA MergedOnce ==
  ASSUME NEW S, NEW q \in Seq(S), IsInjective(q), NEW i \in S
  PROVE  Merged(q, i) \in Seq(S) /\ IsInjective(Merged(q, i))
<1>1. CASE Contains(q, i)
  BY <1>1 DEF Merged
<1>2. CASE ~Contains(q, i)
  <2>1. Merged(q, i) = Append(q, i)
    BY <1>2 DEF Merged
  <2>2. /\ Append(q, i) \in Seq(S)
        /\ DOMAIN Append(q, i) = 1 .. (Len(q) + 1)
        /\ \A n \in 1 .. Len(q) : Append(q, i)[n] = q[n]
        /\ Append(q, i)[Len(q) + 1] = i
    OBVIOUS
  <2>3. Len(q) \in Nat /\ DOMAIN q = 1 .. Len(q)
    OBVIOUS
  <2>4. \A n \in 1 .. Len(q) : q[n] # i
    BY <1>2 DEF Contains
  <2>5. \A m, n \in 1 .. Len(q) : q[m] = q[n] => m = n
    BY <2>3 DEF IsInjective
  <2>6. ASSUME NEW m \in 1 .. (Len(q) + 1), NEW n \in 1 .. (Len(q) + 1),
               Append(q, i)[m] = Append(q, i)[n]
        PROVE  m = n
    <3>1. m \in 1 .. Len(q) \/ m = Len(q) + 1
      BY <2>3
    <3>2. n \in 1 .. Len(q) \/ n = Len(q) + 1
      BY <2>3
    <3> QED
      BY <2>2, <2>4, <2>5, <2>6, <3>1, <3>2
  <2> QED
    BY <2>1, <2>2, <2>6 DEF IsInjective
<1> QED
  BY <1>1, <1>2

\* routeAcceptedMahiloDelivery: the route it finds is refreshed and remembered.
LEMMA RouteKeepsRoutes ==
  ASSUME RouteInv, NEW i \in Item, Route(i), UNCHANGED <<letter, asked>>
  PROVE  RouteInv'
<1> DEFINE l == letter[i]
           route == Resolve(l)
           thread == IF l.thread # NoRef THEN l.thread ELSE route.thread
           new == [route EXCEPT !.thread = thread]
           keys == {thread, route.msg, <<"pair", l.from>>, <<"peer", l.from>>}
<1>1. Sayable(l)
  BY InboxAssumption DEF RouteInv, InboxTypeOK, Sayable
<1>2. /\ routes' = Remember(routes, keys, new)
      /\ sessions' = IF thread = NoRef \/ (thread # NoRef /\ sessions[thread] = NoSession)
                     THEN sessions ELSE [sessions EXCEPT ![thread] = Merged(@, i)]
      /\ strayed' = strayed \cup {t \in {l.thread} \cap Thread : routes[t] = NoRoute}
  BY DEF Route
<1>3. NoRef \notin Thread /\ NoRef \notin Thread \X Peer
  BY KeyAssumption DEF Key
<1>4. /\ route \in RouteType
      /\ \A t \in Thread, p \in Peer : route.msg = <<t, p>> => route.session = asker[t]
      /\ \A t \in Thread : route.thread = t => t \in strayed \/ route.session = asker[t]
  <2>1. CASE route = [NoRoute EXCEPT !.session = Main]
    <3>1. route = [session |-> Main, thread |-> NoRef, msg |-> NoRef]
      BY <2>1 DEF NoRoute
    <3>2. (\A t \in Thread : t # NoRef) /\ \A t \in Thread, p \in Peer : <<t, p>> # NoRef
      BY <1>3
    <3> HIDE DEF route
    <3> QED
      BY <3>1, <3>2, InboxAssumption DEF RouteType
  <2>2. CASE \E k \in Key : route = routes[k]
    <3>1. PICK k \in Key : route = routes[k]
      BY <2>2
    <3> HIDE DEF route
    <3>2. route \in RouteType
      BY <3>1 DEF RouteInv, InboxTypeOK
    <3>3. \A t \in Thread, p \in Peer : route.msg = <<t, p>> => route.session = asker[t]
      BY <3>1 DEF RouteInv, RoutesKnowTheirQuestion
    <3>4. \A t \in Thread : route.thread = t => t \in strayed \/ route.session = asker[t]
      BY <3>1 DEF RouteInv, RoutesKnowTheirThread
    <3> QED
      BY <3>2, <3>3, <3>4
  <2> QED
    BY <1>1, <2>1, <2>2, ResolveFinds
<1>5. thread \in Thread \cup {NoRef}
  BY <1>1, <1>4 DEF Sayable, RouteType
<1>6. /\ new \in RouteType
      /\ new.session = route.session /\ new.thread = thread /\ new.msg = route.msg
  BY <1>4, <1>5 DEF RouteType
<1>7. ASSUME NEW t \in Thread, thread = t
      PROVE  t \in strayed' \/ new.session = asker[t]
  <2>1. CASE l.thread = NoRef
    BY <1>2, <1>4, <1>6, <1>7, <2>1
  <2>2. CASE l.thread # NoRef /\ routes[t] = NoRoute
    BY <1>2, <1>7, <2>2
  <2>3. CASE l.thread # NoRef /\ routes[t] # NoRoute /\ t \notin strayed
    BY <1>1, <1>6, <1>7, <2>3, ResolvedToAsker
  <2>4. CASE t \in strayed
    BY <1>2, <2>4
  <2> QED
    BY <2>1, <2>2, <2>3, <2>4
<1>8. strayed \subseteq strayed'
  BY <1>2
<1>9. l.from \in Peer
  BY <1>1 DEF Sayable
<1>10. \A k \in Key : routes'[k] = IF k \in keys THEN new ELSE routes[k]
  BY <1>2 DEF Remember
<1>11. /\ \A t \in Thread : t \in Key /\ (t \in keys => thread = t)
       /\ \A t \in Thread, p \in Peer :
            <<t, p>> \in Key /\ (<<t, p>> \in keys => new.msg = <<t, p>>)
  <2>1. \A t \in Thread : t \in Key /\ t # <<"pair", l.from>> /\ t # <<"peer", l.from>>
    BY <1>9, KindsOfKeys
  <2>2. \A t \in Thread : t # route.msg
    BY <1>3, <1>4, KeyAssumption DEF RouteType
  <2>3. \A t \in Thread, p \in Peer :
          /\ <<t, p>> \in Key /\ <<t, p>> # <<"pair", l.from>> /\ <<t, p>> # <<"peer", l.from>>
          /\ <<t, p>> # thread
    BY <1>3, <1>5, <1>9, KindsOfKeys
  <2> QED
    BY <1>6, <2>1, <2>2, <2>3
<1>12. routes' \in [Key -> RouteType]
  <2>1. routes' = [k \in Key |-> IF k \in keys THEN new ELSE routes[k]]
    BY <1>2 DEF Remember
  <2> HIDE DEF new, keys
  <2> QED
    BY <1>6, <2>1 DEF RouteInv, InboxTypeOK
<1>13. sessions' \in [Thread -> Seq(Item \cup {NoRef})] /\ RepliesAreDistinct'
  <2>1. CASE sessions' = sessions
    BY <2>1 DEF RouteInv, InboxTypeOK, RepliesAreDistinct
  <2>2. CASE thread \in Thread /\ sessions' = [sessions EXCEPT ![thread] = Merged(@, i)]
    <3> HIDE DEF thread
    <3>1. sessions[thread] \in Seq(Item \cup {NoRef}) /\ IsInjective(sessions[thread])
      BY <2>2 DEF RouteInv, InboxTypeOK, RepliesAreDistinct
    <3>2. /\ Merged(sessions[thread], i) \in Seq(Item \cup {NoRef})
          /\ IsInjective(Merged(sessions[thread], i))
      BY <3>1, MergedOnce
    <3> QED
      BY <2>2, <3>2 DEF RouteInv, InboxTypeOK, RepliesAreDistinct
  <2> HIDE DEF thread
  <2> QED
    BY <1>2, <1>5, <2>1, <2>2
<1> HIDE DEF l, route, thread, new, keys
<1>14. ThreadHasRoute'
  <2>1. ASSUME NEW t \in Thread, routes'[t] # NoRoute PROVE routes'[t].thread = t
    BY <1>6, <1>10, <1>11, <2>1 DEF RouteInv, ThreadHasRoute
  <2> QED
    BY <2>1 DEF ThreadHasRoute
<1>15. QuestionsLeadBack'
  <2>1. ASSUME NEW t \in Thread, NEW p \in Peer, routes'[<<t, p>>] # NoRoute
        PROVE  routes'[<<t, p>>].session = asker[t]
    <3>1. CASE <<t, p>> \in keys
      BY <1>4, <1>6, <1>10, <1>11, <3>1
    <3>2. CASE <<t, p>> \notin keys
      BY <1>10, <1>11, <2>1, <3>2 DEF RouteInv, QuestionsLeadBack
    <3> QED
      BY <3>1, <3>2
  <2> QED
    BY <2>1 DEF QuestionsLeadBack
<1>16. RoutesKnowTheirQuestion'
  <2>1. ASSUME NEW k \in Key, NEW t \in Thread, NEW p \in Peer, routes'[k].msg = <<t, p>>
        PROVE  routes'[k].session = asker[t]
    <3>1. CASE k \in keys
      BY <1>4, <1>6, <1>10, <2>1, <3>1
    <3>2. CASE k \notin keys
      BY <1>10, <2>1, <3>2 DEF RouteInv, RoutesKnowTheirQuestion
    <3> QED
      BY <3>1, <3>2
  <2> QED
    BY <2>1 DEF RoutesKnowTheirQuestion
<1>17. RoutesKnowTheirThread'
  <2>1. ASSUME NEW k \in Key, NEW t \in Thread, routes'[k].thread = t
        PROVE  t \in strayed' \/ routes'[k].session = asker[t]
    <3>1. CASE k \in keys
      BY <1>6, <1>7, <1>10, <2>1, <3>1
    <3>2. CASE k \notin keys
      BY <1>8, <1>10, <2>1, <3>2 DEF RouteInv, RoutesKnowTheirThread
    <3> QED
      BY <3>1, <3>2
  <2> QED
    BY <2>1 DEF RoutesKnowTheirThread
<1> QED
  BY <1>12, <1>13, <1>14, <1>15, <1>16, <1>17 DEF RouteInv, InboxTypeOK

\* All tables are empty after a restart of the plugin, and no ask goes on.
LEMMA PluginRestartKeepsRoutes ==
  ASSUME RouteInv, PluginRestart
  PROVE  RouteInv'
<1>1. /\ routes' = [k \in Key |-> NoRoute]
      /\ sessions' = [t \in Thread |-> NoSession]
      /\ asked' = [t \in Thread |-> IF asked[t] = "no" THEN "no" ELSE "over"]
      /\ letter' = letter
  BY DEF PluginRestart
<1>2. NoRoute \in RouteType /\ NoRoute.thread = NoRef /\ NoRoute.msg = NoRef
  BY DEF NoRoute, RouteType
<1>3. InboxTypeOK'
  BY <1>1, <1>2, NoRepliesYet DEF RouteInv, InboxTypeOK
<1>4. \A t \in Thread, p \in Peer : <<t, p>> \in Key /\ <<t, p>> # NoRef
  BY KeyAssumption DEF Key
<1>5. \A t \in Thread : t \in Key /\ t # NoRef
  BY KeyAssumption DEF Key
<1>6. \A k \in Key, t \in Thread, p \in Peer : routes'[k].msg # <<t, p>>
  BY <1>1, <1>2, <1>4
<1>7. \A k \in Key, t \in Thread : routes'[k].thread # t
  BY <1>1, <1>2, <1>5
<1>8. ThreadHasRoute' /\ RepliesAreDistinct'
  BY <1>1, <1>5, NoRepliesYet DEF ThreadHasRoute, RepliesAreDistinct
<1>9. QuestionsLeadBack'
  BY <1>1, <1>4 DEF QuestionsLeadBack
<1>10. RoutesKnowTheirQuestion'
  BY <1>6 DEF RoutesKnowTheirQuestion
<1>11. RoutesKnowTheirThread'
  BY <1>7 DEF RoutesKnowTheirThread
<1> QED
  BY <1>3, <1>8, <1>9, <1>10, <1>11 DEF RouteInv

\* A day passes since a route was written: it is gone, and the others say what
\* they said.
LEMMA ExpiryKeepsRoutes ==
  ASSUME RouteInv, NEW k \in Key, RouteExpires(k)
  PROVE  RouteInv'
<1>1. /\ routes' = [routes EXCEPT ![k] = NoRoute]
      /\ UNCHANGED <<letter, asked, sessions, strayed>>
  BY DEF RouteExpires, inboxHistory
<1>2. NoRoute \in RouteType /\ NoRoute.thread = NoRef /\ NoRoute.msg = NoRef
  BY DEF NoRoute, RouteType
<1>3. InboxTypeOK'
  BY <1>1, <1>2 DEF RouteInv, InboxTypeOK
<1>4. \A j \in Key : routes'[j] = NoRoute \/ routes'[j] = routes[j]
  BY <1>1 DEF RouteInv, InboxTypeOK
<1>5. \A t \in Thread : t \in Key /\ t # NoRef
  BY KeyAssumption DEF Key
<1>6. \A t \in Thread, p \in Peer : <<t, p>> \in Key /\ <<t, p>> # NoRef
  BY KindsOfKeys
<1>7. ThreadHasRoute' /\ QuestionsLeadBack'
  BY <1>4, <1>5, <1>6 DEF RouteInv, ThreadHasRoute, QuestionsLeadBack
<1>8. RoutesKnowTheirQuestion'
  BY <1>2, <1>4, <1>6 DEF RouteInv, RoutesKnowTheirQuestion
<1>9. RoutesKnowTheirThread'
  BY <1>1, <1>2, <1>4, <1>5 DEF RouteInv, RoutesKnowTheirThread
<1>10. RepliesAreDistinct'
  BY <1>1 DEF RouteInv, RepliesAreDistinct
<1> QED
  BY <1>3, <1>7, <1>8, <1>9, <1>10 DEF RouteInv

\* A day passes since a session was written: its replies are gone with it.
LEMMA SessionExpiryKeepsRoutes ==
  ASSUME RouteInv, NEW t \in Thread, SessionExpires(t)
  PROVE  RouteInv'
<1>1. /\ sessions' = [sessions EXCEPT ![t] = NoSession]
      /\ UNCHANGED <<letter, asked, routes, strayed>>
  BY DEF SessionExpires, inboxHistory
<1>2. InboxTypeOK' /\ RepliesAreDistinct'
  BY <1>1, NoRepliesYet DEF RouteInv, InboxTypeOK, RepliesAreDistinct
<1> QED
  BY <1>1, <1>2 DEF RouteInv, ThreadHasRoute, QuestionsLeadBack, RoutesKnowTheirQuestion,
     RoutesKnowTheirThread

\* Every other step leaves the tables alone.
LEMMA QuietStepsKeepRoutes ==
  ASSUME RouteInv, UNCHANGED <<letter, asked, routes, sessions, strayed>>
  PROVE  RouteInv'
BY DEF RouteInv, InboxTypeOK, ThreadHasRoute, QuestionsLeadBack, RoutesKnowTheirQuestion,
   RoutesKnowTheirThread, RepliesAreDistinct

\* Every step keeps RouteInv.
LEMMA RouteStep == TypeOK /\ RouteInv /\ [InboxNext]_<<vars, inboxVars>> => RouteInv'
<1> SUFFICES ASSUME TypeOK, RouteInv, [InboxNext]_<<vars, inboxVars>> PROVE RouteInv'
  OBVIOUS
<1>1. CASE \E t \in Thread : Ask(t) \/ HookSeesError(t)
  BY <1>1, AskKeepsRoutes
<1>2. CASE \E t \in Thread, awaited \in SUBSET Peer : HookRuns(t, awaited)
  BY <1>2, HookKeepsRoutes
<1>7. CASE \E k \in Expiring : RouteExpires(k)
  BY <1>7, ExpiryKeepsRoutes, KeyAssumption
<1>8. CASE \E t \in Expiring \cap Thread : SessionExpires(t)
  BY <1>8, SessionExpiryKeepsRoutes
<1>3. ASSUME NEW a \in inFlight, Receive(a) PROVE RouteInv'
  <2>1. a.item \in Item
    BY DEF TypeOK, Attempt
  <2>2. CASE a.item \in seen
    BY <1>3, <2>2, QuietStepsKeepRoutes DEF Receive, inboxVars, pluginVars, inboxHistory
  <2>3. CASE a.item \notin seen
    <3>1. Route(a.item) /\ UNCHANGED <<letter, asked>>
      BY <1>3, <2>3 DEF Receive
    <3> QED
      BY <2>1, <3>1, RouteKeepsRoutes
  <2> QED
    BY <2>2, <2>3
<1>4. CASE \/ \E a \in inFlight : Refuse(a)
           \/ \E i \in Item : Forget(i)
           \/ UNCHANGED <<vars, inboxVars>>
  BY <1>4, QuietStepsKeepRoutes DEF Refuse, Forget, inboxVars, pluginVars, inboxHistory
<1>5. CASE PluginRestart
  BY <1>5, PluginRestartKeepsRoutes
<1>6. CASE \/ Serves(\E i \in Item, c \in Conn : Replies(i, c))
           \/ Serves(\E a \in inFlight : AttemptOk(a))
           \/ Serves(\E a \in inFlight : AttemptFails(a))
           \/ Serves(\E i \in Item : BackoffElapses(i))
           \/ Serves(\E r \in Run : StartRun(r))
           \/ Serves(\E r \in Run, i \in Item : Visit(r, i))
           \/ Serves(\E c \in Conn : Reregister(c))
           \/ Serves(\E c \in Conn : DeleteConnection(c))
           \/ Serves(Restart)
  BY <1>6, QuietStepsKeepRoutes DEF Serves, pluginVars
<1> QED
  BY <1>1, <1>2, <1>3, <1>4, <1>5, <1>6, <1>7, <1>8 DEF InboxNext

\* RouteInv holds in every reachable state.
LEMMA RouteInvariant == InboxSpec => []RouteInv
<1>1. InboxInit => TypeOK /\ RouteInv
  BY IInvInit, RouteInit DEF InboxInit, IInv
<1>2. TypeOK /\ RouteInv /\ [InboxNext]_<<vars, inboxVars>> => TypeOK' /\ RouteInv'
  BY InboxStepIsDelivery, TypeStep, RouteStep
<1> QED
  BY <1>1, <1>2, PTL DEF InboxSpec

\* As long as its thread has a route, a reply that names the thread finds the
\* session that asked, whatever came and expired in between, unless a reply was
\* routed while the thread had none.
THEOREM AskersGetTheirReplies == InboxSpec => []RepliesReachTheAsker
<1>1. RouteInv => RepliesReachTheAsker
  <2>1. ASSUME RouteInv, NEW t \in Thread \ strayed, NEW p \in Peer, NEW a \in BOOLEAN,
               routes[t] # NoRoute
        PROVE  Resolve([from |-> p, thread |-> t, answers |-> a]).session = asker[t]
    <3> DEFINE l == [from |-> p, thread |-> t, answers |-> a]
    <3>1. l.thread = t /\ Sayable(l)
      BY DEF Sayable
    <3>2. l.thread \in Thread /\ routes[l.thread] # NoRoute /\ l.thread \notin strayed
      BY <2>1, <3>1
    <3> HIDE DEF l
    <3>3. Resolve(l).session = asker[l.thread]
      BY <2>1, <3>1, <3>2, ResolvedToAsker
    <3>4. Resolve(l).session = asker[t]
      BY <3>1, <3>3
    <3> QED
      BY <3>4 DEF l
  <2> QED
    BY <2>1 DEF RepliesReachTheAsker
<1> QED
  BY <1>1, RouteInvariant, PTL

\* A reply is never twice in the summary of its thread.
THEOREM NoReplyCountsTwice == InboxSpec => []RepliesCountOnce
<1>1. RouteInv => RepliesCountOnce
  BY DEF RouteInv, RepliesAreDistinct, RepliesCountOnce
<1> QED
  BY <1>1, RouteInvariant, PTL
=============================================================================
