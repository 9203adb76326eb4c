-------------------------------- MODULE Inbox --------------------------------
(***************************************************************************)
(* The recipient's plugin behind the callback of Delivery: its webhook     *)
(* route drops duplicates by a memory that forgets, and finds the session  *)
(* an inbound message belongs to (plugins/openclaw-mahilo/src/webhook*.ts, *)
(* state.ts, openclaw-plugin.ts).  An agent session asks around under a    *)
(* thread (correlation id); what is needed to route the replies is         *)
(* remembered by a hook that runs when the tool call is over, and a reply  *)
(* may be there before; what is remembered expires after a day.  Asks go   *)
(* to contacts; groups and the routes of plain sends are left out, and so  *)
(* is the deletion of accounts, which Delivery has: the plugin learns      *)
(* nothing of it.                                                          *)
(***************************************************************************)
EXTENDS Delivery, SequencesExt

CONSTANTS
  Session, \* agent sessions
  Main,    \* config.inboundSessionKey, where what has no route goes
  Thread,  \* correlation ids, one for each ask
  asker,   \* the session that asks
  Peer,    \* contacts, who are asked and who reply
  Letter,  \* what an inbound message may say of itself
  NoRef,   \* a field that is missing
  Expiring \* the keys that are given a day to expire: all, or a few as a bound

ASSUME InboxAssumption ==
  /\ asker \in [Thread -> Session] /\ Main \in Session
  /\ \A l \in Letter : l.from \in Peer /\ l.thread \in Thread \cup {NoRef} /\ l.answers \in BOOLEAN

VARIABLES
  letter,   \* of each item; answers: in_response_to names the question to the peer
  asked,    \* per thread: "no", "under way", "over" once the hook ran or the host died
  routes,   \* correlation, message, connection pair and participant routes
  sessions, \* per thread: the ids of the replies, in order, if the session is known
  seen,     \* InMemoryDedupeState
  kept,     \* history: items processed here, or left for the recipient to fetch
  strayed   \* history: threads with a reply that was routed while they had no route

pluginVars == <<asked, routes, sessions, seen>>
inboxHistory == <<kept, strayed>>
inboxVars == <<letter, pluginVars, inboxHistory>>

NoSession == <<NoRef>>
NoRoute == [session |-> NoRef, thread |-> NoRef, msg |-> NoRef]
Key == Thread \cup (Thread \X Peer) \cup ({"pair", "peer"} \X Peer)

\* Keys of different kinds differ: the plugin has a Map for each kind.
ASSUME KeyAssumption ==
  /\ Thread \cap (Thread \X Peer) = {} /\ Thread \cap ({"pair", "peer"} \X Peer) = {}
  /\ Thread \cap {"pair", "peer"} = {}
  /\ NoRef \notin Key /\ NoRef \notin {"pair", "peer"}
  /\ Expiring \subseteq Key

\* rememberInboundRoute: under every key of the route that is there.
Remember(table, keys, route) == [k \in Key |-> IF k \in keys THEN route ELSE table[k]]

-----------------------------------------------------------------------------
(* ask_network *)

\* The tool call sends the questions; the contacts may answer from here on.
Ask(t) ==
  /\ asked[t] = "no"
  /\ asked' = [asked EXCEPT ![t] = "under way"]
  /\ UNCHANGED <<letter, routes, sessions, seen, inboxHistory, vars>>

RouteOf(t, p) == [session |-> asker[t], thread |-> t, msg |-> <<t, p>>]

\* after_tool_call: the session is remembered, replies that are there are kept,
\* and a route for each question that is known to await its reply.  A question
\* whose sending failed, or seemed to, is not, though its reply may come.  The
\* thread's own route is that of one of them, the contact list's last.
HookRuns(t, awaited) ==
  /\ asked[t] = "under way"
  /\ asked' = [asked EXCEPT ![t] = "over"]
  /\ sessions' = [sessions EXCEPT ![t] = IF @ = NoSession THEN <<>> ELSE @]
  /\ IF awaited = {} THEN UNCHANGED routes
     ELSE routes' = [k \in Key |->
            IF k = t THEN RouteOf(t, CHOOSE p \in awaited : TRUE)
            ELSE IF \E p \in awaited : k \in {<<t, p>>, <<"peer", p>>}
            THEN RouteOf(t, CHOOSE p \in awaited : k \in {<<t, p>>, <<"peer", p>>})
            ELSE routes[k]]
  /\ UNCHANGED <<letter, seen, inboxHistory, vars>>

\* The result of the tool is an error: the hook remembers nothing.
HookSeesError(t) ==
  /\ asked[t] = "under way"
  /\ asked' = [asked EXCEPT ![t] = "over"]
  /\ UNCHANGED <<letter, routes, sessions, seen, inboxHistory, vars>>

\* A day has passed since the route, or the session, was last written.  (Keys
\* written at once expire at once; here each may go by itself.)
RouteExpires(k) ==
  /\ routes[k] # NoRoute
  /\ routes' = [routes EXCEPT ![k] = NoRoute]
  /\ UNCHANGED <<letter, asked, sessions, seen, inboxHistory, vars>>

SessionExpires(t) ==
  /\ sessions[t] # NoSession
  /\ sessions' = [sessions EXCEPT ![t] = NoSession]
  /\ UNCHANGED <<letter, asked, routes, seen, inboxHistory, vars>>

-----------------------------------------------------------------------------
(* A POST to the callback *)

\* Mutant: what was last heard from the sender goes before what the reply says.
BugKeysInOrder(l) ==
  <<<<"pair", l.from>>, IF l.answers THEN <<l.thread, l.from>> ELSE NoRef,
    l.thread, <<"peer", l.from>>>>

\* resolveInboundRoute: the keys of a message, the most telling first.
KeysInOrder(l) ==
  <<IF l.answers THEN <<l.thread, l.from>> ELSE NoRef,
    l.thread, <<"pair", l.from>>, <<"peer", l.from>>>>

Resolve(l) ==
  LET keys == KeysInOrder(l)
      hits == {n \in DOMAIN keys : keys[n] \in Key /\ routes[keys[n]] # NoRoute}
  IN IF hits = {} THEN [NoRoute EXCEPT !.session = Main] ELSE routes[keys[Min(hits)]]

\* Mutant: a reply is added, whether or not it is there.
BugMerged(replies, i) == Append(replies, i)

\* mergeAskAroundReplies
Merged(replies, i) == IF Contains(replies, i) THEN replies ELSE Append(replies, i)

\* routeAcceptedMahiloDelivery: the route is found and refreshed with what the
\* message says, a reply of a known thread is recorded, and the session is told (the
\* runtime may throw at that: the answer is 200 all the same).
Route(i) ==
  LET l == letter[i]
      route == Resolve(l)
      thread == IF l.thread # NoRef THEN l.thread ELSE route.thread
  IN /\ routes' = Remember(routes, {thread, route.msg, <<"pair", l.from>>, <<"peer", l.from>>},
                           [route EXCEPT !.thread = thread])
     /\ sessions' = IF thread = NoRef \/ (thread # NoRef /\ sessions[thread] = NoSession)
                    THEN sessions ELSE [sessions EXCEPT ![thread] = Merged(@, i)]
     /\ strayed' = strayed \cup {t \in {l.thread} \cap Thread : routes[t] = NoRoute}
     /\ kept' = kept \cup {i}

\* A message whose id was seen is answered 200 and dropped; any other is marked
\* before it is processed, and answered 200 even if that fails.
Receive(a) ==
  /\ RecipientAccepts(a)
  /\ IF a.item \in seen
     THEN UNCHANGED inboxVars
     ELSE /\ seen' = seen \cup {a.item}
          /\ Route(a.item)
          /\ UNCHANGED <<letter, asked>>

\* Mutant: the id is marked before signature and payload are checked.
BugRefuse(a) ==
  /\ ~a.accepted
  /\ AttemptFails(a)
  /\ seen' = seen \cup {a.item}
  /\ UNCHANGED <<letter, asked, routes, sessions, inboxHistory>>

\* No secret, a signature that does not match or is too old, a body that does
\* not parse: answered with an error and not marked.
Refuse(a) ==
  /\ ~a.accepted
  /\ AttemptFails(a)
  /\ UNCHANGED inboxVars

\* The entry is older than its time to live.
Forget(i) ==
  /\ i \in seen
  /\ seen' = seen \ {i}
  /\ UNCHANGED <<letter, asked, routes, sessions, inboxHistory, vars>>

\* All of it is in memory.
PluginRestart ==
  /\ seen' = {}
  /\ routes' = [k \in Key |-> NoRoute]
  /\ sessions' = [t \in Thread |-> NoSession]
  /\ asked' = [t \in Thread |-> IF asked[t] = "no" THEN "no" ELSE "over"]
  /\ UNCHANGED <<letter, inboxHistory, vars>>

-----------------------------------------------------------------------------
InboxInit ==
  /\ Init
  /\ letter \in [Item -> Letter]
  /\ asked = [t \in Thread |-> "no"]
  /\ routes = [k \in Key |-> NoRoute]
  /\ sessions = [t \in Thread |-> NoSession]
  /\ seen = {} /\ kept = {} /\ strayed = {}

\* A reply is sent by somebody who has been asked.
Replies(i, c) ==
  /\ letter[i].thread # NoRef => asked[letter[i].thread] # "no"
  /\ Send(i, c)

\* Steps of the server that may leave an item to be fetched.
Serves(step) ==
  /\ step
  /\ kept' = kept \cup (handed' \ handed)
  /\ UNCHANGED <<letter, pluginVars, strayed>>

InboxNext ==
  \/ \E t \in Thread : Ask(t)
  \/ \E t \in Thread, awaited \in SUBSET Peer : HookRuns(t, awaited)
  \/ \E t \in Thread : HookSeesError(t)
  \/ \E k \in Expiring : RouteExpires(k)
  \/ \E t \in Expiring \cap Thread : SessionExpires(t)
  \/ \E a \in inFlight : Receive(a)
  \/ \E a \in inFlight : Refuse(a)
  \/ \E i \in Item : Forget(i)
  \/ PluginRestart
  \/ Serves(\E i \in Item, c \in Conn : Replies(i, c))
  \/ Serves(\E a \in inFlight : AttemptOk(a))
  \/ Serves(\E a \in inFlight : AttemptFails(a))
  \/ Serves(\E i \in Item : BackoffElapses(i))
  \/ Serves(\E r \in Run : StartRun(r))
  \/ Serves(\E r \in Run, i \in Item : Visit(r, i))
  \/ Serves(\E c \in Conn : Reregister(c))
  \/ Serves(\E c \in Conn : DeleteConnection(c))
  \/ Serves(Restart)

InboxSpec == InboxInit /\ [][InboxNext]_<<vars, inboxVars>>

-----------------------------------------------------------------------------
(* Properties *)

\* What the server calls delivered has been processed by the plugin of the
\* recipient or lies in its inbox: no attempt that the plugin turned down makes
\* it dismiss the next one as a duplicate, whatever is retried or forgotten.
DeliveredWasRouted == \A i \in Item : status[i] = "delivered" => i \in kept

\* As long as a thread has a route, a reply that names it finds the session that
\* asked, also that of a contact whose question is not known to await one, and
\* whatever other threads, peers, unrelated messages and expired routes came in
\* between.  Only a reply that was itself routed while the thread had no route,
\* before the hook or after a day, can divert the later ones.
RepliesReachTheAsker ==
  \A t \in Thread \ strayed, p \in Peer, a \in BOOLEAN :
    routes[t] # NoRoute =>
      Resolve([from |-> p, thread |-> t, answers |-> a]).session = asker[t]

\* A reply counts once in the summary of its thread, also when its POST was
\* answered too late and the memory of duplicates has forgotten it.
RepliesCountOnce ==
  \A t \in Thread : sessions[t] # NoSession => IsInjective(sessions[t])
=============================================================================
