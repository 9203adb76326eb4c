# Mahilo, modelled in TLA+

Mahilo lets the AI agents of different people send messages to each other under
the policies of their owners. A *registry server* (Bun, Hono, SQLite through
drizzle; `src/src`) keeps users, agent connections, friendships, groups, policies
and messages and delivers messages to agents' callbacks. A *plugin* for the
OpenClaw agent runtime (`src/plugins/openclaw-mahilo`) decides locally what may be
sent, with the policy resolver both share (`src/packages/policy-core`), and receives
what others send. A *task orchestrator* (`src/scripts`, `src/src/orchestrator.ts`)
runs coding agents over the repository's own task list. A *dashboard* (`src/public`)
lets a user sign in with the approval of an agent and look at all of it.

This directory holds TLA+ modules of the parts of it whose correctness depends on
interleavings, failures and repeated calls, TLC configurations that check them on
small instances, and proofs of the most important properties for all instances.

    tlc -config Delivery_overlap.cfg MCDelivery     model-check one run
    tlapm DeliveryProofs.tla                        check the proofs of a module

Paths below are relative to the repository's root as it is checked out in `src/`,
so that `services/delivery.ts` of the server is `src/src/services/delivery.ts`.

## 1. What runs concurrently

* **The server is one event loop.** bun:sqlite is synchronous under drizzle's
  promises, so code between two *real* waits is one step: nothing else gets to see
  or change memory or rows in between. The real waits are the POST to a recipient's
  callback (up to `config.callbackTimeoutMs`, 30 s), the request to an LLM while the
  server evaluates policies, argon2 hashing, and DNS. Every handler that crosses
  such a wait is two or more actions in the models; every other is one.
* **There is no rollback.** `db.transaction(async ...)` over a synchronous driver
  commits when the callback returns its promise; an exception after the first
  `await` undoes nothing. Foreign keys and unique indexes are enforced
  (`PRAGMA foreign_keys = ON`, `src/src/db/index.ts:39`), and the models rely on both.
* **A crash** keeps the rows and loses everything in memory: the retry Maps,
  evaluations under way, the plugin's deduplication table and caches.
* **Server, plugin and recipients** are separate processes over HTTP. An answer can
  be lost after the work was done, so a client's retry can meet its own first try.

## 2. Inventory

For each part: its state, what changes it, what is hard, what makes it right.
`PROJECT.json` lists the same parts under `components`, and under `hazards` the lines
at which the hard behaviour bites.

| Part (source) | State | Operations | Hard | Right means | Module |
|---|---|---|---|---|---|
| Delivery and retries (`services/delivery.ts`, the timer in `index.ts`) | `messages.status/retry_count`, `message_deliveries`; Maps `retryQueue`, `deliveryRetryQueue` | deliver, queue for retry, process the queue every second, recompute | runs of the processor overlap inside POSTs; late failures; restart loses the Maps; connections change, and rows and connections go with their account, under a queued item | pending is never forgotten; delivered and failed mean what they say; budget; settled once | `Delivery`, `MessageLifecycle`, `Inbox` |
| Group fan-out (`routes/messages.ts:1350-1690`) | parent row, one delivery row per connection | insert rows, start attempts, final status; recomputation after each row | two writers of one status, one of them with old information | the parent never claims more or less than the rows | `GroupFanout` |
| Direct send, local decisions (`routes/messages.ts`, `routes/plugin.ts`, `services/policy.ts`) | messages with decision, winner, key, resolution, marker; `remaining_uses` | commit, resume, evaluate and send, answer a repeat | retries race with evaluations; uses are read before a wait and charged after; keys and resolutions crossed | transported once, as decided, with access; charged within limits | `LocalDecisions` |
| Policy resolver (`packages/policy-core`) | none (pure) | evaluate, resolve scopes, overlay of the group | priorities, degraded verdicts, who is charged | fail closed; groups tighten; charged = deciding | `PolicyResolution` |
| Plugin: local policy runtime, group sends (`local-policy-runtime.ts`, `tools.ts`) | bundle, plan, position | fetch bundle, decide per member, commit all, send all | counts in two implementations; partial failure; retry of the whole draft | nobody is sent anything early, twice, or without a stored allow | `GroupPlan` |
| Overrides, outcomes, context (`routes/plugin.ts`) | policy rows, `messages.outcome` | create override, report outcome | idempotent outcome reports | an outcome is recorded once per key | - (section 7) |
| Policies and lifecycle (`routes/policies.ts`, `services/policy*.ts`) | policy rows | create, edit, switch, expire, charge | editing while an evaluation waits | no policy is charged more than its owner gave it | in `LocalDecisions`, `GroupPlan` |
| Selectors, roles, contacts | role rows | read, assign | - | - | - |
| Accounts, invites, keys (`routes/auth.ts`, `services/auth.ts`, `routes/admin.ts`) | users, invite tokens, keys | register, create, rotate, reset, revoke an invite, delete accounts | two argon2 waits between check and write; a transaction that does not roll back; a crash between its writes; cascades | an invite pays for each account it made; no account without a key but those an exhausted invite left; nothing names a deleted user | `Accounts`, `Community` |
| Browser login (`routes/auth.ts`, `services/browserAuth.ts`) | attempts, sessions | start, approve, deny, redeem, supersede, expire, log out | orders of approve, expiry, replacement, redeem; equal codes | an attempt is approved, used and closed once; one session at most, for the user whose agent approved it | `BrowserLogin`, `LoginTicket` |
| Rate limiting (`services/rateLimit.ts`) | counters in memory | count, sweep | - | - | - |
| Friendships (`routes/friends.ts`, `services/roles.ts`) | friendship rows, roles | request, accept, reject, block, end, roles | both sides ask at once; a row changes under a held id; end during a send | accepted only if both agreed; a block holds | `Friendships`, `Community`, and in `LocalDecisions` |
| Groups (`routes/groups.ts`) | groups, memberships | create, invite, join, leave, transfer, delete | three updates of a transfer; deletion of the owner's account | one owner, the one the row names | `Groups`, `Community`, and in `LocalDecisions` |
| Agent connections (`routes/agents.ts`) | connection rows, callback secrets | register again, delete, list, ping | change under queued items; setups of several hosts | a queued item that is still stored has a connection; the host has the secret or asks for another | in `Delivery`, `Attachment` |
| Notifications, preferences, interactions, suggestions | sockets, preference rows | push, set, count | - | - | - |
| Plugin: webhook receiver (`webhook.ts`, `webhook-route.ts`, `state.ts`) | seen ids, routes, ask-around sessions, in memory | verify, mark, route, record replies | mark before processing; restarts; retries of the server; replies before the hook that registers the ask, or after its routes have expired | delivered is processed; a reply counts once and finds the session that asked | `Inbox` |
| Plugin: client, setup, relationships, network, commands (`openclaw-plugin*.ts`, `runtime-bootstrap.ts`, `network.ts`, ...) | runtime file; caches | set up, ask around; build requests, texts | overlapping setups, lost answers, torn file | the next setup repairs what a lost answer broke | `Attachment`, `Inbox` |
| Task orchestrator (`scripts/orchestrator.ts`, `orchestrator-supervisor.ts`, `src/orchestrator.ts`) | lock directories, state file, worktrees, shared checkout with the tracker | lock, choose a task, run an agent, integrate, fail and retry, restart | stale-lock removal by several; the worker killed between any two effects, or inside the write of its state, while its agent lives on and works where the worker looks and removes; agents that declare the work complete | one holder of a lock; a commit integrated once; nothing recorded early, no work lost; tasks settle | `LockDirectory`, `Orchestrator`, `TaskBoard` |
| Schema (`db/`) | tables | migrations | - | indexes and foreign keys the models use | in `Delivery`, `LocalDecisions` |
| Dashboard (`public/app.js`) | `State.browserLogin`, timer, cookie; copies of what the server answered | sign in, poll, continue, reset, log out, reload; show | answers out of order, lost, of an earlier attempt | a page that is signing in never stays without a way on | `LoginPage` |

How they meet: the plugin's `GroupPlan` commits become rows of `LocalDecisions`;
a send that `LocalDecisions` lets through becomes an item of `Delivery`, a send to a
group becomes one item per connection under the parent of `GroupFanout`;
`Delivery`'s POSTs arrive at the recipient's webhook receiver (`Inbox` is that
composition), signed with the secret `Attachment` is about; both sides resolve policies
with `PolicyResolution`. `Community` puts `Friendships` and `Groups` on the users of
`Accounts`, which a deletion takes away from under both; `LoginPage` is the client of
`BrowserLogin`.

## 3. The modules and the code

### Delivery (and MessageLifecycle)

An item is one message to one connection; `retryQueue` (direct) and
`deliveryRetryQueue` (group rows) are two copies of the same code and one model.

| Model | Code |
|---|---|
| `status`, `retryCount`, `to` | columns `status`, `retry_count`, `recipient_connection_id`; `status` is *gone* when the row has been deleted, and `to` then what the entry of the Map still names |
| `mode` | `callback_url` of a connection: webhook, `polling://inbox`, or the row is gone |
| `queue`, `due` | the Map: `retryCount` of an entry, and whether its `nextRetryAt` has passed |
| `todo` | what a run of `processRetryQueue` has yet to visit of the entries due at its `now` |
| `inFlight` | POSTs being waited for, with who waits (a run or the send handler) and whether the recipient has already taken the message |
| `handed`, `failures`, `lost` | history: recipients' knowledge, failed attempts, items a restart cut off |

`Send` stores an item and starts its first attempt; `RecipientAccepts` is the
recipient's half of a POST, `AttemptOk` and `AttemptFails` what the caller does with
the answer (a failure may follow an acceptance: the answer was lost or late).
`AttemptFails` contains the two halves of `queueForRetry`, `GiveUp` and `RetryLater`.
`BackoffElapses`, `StartRun` and `Visit` are the clock, the timer and one turn of the
processor's loop up to its `await`. `Reregister` and `DeleteConnection` are what
`routes/agents.ts` does to connections: the foreign key of the stored items (`Unnamed`)
refuses to delete a connection that one of them names. `DeleteAccount` is the administrator's
deletion of one account or of all (`routes/admin.ts`): messages and delivery rows first, then
the user with its connections by cascade, unless the foreign key of other rows refuses that.
The retry Maps are not told: their entries are visited and posted as before, with an UPDATE
that finds no row (`Marked`, `Count`), or end at a connection that is not found. `Restart` is
the death of the process.

JavaScript's Map iteration is kept: an entry deleted while a run walks the Map is
not visited by it, and an entry that is set again is visited again unless its new
`nextRetryAt` lies beyond the run's `now`, which it always does.

`MessageLifecycle` is the promise to a sender: `Submit`, `HandOver`, `Confirm`,
`Abandon`, `Delete`, `Restart`; an item is settled once, called delivered only after a
recipient has it, and may stay pending for ever only when a restart cut it off;
deletion takes it away without stopping an attempt under way.
`Delivery` implements it under the identity mapping of `status`, `handed` and `lost`
- provided runs do not overlap.

### GroupFanout

EXTENDS `Delivery`; its items are the delivery rows of one group message. `FanOut` is
the send handler up to its first wait: policy decisions per member, a row for each
connection of a member that is let through, attempts started, polling rows settled.
Rows of polling connections are settled, and the parent recomputed, while later rows
are still being inserted, so the parent may by then be *delivered* or *pending*; the
action allows both. `RowDelivered`, `RowFails` and `RowVisited` are `Delivery`'s steps
together with `recomputeGroupMessageStatus` (`Recompute`) and the handler's own
bookkeeping (`HandlerLearns`), which ends in its single final write of
`OverallStatus`, computed from what its first attempts *returned*.

### LocalDecisions

One sender, one recipient, the sender's messages as records in `rows`. A message's
`status` column is not kept: it follows from `decision`, `sent` and what `Delivery` makes of it.

* `Commit`, `CommitAgain`, `CommitDies`: `POST /plugin/local-decisions/commit` for a
  new decision, for a repeated one (answered from the stored row if it matches), and
  a crash between the charge and the insert.
* `SendAgainByKey`, `SendAgainByRes`, `Resume`: `POST /messages/send` answered by
  idempotency key, by resolution id, or transporting a committed allow.
* `SendAtOnce`: a send the server does not evaluate (not trusted, unreadable,
  blocked by a guardrail, or no policy applies); no wait.
* `EvaluationStarts`, `EvaluationEnds`: a send the server evaluates; between them the
  LLM is asked and everything else may happen.
* `PolicySwitches`, `FriendshipChanges`, `MembershipChanges`, `Restart`: the world.

A refused request changes nothing and is not a step. Which policy wins an
evaluation is any of those read before the wait, or none: the choice is
`PolicyResolution`'s business. One pool of policies stands for the sender's and the
recipient's. A policy with `max_uses` may have `remaining_uses` null until it is first
charged, as the code allows; `Init` has both. `Consume` is the guarded update of
`consumeWinningPolicyUse`: which update is made, and so its guard, depends on whether
`remaining_uses` was null when the evaluation *read* it (`unused`), while the row may
have been charged or edited since. `PolicyPatched` is `PATCH /policies/:id`, which
writes the uses anew; `given` is the history of what the owner gave, `max_uses` stays.

`DecisionModes` puts the three modes of the server side by side: `LocalDecisions` itself
(decisions are only recorded), `T` (trusted: two sends may wait for their evaluation) and
`G` (trusted, and a guardrail blocks one content; the owner gives uses again).

### PolicyResolution

The shared resolver as operators: `Verdicts` a phase can produce, `Matches` (with a
missing LLM verdict as `LLMFallback`, degraded), the order `Precedes`, `ScopeWinner`,
`Base` (the most specific of user, role, global), `FinalEffect` with the group's
overlay, `Deciding`, and `ChargedPolicy`.

### GroupPlan

A draft of the plugin to a group, over `PolicyResolution`. `FetchBundle` copies the
server's counts; `EvaluateMember` decides for the next member and counts down the
copy (`Spend`, the plugin's own implementation of the server's `Charge`);
`CommitStored` / `CommitRefused` commit in order, the first refusal ending the call;
`SendNext` sends to members that were allowed, a failure being noted and passed
over. `PlanDies` is a crash or a lost answer anywhere; the draft may then be tried
again as a whole, under new resolution ids but with the same keys if the caller gave
one (`keyed`, `Conflict`). `OthersCharge` and `PolicySwitches` are other sends of the
user and edits, switches and expiry of policies on the server meanwhile.
Each policy of `book` names the members it is about, so that user, role and group
policies can be shared by some members and not others.

### Inbox

EXTENDS `Delivery`: an item is a message to the plugin, and `Receive` is
`RecipientAccepts` with what the webhook route does. `seen` is the deduplication Map
(`Forget` its time to live), `routes` the four tables of `state.ts` under one function of
keys, `sessions` the ask-arounds with their replies. `Refuse` is a POST that fails before
the id is marked: signature, time window, payload. The answer is 200 from there on,
whatever processing does, so a failure inside it is not told apart. `Ask` is the
`ask_network` tool; the session and its routes are remembered only by `HookRuns`, the
`after_tool_call` hook, for the questions whose delivery it tracks (`awaited`, any subset of
the contacts: a question that was refused, held or whose answer was lost gets no route,
though its reply may come), or not at all when the tool reports an error (`HookSeesError`).
A reply may be there before. Each route and each session expires by itself (`RouteExpires`,
`SessionExpires`), when it has not been written for a day. `strayed` is a history: the
threads of which a reply was routed while the thread had no route, which is how other routes
come to carry the thread with another session. `PluginRestart` empties all of it.
`KeysInOrder` is the order of `resolveInboundRoute`. A letter says who it is
from, under which thread, and whether it names the question it answers.
Accounts are not deleted in `Inbox`: `Delivery` has that, and the plugin learns nothing of it.

### Accounts, Friendships, Groups and Community

| Model | Code |
|---|---|
| `users`, `ids` | rows of `users`; ids are random and not used again |
| `useCount`, `usable` | `use_count` of an invite; neither revoked nor expired |
| `calls` | requests of `register`, admin creation, key rotation and reset that wait for argon2 |
| `friendships`, `customRoles` | rows of `friendships` with the roles in them, and `user_roles` |
| `groups`, `members` | rows of `groups` and `group_memberships` |
| `keyless`, `cut`, `granted`, `agreed`, `torn` | history |

`RegisterStarts`, `CreateStarts` and `KeyStarts` are the handlers up to the wait,
`AccountInserted`, `AccountCut` (a crash after some of the writes), `NameRefused` and
`KeyReplaced` what follows it. The body of `db.transaction` is asynchronous, so that the
throw for an exhausted invite leaves the user row in place: `keyless` has these accounts.
Handlers of friendships and groups have no wait and are one action each; those with
several writes (`CreateGroup`, `Transfer`) take the number of writes a crash lets
through. `DeleteUsers` is a deletion by the admin with its `ON DELETE CASCADE`, and with
the one reference (`invited_by_user_id`) that has none and makes the deletion fail.

### Attachment

How a host of a user registers the connection `openclaw/default` and keeps the secret
its callbacks are signed with. A setup is `SetupStarts` (which URL), `Listed` (GET /agents
as the server answers it), `Decides` (compares the answer with the file *as it is by
then*, `NeedsRotation`), `Registered` (POST /agents: the secret is replaced only when
asked for), `Persisted` (the merge into the runtime file); each step may fail
(`Fails`), the process may end (`HostRestarts`) or end inside the write of the file
(`FileTorn`, an unparsable file reads as none), while a request that was posted is still
served. `HostMoves` changes the URL, `ConnectionDeleted` is DELETE /agents. Nothing keeps
setups apart: `setups` are records of requests in flight, two at a time, of two hosts.
`keeper` is a history: the host whose setup, alone and undisturbed, was the last to make
a secret up; `NextSetupRepairs` is about that host.

### LoginTicket, BrowserLogin and LoginPage

`BrowserLogin` has one row per attempt (`Row`; `Status` is
`getBrowserLoginAttemptStatus`), sessions, and one action per handler: `Start`
supersedes the live attempts of the user and inserts its own in one turn; `Approve` and
`Deny` find an attempt by id or code and user (`Resolved`); `Redeem` runs in a
transaction of a single turn; `Replayed` and `Throttled` are what refusals write.
`opened` counts the sessions of each attempt. `LoginTicket` is the promise: a code is
open, approved, used or closed, in this order, and opens one session. `ImplementsTicket`
maps `stage` to the row (`StageOf`).

`LoginPage` EXTENDS it with pages and the requests they have under way: a request is sent
(`Submit`, `Poll`, `Continue`, `Logout`, `Reload`), served (`Serve...`, the server's
action), and its answer read (`...Answered`) or lost (`Lose`), in any order. `State.browserLogin`
is one record that every answer writes to, whichever attempt it was asked for:
`Merged` is that write, `Erred` what an error does to it.

### LockDirectory, Orchestrator and TaskBoard

`LockDirectory` is both kinds of lock, one call of the file system a step: `mkdir`
(`MakeDirectory`), the owner file (`WriteOwner`), the judgement of a lock in the way
(`Judge`, `Stale`), `rmSync` (`Unlink`, in `Remove` and `Release`). `made` and `owner`
are the disk, `step` where each process is; `Dies` leaves the directory behind with an
owner that answers no signal, `Ages` is the clock passing `STALE_LOCK_MS`. The removal
of a directory with its one file is a single step.

`Orchestrator` EXTENDS it with the worker of one workflow.

| Model | Code |
|---|---|
| `tracker`, `checkout`, `applied` | status lines in the shared checkout; whether it is dirty and from what; what was cherry-picked |
| `commits`, `count`, `loose`, `bare` | commits of a task's branch on top of the integration branch; uncommitted changes in its worktree; tasks without a worktree |
| `saved`, `mem` | the state file and the worker's copy: active task, tasks in `taskRetryAfter`, `taskWorkspaceRefreshReasons`; `torn` if a file was cut short |
| `agents` | agents whose worker was killed: `spawnSync` children outlive their parent |
| `pc`, `cur`, `rest`, `error` | position in `main` and `integrateTerminalTask`, the task, commits yet to pick, how the integration fails |
| `phrase` | whether the last message of the agent of this iteration contains `completionPhrase` |
| `word`, `offer` | history: what an agent last said of a task, what was last listed for it |

`Start` and `Started` are the supervisor's spawn, the worker lock and `loadState`;
`Select`, `Idle`, `Agent...` and `Save` the iteration in `main`. `Prepare`, `LookAtStatus`,
`RemoveTree`, `DropBranch` and `AddTree` are the git processes of `prepareWorkspaceForTask`,
each a step, so that an agent of a killed worker may commit or edit between the listing of
commits, the look at pending changes and the forced removal of worktree and branch.
`Save` completes when all tasks are done *or* the agent's last message has the completion
phrase, whatever is left (`Speaks` lets any agent say it). The state file is a plain
`writeFileSync`: a `Crash` where it is written (`Writing`) may leave it torn, and `loadState`
then throws at every `Started`. `CommitWork` to
`GiveBack` `integrateTerminalTask`, with each effect on the disk a step of its own so
that `Crash` falls between any two. A signal is a crash: the worker is never back in
its event loop while it works, since everything it waits for is `spawnSync` or
`sleepSync`, so that its SIGTERM handler does not run and the supervisor's SIGKILL
follows. Which of several ready tasks has priority is left open. Pushes may fail, but
what they push and the counter that triggers them are left out.

`TaskBoard` is the promise: `Work`, `Say`, `Offer`, `Integrate` (a commit once), `Record`
(only what was said, and after everything offered is integrated); a done task stays
done. `Orchestrator` implements it under the identity mapping.

## 4. Runs

| Run | Instance | Distinct states | Asks |
|---|---|---|---|
| `delivery_overlap` | `MCDelivery`: 2 items, 2 runs of the processor, 1 connection, 2 retries; `FairSpec` | 404 199 | what holds however attempts interleave and accounts are deleted meanwhile; pending items settle |
| `delivery_serial` | `MCInbox`: 2 items, 1 run, 1 connection, 2 asks of 2 sessions, 2 peers, 2 kinds of letter, 1 retry, 2 keys that expire | 3 539 020 | serial runs: budget, `MessageLifecycle`; the plugin behind them: delivered is processed, replies count once and find who asked |
| `delivery_final` | 1 item, 2 runs | violated | finality when runs overlap |
| `group_fanout` | `MCGroupFanout`: 2 rows of 2 members, 2 runs, 2 connections | 1 068 580 | what the parent may claim of the rows |
| `group_stuck` | 2 rows, 1 run | violated | is the parent settled once all is quiet |
| `decisions` | `MCDecisions`: three modes; 2 resolutions (1 when evaluating), 1 key, 2 contents, a policy with one use, 2 evaluations at a time | 592 656 | transport, charge and answers under repeats, crossings, crashes, waits and edits |
| `decisions_onetime` | trusted, one content, a policy with one use | violated | does a one-time override decide once |
| `group_plan` | `MCGroupPlan`: 2 members, 3 policies in 4 books, 2 tries, 1 interference per try | 3 269 924 | shared uses, fail closed, order of commits and sends, retries |
| `community` | `MCCommunity`: 3 users, 1 invite for two, 2 requests at argon2, 2 roles, 1 group; 2 hosts, 2 setups | 1 101 746 | accounts and invites, friendships, ownership of groups, deletions, callback secrets |
| `browser_login` | `MCLogin`: 1 page with 2 requests, 2 users, 2 attempts that share a code; `Spec` | 798 460 | one session per code, `LoginTicket`, explained failures, no dead end |
| `orchestrator` | `MCOrchestrator`: 2 tasks, one depending on the other, 2 commits each, 1 crash, 1 trouble; `FairSpec` | 1 814 068 | crashes, torn files, agents that live on or end the work, conflicts, failures: nothing twice, early or lost; tasks settle |
| `locks_exclusive` | `MCLocks`: 2 processes, one lock | violated | does one process hold a lock at a time |

**Bounds.** `MaxRetries` is 2 rather than the configured 5: the code only compares and
increments the count, and 2 gives a first, a middle and a last retry. `failures` is
counted up to `FailureCap = MaxRetries + 2`, one more than the budget allows, which is
all a property tells apart. Two overlapping runs suffice for every hazard of the
retry Map: one that is late and one that overtakes it; a third run adds a second late
one. Two resolutions and one key are what a crossing of keys and resolutions takes;
two contents what a mismatch takes. `Fresh` has one id, so the server makes up one
resolution per history in these runs. `MaxGrant` bounds what a PATCH may bring a policy's
uses to: 2 where decisions are recorded and behind a guardrail, so that uses may be given
again; 0 in the large mode `T`, where the owner may only take them away. Two members are what "earlier" and "later" take in a
draft; two tries what a retry takes; the four books put policies in every scope and
phase, shared and not, with limits of one and two and without.
Two tasks are one that waits and one that is waited for, two commits what a
cherry-pick that stops half way takes. `MaxTroubles` counts failed or inconclusive
agents, failed git commands and conflicts, `MaxCrashes` deaths of the worker: with one
of each every step meets a crash, before or after a failure.
A behaviour of `MCCommunity` is *about* accounts, friendships, groups or setups, and the
other parts rest but for deletions of accounts, which reach into all of them: the parts
share no other state, so that their product would only repeat each. An invite has two
uses, the least with a first and a last one, and two requests at a time are what
a race for the last takes; three users are the two sides of a friendship or a transfer
and one who looks on. Two hosts, two URLs of the first, three secrets and two connections
are one more than a setup that meets another needs. `MCInbox` has two threads of two
sessions so that one can take what belongs to the other, letters that answer a question
and letters that name nothing, and one retry, since the retries are the business of
`delivery_overlap`; `Expiring` bounds which routes expire to those of one thread and of one
question of it, one of each kind a reply can name. `MCLogin` lets a page have two
requests under way, the least with an answer out of order; attempts are two, so that one
replaces the other, with one code, so that they share it.
`GroupPlan.cfg`, `Orchestrator.cfg`, `Login.cfg` and `Community.cfg` switch deadlock
checking off because a draft ends, a worker completes, and ids are used up; every other
system runs for ever and is checked for deadlock.

**Fairness** is assumed in three runs. In `delivery_overlap` (`FairSpec`) a POST ends because
`AbortSignal.timeout` ends it; an entry's backoff passes because the clock does; a run
starts because the interval timer fires and proceeds because the event loop does.
Nothing is assumed of clients, recipients (who may refuse for ever) or restarts
(which may happen for ever: `PendingSettles` excuses items cut off by one, as the
code has no recovery for them, and items deleted with their account).

In `orchestrator` the supervisor restarts a worker that is gone and the worker goes on
(`Locking \/ Working`), each agent's run ends, cool-downs and the age of a lock pass.
Nothing is assumed of what an agent does or says, and therefore `TasksSettle` has excuses:
tasks that wait for one that is not done (`Hindered`), and a workflow that is over
(`Halted`): an agent's last message contained the completion phrase, upon which worker and
supervisor stop whatever is left; a killed worker left the checkout dirty, so that every
later integration is refused until somebody cleans it; or it was killed inside the write of
its state file, which no later worker can parse.

In `browser_login` redemptions and `GET /auth/me` are served and their answers read, or
lost: browser and server get round to every request. Nothing is assumed of the user, the
agent, the polling timer or what is deleted and replaced meanwhile.

**Types.** The modules state their type invariants, as documentation of their state and for
the proofs; the runs spend a property on one only in `delivery_overlap`, where it
carries the bound `retryCount <= MaxRetries` that an unguarded update would break.

## 5. What the runs found

Four runs check a sentence of the documentation that the code does not keep.

* **A delivered message can become failed** (`delivery_final`). The timer starts a run
  of `processRetryQueue` each second, and an entry stays in the Map, due, while a run
  waits for its POST. A second run tries it too. If the second delivers it, the entry
  is deleted; if the first then fails, `queueForRetry` finds no entry, makes one with
  count 1 and the message is posted again, and marked failed when those retries are
  spent. Serial runs cannot do this, which is proved (section 6).
* **A group message can stay pending for ever** (`group_stuck`). One row fails, is
  retried and delivered while the handler still waits for another row; the handler
  then writes the status it collected, in which the first row is pending. Nothing
  recomputes it afterwards.
* **A one-time override can decide twice** (`decisions_onetime`). The server reads the
  applicable policies, waits for the LLM, and charges with a guarded update whose
  result it ignores.

* **Two workers can hold one lock** (`locks_exclusive`). A lock is made by `mkdir` and
  gets its owner file afterwards; a process that finds the directory without the file
  takes it for abandoned, whatever its age, removes it and makes its own. The first one
  then writes its owner file into the second one's directory, and both go on.

Seen while modelling and not run, because they need no model to follow, concern what
section 7 leaves out, or are excepted by a property that holds otherwise:

* with overlapping runs the retry budget of `docs/tasks-registry.md:356` is exceeded as
  well (`delivery.ts:353`);
* a known idempotency key is answered from the stored row without comparing the content
  (`routes/messages.ts:928`, `docs/openclaw-plugin-server-contract.md:775`);
* a crash between charge and insert of a commit (`routes/plugin.ts:3022`) makes the client's
  retry charge again (`docs/prd-local-plugin-policy-enforcement.md:351`);
* a friendship that ends during the LLM wait does not stop the message
  (`routes/messages.ts:1786`, `docs/registry-design.md:237`);
* a send that brings `outcome_details` of its own when it transports a committed decision,
  and the final write of a group send (`routes/messages.ts:1905`, `:1639`), replace the
  outcome reports stored on the message, keys included, so that a repeated report is
  recorded again;
* a registration that loses the race for the last use of an invite leaves an account nobody
  has a key of, and its name taken (`routes/auth.ts:312`); `KeylessOnlyWithoutInvite` says
  that this is the only way apart from crashes;
* a key rotation that waits for argon2 while the admin resets the same key writes last and
  wins, so that the key the admin was answered is void (`routes/auth.ts:1096`,
  `routes/admin.ts:303`);
* the blocked side may delete the row of the block and ask again (`routes/friends.ts:290`,
  against `docs/tasks-registry.md:299`); `BlockedStays` is about every other route;
* a reply that arrives before the `after_tool_call` hook is routed to the main session and
  refreshes the routes of its peer with it, so that later replies miss the session that
  asked (`openclaw-plugin.ts:1818`, against `PAL-021` of
  `docs/prd-openclaw-product-alignment.md:597`); so it is with a reply that comes when the
  routes of its thread have expired; `RepliesReachTheAsker` excepts these threads;
* overlapping setups, or another host, may leave the server with a secret the file does not
  have while connection and URL agree: no setup rotates then
  (`openclaw-plugin-wrapper.ts:954`), although its blocker text (`:1162`) advises to run it
  again "so Mahilo can rotate and persist the callback secret";
* a worker killed after the last integration of a workflow loses `commitsSincePush` and
  later completes without a push (`scripts/orchestrator.ts:1082`);
* work that an agent of a killed worker puts into a worktree between the look at it and its
  removal is lost (`scripts/orchestrator.ts:609-619`); `WorkIsKept` excepts it (`Overtaken`);
* the completion phrase in an agent's last message ends the workflow with tasks that are
  pending, or whose integration failed (`scripts/orchestrator.ts:1099`, against
  `docs/autonomous-orchestrator.md:42`), and a worker killed inside `saveState`
  (`src/orchestrator.ts:469`) leaves a file at which every later one fails;
* a worker killed inside a cherry-pick or between the status edit and its commit leaves
  a checkout that every later integration refuses (`scripts/orchestrator.ts:705`).

## 6. Proofs

Every safety invariant, action property and refinement that a passing run checks is also
a theorem, for all values of the constants; eight modules hold the proofs. Besides the
named assumptions of the modules (`DeliveryAssumption`, `GroupAssumption`,
`LocalDecisionsAssumption`, `PolicyAssumption`, `GroupPlanAssumption`, `InboxAssumption`,
`KeyAssumption`, `AccountsAssumption`, `FriendshipsAssumption`, `AttachmentAssumption`,
`LoginAssumption`, `PageAssumption`, `OrchestratorAssumption`, `LockAssumption`) the
theorems assume nothing, except where this section names a hypothesis. The assumptions say that "none" values differ from real ones, that bounds are
numbers and that tables have the shape the code gives them.

Each proof has the same course: the property is strengthened to an inductive invariant,
a lemma per action shows that the action keeps it, and the temporal step combines the
lemmas. What follows says what each invariant adds and why the property needs it.

**`DeliveryProofs`.** For any number of items, connections, overlapping runs and any
budget: `TypeCorrect`, `NothingPendingIsForgotten`, `GivenUpOnlyWithoutBudget`,
`DeliveredOnlyWhenHandedOver`, `FirstAttemptIsAlone`, `OnlyDeletedRowsLoseTheirConnection`,
`OnlyAttemptsFailItems`. They
follow from one inductive invariant `IInv`. The properties are not inductive alone:
that a failed item has spent its budget needs that a queued item's count is at most
its number of failures; that needs that an item with a first attempt in flight has
neither entry nor failure. An entry may outlive its row and its connection, when an account
is deleted: `OnlyDeletedRowsLoseTheirConnection` says that it never outlives the connection
alone, for the foreign key refuses that, and so the branch "Connection not found" of the
processor, which marks messages failed, finds none to mark: `OnlyAttemptsFailItems`, a
stored item becomes failed only in the step in which an attempt of it fails.
`SerialDeliveryImplementsLifecycle`, `SerialDeliveredIsFinal` and `SerialBudgetIsRespected`
assume at most one run (`Run` has at most one element) and strengthen `IInv` to `SerialInv`:
queued items and those in flight are pending and not cut off, retries in flight are of
queued items, and an item has one attempt in flight at most. The budget needs
`SerialCount` on top: then the Map's count of an item that is queued or in flight *is*
its number of failures, where overlapping runs only keep it below.
The refinement proof maps each action to the step of `MessageLifecycle` it implements
or to a stutter; `SerialSettledIsFinal` is what the abstract specification then hands down:
no step of it leaves delivered or failed.

**`InboxProofs`** puts the plugin behind `Delivery`. `PluginIsARecipient` shows that each
of its steps is one of `Delivery` or leaves `Delivery` alone, so that the theorems above
carry over (`PluginCannotDrainTheBudget`, `PluginImplementsLifecycle`, with one run at a
time). `NothingIsDismissedUnread` needs that the memory of duplicates never holds an id
whose message was not processed (`KeptInv`). `AskersGetTheirReplies` and
`NoReplyCountsTwice` rest on `RouteInv`. A route that is refreshed by a message is written
back under other keys than it was found by; that this never takes a thread away from the
session that asked needs that routes that remember a question know who asked it
(`RoutesKnowTheirQuestion`, `QuestionsLeadBack`), and that a route that carries a thread
leads to the asker unless a reply of the thread was routed while it had no route
(`RoutesKnowTheirThread`). Routes may expire in any order and be remembered for any of the
contacts: the theorem speaks of the time a thread has its own route, however it came by it.

**`GroupFanoutProofs`.** For any number of members, rows, connections and overlapping
runs: `RefusalIsFinal`, `DeliveredMeansAllSettled`, `OnlyTheLetThroughGetRows`. The parent
has several writers, each with its own view of the rows; `FanoutInv` says what the
handler's view is worth: while it waits, each row without an answer has its first attempt
in flight (`HandlerAwaitsAnswers`), and a row whose first attempt succeeded is out of
every run's reach (`AnsweredStaysDelivered`), so that the old information of its final
write is old only where that does no harm. `IInv` of `DeliveryProofs` is part of it.
The `group_stuck` run shows where it does harm, and `QuietUnlessOverwritten` that there is no
other place: `QuietParentIsSettled` holds of every behaviour in which `FirstAnswersStand`,
that is, no row settles between the end of its first attempt, reported to the handler as
pending, and the handler's final write.

**`GroupPlanProofs`.** First the resolver, for any finite set of policies:
`ScopeWinnerIsFirst` (the order is total on a scope's matches, so that the CHOOSE, like
the code's sort, has exactly one result; by least ranks through the library's
well-founded induction), `AllowedMeansAllAllow`, `MissingVerdictsAreSafe` (a draft
allowed without a verdict is allowed with any) and `ChargedPolicyHasTheEffect`.
Then drafts, for any number of members, tries and interferences and any
books: `PlanTypeCorrect`, `OnlyAllowedIsSent`, `NothingIsSentEarly`,
`KeyedDraftsAreSentOnce`, and, through the lemmas about the resolver,
`MissingVerdictsAlwaysFailClosed`, `GroupsOnlyTighten`, `ChargedPoliciesDecide`. The
inductive invariant adds what the position of the plan says of the stored rows
(`Progress`: while committing, the members before `next` have a row of this try with
the planned effect; while sending, all have), that a keyed draft has one row per
member (`KeyedDraftIsStoredOnce`), and that the last decision of the plan is the
resolution of the verdicts just read (`LastIsDecided`).
`LimitsAreShared` and `UndisturbedDraftsCommit` are about two counts of the same uses, the
plugin's copy and the server's. `UsesInv` ties them: a policy's planned decisions and what
the copy has left make at most its limit (`BundleSharesLimit`), and while nobody else
interferes the server has exactly what the copy has left plus what the uncommitted rest
of the plan will take (`Agrees`). The second is not inductive without the three cases
of a count that is null on the server, null in the copy, or in neither. Counting is done
with three lemmas about the set `Charges` of a plan's decisions for a policy: appending a
decision, committing one, and an empty plan.

**`LocalDecisionsProofs`.** For any number of policies, resolutions, keys, contents and
waiting sends, in both modes of the server: `DecisionsTypeCorrect`, `LimitsAreKept`,
`TransportHappensOnce`, `OnlyDecidedIsTransported`, `StoredDecisionsStand`. The inductive
invariant `LInv` has three parts: `Counts` (what a limited policy was charged and what it
has left, null standing for `max_uses`, is at most what it was given: a guarded update
takes from the second what it adds to the first, whatever the send read before its wait),
`Rows` (one row per resolution; one that was handed over was handed over once, and its row
is sent and decided to be delivered) and `World` (the types of the rest). For the server
that does not evaluate policies (`~Trusted`), `Recorded` adds that no send waits, that the
rows are finitely many and that each decision of a limited policy was charged; it gives
`RecordedDecisionsAreCharged` and `RecordedTransportIsAuthorised`, and, beside the other
configurations of `DecisionModes`, `LocalDecisionsStayCharged` and
`LocalTransportStaysAuthorised`. The server that does evaluate policies loses a charge when
what a send read before its wait is no longer so (the `decisions_onetime` run).
`CurrentReadsAreCharged` and `CurrentReadsDecideOnce` show that this is the only way: they
assume `ReadsStayCurrent`, that nobody changes the `remaining_uses` of a policy while a send
that has read it waits, the second also that no edit raises a limit, and need `Current`:
what a waiting send has read is what is stored, until it charges.

**`CommunityProofs`.** For any number of users, names, invites, waiting requests, roles
and groups, deletions of accounts included: `CommunityIsTyped`, `AccountsArePaidFor`,
`KeylessAreLate`, `FriendsAgree`, `BlocksAreFinal`, `GroupsHaveOwners`,
`DeletionsAreComplete`. The invariant has a part per component. `AInv`: ids are not given
out twice, so that nothing said of an account is said of a later one, and requests that
wait still have what their kind needs; that an invite is not overdrawn is a fact about
the cardinality of a set that registrations enlarge and deletions shrink. `FInv`: each
pair of users has one row, which no index of the schema ensures and each handler has
to. `GInv`: what holds of whole groups, *and* what has to hold of torn ones (one owner
at most) for the next write to make them whole.
`NextSetupsRepair` is about any number of hosts, URLs and overlapping setups. That a host
out of step will ask for a new secret is no fact about its file alone: a setup that has
looked at the file before may still overwrite it. `TInv` therefore says of each setup of
the keeper what it knows at its point (`WillAsk`: it has the host's URL, it has seen the
connection that is there, it asks for a rotation, or it brings the secret), and of a setup
that met no other that nothing it knows has changed (`KnowsItsWay`).

**`LoginProofs`.** For any number of users, attempts, codes, pages and requests:
`CodesAreUnique`, `SessionsComeFromApproval`, `DiagnosticsAreTrue` and
`LoginImplementsTicket`. The pages are shown to do to the server only what `ServerStep`
lists. `SInv` adds what a row says of itself (`Coherent`: a redeemed attempt was
approved by its user and not denied, a superseded one is expired, ...) and that an id
names one row (`KnownById`), without which the stage of a ticket could not be read off
the row. What `LoginTicket` implies is handed down by the refinement: `CodesOpenOneSession`
(by induction over the tickets' steps, `UsedOnce`: a ticket not used has opened nothing) and
`CodesStayOver`. The pages have an invariant of their own, `PageInv`, on top of these:
`PagesAreTyped`; `NoPageIsForgotten`, the safety half of `NoDeadEnd` (a page that offers no
button has an answer coming, which other answers, resets and logouts do not take away: what
is left to liveness is that answers come); and `CookiesAreNotShared`, for which `UsedOnce` is
needed: a redeemed session's cookie is new because the session is.

**`OrchestratorProofs`.** For any number of tasks, any dependencies, commits and crashes:
`WorkIsInOrder`, `DoneIsWhole`, `DependenciesComeFirst`, `WorkerImplementsTaskBoard`,
`WorkOutlivesRestarts`. `OInv` says what each point of an iteration may rely on: the
commits left to pick are those of the list not yet on the branch (`PicksInOrder`), what is
about to be integrated is all there is unless an agent of a killed worker goes on
(`AllIsListed`), a worktree that is being removed holds nothing unless a conflict was
recorded or such an agent overtook the worker (`NothingToLose`), and a task that the worker *or its state file* is at has no dependency
open, however long ago it was chosen (`BegunAreReady`). `DoneTasksStayDone` is handed down
by `TaskBoard`. Nothing of this is about the locks: the model has one worker per workflow,
which is what the supervisor starts. The locks have `LocksExcludeUnlessTakenAway`, for any
number of processes and locks: `MutualExclusion` holds of every behaviour that removes a
lock's directory only while nobody owns it (`RemovesOnlyAbandoned`), so that the
`locks_exclusive` run shows the one way to lose it.

**Only model-checked:** liveness (`PendingSettles`, which is `MessageLifecycle`'s `Settles`,
`TasksSettle`, `NoDeadEnd`), which is out of the prover's reach, and the four violations.
Each of the four violated properties has a theorem with the hypothesis that the violating
behaviour breaks: one run at a time for `DeliveredIsFinal`, and the three named above.
`PlanTypeOK`, `GroupOnlyTightens`, the type invariants of the community and of `LoginPage`,
and the other theorems about the pages are in no passing run.

## 7. What is not modelled

Texts, prompts, summaries, audit payloads, signatures and encryption (only whether
the server can read a message), pagination, validation of formats, the LLM (any
verdict), migrations.

* **Outcomes and overrides** (`routes/plugin.ts:3120-3384`). An outcome report is a
  read and a write in one turn of the event loop, and nothing else depends on what it
  stores; an override is a policy that takes effect, which `PolicySwitches` has.
* **Selectors, roles and contacts** as data: which policies apply is open in the models.
* **Rate limiting, preferences, interactions, suggestions, waitlist, invite minting, the
  verification of an account by a post**: single-statement reads and writes, or counters
  within one turn, which no other part waits for.
* **Notifications.** The WebSocket registry of `routes/notifications.ts` is kept, but
  nothing in the server calls the functions that push to it.
* **The dashboard beyond signing in and out**: lists and forms over what the server
  answered. Its loads may be answered out of order and the older answer then stays until
  the next load; no promise of the documentation is about that.
* **The plugin's bootstrap of an identity.** A registration whose answer is lost costs the
  invite and the name, as `Accounts` has it; the plugin has nothing to repair it with.
* **The plugin's learning suggestions and product signals** (`state.ts`): advice and
  statistics in memory.
* **Deletion of accounts** during a group fan-out and in front of the plugin: `Delivery` has it
  for items and connections, `Community` for friendships and groups. A crash between the
  statements of a deletion is not modelled.
* **The plugin's routes of groups and of plain sends**, and the text in which the hook finds
  what it tracks: any subset of an ask's contacts may be tracked.
* **Of the orchestrator**: a kill inside the write of a file of tasks, a removal of a worktree
  that git leaves half done, context files copied into worktrees; priorities, pushes, the lengths of back-offs, the shared
  workspace mode, `--once` and `--dry-run`, the parsing of workflow and task files, a second
  workflow beside the first.

More than half of the repository's lines are the dashboard's presentation, texts and
prompts, request and answer shapes, demonstrations and scripts, which have no state
of their own to get wrong; the models are about the rest.

## 8. Plan

Done: every module of section 3, with the proofs of section 6: all safety properties,
action properties and refinements of the passing runs are theorems, the violated ones hold
under the hypothesis that their counterexample breaks, and what the abstract specifications
promise is handed down. Left, the most important first:

1. Outcome reports as actions of `LocalDecisions`, so that transport and reports meet, and
   what a report may then say of a resolution that is held or was handed over.
2. The identity bootstrap of a plugin composed with `Accounts`: what a lost answer costs.
3. For overlapping runs, what of `MessageLifecycle` remains true: the abstract step that a
   late failure of an overtaken attempt takes, as a specification of its own.
