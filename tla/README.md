# Verification of MASSVISION Reap3r

TLA+ modules that model the remote-management system in this repository, TLC
configurations that check them on small instances, and theorems about them
proved with TLAPS. Everything is translated from the code; where the documents
say something else, section 13 says so.

Run from this directory, for instance:

    tlc -workers 2 -config JobLifecycle_safety.cfg MCJobLifecycle
    tlc -workers 2 -config UserSession.cfg MCUserSession
    tlc -workers 2 -config Migrations.cfg Migrations
    tlapm JobLifecycle_proofs.tla

`PROJECT.json` names the module and the configuration of every run.

## 1. Inventory

Reap3r has three programs and two stores. The *backend* (`apps/backend`,
Fastify) serves a REST API and a WebSocket to the UI and the signed `/agent-v2`
protocol to the *agents* (`apps/agent`, Rust). The *frontend*
(`apps/frontend`, Next.js) is a client of the first two. PostgreSQL holds the
rows; Redis holds the job lists, the nonces of the protocol and the pub/sub
channels that feed the WebSockets. `packages/shared` holds the types both
TypeScript programs use. A job flows UI -> backend -> agent -> result -> UI and
no machine is reached in another way.

| component | code | state it keeps | operations |
| --- | --- | --- | --- |
| Job service | `services/job.service.ts`, `routes/ui/jobs.routes.ts` | `jobs`, `job_results`, the lists `agent:jobs:<agent>` | createJob, getNextJobForAgent, processJobResult, cancelJob, checkJobTimeouts |
| Agent protocol | `routes/agent-v2/agent.routes.ts` | none of its own | enroll, heartbeat, metrics, inventory, jobs/next, job-result |
| Agent runtime | `agent/src/main.rs`, `comms/client.rs`, `config.rs` | the saved identity, four loops, one task per pushed job | enroll at start, heartbeat, poll, metrics, inventory |
| Job runner | `agent/src/modules/runner.rs` | none | execute: run_script, reboot, shutdown, everything else "failed" |
| Agent service | `services/agent.service.ts` | `agents`, `agent_capabilities`, `enrollment_tokens`, metrics and inventory rows | enrollAgent, processHeartbeat, processMetrics, processInventory, deleteAgent, markStaleAgentsOffline |
| Envelope validation | `auth/hmac.service.ts`, `comms/client.rs` | `nonce:<nonce>` in Redis for 600 s | window, nonce, agent and signature check |
| User authentication | `auth/auth.service.ts`, `routes/ui/auth.routes.ts`, `shared/src/auth.ts` | `users` (failed attempts, lock, refresh-token hash) | login, refresh, logout, permissions |
| Background jobs | `jobs/scheduler.ts` | none | stale agents (30 s), job timeouts (15 s), metrics retention |
| Realtime fan-out | `websocket/handler.ts` | connected sockets, their subscriptions | auth, subscribe, unsubscribe, forward |
| Frontend clients | `lib/websocket.ts`, `lib/api.ts`, hooks, stores | socket, listeners, back-off counter, tokens | connect, reconnect, subscribe, request, refresh after a 401 |
| Remote shell panel | `RemoteShellPanel.tsx` | a session, a terminal | start, stop; messages no part of the agent answers |
| Pages | `app/(dashboard)/agents/[id]/page.tsx`, `jobs/page.tsx`, `layout.tsx`, `(auth)/login/page.tsx` | what react-query keeps of each query, filters, tabs | poll, refetch on an event, ask for a job at once or from a dialog, sign in and out; a cancel button that never succeeds (section 13) |
| Audit, dashboard, metrics | `audit.service.ts`, `dashboard.service.ts`, `metrics.service.ts` | `audit_logs` | one INSERT; queries; counters |
| Schema | `db/migrations`, `db/migrate.ts` | constraints, `_migrations` | unique and check constraints, cascades; runMigrations |
| Deployment | `docker-compose*.yml`, `infra/` | - | Redis: 256 MB, `allkeys-lru` |

**How they interact.** Handlers of the backend interleave at every `await`, and
so do the two Cron sweeps; the only transactions are in enrollAgent and
processJobResult. The agent never listens: it asks, twice over, from a heartbeat
loop and from a poll loop that share nothing but the job list on the server.
An agent's request ends in a response, an error or a 30-second timeout after
which the handler on the server goes on all the same. Events reach the UI by
Redis pub/sub, after the change they announce and outside its transaction.

**What is hard, and what has to hold.**

- *Jobs.* Two loops and any number of abandoned handlers pop one list; a job
  leaves Redis before the agent has it; createJob, getNextJobForAgent,
  processJobResult and cancelJob interleave on one row with only some updates
  conditional. A job must be handed out once and begun once, an outcome must be
  that of its run and final, nothing may be lost while nothing fails, and every
  accepted job must then finish.
- *Presence.* processHeartbeat compares with a status it read before its UPDATE;
  the stale sweep updates all rows at once and audits one by one. Row, audit
  trail and events should tell one story; a silent agent must go offline.
- *Enrollment.* max_uses is read outside the transaction that counts a use; the
  agent saves its identity after the server has committed it. The uses should
  stay within max_uses; a crash should not leave two rows for one machine.
- *Envelopes.* A floor to whole seconds, a window, and a nonce that lives twice
  the window, stored before the other checks; the signature is over JSON that
  each side prints itself. No envelope should be taken twice, and every envelope
  the agent builds should be accepted.
- *Authentication.* Counters and token hashes are read, awaited upon and written.
  Five failures should lock; refreshes should not throw each other out; every request
  should end.
- *Realtime.* Subscriptions and reconnections on one side, a filter by
  organisation and agent on the other, and a connection whose end each side
  learns in its own time. A tab should hear nothing for a session that is over
  or a page that is left, come back after a break, and be counted once.
- *Pages.* Every button acts on data that were read a while ago, every answer may
  be older than an event that came before it, and components go away under their
  own requests. A page should catch up, ask for what its user saw, and leave no
  session and no terminal behind.
- *Migrations.* Several files, each with the row that names it, in processes that
  may be killed or overlap, against a database that its image may have filled.
  Files and names should stay together and in order.

`PROJECT.json` lists the hazards one by one, each at its line, with the
properties that would catch it going wrong.

## 2. Modules and plan

| module | models | proofs |
| --- | --- | --- |
| `JobLifecycle`, `JobContract`, `MCJobLifecycle` | the job service, the handlers that serve it, the agent's two loops; what all this promises | `JobLifecycle_proofs` |
| `AgentPresence`, `MCAgentPresence` | heartbeats and the stale sweep | `AgentPresence_proofs` |
| `Enrollment`, `MCEnrollment` | token, transaction, saved configuration, deletion | `Enrollment_proofs` |
| `EnvelopeGuard`, `MCEnvelopeGuard` | what stands before every handler of the agent protocol | `EnvelopeGuard_proofs` |
| `UserSession`, `MCUserSession` | login, lock, refresh, logout, the API client's retry | `UserSession_proofs` |
| `Realtime`, `MCRealtime` | the WebSocket from Providers to the handler | `Browser_proofs` |
| `AccessControl` | permissions, roles and the tables of job types, as definitions | |
| `AgentPage` (uses `AccessControl`) | the page of an agent, its script dialog, its shell panel, POST /jobs as it sees it | `AgentPage_proofs` |
| `JobsPage` | the list of jobs, its filters, the jobs that a page asks for | `Browser_proofs` |
| `Migrations` | runMigrations and the database it runs against | `Migrations_proofs` |

Each composes the two sides that meet in it: agent and backend in the first
four, browser and backend in the others. What they share is small. A job that
`AgentPage` asks for ends there at the row, where `JobLifecycle` begins; the
presence on which createJob decides is `AgentPresence`'s row, an arbitrary choice in
`JobLifecycle`; the requests of `JobLifecycle` and `AgentPresence` that a failed
check refuses are requests that fail.

What is left, in this order:

1. the composition of `AgentPresence` with `JobLifecycle` through createJob's
   read of the status;
2. the safety parts of `PageCatchesUp` and `ListCatchesUp`: on every path an answer that is
   out of date has a request, a timer or an event behind it that replaces it;
3. the printed forms of numbers on both sides of the protocol, as an algorithm
   checked on bounded inputs (`Whole` in `EnvelopeGuard` stands for its result);
4. the read-only lists: the audit trail's pages while it grows.

## 3. The job model

`JobLifecycle.tla` is one specification because its parts share one row and one
list. A *job of the model* is one call of createJob: its id, agent and type are
fixed, and only the type `wake_on_lan` is told apart (it is queued for offline
agents and no agent can run it). All others stand for `run_script`, which has all three outcomes.

| variable | code |
| --- | --- |
| `status`, `result` | `jobs.status`; `job_results.status`. `started_at` is set exactly when there is a result |
| `audit` | the `audit_logs` entries about the job, in order |
| `queue` | the Redis list of each agent: `lpush` and `rpop`, first in first out |
| `published` | the job events given to `redis.publish` |
| `creating`, `initial` | where the call of createJob is, and its local `status` |
| `cancelling` | cancelJob is between its UPDATE and its audit entry |
| `conn` | the agents' HTTP requests: kind, stage of the handler, the job carried, the outcome reported, and whether the client still waits (`live`) |
| `beating`, `polling`, `executing` | the heartbeat loop, the poll loop, and the task running each job |
| `starts` | how often `JobRunner::execute` was entered; history, read by no action |
| `faults` | failures so far; a bound |

A handler is one action per awaited call, in the order of the code:

| code | actions |
| --- | --- |
| createJob | `CreateCheck` (both SELECTs: the agent is missing, not capable, online or offline), `CreateInsert`, `CreateAudit`, `CreatePush`, `CreatePublish` |
| cancelJob | `Cancel`, `CancelAudit` |
| checkJobTimeouts | `TimeoutSweep` |
| heartbeat_loop | `SendHeartbeat`, `Receive` |
| job_poll_loop | `SendPoll`, `Receive`, `Finish`, `ReceiveAck` |
| tasks of pushed jobs | `Receive` starts one, `Finish` reports, `ReceiveAck` ends it |
| getNextJobForAgent | `Pop` (RPOP), `MarkQueued` (UPDATE ... WHERE status = 'pending', whose row count nobody reads) |
| processJobResult | `ProcessResult` (the transaction), `PublishResult` |

The two SELECTs of createJob are one action because what they find is chosen
freely. The checks on the envelope and processHeartbeat, which come before
getNextJobForAgent in the handlers, do not touch a job; a request they refuse is
one that fails. `TimeoutSweep` is one action although it awaits per row: no row is
ever `running`, so it has no rows.

Failures, each counted by `faults`: a call of createJob or cancelJob throws
(`CreateFails`, `CancelAuditFails`); a request, a call of its handler or its
response fails (`RequestFails`; the agent logs it and never sends it again); the
client's timeout, after which the handler still pops and marks
(`ClientTimeout`); a panic in a task (`PushedTaskPanics`, which nobody notices, as
the `JoinHandle` is dropped: so in a debug build; a release build has `panic = "abort"`,
`Cargo.toml:67`, and any panic there is an `AgentCrash`); the agent restarts (`AgentCrash`); the backend
restarts (`BackendCrash`: the rows and the Redis lists stay, every handler is gone,
an agent that runs a job goes on); Redis evicts a list (`EvictQueue`).

`JobContract.tla` says what all this promises, without lists or requests: a job
is accepted or set aside; an accepted job may be withdrawn; it is begun at most
once; it is closed at most once, and only after it was begun. `KeepsContract`
in `JobLifecycle` is the refinement, with the mapping `Stand`, `starts > 0` and
`result`. A cancelled job may still be begun and closed, in the code and
so in the contract.

## 4. The presence model

`AgentPresence.tla` has the two writers of `agents.status` that run after
enrollment and what each of them tells. Only the heartbeat handler writes
`last_seen`; metrics and inventory requests do not, and so do not count here.

| variable | code |
| --- | --- |
| `row`, `silent` | `agents.status`; whether `last_seen` is older than the sweep's 90 seconds |
| `audits` | the `audit_logs` entries about the agent's presence: how many of each action |
| `events` | the `agent:status_changed` events given to `redis.publish`: how many by `new_status` |
| `flips` | how often a row went offline; history, read by no action |
| `beat` | the heartbeat requests: stage of the handler, the status reported, the status its SELECT saw, whether the client still waits |
| `waiting`, `sent` | the agent's heartbeat_loop; `sent` is a bound |
| `sweep` | the runs of the sweep: the rows RETURNING gave that are not told yet, and the one between its entry and its event |
| `faults` | failures so far; a bound |

| code | actions |
| --- | --- |
| heartbeat_loop | `SendBeat`, `BeatAnswer` |
| processHeartbeat | `BeatRead` (SELECT), `BeatUpdate` (UPDATE), `BeatAudit`, `BeatPublish` |
| markStaleAgentsOffline | `SweepUpdate` (one UPDATE ... RETURNING for all rows), `SweepAudit` and `SweepPublish` row by row, in any order of rows |
| time | `Lapse`: 90 seconds without an UPDATE of `last_seen` |
| failures | `BeatFails`, `GiveUp` (client timeout or restarted agent: the handler goes on), `SweepFails` (the scheduler logs it; the run's remaining rows are never told), `BackendCrash` |

Croner starts the sweep every 30 seconds whether or not an earlier run has ended, so
several runs are open at once. The agent reports `online` and nothing else, so
`Statuses` has two members although the protocol and the table allow four; the
UPDATE of the handler would take any. Between the UPDATE and the comparison the
handler stores capabilities and two Redis keys. Nothing reads those keys, and the
capabilities are those of the enrollment, so these awaits add no state: a
handler that waits there is one whose next step has not come yet.

## 5. The enrollment model

`Enrollment.tla` has one token, the machines configured with it, and the two
programs that turn a machine into an agent: enrollAgent, which reads the token and
writes everything else in one transaction, and the agent's main, which asks for an
identity only if its file has none.

| variable | code |
| --- | --- |
| `rows`, `owner` | `agents`, and the machine each row was inserted for |
| `trail` | agents with an entry `agent.enrolled` in `audit_logs` |
| `uses`, `expired` | `current_uses`; whether `expires_at` is past |
| `wanted` | the agents a user has tried to delete; history, read by `Delete` only to try once |
| `req` | the enrollment requests: stage of the handler, the machine, the `current_uses` its SELECT saw, the identity given, whether the client still waits |
| `phase` | where main is: `asking` (the request is open), `saving` (the answer is there), `writing` (the file is empty), `running`, `stopped` |
| `held`, `disk` | `agent_id` in memory and in `agent.toml`; `Torn` is a file cut short |
| `faults` | failures so far; a bound |

| code | actions |
| --- | --- |
| main, enroll | `StartEnrolled`, `StartEnrolling`, `Answer` (a refusal ends main), `Stop` |
| AgentConfig::save | `SaveBegin`, `SaveEnd`: `fs::write` empties the file, then writes it |
| enrollAgent | `Check` (the SELECT and the comparisons), `Commit` (the transaction), `Answer` |
| deleteAgent | `Delete` |
| time | `Expire` |
| failures | `RequestFails` (a call of the handler fails, or its answer is lost), `AgentCrash` (the client's timeout, a panic, a kill, a disk that is full: the handler goes on), `BackendCrash` |

`Delete` removes the row only of an agent without an audit entry. The foreign key
of `audit_logs` is `ON DELETE SET NULL`; PostgreSQL carries that out with an UPDATE,
the rule `audit_logs_no_update` makes nothing of it, and PostgreSQL then
refuses the DELETE because the row is still referred to. Enrollment
writes the first such entry in the transaction that writes the row, so there is never
one to delete.

`Commit` always succeeds, which is more than the code can do: the audit INSERT of
enrollAgent uses `$2` for a UUID and for a VARCHAR column (section 13). The safety
properties hold of fewer behaviours all the more. `ComesBackUnlessTorn` does rest on it: it
tells what the handlers do once that statement has its types.

A token with `max_uses` NULL is one whose `MaxUses` is not reached. A file that was
emptied does not parse, since `server_url` has no default, and main fails in
`load`. `is_active` is written by no code. The default configuration
(`config.rs:58`) names another token than the seed data (`002_seed_data.sql:66`); a
machine with that configuration is refused, and is not one of the model's.

## 6. The model of the envelope check

`EnvelopeGuard.tla` has validateEnvelope, which every handler of the agent protocol
calls first, and a network that delivers an envelope late, more than once or not at all.

| variable | code |
| --- | --- |
| `now`, `stamp` | the backend's clock, in half seconds; `ts` of each envelope that was built, in seconds |
| `nonces` | when `nonce:<nonce>` expires in Redis |
| `evicted` | nonces that Redis gave up early; history |
| `copy` | each delivery: where validateEnvelope is with it, since when it waits for Redis, whether the client has sent the command again, the verdict |
| `faults` | failures so far; a bound |

| code | actions |
| --- | --- |
| build_envelope, the network | `Send` (the agent's clock is `Lag` behind to `Lead` ahead), `Duplicate` |
| validateEnvelope | `CheckTimestamp`, `VerifyNonce` (SET NX EX), `Judge` (the SELECT and the comparison of signatures) |
| time | `Tick` |
| failures | `Fails` (a copy or its handler is lost), `Resend` (ioredis sends again what got no answer), `Evict` |

Time runs in half seconds because both sides cut theirs down to seconds: that is where
an envelope could outlive its nonce. Envelopes are those that agents build, with the
right key, so two things decide about them: whether their agent has a row (`Orphans`)
and whether their payload is printed alike on both sides (`Whole`: it is not if it
has a number such as 12.0).

## 7. The session model

`UserSession.tla` has one user, the browsers in which the user works, and the four
handlers of `/auth`.

| variable | code |
| --- | --- |
| `attempts`, `locked`, `hash` | `failed_login_attempts` up to `LockAt`, `locked_until` in the future, `refresh_token_hash` not NULL |
| `tokens`, `authed` | localStorage: how old the two tokens are; `isAuthenticated` of the persisted store |
| `call` | the requests of the API client: stage, browser, path, the token sent, whether the password is right, the count its SELECT saw |
| `wrong`, `tried`, `revoked`, `thrown` | history: wrong passwords counted, passwords compared since the lock, sessions that a logout elsewhere has ended, browsers sent to the login page |
| `faults` | failures so far; a bound |

| code | actions |
| --- | --- |
| ApiClient.request | `Submit` (login), `SignOut`, `Query` (any other, with a body or without), `AskRefresh`, `Again` (the retry), `ThrowOut` (`window.location.href`) |
| POST /auth/login | `LoginRead`, `LoginWrong`, `LoginRight`, `LoginStore` |
| other routes | `Admit` (requireAuth) |
| the body parser | `RefuseEmpty`: a POST without a body, which the logout is, gets 400 before requireAuth |
| POST /auth/refresh | `RefreshRead` (validateRefreshToken), `RefreshStore` |
| login page, layout | `SignedIn`, `SignedOut`, `Shown` |
| time, others | `Expire`, `Unlock`, `Elsewhere` (the same user in a browser outside the model, or a logout by another client of the API) |
| failures | `CallFails` |

bcrypt compares the first 72 bytes of a refresh token, and those are the same in
all tokens of a user; the model therefore keeps of the hash only whether there is one. Inactive
users are refused like wrong passwords without a count, and are left out. A logout in a browser removes
its tokens and clears its store, and no more: the request fails (section 13), so a refresh token
is revoked by a client that sends a body only.

## 8. The realtime model

`Realtime.tla` has one browser tab with its WebSocketClient, Providers that connect and
disconnect it, and the handler of `/realtime` with the fan-out of Redis' messages.

| variable | code |
| --- | --- |
| `user`, `page`, `expired` | the organization of the user, the agent whose page is shown, whether the token has expired |
| `sock`, `current` | every socket either side still knows, with the session of its token; `ws` of the client |
| `connecting`, `attempts`, `timer`, `strays` | `isConnecting`, `reconnectAttempts`, the timer `reconnectTimeout` names, and timers it no longer names |
| `clients`, `subs`, `ending`, `gauge` | the handler's map and subscriptions, sockets between `error` and `close`, `wsConnectionsGauge` |
| `wire` | messages from the client that the handler has not read |
| `late` | history: somebody signed in before an earlier socket had closed |
| `faults` | failures so far; a bound |

| code | actions |
| --- | --- |
| Providers | `SignIn` (`Connect`), `SignOut` (`Disconnect`), `Reload` |
| WebSocketClient | `OnOpen`, `OnClose`, `OnRefused` (code 4001), `TimerFires`, `StrayFires` |
| useAgentSubscription | `Show` (subscribe, with the cleanup of the effect before); no component calls the hook |
| handler of /realtime | `Accept`, `Refuse`, `OnMessage`, `OnError`, `OnEnd` (both run cleanup) |
| Redis' messages | `Passes` and `Hears`: which sockets an event reaches. Delivery changes no state, so it is a definition that the properties quantify over: `Events` of the four `Channels`, of which only `agent:status_changed` has an organization_id (`Named`, `OrganizationId`) |
| failures | `Expire`, `Break`, `Restart` |

Both sides learn of a closed connection in their own time, the client even of one it
closed itself. That `disconnect` uses up the attempts, and that nothing gives
them back until a socket opens, is modelled as it is. `Show` and with it `NoGhostSubscription` are
about a hook that is exported and that no component calls: they say what it and the handler would do
for one that did.

## 9. The agent page and the access tables

`AccessControl.tla` has no state: the permissions, the four roles, the tables that give
each type of job its permission and its capability, and what an enrolled agent can do.
`AgentPage.tla` extends it: `POST /jobs` decides by `MayCreate`.

| variable | code |
| --- | --- |
| `role` | the role of the user |
| `version`, `news` | how often `agents.status` has changed (online while even); events on their way |
| `query`, `shown`, `heard` | the request of useAgent, what its data say, the newest event that made it ask again (history) |
| `place` | the tab that is open |
| `session`, `starting`, `loading`, `outdated`, `terminal`, `strays` | RemoteShellPanel: `sessionId`, `isConnecting`, the run of initTerminal under way, runs already cleaned up, the terminal of the ref, terminals nobody can dispose |
| `dialog` | RunScriptDialog: whether it is open, the status shown when it was opened, the job it waits for |
| `post`, `row` | calls of createJob.mutate, in order; the status each row was inserted with |
| `given` | history: sessions given up by leaving the panel or by a lost answer |
| `faults` | failures so far; a bound |

| code | actions |
| --- | --- |
| useAgent | `Poll`, `Read`, `Answer`; `News` is the refetch of an event |
| backend | `Change` (the row, and its event), `Create` (POST /jobs as the page sees it) |
| buttons | `Press` (reboot, shutdown), `StartSession`, `StopSession`; `Answered` is onSuccess or onError |
| RunScriptDialog | `OpenDialog`, `CloseDialog`, `Submit`, which looks at no status; `AfterAnswer` closes it |
| effect of the terminal | `Effect` (cleanup and run, inside the action that changes the session), `Ready`, `ReadyTooLate` |
| tabs and routes | `OpenPage`, `OpenShell`, `Leave` |
| failures | `PostFails`, `ReadFails`, `NewsLost` |

What is typed or printed in the terminal is left out: nothing in the backend reads
`shell:input:<session>` and nothing publishes `remote_shell.data`. For the same reason
the notification that would end a session from outside has no action.

## 10. The list of jobs

`JobsPage.tla` has the jobs page with its filter, the Jobs tab of an agent, what makes the lists ask
again when a job is asked for on the agent's page, and the two routes behind them.

| variable | code |
| --- | --- |
| `row` | `jobs.status` |
| `view` | which filter, or the tab, or another page |
| `query`, `cache`, `stale` | react-query: the request of each key, its data, whether they are invalidated |
| `asked`, `made` | calls of createJob.mutate without their row, and with it and without their answer |
| `told` | history: jobs whose creation made a view with data ask again |

| code | actions |
| --- | --- |
| useJobs | `Poll`, `Choose`, `OpenTab`, `LookAway`, `Answer`, `Refresh` |
| listJobs | `List` (the newest `PerPage` that match) |
| useCreateJob, POST /jobs | `AskForJob`, `CreateJob`, `CreateAnswered` (invalidateQueries) |
| the job service | `Created`, `HandedOut`, `Cancelled`, `Reported`: what `JobLifecycle` does to the row, without its reasons |
| failures | `QueryFails`, `AskFails`, `AnswerFails`, unbounded |

The cancel button has no action, since its request changes nothing on either side
(section 13); `Cancelled` is a cancellation by another client of the API.

A request that is asked again is cancelled if its key has data, and joined if it has
none; this is what `Ask` and `AskOnce` are. The module's specification, type invariant
and assumption have names of their own (`ListSpec`, `ListTypeOK`, ...) because
`Browser_proofs` extends it together with `Realtime`.

## 11. The migration model

`Migrations.tla` has runs of `migrate.ts`, each with its connection, against one database.

| variable | code |
| --- | --- |
| `prior` | how many files postgres executed when it created the database (`docker-entrypoint-initdb.d`) |
| `table`, `schema`, `recorded` | `_migrations` exists; files whose objects are committed; names in `_migrations` |
| `pc`, `known`, `at`, `holds` | where a run is, its `appliedSet`, its file, the file its open transaction has executed |
| `cut`, `alone` | runs that were killed or lost their connection; runs nothing overlapped (history) |

| code | actions |
| --- | --- |
| runMigrations | `Start`, `EnsureTable`, `CreateTable`, `ReadApplied`, `Skip`, `Finish`, `Begin`, `Apply`, `Record`, `SendCommit`, `Rollback` |
| PostgreSQL | `Commit`, `Abort`; `Apply` waits for a transaction that has executed the same file |
| failures | `Cut`, at any point, as often as there are runs |

A file either creates objects or inserts rows with fixed keys; executed twice, it
fails. `CREATE TABLE IF NOT EXISTS` is two actions since of two runs that
see no table the second one fails.

## 12. Properties and runs

| property | what would break it |
| --- | --- |
| `HandedOutOnce` | two pops of one element, a peek, a second push, a list of the wrong agent, any retry or redelivery, a job begun twice or back in the list |
| `ResultOfItsRun` | a second report, a report of another run, a verdict that disagrees with the row |
| `PendingIsUntouched` | answering before marking: a cancellation of a pending job would then meet a running one |
| `NothingLost` | any step that drops a job although nothing failed |
| `TrailIsComplete` | an audit entry that is not awaited, or forgotten on a path |
| `NewsIsTrue` | an event published before the commit |
| `StatusMovesForward` | an unconditional UPDATE where a conditional one is needed |
| `KeepsContract` | any of the above, seen from outside |
| `EveryJobFinishes` | a job one of the loops ignores, a list nobody drains |
| `OfflineMeansSilent` | a sweep that compares the wrong way, or decides on times it read earlier; a heartbeat that leaves `last_seen` behind |
| `OfflineToldOnce` | overlapping runs that select the same row: a WHERE without the status, a SELECT before the UPDATE |
| `NoPhantomReturn` | a heartbeat that announces without comparing, two handlers that announce one return |
| `SilentGoesOffline` | a row the sweep never selects, or a late handler that keeps setting `online` |
| `OverrunBounded` | a comparison off by one; a limit read once for several enrollments |
| `IdentityIsOwn` | an identity given twice, an answer of an abandoned request that reaches the restarted agent, an identity saved before it is committed |
| `RowsPaidFor` | an agent that enrolls although it has an identity, or again after a refusal it took for an answer |
| `ComesBackUnlessTorn` | a machine that enrolls when it need not and finds the token used up, or waits for an answer nobody sends |
| `AcceptedOnce` | a nonce that lives no longer than the window, a GET and a SET in place of SET NX |
| `HeardAtLeastOnce` | a key that several envelopes share, so that one message makes another one look seen |
| `LockedForCause` | a count that an overlapping login adds twice, a lock one attempt too early |
| `TriedWhileLocked` | a login that reads the row without looking at its lock |
| `SignedInWithTokens` | a logout that keeps the store when the backend fails, tokens removed on another path than the store |
| `NotThrownOut` | a refresh that makes the tokens of other requests or browsers worthless |
| `CallsEnd` | a retry that is refreshed and retried again for ever |
| `NoOtherSession` | a timer or a socket of the last session that survives its logout and opens again |
| `NoGhostSubscription` | an effect without its cleanup, a cleanup that is dropped while the socket is open |
| `GaugeExact` | a cleanup that runs for `error` and for `close` and counts twice |
| `ConnectsUnlessGivenUp` | `isConnecting` or a back-off counter left behind on some path |
| `InputGoesToShown` | an asynchronous initTerminal that does not notice its cleanup, or an effect that misses a change of session |
| `NoOrphanSession` | two starts under way at once, an answer that overwrites a session, a stop of another one |
| `AnswersAreFresh` | a refetch that joins a request older than the event |
| `SetAsideOnlyIfStale` | a button or a dialog that opens although the page shows the agent offline |
| `PageCatchesUp` | a page that relies on events alone |
| `NewJobIsListed` | an invalidation that joins an older request, whose answer hides the job and counts as fresh |
| `ListCatchesUp` | a list that does not poll, or keeps an answer to another filter |
| `RecordedIsExecuted` | a file outside the transaction of its name |
| `FailsForCause` | a run that repeats what an earlier, failed one had committed |
| `FilledStaysUnrecorded` | a file that could be executed twice: then a filled database would pass |
| `EveryRunEnds` | a loop that does not advance, two runs that wait for each other |

Every type invariant is proved (`TypeCorrect`, `ListTypeCorrect`); only `Realtime`'s is also
part of a run.

| run | instance | states |
| --- | --- | --- |
| `jobs_two` | 2 jobs (1 wake_on_lan), 1 agent, 2 requests, 1 failure | about 819 000 |
| `jobs_live` | 2 jobs, 1 agent, 3 requests, no failure, fair | about 231 000 |
| `cancelled_begun` | 1 job, no failure, fair: finding 1 | - |
| `queued_forever` | 1 job, 1 failure, fair: finding 2 | - |
| `presence` | 1 agent with 3 heartbeats, 2 handlers, 2 runs of the sweep, 2 failures, fair | about 127 000 |
| `enroll` | 2 machines, 2 requests, 4 identities, a token of 2 uses that may expire, 2 failures, fair | about 292 000 |
| `envelope` | 2 envelopes, one of them `Whole`, 3 deliveries, a window of 2 seconds, 1 failure | about 709 000 |
| `session` | 1 browser with 2 requests beside others of its user, a lock after 2, 1 failure, fair | about 815 000 |
| `realtime` | 1 tab, 2 sockets, 2 organizations, 2 agents, 2 attempts, 1 failure, fair | about 291 000 |
| `page` | operator or viewer, 2 jobs asked for, 1 change of status, 2 failures, fair | about 604 000 |
| `joblist` | 2 jobs, the filter `queued` and the tab, pages of 1 row, 1 job asked for at a time, fair | about 523 000 |
| `migrate` | 3 runs, 2 files, any number of files executed before, fair | about 85 000 |

`PROJECT.json` gives the properties of each run and, for each property, a change of the
code that breaks it in that run.

**Bounds.** In the job runs `Conns` bounds the requests open at once. Two suffice for the race of
the loops and for an abandoned handler beside a live one; three add a report.
Where a property is temporal, a bound must not be what blocks a loop:
`OwnLanes` gives the heartbeat loop, the poll loop and the pushed results a
connection each. Without failures a loop has at most one request open, so this
takes nothing away; with one failure at most one handler is abandoned, and it
closes its connection by itself. Two jobs are needed for the order of the list
and for a pushed and a polled job at once; jobs do not otherwise interact.
One agent is enough, since agents share neither list nor row; that a job stays with
its own is part of `HandedOutOnce`, which is proved for any number. `MaxFaults` is 1:
each failure is a single step and one is enough for each finding; that more of them
do no harm is proved (section 14).

In `presence`, `Beats` and `Sweeps` bound the handlers and runs open at once. Two of each
give every pair that can interleave on one row, and a third would only wait for the
same row. Two heartbeats of one agent overlap only after a `GiveUp`, so the run has
failures. `MaxBeats` bounds what an agent sends; it is what makes the agent
fall silent, after one return at least. Several agents matter to one
run of the sweep, which tells its rows one by one: the proofs cover any number.

In `enroll`, `Requests` bounds the handlers open at once: two machines, or one machine and a
handler it has abandoned. `Ids` must not run out before the token does: the uses
stay below `MaxUses` plus the number of requests, so 2 + 2 - 1 = 3 are needed, and a
fourth for a use too many to show. With two machines `MaxUses` 2 can be met, met twice at
once, and exceeded. `ComesBackUnlessTorn` is about a machine that has an
identity, so a token that is used up or has expired does not make it hold by itself.

In `envelope` the window is 2 seconds instead of 300, with clocks half a second apart
and Redis half a second slow: the same order of magnitudes, which is all
`ClockAssumption` asks for, and the smallest in which a nonce expires while its envelope is
still about to be refused for its age. `MaxTime` lets the window and a lifetime pass.
In `session`, `LockAt` 2 makes an overlap of two logins and a lock possible; the
other browsers of the user act through `Elsewhere`. In `realtime` two sockets are an old and
a new one, and `MaxAttempts` 2 lets the counter stop between nought and its end; `MaxWire` 2 holds an
unsubscribe and a subscribe. In `page` two jobs are a
start and its stop, two starts, or a script and another button, and two failures are a lost event and a failed
request; that a third job adds nothing to the safety properties is proved. In `joblist` a page of one row with two jobs makes the
newer job push the older one out of sight. In `migrate` three runs are two that
overlap and one that repeats.

Symmetry is used in `jobs_two` and `envelope` only (connections, deliveries), never beside
a temporal property that needs fairness. The deadlock check is off in `enroll`,
`envelope` and `migrate`, where everything may come to its end (each file torn, each
delivery judged and the time up, each run ended), and on elsewhere.

**Fairness.** Weak fairness of each handler's next step (the event loop resumes
a settled await), of the agent's sends (loops with sleeps of fixed length) and of
`Finish`. The last is what the code comes closest to not giving: run_script waits for
its process under a timeout of `timeout_sec`, the other types return at once. No
fairness of creation, cancellation or failure. It is stated per job, per agent
and per request, which is how the code schedules them; weak fairness is enough
because no action of another part disables one of these for good, except that a
free connection may be taken by another sender, which `OwnLanes` rules out
between loops.

In `AgentPresence`: weak fairness of each handler's next step and of each run's
(the event loop resumes a settled await, and Croner starts the sweep again and
again), and of `Lapse`, since time passes. No agent has to send a heartbeat and
nothing has to fail. A heartbeat may undo a `Lapse`, which is why the property is
about agents whose heartbeats end.

In `Enrollment`: weak fairness of each handler's next step, of the two halves of
`save`, and of `Start`: the agent is installed as a Windows service or under systemd
(`README.md:28`), which starts it again when it has ended. No fairness of `Stop`, of
a failure, of a deletion or of expiry.

In `UserSession`: weak fairness of what each request does next, on either side; the
user does nothing of necessity. In `Realtime`: of what becomes of each socket and of
the timer that `reconnectTimeout` names. In `AgentPage`: of the interval of useAgent and
of its requests. In `JobsPage`: the same of useJobs, and strong fairness of `Answer`,
since a request may fail or be asked anew each time before it is answered; this
says that it is not so for ever. In `Migrations`: of each run's next step, the end that the
database makes of a lost connection included; `Start` and `Cut` are not fair.

## 13. Findings

Two disagreements have a run of their own that shows them.

1. **A cancelled job runs.** cancelJob updates the row only; the element stays in
   the list, and getNextJobForAgent answers with what it popped whatever the row says.
   `docs/openapi.yaml:323` promises "Job cancelled". The row then goes from
   `cancelled` to the outcome.
2. **A queued job can stay queued for ever.** checkJobTimeouts wants
   `status = 'running'`, which nothing in the code sets. A lost response or report
   leaves the job `queued`, against `jobs/scheduler.ts:20`.

The others were met while modelling, and the models have the code's behaviour; they
are plain from a few statements each and have no run.

*Jobs.* createJob's INSERT and its audit entry are not one transaction
(`job.service.ts:72`, `:91`), against `README.md:36` "Every action produces an immutable
audit log entry."; `CreateFails` is that gap. Every heartbeat may start one more task and
nothing bounds how many run at once (`main.rs:210`). A release build is made with `panic = "abort"` (`Cargo.toml:67`), so a panic in one
job's task ends the agent and all its other jobs.

*Presence.* processHeartbeat compares with the status its SELECT saw
(`agent.service.ts:149`). When the sweep turns the row offline between that SELECT and the
UPDATE, the heartbeat turns it online again and tells nobody: the row says online and the
last entry and event say offline. The sweep publishes as `old_status` what `RETURNING`
gives, which is the status it has just written (`:397`, `:414`).

*Enrollment.* The audit INSERT of enrollAgent (`agent.service.ts:121`-`:129`) gives `$2` to `agent_id`, a
UUID, and to `resource_id`, a VARCHAR (`001_initial_schema.sql:193`); PostgreSQL deduces inconsistent types for
the parameter and refuses the statement, and the transaction is rolled back. enrollAgent compares a `current_uses` it read outside the transaction that
increments it, so a token is used more often than its limit; by how much is
`OverrunBounded`. An enrolled agent cannot be deleted (section 5), against
`docs/openapi.yaml:183` "Agent deleted". `fs::write` at `config.rs:93` writes in place: a
crash between the truncation and the write leaves a file no later start can
read. The default configuration names another token than the seed data.

*Envelopes.* A payload with a number such as 12.0 is refused every time (`Whole`),
since the agent signs 12.0 and the backend, which has parsed it, 12.

*Sessions.* A wrong password from a browser that still has tokens is answered with a
refresh and sent again (`api.ts:45`), and so counts twice. The answer to what is sent
again is taken for a success whatever its status (`api.ts:50`-`:54`). After a
refresh that failed the tokens are gone and the store still says authenticated
(`SignedInWithTokens` names this exception).

*Requests without a body.* `request` declares `Content-Type: application/json` for every request
(`api.ts:27`-`:30`). Fastify's parser answers a POST so declared and empty with 400
(`FST_ERR_CTP_EMPTY_JSON_BODY`) before any handler of the route. Two calls are such: `logout` (`api.ts:111`), so
that no logout from the UI revokes the refresh token, and only the browser's own tokens go (`RefuseEmpty`);
and `cancelJob` (`api.ts:178`), so that no cancellation from the UI is ever accepted and the success
of `useCancelJob` (`useApi.ts:123`) is never reached. Finding 1 is about other clients of the API.

*Tenancy.* `handler.ts:38` says "Multi-tenancy: filter events by organization", and the next line filters by the
event's `organization_id` if it has one. Only `agent:status_changed` has (`agent.service.ts:195`, `:413`).
`job:created` (`job.service.ts:116`), `job:status_changed` (`:217`, `:362`) and `agent:metrics`
(`agent.service.ts:230`) have none: the events of jobs reach the clients of every organization, and those of
metrics any client that subscribes to the agent, whose organization `subscribe` does not ask for. The model has
this in `Passes` (`OrganizationId`); that a tab hears of its own organization only is therefore not
claimed. `NoOtherSession` says it of the events that name one, and is about sessions that end.

*Realtime.* A reconnection uses the token of the first connection; once that
has expired the answer is 4001 and the client gives up, although the API client has
renewed its own. `disconnect` uses up the attempts and nothing resets them but an open socket, so
the first failure of the next session is final. A close that comes after the next sign-in
starts a timer with the old session's token (`late`), although `websocket.ts:81` says
"Prevent reconnection". In development, React mounts Providers twice and the second
`connect` meets `isConnecting`. No page uses the subscription to an agent's metrics.

*Agent page.* RunScriptDialog is opened by a button that wants the agent online, and sent later without another
look (`RunScriptDialog.tsx:19`-`:39`, `:117`-`:121`): a script may be asked for, and set aside, from a page that
shows the agent offline. A stop that is asked for while the agent is offline is set aside like any
job, and the session goes on when the agent returns. Nothing publishes
`remote_shell.data` or a notification, and nothing subscribes to `shell:input:<session>`.
The ResizeObserver of the terminal is never disconnected.

*Lists.* An answer under way when its list is invalidated while nobody looks at it (`useApi.ts:109`) is kept, and
counts as fresh although it is older; the next poll corrects it. The text of the search field is sent and read by no route, for jobs and for the
audit trail. The cancel button also shows for a running job, which cancelJob would refuse. Rows and
their total come from two statements. The audit page filters by actions that
nothing writes (`agent.offline`, `user.login_failed`, `user.locked`, `settings.updated`).

*Deployment.* `docker-compose.yml:21` and `docker-compose.prod.yml:16` mount the
migrations where postgres executes them, so that the next step of `README.md:74` and
`setup-dev.sh:48` fails at the first file (`FilledStaysUnrecorded`). `db:seed` passes a
`--seed` that nothing reads. The compose files set `HMAC_SECRET`
(`docker-compose.yml:67`) where `config/index.ts:27` requires `AGENT_HMAC_SECRET`.
`/health` asks for a connection, not for a schema.

## 14. Proofs

Each `_proofs` module holds for every value of the constants that its assumptions
allow: any sets, any number of requests and of failures. TLC evaluates the
assumptions on every run, and has checked the invariants on small instances.
Each module proves an inductive invariant `IInv` (`Inductive`; `ListInv` for the list of
jobs), of which the type invariant is a part, and draws the properties from it. Every safety
invariant, every action property and the refinement that a run checks is stated by a theorem.

What must eventually happen is out of the prover's reach. Six modules prove the safety part
of it instead: that nothing waits for what cannot come, and that what goes on comes
nearer to its end by a rank that falls. What is missing from there to the liveness property is
the fairness.

### `JobLifecycle_proofs`

All safety properties of `jobs_two`: `NeverHandedOutTwice` (`HandedOutOnce`),
`ResultsAreOfRuns` (`ResultOfItsRun`), `PendingWasNotBegun` (`PendingIsUntouched`),
`NewsFollowsTheRows` (`NewsIsTrue`), `RowsMoveForward` (`StatusMovesForward`), `ContractIsKept`
(`KeepsContract`), `NoJobIsLost` (`NothingLost`), `TrailHasEveryStep` (`TrailIsComplete`).

The assumptions are those of `JobLifecycle`: `Target` maps each job to an agent,
`WakeJobs` are jobs, `Lanes` gives each connection a set of kinds, `MaxFaults` is
a natural number, `NoJob` is not a job.

`HandedOutOnce` says where a job may be but not why it cannot be there twice:
`CreatePush` could push it again, `Receive` could start it from a
response that should not carry it. `IInv == TypeOK /\ ConnSense /\ Handed` adds the
reasons. `ConnSense`: what a request is at each stage (a free one carries
nothing, one that is popped carries a job and is a delivery, one that still asks
carries none). `Handed` has three parts: `ListSense` (the elements of a list are jobs
of its agent, each once, and creation is past the push), `CarriedSense` (a
response carries a job of its own agent whose creation is past the push, no other
response carries it and no list holds it), and `BegunSense` (a job that was begun
is past the push, is begun once and is nowhere any more). "Past the push" is what
makes `CreatePush` safe: it can happen once, and a job that is not pushed is
nowhere. All the ways a request ends or is given up are covered by a frame lemma
(`HandedFrame`), so only the push, the pop, the receipt and the eviction argue about
lists.

On top of it `Life` says what a row shows. `RowSense`: its status follows from how far its
createJob is and whether it was begun. `WaySense`: a job in a list is not marked
queued yet, and one in a response is, unless its handler is about to do so; this is why
no job begins while its row is pending, although nobody reads MarkQueued's row count.
`RunSense`: a job is run or reported, by one request, and has no result until then.
`AuditSense`: one verdict if there is a result, none before. The outcomes are final
because there is one report of one run, not because of a condition in
processJobResult.

`Account` is about behaviours without a failure so far: every client waits,
no createJob broke off, and every open job is in a list, in a response, running,
reported or not pushed yet (`Calm`).

With failures, two theorems say what is left of that. `NoLoopHangs`: each loop of an agent
that waits does so for exactly one thing, the heartbeat loop for one heartbeat, the poll
loop for one poll, one running job or one report (`LoopSense`, over the requests whose
client is `live`, which is why an abandoned handler wakes nobody); no such thing exists for a loop that does not
wait; and every open request can go on (`GoesOn`), the report included, because the
job that `processJobResult` looks up has a row and is the agent's own. So no timeout, panic or
restart leaves a loop waiting for ever; the sole action a loop may lack is a free
connection, a bound. `LostStaysLost`: a job that is `Nowhere` once its createJob is past the push
(evicted with its list, dropped with a response, gone with an agent) is in no later
state anywhere again; nothing marks, runs or closes it, and only `Cancel` changes its row. It is the
reason for finding 2, for all constants: no sweep and no retry looks after such a job.

The refinement follows from `Life`: the lemma `OneAtATime` says that a step changes what
the contract sees (`status`, `starts` and `result`, through `Stand`) of no job, or of one job
in one of four ways, and these are the four actions of `JobContract`.

### `AgentPresence_proofs`

`OfflineOnlyIfSilent` (`OfflineMeansSilent`), `ToldOnce` (`OfflineToldOnce`),
`ReturnsFollowAbsences` (`NoPhantomReturn`), and `AuditedFirst`: no event without its entry.

The assumptions are that `MaxBeats` and `MaxFaults` are natural numbers, that `NoAgent` is
not an agent, and that `Beats` and `Sweeps` are finite, which counting them needs.
`IInv == TypeOK /\ HandlerSense /\ OfflineMeansSilent`: a handler that is under way
is of an agent and reports what agents report; that is why a heartbeat can never turn
a row offline. The counting theorems strengthen their property by what is still to
come. `ToldOf` counts, beside the entries, the runs that owe one: `SweepUpdate` adds a
flip and a debt at once, because it selects no row that is offline already, and
`SweepAudit` turns a debt into an entry. `Foretold` counts the handlers and runs between
their entry and their event as events. `ReturnSense` counts, beside the returns
announced, the row that is offline now and the handler that is about to announce;
`AloneSense` is why that is one handler at most until something fails.

`SilentStaysAway` is the safety part of `SilentGoesOffline`. An agent is `Over` when it has
sent its last heartbeat and no handler will write its row any more; then it stays so, its silence
and its absence last whatever handlers and sweeps are still under way, and every later
`SweepUpdate` that finds it silent shows it offline. Before that each handler has fewer steps left
(`StepsLeft`), and each run of the sweep fewer rows, until it is idle and may update
again.

### `Enrollment_proofs`

`NoForeignIdentity` (`IdentityIsOwn`), `OverrunIsBounded` (`OverrunBounded`), `NoRowUnpaid`
(`RowsPaidFor`); `SavedForGood` (a saved identity is never overwritten) and `CountedOnce` (the
token counts each agent once).

The assumptions are that `MaxUses` and `MaxFaults` are natural numbers, that the three
markers are no machine and no identities, that `Unwanted` are identities, and that
`Requests` is finite and not empty, which counting needs.
`IInv == TypeOK /\ RequestsSense /\ OneAwaited /\ MachinesSense` says why an answer
reaches the right machine: a machine has at most one request it waits for, a
request that is committed carries an identity inserted for its machine, and a machine
that asks or saves has no identity on disk. `UsesBounded` adds the handlers
that were let in and have not committed (`Taking`): letting one in while `uses < MaxUses`
keeps the sum below `MaxUses` plus all requests, and `Commit` moves one from one side
to the other. `Paid` adds to the rows of a machine the requests that may still become
rows and the one it may send at its next start, each of which is either the first
or was paid for by a failure.

`MachinesGetOn`: a machine that asks has exactly one request whose answer it still waits for,
one that does not ask has none; one that runs has on its disk the identity it holds, which is a row of
its own; and its file is torn only while it is written or after a failure. `ComesBackUnlessTorn`
follows with fairness, since a start then either reads an identity or asks.

### `EnvelopeGuard_proofs`

`TakenOnce` (`AcceptedOnce`) and `NothingTakenAway` (`HeardAtLeastOnce`), for every window, any
clocks and delays with `Lead + MaxStall + 1 < 2 * Window` (`ClockAssumption`; 300 seconds
in the code). The argument is a chain of times: an envelope's stamp is not further ahead of the
clock than `Lead` (`Built`); a handler that waits for Redis checked the window not long ago
(`Stalled`); so the nonce of what got past it lives at least until twice the window after the stamp, less
`Lead` (`Outlives`), when no other copy can still be on its way; hence two copies get past
the nonce only if it was evicted (`OnePast`).

### `UserSession_proofs`

`LocksHaveACause` (`LockedForCause`), `TriesAreFew` (`TriedWhileLocked`), `SignedInHasTokens`
(`SignedInWithTokens`), `OnlyLogoutThrowsOut` (`NotThrownOut`), for a finite set of calls. `CountSense`:
no handler has read more failures than there were. `LockSense`: the passwords compared
since the lock and the handlers that still compare are together fewer than all
calls, as the one that locked is not among them. `HashSense`: without a stored hash nobody
holds a token but those a logout elsewhere has ended, so a refresh finds a hash.

`RequestsRunDown`: each step of a call, on either side, lowers its `Rank`, and nothing else
raises it while the call is open. The rank is the stage of the handler, and 7 more while the call
carries a token that may be refreshed (`Worth`); the retry carries the new one, which is not,
so it may start at the highest stage again without raising the rank. `RefreshSense` is
needed for it: only a call with such a token is ever refreshed. A call therefore takes at most
15 steps.

### `AgentPage_proofs`

`InputIsForTheSession` (`InputGoesToShown`), `SessionsAreInHand` (`NoOrphanSession`),
`AnswersKnowTheEvents` (`AnswersAreFresh`), `SetAsideHasACause` (`SetAsideOnlyIfStale`: the status has
changed since the page last read it when the job's button was pressed, and for a script that is the button
that opens the dialog); and two that only the proofs state: `StoppedOnce` and
`StopsAreAccepted` (no table of `AccessControl` lets a role start what it may not stop). `PanelSense`: what the panel has set up is for its session.
`AwaitedSense`: it waits for one start at a time. `PostSense`, `SessionSense`: what was asked
was enabled and permitted, and an open dialog was opened on a page that showed the agent online. `StopSense`: a session that is asked to stop is one no more.
`HandSense`: a start is in somebody's hands from the request on.

### `Browser_proofs`

The realtime channel: `TypeCorrect`, `HearsNoOtherSession` (`NoOtherSession`), `SubscriptionsFollowThePage`
(`NoGhostSubscription`), `GaugeCounts` (`GaugeExact`), and two that only the proofs state:
`NeverJustStops` and `SignedOutIsQuiet` (after a sign-out no timer and no socket is left that could connect
again, with the exception of `late` below). For any number of sockets, sessions, attempts, messages under way
and failures. `IInv == TypeOK /\ ServerSense /\ TabSense /\ NeverIdle` has a part for each end.

`ServerSense` is the handler's: whom it has accepted is in its map until one of the two cleanups has
removed it, a socket that was cleaned up by its error and not yet by its close is out of
the map already, and who is not in the map has no subscription and no message left. The gauge is exact
because the second cleanup of a socket finds it removed. This part asks nothing of the client.

`TabSense` is the client's, and holds unless somebody signed in before an earlier socket
had closed (`late`), the case in which the code really keeps two sockets or a stray timer
(section 8). `OneSocket`: one socket at a time or a timer that is to open the next, of
the session that is signed in. `SignedOut`: what a logout leaves is a socket that closes, and as
long as there is one the attempts are used up; this is the only reason why its `onclose` does not
connect again. `SignedIn`: the socket is the client's and of this session, which gives
`NoOtherSession`. `PageSense`: any subscription that is not the page's, in force or in a message
on the way, has an unsubscribe behind it; the order of the messages is what keeps
it true, so it speaks of positions in `wire`.

`NeverIdle`: who is signed in has a socket, or a timer that opens one, unless the attempts
are used up or the token has expired. It is the safety part of `ConnectsUnlessGivenUp`.

The list of jobs: `AnswersHaveTheNewJob` (`NewJobIsListed`), and `FilterHolds`, which only the proofs state.
`ReadByQuery`, `ReadIntoCache`: what is read for a filter matches it. `ToldToList`: a view is told only of
jobs that belong to it and have a row. What is read from then on has that row or `PerPage` newer
ones before it, since the newest row that matches is always on the page (`Newest`, `NewerOnPage`). An answer read before is thrown away, as `Refetched`
asks anew when there are data.

### `Migrations_proofs`

`ExecutedWithItsName` (`RecordedIsExecuted`), `FailureHasACause` (`FailsForCause`), `FilledIsStuck`
(`FilledStaysUnrecorded`); `ExecutedInOrder` and `DoneIsDone`, which only the proofs state. For any
number of files and any runs. `PassedIsRecorded` and `OfItsFile` tie a run's place to
the table; `NobodyPasses` is about a filled database; `AloneIsAlone` and `AloneKnows` say that a
run without another knows exactly what is recorded.

`ExecutedByOne`: no two runs have executed the same file in open transactions, and the file is in none that
is committed. Hence the INSERT of its name cannot clash, and who waits in `Apply` waits
for a run that itself waits for nobody, so there is no deadlock. `RunsRunDown`: each step
of a run, its abortion after a `Cut` included, lowers what is `Left` of it: five for each file
and its place in the loop. No other step changes that. Together they are the safety part
of `EveryRunEnds`.

**Only model-checked** is what must eventually happen, since liveness under fairness is beyond the
prover. The safety parts that are proved are these.

| property | what is proved of it |
| --- | --- |
| `EveryJobFinishes` | `NoJobIsLost`, `NoLoopHangs` |
| `SilentGoesOffline` | `SilentStaysAway` |
| `ComesBackUnlessTorn` | `MachinesGetOn` |
| `CallsEnd` | `RequestsRunDown` |
| `ConnectsUnlessGivenUp` | `NeverJustStops` |
| `EveryRunEnds` | `RunsRunDown`, `ExecutedByOne` |
| `PageCatchesUp`, `ListCatchesUp` | nothing yet but that answers are not stale (`AnswersKnowTheEvents`, `AnswersHaveTheNewJob`) |

## 15. What is not modelled

*Jobs.* The priority of a job is stored and read by nothing; payloads, outputs and
sizes; getJob, which only reads; deletion of an agent under its jobs (which fails, section 5);
a Redis that loses the last writes only (eviction of a whole list covers the worst of
it); the time of day, as both the 30-second timeout and the sweeps may happen at
any moment.

*Presence and enrollment.* The Redis copies of the status, `agent_version` and
capabilities; what is stored about a machine and the policy it is given, which the
agent drops; creating tokens, which only the seed data does; an agent that is removed
from its machine.

*Sessions and realtime.* Creating and deactivating users, which only the seed data
does; permissions that change while a token lives, as nothing changes them; desktop
and shell input; two tabs of one browser, which share localStorage but not a
socket.

*Pages.* The settings page keeps a form that it sends nowhere. The overview, the metrics
charts, the inventory and the audit page show what was read and act on nothing;
dashboard.service, metrics.service and the queries of audit.service read only.

*Agent.* The collection of metrics and inventory reads the operating system and touches
no job; of its numbers `EnvelopeGuard` keeps whether they are printed alike.

*Deployment.* Startup and shutdown of the backend beyond a restart at any
point; the monitoring stack; the reverse proxy. Scripts and images are
configuration, of which only what a property depends on is modelled: the eviction policy of Redis and
the directory from which postgres fills a database.
