---------------------------- MODULE JobLifecycle ----------------------------
(***************************************************************************)
(* The life of a job: the backend's job service (PostgreSQL rows and the   *)
(* Redis list agent:jobs:<agent>), the /agent-v2 handlers that hand jobs   *)
(* out and take results in, and the two loops of the Rust agent that ask   *)
(* for jobs.  A handler is one action per awaited database or Redis call,  *)
(* so that other requests, faults and crashes fall between the calls.      *)
(*                                                                         *)
(* A job of the model is one call of createJob: the identifier it draws,   *)
(* the agent it addresses and its type never change.  Only wake_on_lan is  *)
(* told apart among the types; every other job stands for run_script, the  *)
(* type with all three outcomes.                                           *)
(***************************************************************************)
EXTENDS Naturals, Sequences, FiniteSets

CONSTANTS
  Jobs,       \* calls of createJob, one job each
  Agents,     \* enrolled agents
  Target,     \* the agent each job addresses
  WakeJobs,   \* the jobs of type wake_on_lan, a type no agent can run
  Conns,      \* bound: HTTP requests of agents open at one time
  Lanes,      \* bound: the kinds of request each of them may be
  MaxFaults,  \* bound: failures of any kind in one behaviour
  NoJob,      \* an empty "pending_job" or "data"
  NoAgent     \* the agent of a connection that is not in use

ASSUME TargetAssumption == Target \in [Jobs -> Agents]
ASSUME WakeAssumption   == WakeJobs \subseteq Jobs
ASSUME LanesAssumption  == Lanes \in [Conns -> SUBSET {"heartbeat", "poll", "pushed_result", "polled_result"}]
ASSUME FaultAssumption  == MaxFaults \in Nat
ASSUME NoJobAssumption  == NoJob \notin Jobs

VARIABLES
  status,     \* jobs.status, "none" while the row does not exist
  result,     \* job_results.status, "none" while the row does not exist;
              \* jobs.started_at is set exactly when it is not "none"
  audit,      \* the audit_logs entries about each job, oldest first
  queue,      \* the Redis lists; the next element to leave is the first
  published,  \* job events given to Redis pub/sub
  creating,   \* how far each createJob has come
  initial,    \* createJob's local "status"
  cancelling, \* jobs whose cancelJob has updated the row, not yet the audit
  conn,       \* the agents' HTTP requests and where their handlers are
  beating,    \* heartbeat_loop is waiting for its response
  polling,    \* where job_poll_loop is
  executing,  \* which task of its agent is running each job
  starts,     \* how often JobRunner::execute was entered for each job
  faults      \* failures so far

rows    == <<status, result, audit>>
redis   == <<queue, published>>
service == <<creating, initial, cancelling>>
agent   == <<beating, polling, executing, starts>>
vars    == <<rows, redis, service, conn, agent, faults>>

Outcomes == {"success", "failed", "timeout"}
Statuses == {"pending", "queued", "running", "cancelled", "agent_offline"} \union Outcomes
AuditActions == {"job.created", "job.cancelled", "job.completed", "job.failed", "job.timeout"}
Events == {"job:created", "job:status_changed"}

Underway   == {"checked", "inserted", "audited", "pushed"}
Deliveries == {"heartbeat", "poll"}
Reports    == {"pushed_result", "polled_result"}

FreeConn == [stage |-> "free", kind |-> "none", agent |-> NoAgent,
             job |-> NoJob, outcome |-> "none", live |-> FALSE]

Stages == {"free", "asking", "popped", "reporting", "committed", "answered"}
Requests ==
  [stage: Stages,
   kind: Deliveries \union Reports \union {"none"}, agent: Agents \union {NoAgent},
   job: Jobs \union {NoJob}, outcome: Outcomes \union {"none"}, live: BOOLEAN]

\* A request whose handler has come to a stage, holding a job; and one whose
\* client waits no longer.
At(r, stage, job) == [stage |-> stage, kind |-> r.kind, agent |-> r.agent,
                      job |-> job, outcome |-> r.outcome, live |-> r.live]
GivenUp(r) == [stage |-> r.stage, kind |-> r.kind, agent |-> r.agent,
               job |-> r.job, outcome |-> r.outcome, live |-> FALSE]

TypeOK ==
  /\ status \in [Jobs -> Statuses \union {"none"}]
  /\ result \in [Jobs -> Outcomes \union {"none"}]
  /\ audit \in [Jobs -> Seq(AuditActions)]
  /\ queue \in [Agents -> Seq(Jobs)]
  /\ published \subseteq Jobs \X Events
  /\ creating \in [Jobs -> Underway \union {"idle", "refused", "failed", "done"}]
  /\ initial \in [Jobs -> {"none", "pending", "agent_offline"}]
  /\ cancelling \subseteq Jobs
  /\ conn \in [Conns -> Requests]
  /\ beating \in [Agents -> BOOLEAN]
  /\ polling \in [Agents -> {"idle", "waiting", "executing", "reporting"}]
  /\ executing \in [Jobs -> {"no", "pushed", "polled"}]
  /\ starts \in [Jobs -> Nat]
  /\ faults \in 0..MaxFaults

Init ==
  /\ status = [j \in Jobs |-> "none"]
  /\ result = [j \in Jobs |-> "none"]
  /\ audit = [j \in Jobs |-> <<>>]
  /\ queue = [a \in Agents |-> <<>>]
  /\ published = {}
  /\ creating = [j \in Jobs |-> "idle"]
  /\ initial = [j \in Jobs |-> "none"]
  /\ cancelling = {}
  /\ conn = [c \in Conns |-> FreeConn]
  /\ beating = [a \in Agents |-> FALSE]
  /\ polling = [a \in Agents |-> "idle"]
  /\ executing = [j \in Jobs |-> "no"]
  /\ starts = [j \in Jobs |-> 0]
  /\ faults = 0

-----------------------------------------------------------------------------
(* createJob: select the agent and its capability, insert, audit, lpush,   *)
(* publish.                                                                *)

\* What the two SELECTs find.  The agent's presence changes at any time, and
\* nothing looks at it again after this read.
AgentRows == {"missing", "incapable", "online", "offline"}

CreateCheck(j, row) ==
  /\ creating[j] = "idle"
  /\ \/ /\ row \in {"missing", "incapable"}
        /\ creating' = [creating EXCEPT ![j] = "refused"]
        /\ UNCHANGED initial
     \/ /\ row \in {"online", "offline"}
        /\ creating' = [creating EXCEPT ![j] = "checked"]
        /\ initial' = [initial EXCEPT ![j] =
             IF row = "offline" /\ j \notin WakeJobs THEN "agent_offline" ELSE "pending"]
  /\ UNCHANGED <<rows, redis, cancelling, conn, agent, faults>>

CreateInsert(j) ==
  /\ creating[j] = "checked"
  /\ creating' = [creating EXCEPT ![j] = "inserted"]
  /\ status' = [status EXCEPT ![j] = initial[j]]
  /\ UNCHANGED <<result, audit, redis, initial, cancelling, conn, agent, faults>>

\* A job of an offline agent is neither pushed nor published.
AwaitsPush(j) == initial[j] = "pending"

CreateAudit(j) ==
  /\ creating[j] = "inserted"
  /\ creating' = [creating EXCEPT ![j] = IF AwaitsPush(j) THEN "audited" ELSE "done"]
  /\ audit' = [audit EXCEPT ![j] = Append(@, "job.created")]
  /\ UNCHANGED <<status, result, redis, initial, cancelling, conn, agent, faults>>

\* Variant: createAuditLog is not awaited, and its entry never comes.
CreatePushUnaudited(j) ==
  /\ creating[j] \in {"inserted", "audited"} /\ initial[j] = "pending"
  /\ creating' = [creating EXCEPT ![j] = "pushed"]
  /\ queue' = [queue EXCEPT ![Target[j]] = Append(@, j)]
  /\ UNCHANGED <<rows, published, initial, cancelling, conn, agent, faults>>

CreatePush(j) ==
  /\ creating[j] = "audited"
  /\ creating' = [creating EXCEPT ![j] = "pushed"]
  /\ queue' = [queue EXCEPT ![Target[j]] = Append(@, j)]
  /\ UNCHANGED <<rows, published, initial, cancelling, conn, agent, faults>>

CreatePublish(j) ==
  /\ creating[j] = "pushed"
  /\ creating' = [creating EXCEPT ![j] = "done"]
  /\ published' = published \union {<<j, "job:created">>}
  /\ UNCHANGED <<rows, queue, initial, cancelling, conn, agent, faults>>

CreateStep(j) ==
  \/ CreateInsert(j)
  \/ CreateAudit(j)
  \/ CreatePush(j)
  \/ CreatePublish(j)

-----------------------------------------------------------------------------
(* cancelJob: one conditional UPDATE, then the audit entry.                *)

\* Variant: the UPDATE spares only jobs that are cancelled already.
NotYetCancelled == Statuses \ {"cancelled"}
Cancellable == {"pending", "queued"}

Cancel(j) ==
  /\ status[j] \in Cancellable
  /\ status' = [status EXCEPT ![j] = "cancelled"]
  /\ cancelling' = cancelling \union {j}
  /\ UNCHANGED <<result, audit, redis, creating, initial, conn, agent, faults>>

CancelAudit(j) ==
  /\ j \in cancelling
  /\ cancelling' = cancelling \ {j}
  /\ audit' = [audit EXCEPT ![j] = Append(@, "job.cancelled")]
  /\ UNCHANGED <<status, result, redis, creating, initial, conn, agent, faults>>

\* checkJobTimeouts: the UPDATE and, for each row it returns, audit and event.
\* "late" are the running jobs whose timeout_sec has elapsed.  No row is ever
\* running, so "late" is empty and the loop over the rows has nothing to interleave.
TimeoutSweep ==
  \E late \in SUBSET {j \in Jobs : status[j] = "running" /\ result[j] # "none"} :
    /\ status' = [j \in Jobs |-> IF j \in late THEN "timeout" ELSE status[j]]
    /\ audit' = [j \in Jobs |-> IF j \in late THEN Append(audit[j], "job.timeout") ELSE audit[j]]
    /\ published' = published \union (late \X {"job:status_changed"})
    /\ UNCHANGED <<result, queue, service, conn, agent, faults>>

-----------------------------------------------------------------------------
(* The agent's loops and the requests they send.                           *)

Send(c, stage, kind, a, j, outcome) ==
  /\ conn[c].stage = "free" /\ kind \in Lanes[c]
  /\ conn' = [conn EXCEPT ![c] = [stage |-> stage, kind |-> kind, agent |-> a,
                                  job |-> j, outcome |-> outcome, live |-> TRUE]]

SendHeartbeat(a, c) ==
  /\ ~beating[a]
  /\ beating' = [beating EXCEPT ![a] = TRUE]
  /\ Send(c, "asking", "heartbeat", a, NoJob, "none")
  /\ UNCHANGED <<rows, redis, service, polling, executing, starts, faults>>

SendPoll(a, c) ==
  /\ polling[a] = "idle"
  /\ polling' = [polling EXCEPT ![a] = "waiting"]
  /\ Send(c, "asking", "poll", a, NoJob, "none")
  /\ UNCHANGED <<rows, redis, service, beating, executing, starts, faults>>

OutcomesOf(j) == IF j \in WakeJobs THEN {"failed"} ELSE Outcomes

\* JobRunner::execute returns and the result is sent, by the poll loop or by the
\* task spawned for a pushed job.
Finish(j, c) ==
  /\ executing[j] # "no"
  /\ executing' = [executing EXCEPT ![j] = "no"]
  /\ polling' = IF executing[j] = "polled"
                THEN [polling EXCEPT ![Target[j]] = "reporting"] ELSE polling
  /\ \E o \in OutcomesOf(j) :
       Send(c, "reporting",
            IF executing[j] = "polled" THEN "polled_result" ELSE "pushed_result",
            Target[j], j, o)
  /\ UNCHANGED <<rows, redis, service, beating, starts, faults>>

\* The request ends for the loop that waits for it, unless it gave up before.
Released(c) ==
  LET r == conn[c] IN
  /\ beating' = IF r.live /\ r.kind = "heartbeat"
                THEN [beating EXCEPT ![r.agent] = FALSE] ELSE beating
  /\ polling' = IF r.live /\ r.kind \in {"poll", "polled_result"}
                THEN [polling EXCEPT ![r.agent] = "idle"] ELSE polling

Closed(c) == conn' = [conn EXCEPT ![c] = FreeConn]

-----------------------------------------------------------------------------
(* getNextJobForAgent, called by the heartbeat and the poll handlers.      *)

\* Variant: the job is read from the list and stays there.
Peeked(q) == q
Popped(q) == Tail(q)

Pop(c) ==
  /\ conn[c].stage = "asking"
  /\ LET a == conn[c].agent IN
     \/ /\ queue[a] = <<>>
        /\ conn' = [conn EXCEPT ![c] = At(@, "answered", @.job)]
        /\ UNCHANGED queue
     \/ /\ queue[a] # <<>>
        /\ conn' = [conn EXCEPT ![c] = At(@, "popped", Head(queue[a]))]
        /\ queue' = [queue EXCEPT ![a] = Popped(@)]
  /\ UNCHANGED <<rows, published, service, agent, faults>>

\* Variants of the UPDATE's WHERE: one that matches every status, one that
\* matches none.
MarkedAlways(s) == "queued"
MarkedNever(s) == s
Marked(s) == IF s = "pending" THEN "queued" ELSE s

\* The job is answered whether or not the UPDATE found the row still pending.
MarkQueued(c) ==
  /\ conn[c].stage = "popped"
  /\ status' = [status EXCEPT ![conn[c].job] = Marked(@)]
  /\ conn' = [conn EXCEPT ![c] = At(@, "answered", @.job)]
  /\ UNCHANGED <<result, audit, redis, service, agent, faults>>

\* Variant: the heartbeat loop does not look at pending_job.
TakesPolled(r) == r.kind = "poll" /\ r.job # NoJob
Takes(r) == r.job # NoJob

\* The response arrives: a pushed job gets a task of its own, a polled job is
\* run by the poll loop itself.
Receive(c) ==
  LET r == conn[c] IN
  /\ r.stage = "answered" /\ r.live /\ r.kind \in Deliveries
  /\ Closed(c)
  /\ beating' = IF r.kind = "heartbeat" THEN [beating EXCEPT ![r.agent] = FALSE] ELSE beating
  /\ polling' = IF r.kind = "poll"
                THEN [polling EXCEPT ![r.agent] = IF Takes(r) THEN "executing" ELSE "idle"]
                ELSE polling
  /\ \/ ~Takes(r) /\ UNCHANGED <<executing, starts>>
     \/ /\ Takes(r)
        /\ executing' = [executing EXCEPT ![r.job] =
                           IF r.kind = "heartbeat" THEN "pushed" ELSE "polled"]
        /\ starts' = [starts EXCEPT ![r.job] = @ + 1]
  /\ UNCHANGED <<rows, redis, service, faults>>

-----------------------------------------------------------------------------
(* processJobResult: one transaction, then the event.                      *)

\* Variant: only a failure is a failure.
VerdictUnlessFailed(o) == IF o = "failed" THEN "job.failed" ELSE "job.completed"
Verdict(o) == IF o = "success" THEN "job.completed" ELSE "job.failed"

\* The upsert and the UPDATE ask nothing of the state the job is in.
ProcessResult(c) ==
  LET r == conn[c] IN
  /\ r.stage = "reporting"
  /\ status[r.job] # "none" /\ Target[r.job] = r.agent
  /\ result' = [result EXCEPT ![r.job] = r.outcome]
  /\ status' = [status EXCEPT ![r.job] = r.outcome]
  /\ audit' = [audit EXCEPT ![r.job] = Append(@, Verdict(r.outcome))]
  /\ conn' = [conn EXCEPT ![c] = At(@, "committed", @.job)]
  /\ UNCHANGED <<redis, service, agent, faults>>

\* Variant: the event is published before the transaction.
PublishFirst(c) ==
  /\ conn[c].stage \in {"reporting", "committed"}
  /\ published' = published \union {<<conn[c].job, "job:status_changed">>}
  /\ conn' = [conn EXCEPT ![c] = At(@, IF @.stage = "committed" THEN "answered" ELSE @.stage, @.job)]
  /\ UNCHANGED <<rows, queue, service, agent, faults>>

PublishResult(c) ==
  /\ conn[c].stage = "committed"
  /\ published' = published \union {<<conn[c].job, "job:status_changed">>}
  /\ conn' = [conn EXCEPT ![c] = At(@, "answered", @.job)]
  /\ UNCHANGED <<rows, queue, service, agent, faults>>

ReceiveAck(c) ==
  /\ conn[c].stage = "answered" /\ conn[c].live /\ conn[c].kind \in Reports
  /\ Released(c)
  /\ Closed(c)
  /\ UNCHANGED <<rows, redis, service, executing, starts, faults>>

\* A response nobody waits for any more.
DropAnswer(c) ==
  /\ conn[c].stage = "answered" /\ ~conn[c].live
  /\ Closed(c)
  /\ UNCHANGED <<rows, redis, service, agent, faults>>

ConnStep(c) ==
  \/ Pop(c)
  \/ MarkQueued(c)
  \/ Receive(c)
  \/ ProcessResult(c)
  \/ PublishResult(c)
  \/ ReceiveAck(c)
  \/ DropAnswer(c)

-----------------------------------------------------------------------------
(* What goes wrong.  The bound counts every failure.                       *)

Fault == faults < MaxFaults /\ faults' = faults + 1

\* One of createJob's calls throws: the route answers 400.
CreateFails(j) ==
  /\ Fault
  /\ creating[j] \in Underway
  /\ creating' = [creating EXCEPT ![j] = "failed"]
  /\ UNCHANGED <<rows, redis, initial, cancelling, conn, agent>>

CancelAuditFails(j) ==
  /\ Fault
  /\ j \in cancelling
  /\ cancelling' = cancelling \ {j}
  /\ UNCHANGED <<rows, redis, creating, initial, conn, agent>>

\* The request is lost or refused, a call of its handler throws, or the response
\* is lost.  The loop logs the error and goes on; nothing is sent again.
RequestFails(c) ==
  /\ Fault
  /\ conn[c].stage # "free"
  /\ Released(c)
  /\ Closed(c)
  /\ UNCHANGED <<rows, redis, service, executing, starts>>

\* The client's 30 second timeout.  The handler goes on.
ClientTimeout(c) ==
  /\ Fault
  /\ conn[c].live
  /\ Released(c)
  /\ conn' = [conn EXCEPT ![c] = GivenUp(@)]
  /\ UNCHANGED <<rows, redis, service, executing, starts>>

\* The task of a pushed job panics; no other task notices.  That is so in a debug build
\* only: a release is built with panic = "abort", and its agent crashes instead.
PushedTaskPanics(j) ==
  /\ Fault
  /\ executing[j] = "pushed"
  /\ executing' = [executing EXCEPT ![j] = "no"]
  /\ UNCHANGED <<rows, redis, service, conn, beating, polling, starts>>

\* The agent exits (a reboot job, a panic of one of its loops, a kill) and is
\* started again by the service manager.
AgentCrash(a) ==
  /\ Fault
  /\ beating' = [beating EXCEPT ![a] = FALSE]
  /\ polling' = [polling EXCEPT ![a] = "idle"]
  /\ executing' = [j \in Jobs |-> IF Target[j] = a THEN "no" ELSE executing[j]]
  /\ conn' = [c \in Conns |->
       IF conn[c].agent = a THEN GivenUp(conn[c]) ELSE conn[c]]
  /\ UNCHANGED <<rows, redis, service, starts>>

\* The backend process exits: every handler stops where it is.
BackendCrash ==
  /\ Fault
  /\ conn' = [c \in Conns |-> FreeConn]
  /\ beating' = [a \in Agents |-> FALSE]
  /\ polling' = [a \in Agents |-> IF polling[a] = "executing" THEN "executing" ELSE "idle"]
  /\ creating' = [j \in Jobs |-> IF creating[j] \in Underway THEN "failed" ELSE creating[j]]
  /\ cancelling' = {}
  /\ UNCHANGED <<rows, redis, initial, executing, starts>>

\* Redis (allkeys-lru, 256 MB) evicts an agent's list or restarts without it.
EvictQueue(a) ==
  /\ Fault
  /\ queue[a] # <<>>
  /\ queue' = [queue EXCEPT ![a] = <<>>]
  /\ UNCHANGED <<rows, published, service, conn, agent>>

-----------------------------------------------------------------------------
Next ==
  \/ \E j \in Jobs :
       \/ \E row \in AgentRows : CreateCheck(j, row)
       \/ CreateStep(j)
       \/ Cancel(j)
       \/ CancelAudit(j)
       \/ CreateFails(j)
       \/ CancelAuditFails(j)
       \/ PushedTaskPanics(j)
       \/ \E c \in Conns : Finish(j, c)
  \/ TimeoutSweep
  \/ \E a \in Agents :
       \/ \E c \in Conns : SendHeartbeat(a, c) \/ SendPoll(a, c)
       \/ AgentCrash(a)
       \/ EvictQueue(a)
  \/ \E c \in Conns : ConnStep(c) \/ RequestFails(c) \/ ClientTimeout(c)
  \/ BackendCrash

\* The event loop runs every handler to its end; the agent's loops go round and
\* its jobs end.  Nobody is obliged to create or cancel a job, and no fault must
\* happen.
Fairness ==
  /\ \A j \in Jobs :
       /\ WF_vars(CreateStep(j))
       /\ WF_vars(CancelAudit(j))
       /\ WF_vars(\E c \in Conns : Finish(j, c))
  /\ \A a \in Agents :
       /\ WF_vars(\E c \in Conns : SendHeartbeat(a, c))
       /\ WF_vars(\E c \in Conns : SendPoll(a, c))
  /\ \A c \in Conns : WF_vars(ConnStep(c))
  /\ WF_vars(TimeoutSweep)

Spec     == Init /\ [][Next]_vars
FairSpec == Spec /\ Fairness

-----------------------------------------------------------------------------
(* Properties.                                                             *)

Queued(j)     == \E a \in Agents : \E i \in DOMAIN queue[a] : queue[a][i] = j
Carries(c, j) == conn[c].kind \in Deliveries /\ conn[c].job = j
Reporting(c, j) == conn[c].kind \in Reports /\ conn[c].job = j

\* A job leaves the list towards one response only, to the agent it addresses:
\* it is never twice in the lists, in two responses, or in a list or a response
\* once an agent has begun it, and no agent begins it twice.  The heartbeat and the
\* poll handlers race for the same list, and abandoned handlers go on popping it.
HandedOutOnce ==
  \A j \in Jobs :
    /\ \A a \in Agents : \A i, k \in DOMAIN queue[a] :
         queue[a][i] = j => (Target[j] = a /\ (queue[a][k] = j => i = k))
    /\ \A c, d \in Conns : Carries(c, j) /\ Carries(d, j) => c = d
    /\ \A c \in Conns : Carries(c, j) => conn[c].agent = Target[j] /\ ~Queued(j)
    /\ starts[j] > 0 => ~Queued(j) /\ \A c \in Conns : ~Carries(c, j)
    /\ starts[j] <= 1

\* A recorded result is that of the one run of the job: the agent began it, the
\* row shows the same outcome, the audit trail holds one verdict and it agrees.
ResultOfItsRun ==
  \A j \in Jobs : result[j] # "none" =>
    /\ starts[j] = 1 /\ executing[j] = "no"
    /\ status[j] = result[j]
    /\ \E i \in DOMAIN audit[j] :
         /\ audit[j][i] = IF result[j] = "success" THEN "job.completed" ELSE "job.failed"
         /\ \A k \in DOMAIN audit[j] \ {i} : audit[j][k] \notin {"job.completed", "job.failed"}

\* While the user sees a job pending, no agent has begun it: the row is marked
\* before the response that carries the job leaves.
PendingIsUntouched == \A j \in Jobs : status[j] = "pending" => starts[j] = 0

\* Until something fails, an accepted job without a result is always somewhere:
\* being created, in the list, in a response, with the agent, or in a report.
NothingLost ==
  faults = 0 => \A j \in Jobs :
    status[j] \in {"pending", "queued", "cancelled"} =>
      \/ creating[j] \in {"inserted", "audited"}
      \/ Queued(j)
      \/ executing[j] # "no"
      \/ \E c \in Conns : Carries(c, j) \/ Reporting(c, j)

\* Until something fails, the audit trail accounts for every row: its creation,
\* its cancellation and its verdict, each once their handler is past it.
Audited(j, action) == \E i \in DOMAIN audit[j] : audit[j][i] = action
TrailIsComplete ==
  faults = 0 => \A j \in Jobs :
    /\ creating[j] = "done" \/ Queued(j) \/ starts[j] > 0 => Audited(j, "job.created")
    /\ status[j] = "cancelled" => j \in cancelling \/ Audited(j, "job.cancelled")
    /\ result[j] # "none" => Audited(j, "job.completed") \/ Audited(j, "job.failed")

\* The UI is told of a new status only after the status is committed, and of a
\* job only after it exists.
NewsIsTrue ==
  \A j \in Jobs :
    /\ <<j, "job:created">> \in published => status[j] # "none"
    /\ <<j, "job:status_changed">> \in published => result[j] # "none"

\* The steps a row may take.  An outcome is final, and nothing becomes pending,
\* queued or cancelled again; a cancelled job may still get an outcome.
Moves ==
  [none          |-> {"pending", "agent_offline"},
   pending       |-> {"queued", "cancelled"},
   queued        |-> Outcomes \union {"cancelled"},
   cancelled     |-> Outcomes]
StatusMovesForward ==
  [][\A j \in Jobs : status'[j] # status[j] =>
       status[j] \in DOMAIN Moves /\ status'[j] \in Moves[status[j]]]_vars

\* If nothing fails, every accepted job gets its result: the two loops drain the
\* list, first in first out, and each report is taken in.
EveryJobFinishes == \A j \in Jobs : status[j] = "pending" ~> result[j] # "none"

\* The contract, and where each of its variables lives in the code.
Stand(j) ==
  CASE status[j] = "none"                 -> "absent"
    [] status[j] = "agent_offline"        -> "set_aside"
    [] status[j] = "cancelled"            -> "cancelled"
    [] status[j] \in {"pending", "queued", "running"} -> "accepted"
    [] status[j] \in Outcomes             -> "closed"

Contract == INSTANCE JobContract WITH
  stand <- [j \in Jobs |-> Stand(j)],
  begun <- {j \in Jobs : starts[j] > 0},
  outcome <- result
\* Every step of the code is a step of the contract or invisible to it.
KeepsContract == Contract!Spec

-----------------------------------------------------------------------------
(* What the documents say, and the code does not do.                       *)

\* docs/openapi.yaml:323 answers a cancellation with "Job cancelled"; a job that
\* is cancelled before any agent began it should then not be begun.
CancelledIsNotBegun ==
  [][\A j \in Jobs : status[j] = "cancelled" => starts'[j] = starts[j]]_vars

\* jobs/scheduler.ts:20 "Check for timed out jobs every 15 seconds": a job given
\* to an agent that does not report ends as timed out, so it does end.
QueuedJobEnds ==
  \A j \in Jobs : status[j] = "queued" ~> status[j] \in Outcomes \union {"cancelled"}
=============================================================================
