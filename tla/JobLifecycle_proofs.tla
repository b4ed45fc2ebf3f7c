------------------------ MODULE JobLifecycle_proofs ------------------------
(***************************************************************************)
(* Proofs about JobLifecycle, for every set of jobs, agents, connections   *)
(* and any number of faults.                                               *)
(***************************************************************************)
EXTENDS JobLifecycle, TLAPS

-----------------------------------------------------------------------------
(* Connections and lists keep their types.                                 *)

USE TargetAssumption, LanesAssumption, FaultAssumption, NoJobAssumption

\* A connection that is given back is a connection again.
LEMMA FreeConnIsRequest == FreeConn \in Requests
  BY DEF FreeConn, Requests, Stages

\* Ending a request keeps the loops' states in their types.
LEMMA ReleasedType ==
  ASSUME TypeOK, NEW c \in Conns, Released(c)
  PROVE  /\ beating' \in [Agents -> BOOLEAN]
         /\ polling' \in [Agents -> {"idle", "waiting", "executing", "reporting"}]
  BY DEF TypeOK, Released

\* Ending a request keeps every connection in its type.
LEMMA ClosedType ==
  ASSUME TypeOK, NEW c \in Conns, Closed(c)
  PROVE  conn' \in [Conns -> Requests]
  BY FreeConnIsRequest DEF TypeOK, Closed

\* Sending a request makes a connection of the right type.
LEMMA SendType ==
  ASSUME TypeOK, NEW c \in Conns, NEW stage \in {"asking", "reporting"},
         NEW kind \in Deliveries \union Reports, NEW a \in Agents,
         NEW j \in Jobs \union {NoJob}, NEW o \in Outcomes \union {"none"},
         Send(c, stage, kind, a, j, o)
  PROVE  conn' \in [Conns -> Requests]
  BY DEF TypeOK, Send, Requests, Stages

\* Moving a handler on, and giving a request up, keep every connection in its type.
LEMMA AtType ==
  ASSUME NEW r \in Requests, NEW stage \in Stages, NEW j \in Jobs \union {NoJob}
  PROVE  At(r, stage, j) \in Requests
  BY DEF At, Requests

LEMMA GivenUpType ==
  ASSUME NEW r \in Requests
  PROVE  GivenUp(r) \in Requests
  BY DEF GivenUp, Requests

\* Every connection carries a job or none.
LEMMA JobType ==
  ASSUME TypeOK, NEW c \in Conns
  PROVE  conn[c] \in Requests /\ conn[c].job \in Jobs \union {NoJob}
         /\ conn[c].outcome \in Outcomes \union {"none"}
  BY DEF TypeOK, Requests

\* Taking the first job off a list leaves a list.
LEMMA PoppedType ==
  ASSUME NEW q \in Seq(Jobs), q # <<>>
  PROVE  Head(q) \in Jobs /\ Popped(q) \in Seq(Jobs)
  BY DEF Popped

-----------------------------------------------------------------------------
(* The inductive invariant.                                                *)

\* What a connection holds follows from where its handler is: an agent as long
\* as it is open, a job from the moment one is popped or reported.
Sensible(r) ==
  /\ r.stage # "free" => r.agent \in Agents
  /\ r.stage \in {"asking", "popped"} => r.kind \in Deliveries
  /\ r.stage = "asking" => r.job = NoJob
  /\ r.stage = "popped" => r.job \in Jobs
  /\ r.stage \in {"reporting", "committed"} => r.kind \in Reports /\ r.job \in Jobs

ConnSense == \A c \in Conns : Sensible(conn[c])

\* The stages of createJob from the push on.  It never returns to an earlier one.
Past == {"pushed", "done", "failed"}

\* A job in a list is there once, for its agent, past its push, unbegun, and in
\* no response.
ListSense ==
  \A a \in Agents : \A i \in 1..Len(queue[a]) :
    /\ Target[queue[a][i]] = a
    /\ creating[queue[a][i]] \in Past
    /\ starts[queue[a][i]] = 0
    /\ \A k \in 1..Len(queue[a]) : queue[a][i] = queue[a][k] => i = k
    /\ \A c \in Conns : ~Carries(c, queue[a][i])

\* A job in a response is in one only, on its way to its agent, past its push
\* and unbegun.
CarriedSense ==
  \A c \in Conns : \A j \in Jobs : Carries(c, j) =>
    /\ conn[c].agent = Target[j]
    /\ creating[j] \in Past
    /\ starts[j] = 0
    /\ \A d \in Conns : Carries(d, j) => c = d

\* A job is begun at most once, after its push.
BegunSense ==
  \A j \in Jobs : starts[j] \in {0, 1} /\ (starts[j] = 1 => creating[j] \in Past)

Handed == ListSense /\ CarriedSense /\ BegunSense

IInv == TypeOK /\ ConnSense /\ Handed

-----------------------------------------------------------------------------
(* Every step keeps the types.                                             *)

USE DEF rows, redis, service, agent, vars

\* Types, given what connections hold: a handler that pops, queues or records a
\* job finds a job and an agent in its connection.
LEMMA TypeStep ==
  ASSUME TypeOK, ConnSense, [Next]_vars
  PROVE  TypeOK'
<1>1. ASSUME NEW j \in Jobs, NEW row \in AgentRows, CreateCheck(j, row)
      PROVE  TypeOK'
  <2>1. creating' \in [Jobs -> Underway \union {"idle", "refused", "failed", "done"}]
    <3>1. \E s \in {"refused", "checked"} : creating' = [creating EXCEPT ![j] = s]
      BY <1>1 DEF CreateCheck
    <3>2. QED
      BY <3>1 DEF TypeOK, Underway
  <2>2. initial' \in [Jobs -> {"none", "pending", "agent_offline"}]
    <3>1. CASE row \in {"missing", "incapable"}
      BY <1>1, <3>1 DEF TypeOK, CreateCheck
    <3>2. CASE row \in {"online", "offline"}
      <4>1. initial' = [initial EXCEPT ![j] =
              IF row = "offline" /\ j \notin WakeJobs THEN "agent_offline" ELSE "pending"]
        BY <1>1, <3>2 DEF CreateCheck
      <4>2. QED
        BY <4>1 DEF TypeOK
    <3>3. QED
      BY <3>1, <3>2 DEF AgentRows
  <2>3. QED
    BY <1>1, <2>1, <2>2 DEF TypeOK, CreateCheck
<1>2. ASSUME NEW j \in Jobs, CreateInsert(j)
      PROVE  TypeOK'
  <2>1. initial[j] \in {"none", "pending", "agent_offline"}
    BY DEF TypeOK
  <2>2. status' \in [Jobs -> Statuses \union {"none"}]
    BY <1>2, <2>1 DEF TypeOK, CreateInsert, Statuses
  <2>3. creating' \in [Jobs -> Underway \union {"idle", "refused", "failed", "done"}]
    BY <1>2 DEF TypeOK, CreateInsert, Underway
  <2>4. QED
    BY <1>2, <2>2, <2>3 DEF TypeOK, CreateInsert
<1>3. ASSUME NEW j \in Jobs, CreateAudit(j)
      PROVE  TypeOK'
  <2>1. audit' \in [Jobs -> Seq(AuditActions)]
    BY <1>3 DEF TypeOK, CreateAudit, AuditActions
  <2>2. creating' \in [Jobs -> Underway \union {"idle", "refused", "failed", "done"}]
    BY <1>3 DEF TypeOK, CreateAudit, Underway
  <2>3. QED
    BY <1>3, <2>1, <2>2 DEF TypeOK, CreateAudit
<1>4. ASSUME NEW j \in Jobs, CreatePush(j)
      PROVE  TypeOK'
  <2>1. creating' \in [Jobs -> Underway \union {"idle", "refused", "failed", "done"}]
    BY <1>4 DEF TypeOK, CreatePush, Underway
  <2>2. queue' \in [Agents -> Seq(Jobs)]
    BY <1>4 DEF TypeOK, CreatePush
  <2>3. QED
    BY <1>4, <2>1, <2>2 DEF TypeOK, CreatePush
<1>5. ASSUME NEW j \in Jobs, CreatePublish(j)
      PROVE  TypeOK'
  BY <1>5 DEF TypeOK, CreatePublish, Events
<1>6. ASSUME NEW j \in Jobs, Cancel(j)
      PROVE  TypeOK'
  <2>1. status' \in [Jobs -> Statuses \union {"none"}]
    BY <1>6 DEF TypeOK, Cancel, Statuses
  <2>2. QED
    BY <1>6, <2>1 DEF TypeOK, Cancel
<1>7. ASSUME NEW j \in Jobs, CancelAudit(j)
      PROVE  TypeOK'
  <2>1. audit' \in [Jobs -> Seq(AuditActions)]
    BY <1>7 DEF TypeOK, CancelAudit, AuditActions
  <2>2. QED
    BY <1>7, <2>1 DEF TypeOK, CancelAudit
<1>8. CASE TimeoutSweep
  <2>1. PICK late \in SUBSET Jobs :
          /\ status' = [j \in Jobs |-> IF j \in late THEN "timeout" ELSE status[j]]
          /\ audit' = [j \in Jobs |->
               IF j \in late THEN Append(audit[j], "job.timeout") ELSE audit[j]]
          /\ published' = published \union (late \X {"job:status_changed"})
    BY <1>8 DEF TimeoutSweep
  <2>2. status' \in [Jobs -> Statuses \union {"none"}]
    BY <2>1 DEF TypeOK, Statuses, Outcomes
  <2>3. audit' \in [Jobs -> Seq(AuditActions)]
    <3>1. ASSUME NEW j \in Jobs
          PROVE  Append(audit[j], "job.timeout") \in Seq(AuditActions)
      BY DEF TypeOK, AuditActions
    <3>2. QED
      BY <2>1, <3>1 DEF TypeOK
  <2>4. published' \subseteq Jobs \X Events
    BY <2>1 DEF TypeOK, Events
  <2>5. QED
    BY <1>8, <2>2, <2>3, <2>4 DEF TypeOK, TimeoutSweep
<1>9. ASSUME NEW a \in Agents, NEW c \in Conns, SendHeartbeat(a, c)
      PROVE  TypeOK'
  <2>1. conn' \in [Conns -> Requests]
    BY <1>9, SendType DEF SendHeartbeat, Deliveries
  <2>2. QED
    BY <1>9, <2>1 DEF TypeOK, SendHeartbeat
<1>10. ASSUME NEW a \in Agents, NEW c \in Conns, SendPoll(a, c)
       PROVE  TypeOK'
  <2>1. conn' \in [Conns -> Requests]
    BY <1>10, SendType DEF SendPoll, Deliveries
  <2>2. QED
    BY <1>10, <2>1 DEF TypeOK, SendPoll
<1>11. ASSUME NEW j \in Jobs, NEW c \in Conns, Finish(j, c)
       PROVE  TypeOK'
  <2>1. conn' \in [Conns -> Requests]
    BY <1>11, SendType DEF Finish, Reports, OutcomesOf, Outcomes
  <2>2. QED
    BY <1>11, <2>1 DEF TypeOK, Finish
<1>12. ASSUME NEW c \in Conns, Pop(c)
       PROVE  TypeOK'
  <2>1. conn[c].agent \in Agents
    BY <1>12 DEF ConnSense, Sensible, Pop
  <2>2. queue[conn[c].agent] \in Seq(Jobs)
    BY <2>1 DEF TypeOK
  <2>3. conn' \in [Conns -> Requests] /\ queue' \in [Agents -> Seq(Jobs)]
    <3>1. CASE queue[conn[c].agent] = <<>>
      <4>1. conn' = [conn EXCEPT ![c] = At(conn[c], "answered", conn[c].job)] /\ queue' = queue
        BY <1>12, <3>1 DEF Pop
      <4>2. At(conn[c], "answered", conn[c].job) \in Requests
        BY AtType, JobType DEF Stages
      <4>3. QED
        BY <4>1, <4>2 DEF TypeOK
    <3>2. CASE queue[conn[c].agent] # <<>>
      <4>1. Head(queue[conn[c].agent]) \in Jobs /\ Popped(queue[conn[c].agent]) \in Seq(Jobs)
        BY <2>2, <3>2, PoppedType
      <4>2. At(conn[c], "popped", Head(queue[conn[c].agent])) \in Requests
        BY <4>1, AtType, JobType DEF Stages
      <4>3. QED
        <5>1. /\ conn' = [conn EXCEPT ![c] = At(conn[c], "popped", Head(queue[conn[c].agent]))]
              /\ queue' = [queue EXCEPT ![conn[c].agent] = Popped(queue[conn[c].agent])]
          BY <1>12, <3>2 DEF Pop
        <5>2. QED
          BY <2>1, <4>1, <4>2, <5>1 DEF TypeOK
    <3>3. QED
      BY <3>1, <3>2
  <2>4. QED
    BY <1>12, <2>3 DEF TypeOK, Pop
<1>13. ASSUME NEW c \in Conns, MarkQueued(c)
       PROVE  TypeOK'
  <2>1. status' \in [Jobs -> Statuses \union {"none"}]
    <3>1. ASSUME NEW s \in Statuses \union {"none"}
          PROVE  Marked(s) \in Statuses \union {"none"}
      BY DEF Marked, Statuses
    <3>2. status' = [status EXCEPT ![conn[c].job] = Marked(status[conn[c].job])]
      BY <1>13 DEF MarkQueued
    <3>3. QED
      BY <3>1, <3>2 DEF TypeOK
  <2>2. conn' \in [Conns -> Requests]
    <3>1. At(conn[c], "answered", conn[c].job) \in Requests
      BY AtType, JobType DEF Stages
    <3>2. QED
      BY <1>13, <3>1 DEF TypeOK, MarkQueued
  <2>3. QED
    BY <1>13, <2>1, <2>2 DEF TypeOK, MarkQueued
<1>14. ASSUME NEW c \in Conns, Receive(c)
       PROVE  TypeOK'
  <2>1. conn' \in [Conns -> Requests]
    BY <1>14, ClosedType DEF Receive
  <2>2. QED
    <3>1. beating' \in [Agents -> BOOLEAN]
      BY <1>14 DEF TypeOK, Receive
    <3>2. polling' \in [Agents -> {"idle", "waiting", "executing", "reporting"}]
      BY <1>14 DEF TypeOK, Receive
    <3>3. /\ executing' \in [Jobs -> {"no", "pushed", "polled"}]
          /\ starts' \in [Jobs -> Nat]
      <4>1. CASE UNCHANGED <<executing, starts>>
        BY <4>1 DEF TypeOK
      <4>2. CASE ~UNCHANGED <<executing, starts>>
        <5>1. /\ executing' = [executing EXCEPT ![conn[c].job] =
                                IF conn[c].kind = "heartbeat" THEN "pushed" ELSE "polled"]
              /\ starts' = [starts EXCEPT ![conn[c].job] = starts[conn[c].job] + 1]
          BY <1>14, <4>2 DEF Receive
        <5>2. \A j \in Jobs : starts[j] + 1 \in Nat
          BY DEF TypeOK
        <5>3. QED
          BY <5>1, <5>2 DEF TypeOK
      <4>3. QED
        BY <4>1, <4>2
    <3>4. QED
      BY <1>14, <2>1, <3>1, <3>2, <3>3 DEF TypeOK, Receive
<1>15. ASSUME NEW c \in Conns, ProcessResult(c)
       PROVE  TypeOK'
  <2>1. conn' \in [Conns -> Requests] /\ conn[c].outcome \in Outcomes \union {"none"}
    BY <1>15, AtType, JobType DEF TypeOK, ProcessResult, Stages
  <2>2. audit' \in [Jobs -> Seq(AuditActions)]
    <3>1. ASSUME NEW j \in Jobs
          PROVE  Append(audit[j], Verdict(conn[c].outcome)) \in Seq(AuditActions)
      <4>1. Verdict(conn[c].outcome) \in AuditActions
        BY DEF Verdict, AuditActions
      <4>2. QED
        BY <4>1 DEF TypeOK
    <3>2. QED
      BY <1>15, <3>1 DEF TypeOK, ProcessResult
  <2>3. QED
    BY <1>15, <2>1, <2>2 DEF TypeOK, ProcessResult, Statuses
<1>16. ASSUME NEW c \in Conns, PublishResult(c)
       PROVE  TypeOK'
  <2>1. conn' \in [Conns -> Requests]
    BY <1>16, AtType, JobType DEF TypeOK, PublishResult, Stages
  <2>2. QED
    BY <1>16, <2>1 DEF TypeOK, PublishResult, ConnSense, Sensible, Events
<1>17. ASSUME NEW c \in Conns, ReceiveAck(c)
       PROVE  TypeOK'
  BY <1>17, ClosedType, ReleasedType DEF TypeOK, ReceiveAck
<1>18. ASSUME NEW c \in Conns, DropAnswer(c)
       PROVE  TypeOK'
  BY <1>18, ClosedType DEF TypeOK, DropAnswer
<1>19. ASSUME NEW j \in Jobs, CreateFails(j)
       PROVE  TypeOK'
  BY <1>19 DEF TypeOK, CreateFails, Fault
<1>20. ASSUME NEW j \in Jobs, CancelAuditFails(j)
       PROVE  TypeOK'
  BY <1>20 DEF TypeOK, CancelAuditFails, Fault
<1>21. ASSUME NEW c \in Conns, RequestFails(c)
       PROVE  TypeOK'
  <2>1. faults' \in 0..MaxFaults
    BY <1>21 DEF TypeOK, RequestFails, Fault
  <2>2. Released(c) /\ Closed(c)
    BY <1>21 DEF RequestFails
  <2>3. QED
    BY <1>21, <2>1, <2>2, ClosedType, ReleasedType DEF TypeOK, RequestFails
<1>22. ASSUME NEW c \in Conns, ClientTimeout(c)
       PROVE  TypeOK'
  <2>1. conn' \in [Conns -> Requests]
    <3>1. GivenUp(conn[c]) \in Requests
      BY GivenUpType, JobType
    <3>2. QED
      BY <1>22, <3>1 DEF TypeOK, ClientTimeout
  <2>2. faults' \in 0..MaxFaults
    BY <1>22 DEF TypeOK, ClientTimeout, Fault
  <2>3. QED
    BY <1>22, <2>1, <2>2, ReleasedType DEF TypeOK, ClientTimeout
<1>23. ASSUME NEW j \in Jobs, PushedTaskPanics(j)
       PROVE  TypeOK'
  <2>1. faults' \in 0..MaxFaults
    BY <1>23 DEF TypeOK, PushedTaskPanics, Fault
  <2>2. QED
    BY <1>23, <2>1 DEF TypeOK, PushedTaskPanics
<1>24. ASSUME NEW a \in Agents, AgentCrash(a)
       PROVE  TypeOK'
  <2>1. conn' \in [Conns -> Requests]
    BY <1>24, GivenUpType DEF TypeOK, AgentCrash
  <2>2. QED
    <3>1. faults' \in 0..MaxFaults
      BY <1>24 DEF TypeOK, AgentCrash, Fault
    <3>2. /\ beating' \in [Agents -> BOOLEAN]
          /\ polling' \in [Agents -> {"idle", "waiting", "executing", "reporting"}]
          /\ executing' \in [Jobs -> {"no", "pushed", "polled"}]
      BY <1>24 DEF TypeOK, AgentCrash
    <3>3. QED
      BY <1>24, <2>1, <3>1, <3>2 DEF TypeOK, AgentCrash
<1>25. CASE BackendCrash
  <2>1. faults' \in 0..MaxFaults
    BY <1>25 DEF TypeOK, BackendCrash, Fault
  <2>2. conn' \in [Conns -> Requests] /\ beating' \in [Agents -> BOOLEAN]
    BY <1>25, FreeConnIsRequest DEF BackendCrash
  <2>3. /\ polling' \in [Agents -> {"idle", "waiting", "executing", "reporting"}]
        /\ creating' \in [Jobs -> Underway \union {"idle", "refused", "failed", "done"}]
    BY <1>25 DEF TypeOK, BackendCrash
  <2>4. QED
    BY <1>25, <2>1, <2>2, <2>3 DEF TypeOK, BackendCrash
<1>26. ASSUME NEW a \in Agents, EvictQueue(a)
       PROVE  TypeOK'
  <2>1. faults' \in 0..MaxFaults
    BY <1>26 DEF TypeOK, EvictQueue, Fault
  <2>2. QED
    BY <1>26, <2>1 DEF TypeOK, EvictQueue
<1>27. CASE UNCHANGED vars
  BY <1>27 DEF TypeOK
<1>28. QED
  BY <1>1, <1>2, <1>3, <1>4, <1>5, <1>6, <1>7, <1>8, <1>9, <1>10, <1>11, <1>12,
     <1>13, <1>14, <1>15, <1>16, <1>17, <1>18, <1>19, <1>20, <1>21, <1>22,
     <1>23, <1>24, <1>25, <1>26, <1>27 DEF Next, CreateStep, ConnStep

-----------------------------------------------------------------------------
(* Every step keeps the sense of the connections.                          *)

\* A connection that is closed, or whose client gives up, stays sensible.
LEMMA FreeConnSensible == Sensible(FreeConn)
  BY DEF Sensible, FreeConn

LEMMA GivenUpSensible ==
  ASSUME NEW r, Sensible(r)
  PROVE  Sensible(GivenUp(r))
  BY DEF Sensible, GivenUp

\* A step that changes one connection to a sensible request keeps the others.
LEMMA OneConn ==
  ASSUME TypeOK, ConnSense, NEW c \in Conns, NEW r, Sensible(r),
         conn' = [conn EXCEPT ![c] = r]
  PROVE  ConnSense'
<1>1. ASSUME NEW d \in Conns
      PROVE  Sensible(conn[d])'
  BY DEF TypeOK, ConnSense, Sensible
<1>2. QED
  BY <1>1 DEF ConnSense

\* A request that is sent is sensible.
LEMMA SendSensible ==
  ASSUME TypeOK, ConnSense, NEW c \in Conns, NEW stage, NEW kind, NEW a \in Agents,
         NEW j, NEW o, Send(c, stage, kind, a, j, o),
         \/ stage = "asking" /\ kind \in Deliveries /\ j = NoJob
         \/ stage = "reporting" /\ kind \in Reports /\ j \in Jobs
  PROVE  ConnSense'
<1> DEFINE r == [stage |-> stage, kind |-> kind, agent |-> a,
                 job |-> j, outcome |-> o, live |-> TRUE]
<1>1. Sensible(r)
  BY DEF Sensible
<1>2. conn' = [conn EXCEPT ![c] = r]
  BY DEF Send
<1>3. QED
  BY <1>1, <1>2, OneConn

\* Handlers move through their stages without losing what they hold.
LEMMA SenseStep ==
  ASSUME TypeOK, ConnSense, [Next]_vars
  PROVE  ConnSense'
<1>1. CASE UNCHANGED conn
  BY <1>1 DEF ConnSense, Sensible
<1>2. ASSUME NEW a \in Agents, NEW c \in Conns, SendHeartbeat(a, c)
      PROVE  ConnSense'
  BY <1>2, SendSensible DEF SendHeartbeat, Deliveries
<1>3. ASSUME NEW a \in Agents, NEW c \in Conns, SendPoll(a, c)
      PROVE  ConnSense'
  BY <1>3, SendSensible DEF SendPoll, Deliveries
<1>4. ASSUME NEW j \in Jobs, NEW c \in Conns, Finish(j, c)
      PROVE  ConnSense'
  <2>1. PICK o \in OutcomesOf(j) :
          Send(c, "reporting",
               IF executing[j] = "polled" THEN "polled_result" ELSE "pushed_result",
               Target[j], j, o)
    BY <1>4 DEF Finish
  <2>2. QED
    BY <2>1, SendSensible DEF Reports
<1>5. ASSUME NEW c \in Conns, Pop(c)
      PROVE  ConnSense'
  <2>1. Sensible(conn[c]) /\ conn[c].stage = "asking" /\ conn[c].agent \in Agents
    BY <1>5 DEF ConnSense, Sensible, Pop
  <2>2. CASE conn' = [conn EXCEPT ![c] = At(conn[c], "answered", conn[c].job)]
    <3>1. Sensible(At(conn[c], "answered", conn[c].job))
      BY <2>1 DEF Sensible, At
    <3>2. QED
      BY <2>2, <3>1, OneConn
  <2>3. CASE /\ queue[conn[c].agent] # <<>>
             /\ conn' = [conn EXCEPT ![c] = At(conn[c], "popped", Head(queue[conn[c].agent]))]
    <3>1. Head(queue[conn[c].agent]) \in Jobs
      BY <2>1, <2>3, PoppedType DEF TypeOK
    <3>2. Sensible(At(conn[c], "popped", Head(queue[conn[c].agent])))
      BY <2>1, <3>1 DEF Sensible, At
    <3>3. QED
      BY <2>3, <3>2, OneConn
  <2>4. QED
    BY <1>5, <2>2, <2>3 DEF Pop
<1>6. ASSUME NEW c \in Conns, MarkQueued(c) \/ PublishResult(c)
      PROVE  ConnSense'
  <2>1. Sensible(At(conn[c], "answered", conn[c].job))
    BY <1>6 DEF ConnSense, Sensible, At, MarkQueued, PublishResult
  <2>2. conn' = [conn EXCEPT ![c] = At(conn[c], "answered", conn[c].job)]
    BY <1>6 DEF MarkQueued, PublishResult
  <2>3. QED
    BY <2>1, <2>2, OneConn
<1>7. ASSUME NEW c \in Conns, ProcessResult(c)
      PROVE  ConnSense'
  <2>1. Sensible(At(conn[c], "committed", conn[c].job))
    BY <1>7 DEF ConnSense, Sensible, At, ProcessResult
  <2>2. conn' = [conn EXCEPT ![c] = At(conn[c], "committed", conn[c].job)]
    BY <1>7 DEF ProcessResult
  <2>3. QED
    BY <2>1, <2>2, OneConn
<1>8. ASSUME NEW c \in Conns, Closed(c)
      PROVE  ConnSense'
  BY <1>8, FreeConnSensible, OneConn DEF Closed
<1>9. ASSUME NEW c \in Conns, ClientTimeout(c)
      PROVE  ConnSense'
  <2>1. conn' = [conn EXCEPT ![c] = GivenUp(conn[c])]
    BY <1>9 DEF ClientTimeout
  <2>2. Sensible(GivenUp(conn[c]))
    BY GivenUpSensible DEF ConnSense
  <2>3. QED
    BY <2>1, <2>2, OneConn
<1>10. ASSUME NEW a \in Agents, AgentCrash(a)
       PROVE  ConnSense'
  <2>1. ASSUME NEW c \in Conns
        PROVE  Sensible(conn[c])'
    BY <1>10, GivenUpSensible DEF AgentCrash, ConnSense, Sensible
  <2>2. QED
    BY <2>1 DEF ConnSense
<1>11. CASE BackendCrash
  <2>1. ASSUME NEW c \in Conns
        PROVE  Sensible(conn[c])'
    BY <1>11, FreeConnSensible DEF BackendCrash, Sensible
  <2>2. QED
    BY <2>1 DEF ConnSense
<1>12. QED
  BY <1>1, <1>2, <1>3, <1>4, <1>5, <1>6, <1>7, <1>8, <1>9, <1>10, <1>11
     DEF Next, CreateStep, ConnStep, CreateCheck, CreateInsert, CreateAudit, CreatePush,
         CreatePublish, Cancel, CancelAudit, TimeoutSweep, Receive, ReceiveAck, DropAnswer,
         CreateFails, CancelAuditFails, RequestFails, PushedTaskPanics, EvictQueue

-----------------------------------------------------------------------------
(* Every step keeps the sense of the lists, the responses and the runs.    *)

\* A step that pops, pushes and begins nothing, sends no createJob back before
\* its push and puts no job into a response keeps everything about handing out.
LEMMA HandedFrame ==
  ASSUME TypeOK, Handed, queue' = queue, starts' = starts,
         \A j \in Jobs : creating[j] \in Past => creating'[j] \in Past,
         \A c \in Conns, j \in Jobs :
           Carries(c, j)' => Carries(c, j) /\ conn'[c].agent = conn[c].agent
  PROVE  Handed'
<1>1. ListSense'
  <2>1. SUFFICES ASSUME NEW a \in Agents, NEW i \in 1..Len(queue[a])
                 PROVE  /\ Target[queue[a][i]] = a
                        /\ creating'[queue[a][i]] \in Past
                        /\ starts[queue[a][i]] = 0
                        /\ \A k \in 1..Len(queue[a]) : queue[a][i] = queue[a][k] => i = k
                        /\ \A c \in Conns : ~Carries(c, queue[a][i])'
    BY DEF ListSense
  <2>2. queue[a][i] \in Jobs
    BY DEF TypeOK
  <2>3. QED
    BY <2>2 DEF Handed, ListSense
<1>2. CarriedSense'
  BY DEF Handed, CarriedSense
<1>3. BegunSense'
  BY DEF Handed, BegunSense
<1>4. QED
  BY <1>1, <1>2, <1>3 DEF Handed

\* The job that createJob pushes is nowhere yet.
LEMMA HandedPush ==
  ASSUME TypeOK, Handed, NEW j \in Jobs, CreatePush(j)
  PROVE  Handed'
<1>1. creating[j] \notin Past
  BY DEF CreatePush, Past
<1>2. starts[j] = 0 /\ \A c \in Conns : ~Carries(c, j)
  BY <1>1 DEF Handed, BegunSense, CarriedSense
<1>3. /\ creating' = [creating EXCEPT ![j] = "pushed"]
      /\ queue' = [queue EXCEPT ![Target[j]] = Append(queue[Target[j]], j)]
      /\ starts' = starts /\ conn' = conn
  BY DEF CreatePush
<1>4. \A i \in Jobs : creating[i] \in Past => creating'[i] \in Past
  BY <1>3 DEF TypeOK, Past
<1>5. ListSense'
  <2>1. SUFFICES ASSUME NEW a \in Agents, NEW i \in 1..Len(queue'[a])
                 PROVE  /\ Target[queue'[a][i]] = a
                        /\ creating'[queue'[a][i]] \in Past
                        /\ starts[queue'[a][i]] = 0
                        /\ \A k \in 1..Len(queue'[a]) : queue'[a][i] = queue'[a][k] => i = k
                        /\ \A c \in Conns : ~Carries(c, queue'[a][i])
    BY <1>3 DEF ListSense, Carries
  <2>2. CASE a # Target[j]
    <3>1. queue'[a] = queue[a] /\ queue[a][i] \in Jobs
      BY <1>3, <2>2 DEF TypeOK
    <3>2. QED
      BY <1>4, <2>1, <3>1 DEF Handed, ListSense
  <2>3. CASE a = Target[j]
    <3>1. queue[a] \in Seq(Jobs) /\ queue'[a] = Append(queue[a], j)
      BY <1>3, <2>3 DEF TypeOK
    <3>2. /\ Len(queue'[a]) = Len(queue[a]) + 1
          /\ queue'[a][Len(queue[a]) + 1] = j
          /\ \A k \in 1..Len(queue[a]) : queue'[a][k] = queue[a][k] /\ queue[a][k] \in Jobs
      BY <3>1
    <3>3. \A k \in 1..Len(queue[a]) : queue[a][k] # j
      BY <1>1 DEF Handed, ListSense
    <3>4. CASE i = Len(queue[a]) + 1
      <4>1. queue'[a][i] = j /\ creating'[j] \in Past
        BY <1>3, <3>2, <3>4 DEF Past, TypeOK
      <4>2. QED
        BY <1>2, <2>3, <3>1, <3>2, <3>3, <3>4, <4>1
    <3>5. CASE i \in 1..Len(queue[a])
      BY <1>4, <3>1, <3>2, <3>3, <3>5 DEF Handed, ListSense
    <3>6. QED
      BY <2>1, <3>1, <3>2, <3>4, <3>5
  <2>4. QED
    BY <2>2, <2>3
<1>6. CarriedSense' /\ BegunSense'
  BY <1>3, <1>4 DEF Handed, CarriedSense, BegunSense, Carries
<1>7. QED
  BY <1>5, <1>6 DEF Handed

\* The job that a handler pops leaves its list for that handler's response.
LEMMA HandedPop ==
  ASSUME TypeOK, ConnSense, Handed, NEW c \in Conns, Pop(c)
  PROVE  Handed'
<1> DEFINE a == conn[c].agent
<1>1. a \in Agents /\ conn[c].job = NoJob /\ conn[c].stage = "asking"
  BY DEF Pop, ConnSense, Sensible
<1>2. creating' = creating /\ starts' = starts
  BY DEF Pop
<1>3. CASE queue[a] = <<>>
  <2>1. queue' = queue /\ conn' = [conn EXCEPT ![c] = At(conn[c], "answered", NoJob)]
    BY <1>1, <1>3 DEF Pop
  <2>2. \A d \in Conns, j \in Jobs :
          Carries(d, j)' => Carries(d, j) /\ conn'[d].agent = conn[d].agent
    BY <1>1, <2>1 DEF Carries, At, TypeOK
  <2>3. QED
    BY <1>2, <2>1, <2>2, HandedFrame
<1>4. CASE queue[a] # <<>>
  <2> DEFINE j == Head(queue[a])
             CarriesNext(d, i) == conn'[d].kind \in Deliveries /\ conn'[d].job = i
  <2>1. /\ conn' = [conn EXCEPT ![c] = At(conn[c], "popped", j)]
        /\ queue' = [queue EXCEPT ![a] = Tail(queue[a])]
    BY <1>4 DEF Pop, Popped
  <2>2. /\ queue[a] \in Seq(Jobs) /\ j \in Jobs /\ j = queue[a][1] /\ 1 \in 1..Len(queue[a])
        /\ Len(Tail(queue[a])) = Len(queue[a]) - 1
        /\ \A i \in 1..Len(Tail(queue[a])) :
             Tail(queue[a])[i] = queue[a][i+1] /\ i+1 \in 1..Len(queue[a])
    BY <1>1, <1>4 DEF TypeOK
  <2>3. /\ Target[j] = a /\ creating[j] \in Past /\ starts[j] = 0
        /\ \A d \in Conns : ~Carries(d, j)
        /\ \A k \in 1..Len(queue[a]) : queue[a][k] = j => k = 1
    BY <1>1, <2>2 DEF Handed, ListSense
  <2>4. /\ \A i \in Jobs : CarriesNext(c, i) => i = j
        /\ conn'[c].agent = a
        /\ \A d \in Conns \ {c}, i \in Jobs :
             conn'[d].agent = conn[d].agent /\ (CarriesNext(d, i) <=> Carries(d, i))
    BY <2>1 DEF Carries, At, TypeOK
  <2>5. ListSense'
    <3>1. SUFFICES ASSUME NEW b \in Agents, NEW i \in 1..Len(queue'[b])
                   PROVE  /\ Target[queue'[b][i]] = b
                          /\ creating[queue'[b][i]] \in Past
                          /\ starts[queue'[b][i]] = 0
                          /\ \A k \in 1..Len(queue'[b]) : queue'[b][i] = queue'[b][k] => i = k
                          /\ \A d \in Conns : ~CarriesNext(d, queue'[b][i])
      BY <1>2 DEF ListSense, Carries
    <3>2. CASE b # a
      <4>1. queue'[b] = queue[b] /\ queue[b][i] \in Jobs
        BY <2>1, <3>2 DEF TypeOK
      <4>2. queue[b][i] # j
        BY <2>3, <3>1, <3>2, <4>1 DEF Handed, ListSense
      <4>3. QED
        <5>1. \A d \in Conns : ~Carries(d, queue[b][i])
          BY <3>1, <4>1 DEF Handed, ListSense
        <5>2. \A d \in Conns : ~CarriesNext(d, queue[b][i])
          BY <2>4, <4>1, <4>2, <5>1
        <5>3. QED
          BY <3>1, <4>1, <5>2 DEF Handed, ListSense
    <3>3. CASE b = a
      <4>1. queue'[b] = Tail(queue[a])
        BY <1>1, <2>1, <3>3 DEF TypeOK
      <4>2. queue'[b][i] = queue[a][i+1] /\ i+1 \in 1..Len(queue[a]) /\ queue[a][i+1] \in Jobs
        BY <2>2, <4>1
      <4>3. queue[a][i+1] # j
        BY <2>3, <4>2
      <4>4. \A k \in 1..Len(queue'[b]) : queue'[b][i] = queue'[b][k] => i = k
        BY <1>1, <2>2, <4>1, <4>2 DEF Handed, ListSense
      <4>5. /\ Target[queue[a][i+1]] = a
            /\ creating[queue[a][i+1]] \in Past
            /\ starts[queue[a][i+1]] = 0
            /\ \A d \in Conns : ~Carries(d, queue[a][i+1])
        BY <1>1, <4>2 DEF Handed, ListSense
      <4>6. \A d \in Conns : ~CarriesNext(d, queue[a][i+1])
        BY <2>4, <4>2, <4>3, <4>5
      <4>7. QED
        BY <3>3, <4>2, <4>4, <4>5, <4>6
    <3>4. QED
      BY <3>2, <3>3
  <2>6. CarriedSense'
    <3>1. SUFFICES ASSUME NEW d \in Conns, NEW i \in Jobs, CarriesNext(d, i)
                   PROVE  /\ conn'[d].agent = Target[i]
                          /\ creating[i] \in Past
                          /\ starts[i] = 0
                          /\ \A e \in Conns : CarriesNext(e, i) => d = e
      BY <1>2 DEF CarriedSense, Carries
    <3>2. CASE d = c
      <4>1. i = j
        BY <2>4, <3>1, <3>2
      <4>2. \A e \in Conns : CarriesNext(e, j) => e = c
        BY <2>2, <2>3, <2>4
      <4>3. QED
        BY <2>3, <2>4, <3>2, <4>1, <4>2
    <3>3. CASE d # c
      <4>1. Carries(d, i) /\ conn'[d].agent = conn[d].agent
        BY <2>4, <3>1, <3>3
      <4>2. i # j
        BY <2>3, <4>1
      <4>3. QED
        BY <2>4, <4>1, <4>2 DEF Handed, CarriedSense
    <3>4. QED
      BY <3>2, <3>3
  <2>7. BegunSense'
    BY <1>2 DEF Handed, BegunSense
  <2>8. QED
    BY <2>5, <2>6, <2>7 DEF Handed
<1>5. QED
  BY <1>3, <1>4

\* The job that an agent takes from a response was nowhere else and is begun now.
LEMMA HandedReceive ==
  ASSUME TypeOK, Handed, NEW c \in Conns, Receive(c)
  PROVE  Handed'
<1>1. /\ queue' = queue /\ creating' = creating /\ conn' = [conn EXCEPT ![c] = FreeConn]
      /\ conn[c].kind \in Deliveries
  BY DEF Receive, Closed
<1>2. \A d \in Conns, i \in Jobs :
        Carries(d, i)' => d # c /\ Carries(d, i) /\ conn'[d].agent = conn[d].agent
  BY <1>1 DEF Carries, FreeConn, Deliveries, TypeOK
<1>3. CASE starts' = starts
  BY <1>1, <1>2, <1>3, HandedFrame
<1>4. CASE conn[c].job # NoJob /\ starts' = [starts EXCEPT ![conn[c].job] = @ + 1]
  <2> DEFINE j == conn[c].job
  <2>1. j \in Jobs /\ Carries(c, j)
    BY <1>1, <1>4, JobType DEF Carries
  <2>2. creating[j] \in Past /\ starts[j] = 0 /\ \A d \in Conns : Carries(d, j) => c = d
    BY <2>1 DEF Handed, CarriedSense
  <2>3. starts'[j] = 1 /\ \A i \in Jobs \ {j} : starts'[i] = starts[i]
    BY <1>4, <2>1, <2>2 DEF TypeOK
  <2>4. ListSense'
    <3>1. SUFFICES ASSUME NEW a \in Agents, NEW i \in 1..Len(queue[a])
                   PROVE  /\ Target[queue[a][i]] = a
                          /\ creating[queue[a][i]] \in Past
                          /\ starts'[queue[a][i]] = 0
                          /\ \A k \in 1..Len(queue[a]) : queue[a][i] = queue[a][k] => i = k
                          /\ \A d \in Conns : ~Carries(d, queue[a][i])'
      BY <1>1 DEF ListSense
    <3>2. queue[a][i] \in Jobs
      BY DEF TypeOK
    <3>3. queue[a][i] # j
      BY <2>1, <3>2 DEF Handed, ListSense
    <3>4. QED
      BY <1>1, <1>2, <2>3, <3>2, <3>3 DEF Handed, ListSense
  <2>5. CarriedSense'
    BY <1>1, <1>2, <2>2, <2>3 DEF Handed, CarriedSense
  <2>6. BegunSense'
    BY <1>1, <2>2, <2>3 DEF Handed, BegunSense
  <2>7. QED
    BY <2>4, <2>5, <2>6 DEF Handed
<1>5. QED
  BY <1>3, <1>4 DEF Receive, Takes

\* An evicted list holds nothing.
LEMMA HandedEvict ==
  ASSUME TypeOK, Handed, NEW a \in Agents, EvictQueue(a)
  PROVE  Handed'
<1>1. /\ queue' = [queue EXCEPT ![a] = <<>>]
      /\ creating' = creating /\ starts' = starts /\ conn' = conn
  BY DEF EvictQueue
<1>2. ASSUME NEW b \in Agents, NEW i \in 1..Len(queue'[b])
      PROVE  queue'[b] = queue[b]
  BY <1>1, <1>2 DEF TypeOK
<1>3. ListSense'
  BY <1>1, <1>2 DEF Handed, ListSense, Carries
<1>4. CarriedSense' /\ BegunSense'
  BY <1>1 DEF Handed, CarriedSense, BegunSense, Carries
<1>5. QED
  BY <1>3, <1>4 DEF Handed

\* Every step keeps what is known of lists, responses and runs.
LEMMA HandedStep ==
  ASSUME TypeOK, ConnSense, Handed, [Next]_vars
  PROVE  Handed'
<1>1. CASE /\ UNCHANGED <<queue, starts>>
           /\ \A j \in Jobs : creating[j] \in Past => creating'[j] \in Past
           /\ \A c \in Conns, j \in Jobs :
                Carries(c, j)' => Carries(c, j) /\ conn'[c].agent = conn[c].agent
  BY <1>1, HandedFrame
<1>2. CASE UNCHANGED <<queue, starts, creating, conn>>
  BY <1>1, <1>2 DEF Carries
<1>3. ASSUME NEW j \in Jobs, CreateStep(j) \/ CreateFails(j)
      PROVE  Handed'
  <2>1. CASE CreatePush(j)
    BY <2>1, HandedPush
  <2>2. CASE CreateInsert(j) \/ CreateAudit(j) \/ CreatePublish(j) \/ CreateFails(j)
    <3>1. UNCHANGED <<queue, starts, conn>>
      BY <2>2 DEF CreateInsert, CreateAudit, CreatePublish, CreateFails
    <3>2. \A i \in Jobs : creating[i] \in Past => creating'[i] \in Past
      BY <2>2 DEF CreateInsert, CreateAudit, CreatePublish, CreateFails, Past, TypeOK
    <3>3. QED
      BY <1>1, <3>1, <3>2 DEF Carries
  <2>3. QED
    BY <1>3, <2>1, <2>2 DEF CreateStep
<1>4. ASSUME NEW j \in Jobs, NEW row \in AgentRows, CreateCheck(j, row)
      PROVE  Handed'
  <2>1. \A i \in Jobs : creating[i] \in Past => creating'[i] \in Past
    BY <1>4 DEF CreateCheck, Past, TypeOK
  <2>2. UNCHANGED <<queue, starts, conn>>
    BY <1>4 DEF CreateCheck
  <2>3. QED
    BY <1>1, <2>1, <2>2 DEF Carries
<1>5. ASSUME NEW c \in Conns, NEW r, conn' = [conn EXCEPT ![c] = r],
             UNCHANGED <<queue, starts, creating>>,
             \A j \in Jobs : r.kind \in Deliveries /\ r.job = j =>
               Carries(c, j) /\ r.agent = conn[c].agent
      PROVE  Handed'
  BY <1>1, <1>5 DEF Carries, TypeOK
<1>6. ASSUME NEW c \in Conns, NEW stage, NEW kind, NEW a, NEW j, NEW o,
             Send(c, stage, kind, a, j, o), UNCHANGED <<queue, starts, creating>>,
             kind \notin Deliveries \/ j \notin Jobs
      PROVE  Handed'
  <2> DEFINE r == [stage |-> stage, kind |-> kind, agent |-> a,
                   job |-> j, outcome |-> o, live |-> TRUE]
  <2>1. conn' = [conn EXCEPT ![c] = r]
    BY <1>6 DEF Send
  <2>2. \A i \in Jobs : ~(r.kind \in Deliveries /\ r.job = i)
    BY <1>6
  <2> HIDE DEF r
  <2>3. QED
    BY <1>5, <1>6, <2>1, <2>2
<1>7. ASSUME NEW a \in Agents, NEW c \in Conns, SendHeartbeat(a, c) \/ SendPoll(a, c)
      PROVE  Handed'
  BY <1>6, <1>7 DEF SendHeartbeat, SendPoll
<1>8. ASSUME NEW j \in Jobs, NEW c \in Conns, Finish(j, c)
      PROVE  Handed'
  <2>1. PICK o \in OutcomesOf(j) :
          Send(c, "reporting",
               IF executing[j] = "polled" THEN "polled_result" ELSE "pushed_result",
               Target[j], j, o)
    BY <1>8 DEF Finish
  <2>2. UNCHANGED <<queue, starts, creating>>
    BY <1>8 DEF Finish
  <2>3. QED
    BY <1>6, <2>1, <2>2 DEF Deliveries
<1>9. ASSUME NEW c \in Conns, Closed(c), UNCHANGED <<queue, starts, creating>>
      PROVE  Handed'
  <2>1. conn' = [conn EXCEPT ![c] = FreeConn]
    BY <1>9 DEF Closed
  <2>2. FreeConn.kind \notin Deliveries
    BY DEF FreeConn, Deliveries
  <2>3. QED
    BY <1>5, <1>9, <2>1, <2>2
<1>10. ASSUME NEW c \in Conns, NEW stage, conn' = [conn EXCEPT ![c] = At(@, stage, @.job)],
              UNCHANGED <<queue, starts, creating>>
       PROVE  Handed'
  <2> DEFINE r == At(conn[c], stage, conn[c].job)
  <2>1. conn' = [conn EXCEPT ![c] = r]
    BY <1>10
  <2>2. r.kind = conn[c].kind /\ r.job = conn[c].job /\ r.agent = conn[c].agent
    BY DEF At
  <2> HIDE DEF r
  <2>3. \A j \in Jobs : r.kind \in Deliveries /\ r.job = j =>
          Carries(c, j) /\ r.agent = conn[c].agent
    BY <2>2 DEF Carries
  <2>4. QED
    BY <1>5, <1>10, <2>1, <2>3
<1>11. ASSUME NEW c \in Conns, ClientTimeout(c)
       PROVE  Handed'
  <2>1. conn' = [conn EXCEPT ![c] = GivenUp(conn[c])] /\ UNCHANGED <<queue, starts, creating>>
    BY <1>11 DEF ClientTimeout
  <2>2. LET r == GivenUp(conn[c]) IN
          r.kind = conn[c].kind /\ r.job = conn[c].job /\ r.agent = conn[c].agent
    BY DEF GivenUp
  <2>3. LET r == GivenUp(conn[c]) IN
          \A j \in Jobs : r.kind \in Deliveries /\ r.job = j =>
            Carries(c, j) /\ r.agent = conn[c].agent
    BY <2>2 DEF Carries
  <2>4. QED
    BY <1>5, <2>1, <2>3
<1>12. ASSUME NEW a \in Agents, AgentCrash(a)
       PROVE  Handed'
  <2>1. \A c \in Conns, j \in Jobs :
          Carries(c, j)' => Carries(c, j) /\ conn'[c].agent = conn[c].agent
    BY <1>12 DEF AgentCrash, GivenUp, Carries
  <2>2. UNCHANGED <<queue, starts, creating>>
    BY <1>12 DEF AgentCrash
  <2>3. QED
    BY <1>1, <2>1, <2>2
<1>13. CASE BackendCrash
  <2>1. \A c \in Conns, j \in Jobs : ~Carries(c, j)'
    BY <1>13 DEF BackendCrash, FreeConn, Carries, Deliveries
  <2>2. \A j \in Jobs : creating[j] \in Past => creating'[j] \in Past
    BY <1>13 DEF BackendCrash, Past, Underway
  <2>3. UNCHANGED <<queue, starts>>
    BY <1>13 DEF BackendCrash
  <2>4. QED
    BY <1>1, <2>1, <2>2, <2>3
<1>14. ASSUME NEW c \in Conns, ConnStep(c) \/ RequestFails(c)
       PROVE  Handed'
  BY <1>9, <1>10, <1>14, HandedPop, HandedReceive
     DEF ConnStep, MarkQueued, ProcessResult, PublishResult, ReceiveAck, DropAnswer, RequestFails
<1>15. QED
  BY <1>2, <1>3, <1>4, <1>7, <1>8, <1>11, <1>12, <1>13, <1>14, HandedEvict
     DEF Next, Cancel, CancelAudit, CancelAuditFails, PushedTaskPanics, TimeoutSweep

-----------------------------------------------------------------------------
(* The theorems.                                                           *)

\* The inductive invariant holds at the start.
LEMMA InitIInv == Init => IInv
<1>1. SUFFICES ASSUME Init
               PROVE  IInv
  OBVIOUS
<1>2. TypeOK
  BY <1>1, FreeConnIsRequest DEF Init, TypeOK, Underway
<1>3. ConnSense
  BY <1>1, FreeConnSensible DEF Init, ConnSense
<1>4. Handed
  BY <1>1 DEF Init, Handed, ListSense, CarriedSense, BegunSense, Carries, FreeConn, Deliveries
<1>5. QED
  BY <1>2, <1>3, <1>4 DEF IInv

\* The inductive invariant holds in every state the system reaches: getNextJobForAgent,
\* the agent's loops and every fault keep it.
THEOREM Inductive == Spec => []IInv
<1>1. IInv /\ [Next]_vars => IInv'
  BY TypeStep, SenseStep, HandedStep DEF IInv
<1>2. QED
  BY InitIInv, <1>1, PTL DEF Spec

\* Every variable keeps its type: no handler indexes a row, a list or a loop with
\* what an unused connection holds.
THEOREM TypeCorrect == Spec => []TypeOK
<1>1. IInv => TypeOK
  BY DEF IInv
<1>2. QED
  BY Inductive, <1>1, PTL

\* getNextJobForAgent hands a job out once, to its own agent, however many
\* heartbeat and poll handlers race for the list and whatever fails.
THEOREM NeverHandedOutTwice == Spec => []HandedOutOnce
<1>1. IInv => HandedOutOnce
  <2>1. SUFFICES ASSUME IInv, NEW j \in Jobs
                 PROVE  /\ \A a \in Agents : \A i, k \in DOMAIN queue[a] :
                             queue[a][i] = j => (Target[j] = a /\ (queue[a][k] = j => i = k))
                        /\ \A c, d \in Conns : Carries(c, j) /\ Carries(d, j) => c = d
                        /\ \A c \in Conns : Carries(c, j) => conn[c].agent = Target[j] /\ ~Queued(j)
                        /\ starts[j] > 0 => ~Queued(j) /\ \A c \in Conns : ~Carries(c, j)
                        /\ starts[j] <= 1
    BY DEF HandedOutOnce
  <2>2. \A a \in Agents : DOMAIN queue[a] = 1..Len(queue[a])
    BY <2>1 DEF IInv, TypeOK
  <2>3. \A a \in Agents : \A i, k \in DOMAIN queue[a] :
          queue[a][i] = j => (Target[j] = a /\ (queue[a][k] = j => i = k))
    BY <2>1, <2>2 DEF IInv, Handed, ListSense
  <2>4. Queued(j) => starts[j] = 0 /\ \A c \in Conns : ~Carries(c, j)
    BY <2>1, <2>2 DEF Queued, IInv, Handed, ListSense
  <2>5. \A c, d \in Conns : Carries(c, j) =>
          conn[c].agent = Target[j] /\ starts[j] = 0 /\ (Carries(d, j) => c = d)
    BY <2>1 DEF IInv, Handed, CarriedSense
  <2>6. starts[j] <= 1
    BY <2>1 DEF IInv, Handed, BegunSense
  <2>7. QED
    BY <2>3, <2>4, <2>5, <2>6
<1>2. QED
  BY Inductive, <1>1, PTL

-----------------------------------------------------------------------------
(* Rows, runs and news: what holds besides.                                *)

\* A job is in one of the lists.
InList(j) == \E a \in Agents : \E i \in 1..Len(queue[a]) : queue[a][i] = j

\* What a row shows follows from how far its createJob is, and from its run.
RowSense ==
  \A j \in Jobs :
    /\ status[j] # "running"
    /\ creating[j] \in {"idle", "refused", "checked"} => status[j] = "none"
    /\ status[j] = "none" => creating[j] \in {"idle", "refused", "checked", "failed"} /\ starts[j] = 0
    /\ creating[j] \notin {"idle", "refused"} => initial[j] \in {"pending", "agent_offline"}
    /\ status[j] # "none" => (initial[j] = "agent_offline" <=> status[j] = "agent_offline")
    /\ creating[j] \in {"inserted", "audited"} /\ initial[j] = "pending" => status[j] \in {"pending", "cancelled"}
    /\ creating[j] \in {"audited", "pushed"} => initial[j] = "pending"
    /\ starts[j] = 1 => status[j] \in {"queued", "cancelled"} \union Outcomes
    /\ result[j] # "none" => status[j] = result[j] /\ starts[j] = 1
    /\ result[j] = "none" => status[j] \notin Outcomes

\* A job in a list has not been marked; one in a response has, unless its handler is
\* about to do so.
WaySense ==
  \A j \in Jobs :
    /\ InList(j) => status[j] \in {"pending", "cancelled"}
    /\ \A c \in Conns : Carries(c, j) =>
         status[j] \in IF conn[c].stage = "popped" THEN {"pending", "cancelled"} ELSE {"queued", "cancelled"}

\* A job that runs has no result yet and nothing reports it; one report at most is
\* about a job, and it is the report of its only run.
RunSense ==
  \A j \in Jobs :
    /\ executing[j] # "no" => starts[j] = 1 /\ result[j] = "none" /\ \A c \in Conns : ~Reporting(c, j)
    /\ \A c \in Conns : Reporting(c, j) =>
         /\ starts[j] = 1
         /\ conn[c].stage = "reporting" => result[j] = "none" /\ conn[c].outcome \in Outcomes
         /\ conn[c].stage # "reporting" => result[j] # "none"
         /\ \A d \in Conns : Reporting(d, j) => c = d

\* The audit trail holds one verdict if there is a result, and none before.
Verdicts == {"job.completed", "job.failed"}
Unjudged(s) == \A i \in 1..Len(s) : s[i] \notin Verdicts
JudgedOnce(s, v) == \E i \in 1..Len(s) : s[i] = v /\ \A k \in 1..Len(s) : s[k] \in Verdicts => k = i
AuditSense ==
  \A j \in Jobs : IF result[j] = "none" THEN Unjudged(audit[j]) ELSE JudgedOnce(audit[j], Verdict(result[j]))

Life == RowSense /\ WaySense /\ RunSense /\ AuditSense /\ NewsIsTrue

\* What is known from the first invariant.
LEMMA Known ==
  ASSUME IInv
  PROVE  /\ TypeOK /\ ConnSense
         /\ \A j \in Jobs : InList(j) =>
              creating[j] \in Past /\ starts[j] = 0 /\ \A c \in Conns : ~Carries(c, j)
         /\ \A j \in Jobs : \A c \in Conns : Carries(c, j) =>
              creating[j] \in Past /\ starts[j] = 0 /\ \A d \in Conns : Carries(d, j) => c = d
         /\ \A j \in Jobs : starts[j] \in {0, 1} /\ (starts[j] = 1 => creating[j] \in Past)
<1>1. \A j \in Jobs : InList(j) =>
        creating[j] \in Past /\ starts[j] = 0 /\ \A c \in Conns : ~Carries(c, j)
  BY DEF IInv, Handed, ListSense, InList
<1>2. QED
  BY <1>1 DEF IInv, Handed, CarriedSense, BegunSense

\* Appending to the trail.
LEMMA AppendPlain ==
  ASSUME NEW s \in Seq(AuditActions), NEW x \in AuditActions \ Verdicts
  PROVE  /\ Unjudged(s) => Unjudged(Append(s, x))
         /\ \A v \in Verdicts : JudgedOnce(s, v) => JudgedOnce(Append(s, x), v)
<1>1. /\ Len(Append(s, x)) = Len(s) + 1 /\ Len(s) \in Nat
      /\ \A i \in 1..Len(s) : Append(s, x)[i] = s[i]
      /\ Append(s, x)[Len(s) + 1] = x
  OBVIOUS
<1>2. QED
  BY <1>1 DEF Unjudged, JudgedOnce

LEMMA AppendVerdict ==
  ASSUME NEW s \in Seq(AuditActions), NEW v \in Verdicts, Unjudged(s)
  PROVE  JudgedOnce(Append(s, v), v)
<1>1. /\ Len(Append(s, v)) = Len(s) + 1 /\ Len(s) \in Nat
      /\ \A i \in 1..Len(s) : Append(s, v)[i] = s[i]
      /\ Append(s, v)[Len(s) + 1] = v
  BY DEF Verdicts, AuditActions
<1>2. QED
  BY <1>1 DEF Unjudged, JudgedOnce

\* An entry that is no verdict.
LEMMA TrailGrows ==
  ASSUME TypeOK, AuditSense, NEW j \in Jobs, NEW x \in AuditActions \ Verdicts,
         result' = result, audit' = [audit EXCEPT ![j] = Append(audit[j], x)]
  PROVE  AuditSense'
<1>1. SUFFICES ASSUME NEW i \in Jobs
               PROVE  IF result[i] = "none" THEN Unjudged(audit'[i]) ELSE JudgedOnce(audit'[i], Verdict(result[i]))
  BY DEF AuditSense
<1>2. CASE i # j
  BY <1>2 DEF AuditSense, TypeOK
<1>3. CASE i = j
  <2>1. audit'[i] = Append(audit[i], x) /\ audit[i] \in Seq(AuditActions)
    BY <1>3 DEF TypeOK
  <2>2. Verdict(result[i]) \in Verdicts
    BY DEF Verdict, Verdicts
  <2>3. IF result[i] = "none" THEN Unjudged(audit[i]) ELSE JudgedOnce(audit[i], Verdict(result[i]))
    BY DEF AuditSense
  <2>4. QED
    BY <2>1, <2>2, <2>3, AppendPlain
<1>4. QED
  BY <1>2, <1>3

\* Nothing enters a list, a response or a report.
NothingEnters ==
  /\ \A j \in Jobs : InList(j)' => InList(j)
  /\ \A c \in Conns, j \in Jobs :
       /\ Carries(c, j)' => Carries(c, j) /\ conn'[c].stage = conn[c].stage
       /\ Reporting(c, j)' =>
            Reporting(c, j) /\ conn'[c].stage = conn[c].stage /\ conn'[c].outcome = conn[c].outcome

\* A step that moves no row and makes no news, although loops may go on, requests end
\* and runs or handlers be cut off.
LEMMA LifeFrame ==
  ASSUME IInv, Life, NothingEnters,
         UNCHANGED <<status, result, audit, published, initial, starts>>,
         \A j \in Jobs : creating'[j] = creating[j] \/ (creating[j] \in Underway /\ creating'[j] = "failed"),
         \A j \in Jobs : executing'[j] \in {executing[j], "no"}
  PROVE  Life'
<1> USE DEF Life, NothingEnters
<1>1. RowSense'
  BY DEF RowSense, Underway
<1>2. WaySense'
  BY DEF WaySense
<1>3. RunSense'
  BY DEF RunSense
<1>4. AuditSense' /\ NewsIsTrue'
  BY DEF AuditSense, NewsIsTrue
<1>5. QED
  BY <1>1, <1>2, <1>3, <1>4

-----------------------------------------------------------------------------
(* Every step keeps the life of the jobs.                                  *)

\* A step of createJob before the push, or its last one, moves its own row only.
LEMMA LifeCreate ==
  ASSUME IInv, Life, NEW j \in Jobs,
         (\E row \in AgentRows : CreateCheck(j, row)) \/ CreateInsert(j) \/ CreateAudit(j) \/ CreatePublish(j)
  PROVE  Life'
<1> USE DEF Life
<1>1. UNCHANGED <<queue, conn, result, executing, starts>> /\ creating[j] \in {"idle", "checked", "inserted", "pushed"}
  BY DEF CreateCheck, CreateInsert, CreateAudit, CreatePublish
<1>2. /\ \A i \in Jobs : InList(i)' <=> InList(i)
      /\ \A c \in Conns, i \in Jobs : (Carries(c, i)' <=> Carries(c, i)) /\ (Reporting(c, i)' <=> Reporting(c, i))
  BY <1>1 DEF InList, Carries, Reporting
<1>3. RowSense'
  <2>1. CASE \E row \in AgentRows : CreateCheck(j, row)
    BY <2>1 DEF RowSense, CreateCheck, IInv, TypeOK
  <2>2. CASE CreateInsert(j)
    <3>1. creating[j] = "checked" /\ starts[j] = 0 /\ result[j] = "none" /\ status[j] = "none"
          /\ initial[j] \in {"pending", "agent_offline"}
      BY <2>2, Known DEF CreateInsert, RowSense, Past
    <3>2. QED
      BY <2>2, <3>1 DEF RowSense, CreateInsert, IInv, TypeOK, Outcomes
  <2>3. CASE CreateAudit(j)
    BY <2>3 DEF RowSense, CreateAudit, AwaitsPush, IInv, TypeOK
  <2>4. CASE CreatePublish(j)
    BY <2>4 DEF RowSense, CreatePublish, IInv, TypeOK
  <2>5. QED
    BY <2>1, <2>2, <2>3, <2>4
<1>4. WaySense'
  <2>1. CASE CreateInsert(j)
    <3>1. status[j] = "none" /\ \A i \in Jobs \ {j} : status'[i] = status[i]
      BY <2>1 DEF CreateInsert, RowSense, IInv, TypeOK
    <3>2. ~InList(j) /\ \A c \in Conns : ~Carries(c, j)
      BY <3>1 DEF WaySense
    <3>3. QED
      BY <1>1, <1>2, <3>1, <3>2 DEF WaySense
  <2>2. CASE status' = status
    BY <1>1, <1>2, <2>2 DEF WaySense
  <2>3. QED
    BY <2>1, <2>2 DEF CreateCheck, CreateAudit, CreatePublish
<1>5. RunSense'
  BY <1>1, <1>2 DEF RunSense
<1>6. AuditSense'
  <2>1. CASE CreateAudit(j)
    <3>1. audit' = [audit EXCEPT ![j] = Append(audit[j], "job.created")] /\ "job.created" \in AuditActions \ Verdicts
      BY <2>1 DEF CreateAudit, AuditActions, Verdicts
    <3>2. QED
      BY <1>1, <3>1, TrailGrows DEF IInv
  <2>2. CASE audit' = audit
    BY <1>1, <2>2 DEF AuditSense
  <2>3. QED
    BY <2>1, <2>2 DEF CreateCheck, CreateInsert, CreatePublish
<1>7. NewsIsTrue'
  <2>1. CASE CreatePublish(j)
    BY <1>1, <2>1 DEF CreatePublish, NewsIsTrue, RowSense
  <2>2. CASE published' = published
    <3>1. \A i \in Jobs : status[i] # "none" => status'[i] # "none"
      BY <1>3 DEF CreateCheck, CreateInsert, CreateAudit, CreatePublish, RowSense, IInv, TypeOK
    <3>2. QED
      BY <1>1, <2>2, <3>1 DEF NewsIsTrue
  <2>3. QED
    BY <2>1, <2>2 DEF CreateCheck, CreateInsert, CreateAudit
<1>8. QED
  BY <1>3, <1>4, <1>5, <1>6, <1>7

\* The push puts a job into a list whose row may only have been cancelled meanwhile.
LEMMA LifePush ==
  ASSUME IInv, Life, NEW j \in Jobs, CreatePush(j)
  PROVE  Life'
<1> USE DEF Life
<1>1. /\ UNCHANGED <<rows, published, initial, conn, agent>> /\ creating[j] = "audited"
      /\ creating' = [creating EXCEPT ![j] = "pushed"]
      /\ queue' = [queue EXCEPT ![Target[j]] = Append(queue[Target[j]], j)]
  BY DEF CreatePush
<1>2. \A i \in Jobs : InList(i)' => InList(i) \/ i = j
  <2>1. ASSUME NEW i \in Jobs \ {j}, NEW a \in Agents, NEW k \in 1..Len(queue'[a]), queue'[a][k] = i
        PROVE  \E l \in 1..Len(queue[a]) : queue[a][l] = i
    <3>1. CASE a # Target[j]
      BY <1>1, <2>1, <3>1 DEF IInv, TypeOK
    <3>2. CASE a = Target[j]
      <4>1. queue'[a] = Append(queue[a], j) /\ queue[a] \in Seq(Jobs)
        BY <1>1, <3>2 DEF IInv, TypeOK
      <4>2. QED
        BY <2>1, <4>1
    <3>3. QED
      BY <3>1, <3>2
  <2>2. QED
    BY <2>1 DEF InList
<1>3. status[j] \in {"pending", "cancelled"} /\ starts[j] = 0
  BY <1>1, Known DEF RowSense, Past
<1>4. RowSense'
  BY <1>1 DEF RowSense, IInv, TypeOK
<1>5. WaySense'
  BY <1>1, <1>2, <1>3 DEF WaySense, Carries
<1>6. RunSense' /\ AuditSense' /\ NewsIsTrue'
  BY <1>1 DEF RunSense, AuditSense, NewsIsTrue, Reporting
<1>7. QED
  BY <1>4, <1>5, <1>6

\* Cancelling, and the entry about it.
LEMMA LifeCancel ==
  ASSUME IInv, Life, NEW j \in Jobs, Cancel(j) \/ CancelAudit(j)
  PROVE  Life'
<1> USE DEF Life
<1>1. UNCHANGED <<queue, conn, result, published, creating, initial, executing, starts>>
  BY DEF Cancel, CancelAudit
<1>2. /\ \A i \in Jobs : InList(i)' <=> InList(i)
      /\ \A c \in Conns, i \in Jobs : (Carries(c, i)' <=> Carries(c, i)) /\ (Reporting(c, i)' <=> Reporting(c, i))
  BY <1>1 DEF InList, Carries, Reporting
<1>3. \A i \in Jobs : status'[i] = status[i] \/ (status[i] \in {"pending", "queued"} /\ status'[i] = "cancelled")
  <2>1. CASE Cancel(j)
    BY <2>1 DEF Cancel, Cancellable, IInv, TypeOK
  <2>2. CASE CancelAudit(j)
    BY <2>2 DEF CancelAudit
  <2>3. QED
    BY <2>1, <2>2
<1>4. RowSense'
  BY <1>1, <1>3 DEF RowSense, Outcomes, IInv, TypeOK
<1>5. WaySense'
  BY <1>1, <1>2, <1>3 DEF WaySense
<1>6. RunSense' /\ NewsIsTrue'
  BY <1>1, <1>2, <1>3 DEF RunSense, NewsIsTrue
<1>7. AuditSense'
  <2>1. CASE CancelAudit(j)
    <3>1. audit' = [audit EXCEPT ![j] = Append(audit[j], "job.cancelled")] /\ "job.cancelled" \in AuditActions \ Verdicts
      BY <2>1 DEF CancelAudit, AuditActions, Verdicts
    <3>2. QED
      BY <1>1, <3>1, TrailGrows DEF IInv
  <2>2. CASE Cancel(j)
    BY <1>1, <2>2 DEF AuditSense, Cancel
  <2>3. QED
    BY <2>1, <2>2
<1>8. QED
  BY <1>4, <1>5, <1>6, <1>7

\* The report of a run that ends is the only one about it.
LEMMA LifeFinish ==
  ASSUME IInv, Life, NEW j \in Jobs, NEW c \in Conns, Finish(j, c)
  PROVE  Life'
<1> USE DEF Life
<1>1. /\ UNCHANGED <<rows, redis, service, starts>> /\ executing[j] # "no"
      /\ executing' = [executing EXCEPT ![j] = "no"]
  BY DEF Finish
<1>2. PICK o \in Outcomes, kind \in Reports :
        conn' = [conn EXCEPT ![c] = [stage |-> "reporting", kind |-> kind, agent |-> Target[j],
                                     job |-> j, outcome |-> o, live |-> TRUE]]
  BY DEF Finish, Send, OutcomesOf, Outcomes, Reports
<1>3. /\ \A d \in Conns \ {c} : conn'[d] = conn[d]
      /\ conn'[c].stage = "reporting" /\ conn'[c].kind \in Reports /\ conn'[c].job = j /\ conn'[c].outcome \in Outcomes
  BY <1>2 DEF IInv, TypeOK
<1>4. starts[j] = 1 /\ result[j] = "none" /\ \A d \in Conns : ~Reporting(d, j)
  BY <1>1 DEF RunSense
<1>5. RowSense' /\ AuditSense' /\ NewsIsTrue'
  BY <1>1 DEF RowSense, AuditSense, NewsIsTrue
<1>6. WaySense'
  BY <1>1, <1>3 DEF WaySense, InList, Carries, Deliveries, Reports
<1>7. RunSense'
  <2>1. \A i \in Jobs \ {j} : executing'[i] = executing[i]
    BY <1>1 DEF IInv, TypeOK
  <2>2. executing'[j] = "no"
    BY <1>1 DEF IInv, TypeOK
  <2>3. \A d \in Conns, i \in Jobs : Reporting(d, i)' <=> IF d = c THEN i = j ELSE Reporting(d, i)
    BY <1>3 DEF Reporting
  <2>4. SUFFICES ASSUME NEW i \in Jobs
                 PROVE  /\ executing'[i] # "no" => starts[i] = 1 /\ result[i] = "none" /\ \A d \in Conns : ~Reporting(d, i)'
                        /\ \A d \in Conns : Reporting(d, i)' =>
                             /\ starts[i] = 1
                             /\ conn'[d].stage = "reporting" => result[i] = "none" /\ conn'[d].outcome \in Outcomes
                             /\ conn'[d].stage # "reporting" => result[i] # "none"
                             /\ \A e \in Conns : Reporting(e, i)' => d = e
    BY <1>1 DEF RunSense
  <2>5. CASE i = j
    BY <1>3, <1>4, <2>2, <2>3, <2>5
  <2>6. CASE i # j
    BY <1>3, <2>1, <2>3, <2>6 DEF RunSense
  <2>7. QED
    BY <2>5, <2>6
<1>8. QED
  BY <1>5, <1>6, <1>7

\* A job that is popped was in a list, and is not yet marked.
LEMMA LifePop ==
  ASSUME IInv, Life, NEW c \in Conns, Pop(c)
  PROVE  Life'
<1> USE DEF Life
<1> DEFINE a == conn[c].agent
<1>1. /\ UNCHANGED <<rows, published, service, agent>> /\ conn[c].stage = "asking"
      /\ a \in Agents /\ conn[c].kind \in Deliveries
  BY DEF Pop, IInv, ConnSense, Sensible
<1>2. CASE queue[a] = <<>>
  <2>1. queue' = queue /\ conn' = [conn EXCEPT ![c] = At(conn[c], "answered", conn[c].job)]
    BY <1>2 DEF Pop
  <2>2. conn[c].job = NoJob
    BY <1>1 DEF IInv, ConnSense, Sensible
  <2>3. NothingEnters
    BY <1>1, <2>1, <2>2 DEF NothingEnters, InList, Carries, Reporting, At, IInv, TypeOK
  <2>4. QED
    BY <1>1, <2>3, LifeFrame
<1>3. CASE queue[a] # <<>>
  <2> DEFINE j == Head(queue[a])
  <2>1. /\ queue' = [queue EXCEPT ![a] = Tail(queue[a])]
        /\ conn' = [conn EXCEPT ![c] = At(conn[c], "popped", j)]
    BY <1>3 DEF Pop, Popped
  <2>2. queue[a] \in Seq(Jobs) /\ j \in Jobs /\ InList(j)
    <3>1. queue[a] \in Seq(Jobs)
      BY <1>1 DEF IInv, TypeOK
    <3>2. j \in Jobs /\ 1 \in 1..Len(queue[a]) /\ queue[a][1] = j
      BY <1>3, <3>1
    <3>3. QED
      BY <1>1, <3>1, <3>2 DEF InList
  <2>3. \A i \in Jobs : InList(i)' => InList(i)
    <3>1. ASSUME NEW i \in Jobs, NEW b \in Agents, NEW k \in 1..Len(queue'[b]), queue'[b][k] = i
          PROVE  \E l \in 1..Len(queue[b]) : queue[b][l] = i
      <4>1. CASE b # a
        BY <2>1, <3>1, <4>1 DEF IInv, TypeOK
      <4>2. CASE b = a
        <5>1. queue'[b] = Tail(queue[a])
          BY <1>1, <2>1, <4>2 DEF IInv, TypeOK
        <5>2. k + 1 \in 1..Len(queue[a]) /\ queue[a][k + 1] = i
          BY <1>3, <2>2, <3>1, <4>2, <5>1
        <5>3. QED
          BY <4>2, <5>2
      <4>3. QED
        BY <4>1, <4>2
    <3>2. QED
      BY <3>1 DEF InList
  <2>4. /\ \A d \in Conns \ {c} : conn'[d] = conn[d]
        /\ conn'[c].stage = "popped" /\ conn'[c].kind = conn[c].kind /\ conn'[c].job = j
    BY <2>1 DEF At, IInv, TypeOK
  <2>5. RowSense' /\ AuditSense' /\ NewsIsTrue'
    BY <1>1 DEF RowSense, AuditSense, NewsIsTrue
  <2>6. WaySense'
    <3>1. \A d \in Conns, i \in Jobs : Carries(d, i)' =>
            IF d = c THEN i = j ELSE Carries(d, i)
      BY <2>4 DEF Carries
    <3>2. QED
      BY <1>1, <2>2, <2>3, <2>4, <3>1 DEF WaySense
  <2>7. RunSense'
    <3>1. \A d \in Conns, i \in Jobs : Reporting(d, i)' => d # c /\ Reporting(d, i)
      BY <1>1, <2>4 DEF Reporting, Reports, Deliveries
    <3>2. QED
      BY <1>1, <2>4, <3>1 DEF RunSense
  <2>8. QED
    BY <2>5, <2>6, <2>7
<1>4. QED
  BY <1>2, <1>3

\* Its row is marked, unless it was cancelled.
LEMMA LifeMark ==
  ASSUME IInv, Life, NEW c \in Conns, MarkQueued(c)
  PROVE  Life'
<1> USE DEF Life
<1> DEFINE j == conn[c].job
<1>1. /\ UNCHANGED <<result, audit, redis, service, agent>> /\ conn[c].stage = "popped"
      /\ status' = [status EXCEPT ![j] = Marked(status[j])]
      /\ conn' = [conn EXCEPT ![c] = At(conn[c], "answered", j)]
      /\ j \in Jobs /\ Carries(c, j)
  BY DEF MarkQueued, IInv, ConnSense, Sensible, Carries
<1>2. /\ \A d \in Conns \ {c} : conn'[d] = conn[d]
      /\ conn'[c].stage = "answered" /\ conn'[c].kind = conn[c].kind /\ conn'[c].job = j
  BY <1>1 DEF At, IInv, TypeOK
<1>3. /\ status[j] \in {"pending", "cancelled"} /\ status'[j] \in {"queued", "cancelled"}
      /\ (status'[j] = status[j] \/ (status[j] = "pending" /\ status'[j] = "queued"))
      /\ \A i \in Jobs \ {j} : status'[i] = status[i]
  BY <1>1 DEF WaySense, Marked, IInv, TypeOK
<1>4. /\ creating[j] \in Past /\ starts[j] = 0 /\ ~InList(j) /\ \A d \in Conns : Carries(d, j) => c = d
  BY <1>1, Known
<1>5. RowSense'
  <2>1. SUFFICES ASSUME NEW i \in Jobs
                 PROVE  /\ status'[i] # "running"
                        /\ creating[i] \in {"idle", "refused", "checked"} => status'[i] = "none"
                        /\ status'[i] = "none" => creating[i] \in {"idle", "refused", "checked", "failed"} /\ starts[i] = 0
                        /\ creating[i] \notin {"idle", "refused"} => initial[i] \in {"pending", "agent_offline"}
                        /\ status'[i] # "none" => (initial[i] = "agent_offline" <=> status'[i] = "agent_offline")
                        /\ creating[i] \in {"inserted", "audited"} /\ initial[i] = "pending" => status'[i] \in {"pending", "cancelled"}
                        /\ creating[i] \in {"audited", "pushed"} => initial[i] = "pending"
                        /\ starts[i] = 1 => status'[i] \in {"queued", "cancelled"} \union Outcomes
                        /\ result[i] # "none" => status'[i] = result[i] /\ starts[i] = 1
                        /\ result[i] = "none" => status'[i] \notin Outcomes
    BY <1>1 DEF RowSense
  <2>2. CASE i # j
    BY <1>3, <2>2 DEF RowSense
  <2>3. CASE i = j
    BY <1>3, <1>4, <2>3 DEF RowSense, Past, Outcomes
  <2>4. QED
    BY <2>2, <2>3
<1>6. WaySense'
  <2>1. \A i \in Jobs : InList(i)' => InList(i) /\ i # j
    BY <1>1, <1>4 DEF InList
  <2>2. \A d \in Conns, i \in Jobs : Carries(d, i)' => Carries(d, i) /\ (d # c => i # j) /\ (d = c => i = j)
    BY <1>1, <1>2, <1>4 DEF Carries
  <2>3. QED
    BY <1>2, <1>3, <2>1, <2>2 DEF WaySense
<1>7. RunSense'
  <2>1. \A d \in Conns, i \in Jobs : Reporting(d, i)' => d # c /\ Reporting(d, i)
    BY <1>1, <1>2 DEF Reporting, Reports, Deliveries, Carries
  <2>2. QED
    BY <1>1, <1>2, <2>1 DEF RunSense
<1>8. AuditSense' /\ NewsIsTrue'
  BY <1>1, <1>3 DEF AuditSense, NewsIsTrue
<1>9. QED
  BY <1>5, <1>6, <1>7, <1>8

\* A job is begun that was on its way, so it has neither result nor report.
LEMMA LifeReceive ==
  ASSUME IInv, Life, NEW c \in Conns, Receive(c)
  PROVE  Life'
<1> USE DEF Life
<1> DEFINE j == conn[c].job
<1>1. /\ UNCHANGED <<rows, redis, service>> /\ conn' = [conn EXCEPT ![c] = FreeConn]
      /\ conn[c].stage = "answered" /\ conn[c].kind \in Deliveries
  BY DEF Receive, Closed
<1>2. /\ \A i \in Jobs : InList(i)' <=> InList(i)
      /\ \A d \in Conns, i \in Jobs : Carries(d, i)' => d # c /\ Carries(d, i) /\ conn'[d] = conn[d]
      /\ \A d \in Conns, i \in Jobs : Reporting(d, i)' => d # c /\ Reporting(d, i) /\ conn'[d] = conn[d]
  BY <1>1 DEF InList, Carries, Reporting, FreeConn, Deliveries, Reports, IInv, TypeOK
<1>3. CASE j = NoJob
  <2>1. UNCHANGED <<executing, starts>>
    BY <1>3 DEF Receive, Takes
  <2>2. QED
    BY <1>1, <1>2, <2>1, LifeFrame DEF NothingEnters
<1>4. CASE j # NoJob
  <2>1. j \in Jobs /\ Carries(c, j)
    BY <1>1, <1>4, JobType DEF Carries, IInv
  <2>2. starts[j] = 0 /\ result[j] = "none" /\ status[j] \in {"queued", "cancelled"}
    BY <1>1, <2>1, Known DEF WaySense, RowSense
  <2>3. /\ starts' = [starts EXCEPT ![j] = starts[j] + 1]
        /\ executing' = [executing EXCEPT ![j] = IF conn[c].kind = "heartbeat" THEN "pushed" ELSE "polled"]
    BY <1>4 DEF Receive, Takes
  <2>4. /\ starts'[j] = 1 /\ \A i \in Jobs \ {j} : starts'[i] = starts[i]
        /\ \A i \in Jobs \ {j} : executing'[i] = executing[i]
    BY <2>1, <2>2, <2>3 DEF IInv, TypeOK
  <2>5. RowSense'
    BY <1>1, <2>2, <2>4 DEF RowSense
  <2>6. WaySense'
    BY <1>1, <1>2 DEF WaySense
  <2>7. \A d \in Conns : ~Reporting(d, j)
    BY <2>1, <2>2 DEF RunSense
  <2>8. RunSense'
    BY <1>1, <1>2, <2>2, <2>4, <2>7 DEF RunSense
  <2>9. AuditSense' /\ NewsIsTrue'
    BY <1>1 DEF AuditSense, NewsIsTrue
  <2>10. QED
    BY <2>5, <2>6, <2>8, <2>9
<1>5. QED
  BY <1>3, <1>4

\* The only report of the only run is taken in: there was no result, and no verdict.
LEMMA LifeProcess ==
  ASSUME IInv, Life, NEW c \in Conns, ProcessResult(c)
  PROVE  Life'
<1> USE DEF Life
<1> DEFINE j == conn[c].job
           o == conn[c].outcome
<1>1. /\ UNCHANGED <<redis, service, agent>> /\ conn[c].stage = "reporting"
      /\ result' = [result EXCEPT ![j] = o] /\ status' = [status EXCEPT ![j] = o]
      /\ audit' = [audit EXCEPT ![j] = Append(audit[j], Verdict(o))]
      /\ conn' = [conn EXCEPT ![c] = At(conn[c], "committed", j)]
      /\ status[j] # "none"
  BY DEF ProcessResult
<1>2. j \in Jobs /\ conn[c].kind \in Reports /\ Reporting(c, j)
  BY <1>1 DEF IInv, ConnSense, Sensible, Reporting
<1>3. /\ o \in Outcomes /\ result[j] = "none" /\ starts[j] = 1 /\ executing[j] = "no"
      /\ \A d \in Conns : Reporting(d, j) => c = d
  BY <1>1, <1>2 DEF RunSense, IInv, TypeOK
<1>4. /\ \A d \in Conns \ {c} : conn'[d] = conn[d]
      /\ conn'[c].stage = "committed" /\ conn'[c].kind = conn[c].kind /\ conn'[c].job = j
  BY <1>1 DEF At, IInv, TypeOK
<1>5. /\ result'[j] = o /\ status'[j] = o /\ audit'[j] = Append(audit[j], Verdict(o))
      /\ \A i \in Jobs \ {j} : result'[i] = result[i] /\ status'[i] = status[i] /\ audit'[i] = audit[i]
  BY <1>1, <1>2 DEF IInv, TypeOK
<1>6. creating[j] \in Past /\ status[j] \in {"queued", "cancelled"} /\ ~InList(j) /\ \A d \in Conns : ~Carries(d, j)
  BY <1>2, <1>3, Known DEF RowSense
<1>7. RowSense'
  <2>1. o # "none" /\ o # "running" /\ o # "agent_offline"
    BY <1>3 DEF Outcomes
  <2>2. SUFFICES ASSUME NEW i \in Jobs
                 PROVE  /\ status'[i] # "running"
                        /\ creating[i] \in {"idle", "refused", "checked"} => status'[i] = "none"
                        /\ status'[i] = "none" => creating[i] \in {"idle", "refused", "checked", "failed"} /\ starts[i] = 0
                        /\ creating[i] \notin {"idle", "refused"} => initial[i] \in {"pending", "agent_offline"}
                        /\ status'[i] # "none" => (initial[i] = "agent_offline" <=> status'[i] = "agent_offline")
                        /\ creating[i] \in {"inserted", "audited"} /\ initial[i] = "pending" => status'[i] \in {"pending", "cancelled"}
                        /\ creating[i] \in {"audited", "pushed"} => initial[i] = "pending"
                        /\ starts[i] = 1 => status'[i] \in {"queued", "cancelled"} \union Outcomes
                        /\ result'[i] # "none" => status'[i] = result'[i] /\ starts[i] = 1
                        /\ result'[i] = "none" => status'[i] \notin Outcomes
    BY <1>1 DEF RowSense
  <2>3. CASE i # j
    BY <1>5, <2>3 DEF RowSense
  <2>4. CASE i = j
    BY <1>3, <1>5, <1>6, <2>1, <2>4 DEF RowSense, Past
  <2>5. QED
    BY <2>3, <2>4
<1>8. WaySense'
  <2>1. /\ \A i \in Jobs : InList(i)' => InList(i)
        /\ \A d \in Conns, i \in Jobs : Carries(d, i)' => d # c /\ Carries(d, i)
    BY <1>1, <1>2, <1>4 DEF InList, Carries, Deliveries, Reports
  <2>2. QED
    BY <1>4, <1>5, <1>6, <2>1 DEF WaySense
<1>9. RunSense'
  <2>1. \A d \in Conns, i \in Jobs : Reporting(d, i)' => Reporting(d, i) /\ (d = c => i = j)
    BY <1>1, <1>4 DEF Reporting
  <2>2. o # "none"
    BY <1>3 DEF Outcomes
  <2>3. SUFFICES ASSUME NEW i \in Jobs
                 PROVE  /\ executing[i] # "no" => starts[i] = 1 /\ result'[i] = "none" /\ \A d \in Conns : ~Reporting(d, i)'
                        /\ \A d \in Conns : Reporting(d, i)' =>
                             /\ starts[i] = 1
                             /\ conn'[d].stage = "reporting" => result'[i] = "none" /\ conn'[d].outcome \in Outcomes
                             /\ conn'[d].stage # "reporting" => result'[i] # "none"
                             /\ \A e \in Conns : Reporting(e, i)' => d = e
    BY <1>1 DEF RunSense
  <2>4. CASE i = j
    BY <1>3, <1>4, <1>5, <2>1, <2>2, <2>4
  <2>5. CASE i # j
    <3>1. \A d \in Conns : Reporting(d, i)' => d # c /\ Reporting(d, i) /\ conn'[d] = conn[d]
      BY <1>4, <2>1, <2>5
    <3>2. QED
      BY <1>5, <2>5, <3>1 DEF RunSense
  <2>6. QED
    BY <2>4, <2>5
<1>10. AuditSense'
  <2>1. SUFFICES ASSUME NEW i \in Jobs
                 PROVE  IF result'[i] = "none" THEN Unjudged(audit'[i]) ELSE JudgedOnce(audit'[i], Verdict(result'[i]))
    BY DEF AuditSense
  <2>2. CASE i = j
    <3>1. Unjudged(audit[j]) /\ audit[j] \in Seq(AuditActions) /\ Verdict(o) \in Verdicts
      BY <1>2, <1>3 DEF AuditSense, IInv, TypeOK, Verdict, Verdicts
    <3>2. JudgedOnce(Append(audit[j], Verdict(o)), Verdict(o))
      BY <3>1, AppendVerdict
    <3>3. o # "none"
      BY <1>3 DEF Outcomes
    <3>4. QED
      BY <1>5, <2>2, <3>2, <3>3
  <2>3. CASE i # j
    BY <1>5, <2>3 DEF AuditSense
  <2>4. QED
    BY <2>2, <2>3
<1>11. NewsIsTrue'
  <2>1. o # "none"
    BY <1>3 DEF Outcomes
  <2>2. QED
    BY <1>1, <1>5, <2>1 DEF NewsIsTrue
<1>12. QED
  BY <1>7, <1>8, <1>9, <1>10, <1>11

\* The event about a result follows its commit.
LEMMA LifePublish ==
  ASSUME IInv, Life, NEW c \in Conns, PublishResult(c)
  PROVE  Life'
<1> USE DEF Life
<1> DEFINE j == conn[c].job
<1>1. /\ UNCHANGED <<rows, queue, service, agent>> /\ conn[c].stage = "committed"
      /\ conn' = [conn EXCEPT ![c] = At(conn[c], "answered", j)]
      /\ published' = published \union {<<j, "job:status_changed">>}
  BY DEF PublishResult
<1>2. j \in Jobs /\ Reporting(c, j)
  BY <1>1 DEF IInv, ConnSense, Sensible, Reporting
<1>3. /\ \A d \in Conns \ {c} : conn'[d] = conn[d]
      /\ conn'[c].stage = "answered" /\ conn'[c].kind = conn[c].kind /\ conn'[c].job = j
  BY <1>1 DEF At, IInv, TypeOK
<1>4. result[j] # "none"
  BY <1>1, <1>2 DEF RunSense
<1>5. /\ \A i \in Jobs : InList(i)' <=> InList(i)
      /\ \A d \in Conns, i \in Jobs : Carries(d, i)' => d # c /\ Carries(d, i)
      /\ \A d \in Conns, i \in Jobs : Reporting(d, i)' => Reporting(d, i) /\ (d = c => i = j)
  BY <1>1, <1>2, <1>3 DEF InList, Carries, Reporting, Deliveries, Reports
<1>6. RowSense' /\ AuditSense'
  BY <1>1 DEF RowSense, AuditSense
<1>7. WaySense'
  BY <1>1, <1>3, <1>5 DEF WaySense
<1>8. RunSense'
  BY <1>1, <1>3, <1>4, <1>5 DEF RunSense
<1>9. NewsIsTrue'
  BY <1>1, <1>4 DEF NewsIsTrue
<1>10. QED
  BY <1>6, <1>7, <1>8, <1>9

\* Requests that are sent, given up or ended, runs and handlers that are cut off, and
\* lists that are lost: nothing of this enters anywhere.
LEMMA LifeOther ==
  ASSUME IInv, Life,
         \/ \E a \in Agents : EvictQueue(a) \/ AgentCrash(a) \/ \E c \in Conns : SendHeartbeat(a, c) \/ SendPoll(a, c)
         \/ \E j \in Jobs : CreateFails(j) \/ CancelAuditFails(j) \/ PushedTaskPanics(j)
         \/ \E c \in Conns : ReceiveAck(c) \/ DropAnswer(c) \/ RequestFails(c) \/ ClientTimeout(c)
         \/ BackendCrash
  PROVE  Life'
<1> DEFINE Quiet ==
             /\ UNCHANGED <<status, result, audit, published, initial, starts>>
             /\ \A j \in Jobs : creating'[j] = creating[j] \/ (creating[j] \in Underway /\ creating'[j] = "failed")
             /\ \A j \in Jobs : executing'[j] \in {executing[j], "no"}
           OldRequests ==
             \A c \in Conns :
               \/ conn'[c] = conn[c]
               \/ conn'[c].kind \in Deliveries /\ conn'[c].job = NoJob
               \/ conn'[c] = FreeConn
               \/ conn'[c] = GivenUp(conn[c])
<1>1. Quiet
  <2>1. ASSUME NEW a \in Agents, EvictQueue(a) \/ AgentCrash(a) \/ \E c \in Conns : SendHeartbeat(a, c) \/ SendPoll(a, c)
        PROVE  Quiet
    BY <2>1 DEF EvictQueue, AgentCrash, SendHeartbeat, SendPoll, IInv, TypeOK
  <2>2. ASSUME NEW j \in Jobs, CreateFails(j) \/ CancelAuditFails(j) \/ PushedTaskPanics(j)
        PROVE  Quiet
    BY <2>2 DEF CreateFails, CancelAuditFails, PushedTaskPanics, IInv, TypeOK
  <2>3. ASSUME NEW c \in Conns, ReceiveAck(c) \/ DropAnswer(c) \/ RequestFails(c) \/ ClientTimeout(c)
        PROVE  Quiet
    BY <2>3 DEF ReceiveAck, DropAnswer, RequestFails, ClientTimeout
  <2>4. CASE BackendCrash
    BY <2>4 DEF BackendCrash
  <2>5. QED
    BY <2>1, <2>2, <2>3, <2>4
<1>2. OldRequests
  <2>1. ASSUME NEW a \in Agents, NEW c \in Conns, SendHeartbeat(a, c) \/ SendPoll(a, c)
        PROVE  OldRequests
    <3>1. PICK kind \in Deliveries : Send(c, "asking", kind, a, NoJob, "none")
      BY <2>1 DEF SendHeartbeat, SendPoll, Deliveries
    <3>2. conn' = [conn EXCEPT ![c] = [stage |-> "asking", kind |-> kind, agent |-> a,
                                       job |-> NoJob, outcome |-> "none", live |-> TRUE]]
      BY <3>1 DEF Send
    <3>3. QED
      BY <3>2 DEF IInv, TypeOK
  <2>2. ASSUME NEW a \in Agents, EvictQueue(a) \/ AgentCrash(a)
        PROVE  OldRequests
    BY <2>2 DEF EvictQueue, AgentCrash
  <2>3. ASSUME NEW j \in Jobs, CreateFails(j) \/ CancelAuditFails(j) \/ PushedTaskPanics(j)
        PROVE  OldRequests
    BY <2>3 DEF CreateFails, CancelAuditFails, PushedTaskPanics
  <2>4. ASSUME NEW c \in Conns, ReceiveAck(c) \/ DropAnswer(c) \/ RequestFails(c) \/ ClientTimeout(c)
        PROVE  OldRequests
    BY <2>4 DEF ReceiveAck, DropAnswer, RequestFails, ClientTimeout, Closed, IInv, TypeOK
  <2>5. CASE BackendCrash
    BY <2>5 DEF BackendCrash
  <2>6. QED
    BY <2>1, <2>2, <2>3, <2>4, <2>5
<1>3. \A j \in Jobs : InList(j)' => InList(j)
  <2>1. CASE queue' = queue
    BY <2>1 DEF InList
  <2>2. ASSUME NEW a \in Agents, EvictQueue(a)
        PROVE  \A b \in Agents : queue'[b] = <<>> \/ queue'[b] = queue[b]
    BY <2>2 DEF EvictQueue, IInv, TypeOK
  <2>3. CASE \E a \in Agents : EvictQueue(a)
    BY <2>2, <2>3 DEF InList
  <2>4. QED
    BY <2>1, <2>3 DEF AgentCrash, SendHeartbeat, SendPoll, CreateFails, CancelAuditFails, PushedTaskPanics,
                      ReceiveAck, DropAnswer, RequestFails, ClientTimeout, BackendCrash
<1>4. NothingEnters
  <2>1. \A c \in Conns, j \in Jobs :
          /\ Carries(c, j)' => Carries(c, j) /\ conn'[c].stage = conn[c].stage
          /\ Reporting(c, j)' =>
               Reporting(c, j) /\ conn'[c].stage = conn[c].stage /\ conn'[c].outcome = conn[c].outcome
    <3>1. SUFFICES ASSUME NEW c \in Conns, NEW j \in Jobs
                   PROVE  /\ Carries(c, j)' => Carries(c, j) /\ conn'[c].stage = conn[c].stage
                          /\ Reporting(c, j)' =>
                               Reporting(c, j) /\ conn'[c].stage = conn[c].stage /\ conn'[c].outcome = conn[c].outcome
      OBVIOUS
    <3>2. CASE conn'[c] = conn[c]
      BY <3>2 DEF Carries, Reporting
    <3>3. CASE conn'[c].kind \in Deliveries /\ conn'[c].job = NoJob
      BY <3>3 DEF Carries, Reporting, Deliveries, Reports
    <3>4. CASE conn'[c] = FreeConn
      BY <3>4 DEF Carries, Reporting, Deliveries, Reports, FreeConn
    <3>5. CASE conn'[c] = GivenUp(conn[c])
      BY <3>5 DEF Carries, Reporting, GivenUp
    <3>6. QED
      BY <1>2, <3>2, <3>3, <3>4, <3>5
  <2>2. QED
    BY <1>3, <2>1 DEF NothingEnters
<1>5. QED
  BY <1>1, <1>4, LifeFrame

LEMMA LifeStep ==
  ASSUME IInv, Life, [Next]_vars
  PROVE  Life'
<1>1. CASE TimeoutSweep
  <2>1. {j \in Jobs : status[j] = "running" /\ result[j] # "none"} = {}
    BY DEF Life, RowSense
  <2>2. /\ status' = [j \in Jobs |-> status[j]] /\ audit' = [j \in Jobs |-> audit[j]]
        /\ published' = published /\ UNCHANGED <<result, queue, service, conn, agent>>
    BY <1>1, <2>1 DEF TimeoutSweep
  <2>3. status' = status /\ audit' = audit
    BY <2>2 DEF IInv, TypeOK
  <2>4. NothingEnters
    BY <2>2 DEF NothingEnters, InList, Carries, Reporting
  <2>5. QED
    BY <2>2, <2>3, <2>4, LifeFrame
<1>2. CASE UNCHANGED vars
  <2>1. NothingEnters
    BY <1>2 DEF NothingEnters, InList, Carries, Reporting
  <2>2. QED
    BY <1>2, <2>1, LifeFrame
<1>3. CASE \E j \in Jobs : \/ \E row \in AgentRows : CreateCheck(j, row)
                           \/ CreateStep(j) \/ Cancel(j) \/ CancelAudit(j)
                           \/ \E c \in Conns : Finish(j, c)
  BY <1>3, LifeCreate, LifePush, LifeCancel, LifeFinish DEF CreateStep
<1>4. CASE \E c \in Conns : Pop(c) \/ MarkQueued(c) \/ Receive(c) \/ ProcessResult(c) \/ PublishResult(c)
  BY <1>4, LifePop, LifeMark, LifeReceive, LifeProcess, LifePublish
<1>5. CASE \/ \E a \in Agents : EvictQueue(a) \/ AgentCrash(a) \/ \E c \in Conns : SendHeartbeat(a, c) \/ SendPoll(a, c)
           \/ \E j \in Jobs : CreateFails(j) \/ CancelAuditFails(j) \/ PushedTaskPanics(j)
           \/ \E c \in Conns : ReceiveAck(c) \/ DropAnswer(c) \/ RequestFails(c) \/ ClientTimeout(c)
           \/ BackendCrash
  BY <1>5, LifeOther
<1>6. QED
  BY <1>1, <1>2, <1>3, <1>4, <1>5 DEF Next, ConnStep

LEMMA InitLife == Init => Life
<1>1. SUFFICES ASSUME Init
               PROVE  Life
  OBVIOUS
<1>2. RowSense
  BY <1>1 DEF Init, RowSense, Outcomes
<1>3. WaySense /\ RunSense
  BY <1>1 DEF Init, WaySense, RunSense, InList, Carries, Reporting, FreeConn, Deliveries, Reports
<1>4. AuditSense /\ NewsIsTrue
  BY <1>1 DEF Init, AuditSense, Unjudged, NewsIsTrue
<1>5. QED
  BY <1>2, <1>3, <1>4 DEF Life

\* The second invariant holds in every state the system reaches.
THEOREM Lives == Spec => []Life
<1>1. Spec => []IInv
  BY Inductive
<1>2. IInv /\ Life /\ [Next]_vars => Life'
  BY LifeStep
<1>3. QED
  BY InitLife, <1>1, <1>2, PTL DEF Spec

\* processJobResult takes in one report of the one run that there is of a job, and the
\* row, the result and the audit trail agree on it, whatever fails meanwhile.
THEOREM ResultsAreOfRuns == Spec => []ResultOfItsRun
<1>1. IInv /\ Life => ResultOfItsRun
  <2>1. SUFFICES ASSUME IInv, Life, NEW j \in Jobs, result[j] # "none"
                 PROVE  /\ starts[j] = 1 /\ executing[j] = "no"
                        /\ status[j] = result[j]
                        /\ \E i \in DOMAIN audit[j] :
                             /\ audit[j][i] = IF result[j] = "success" THEN "job.completed" ELSE "job.failed"
                             /\ \A k \in DOMAIN audit[j] \ {i} : audit[j][k] \notin {"job.completed", "job.failed"}
    BY DEF ResultOfItsRun
  <2>2. starts[j] = 1 /\ executing[j] = "no" /\ status[j] = result[j]
    BY <2>1 DEF Life, RowSense, RunSense
  <2>3. JudgedOnce(audit[j], Verdict(result[j]))
    BY <2>1 DEF Life, AuditSense
  <2>4. DOMAIN audit[j] = 1..Len(audit[j])
    BY <2>1 DEF IInv, TypeOK
  <2>5. QED
    BY <2>2, <2>3, <2>4 DEF JudgedOnce, Verdict, Verdicts
<1>2. QED
  BY Inductive, Lives, <1>1, PTL

\* A job that is shown pending has not been begun: getNextJobForAgent marks the row
\* before it answers.
THEOREM PendingWasNotBegun == Spec => []PendingIsUntouched
<1>1. IInv /\ Life => PendingIsUntouched
  <2>1. ASSUME IInv, Life, NEW j \in Jobs, status[j] = "pending"
        PROVE  starts[j] = 0
    BY <2>1 DEF Life, RowSense, Outcomes, IInv, Handed, BegunSense
  <2>2. QED
    BY <2>1 DEF PendingIsUntouched
<1>2. QED
  BY Inductive, Lives, <1>1, PTL

\* No event about a job runs ahead of the row it is about.
THEOREM NewsFollowsTheRows == Spec => []NewsIsTrue
<1>1. Life => NewsIsTrue
  BY DEF Life
<1>2. QED
  BY Lives, <1>1, PTL

\* createJob, cancelJob, getNextJobForAgent and processJobResult together move a row
\* forward only: an outcome is final.
THEOREM RowsMoveForward == Spec => StatusMovesForward
<1> DEFINE Forward == \A j \in Jobs : status'[j] # status[j] =>
                        status[j] \in DOMAIN Moves /\ status'[j] \in Moves[status[j]]
<1>1. IInv /\ Life /\ [Next]_vars => [Forward]_vars
  <2> SUFFICES ASSUME IInv, Life, Next
               PROVE  Forward
    OBVIOUS
  <2> DEFINE Step(j) == \/ status[j] = "none" /\ status'[j] \in {"pending", "agent_offline"}
                        \/ status[j] = "pending" /\ status'[j] \in {"queued", "cancelled"}
                        \/ status[j] = "queued" /\ status'[j] \in Outcomes \union {"cancelled"}
                        \/ status[j] = "cancelled" /\ status'[j] \in Outcomes
  <2>1. ASSUME status' = status
        PROVE  \A i \in Jobs : status'[i] = status[i] \/ Step(i)
    BY <2>1
  <2>2. ASSUME NEW j \in Jobs, CreateInsert(j)
        PROVE  \A i \in Jobs : status'[i] = status[i] \/ Step(i)
    <3>1. status[j] = "none" /\ initial[j] \in {"pending", "agent_offline"}
      BY <2>2 DEF CreateInsert, Life, RowSense
    <3>2. status'[j] = initial[j] /\ \A i \in Jobs \ {j} : status'[i] = status[i]
      BY <2>2 DEF CreateInsert, IInv, TypeOK
    <3>3. QED
      BY <3>1, <3>2
  <2>3. ASSUME NEW j \in Jobs, Cancel(j)
        PROVE  \A i \in Jobs : status'[i] = status[i] \/ Step(i)
    BY <2>3 DEF Cancel, Cancellable, IInv, TypeOK
  <2>4. ASSUME TimeoutSweep
        PROVE  \A i \in Jobs : status'[i] = status[i] \/ Step(i)
    <3>1. {j \in Jobs : status[j] = "running" /\ result[j] # "none"} = {}
      BY DEF Life, RowSense
    <3>2. status' = [j \in Jobs |-> status[j]]
      BY <2>4, <3>1 DEF TimeoutSweep
    <3>3. QED
      BY <3>2
  <2>5. ASSUME NEW c \in Conns, MarkQueued(c)
        PROVE  \A i \in Jobs : status'[i] = status[i] \/ Step(i)
    <3> DEFINE j == conn[c].job
    <3>1. status' = [status EXCEPT ![j] = Marked(status[j])]
      BY <2>5 DEF MarkQueued
    <3>2. \A i \in Jobs \ {j} : status'[i] = status[i]
      BY <3>1 DEF IInv, TypeOK
    <3>3. j \in Jobs => status'[j] = Marked(status[j])
      BY <3>1 DEF IInv, TypeOK
    <3>4. QED
      BY <3>2, <3>3 DEF Marked
  <2>6. ASSUME NEW c \in Conns, ProcessResult(c)
        PROVE  \A i \in Jobs : status'[i] = status[i] \/ Step(i)
    <3> DEFINE j == conn[c].job
    <3>1. /\ status' = [status EXCEPT ![j] = conn[c].outcome] /\ conn[c].stage = "reporting"
          /\ j \in Jobs /\ Reporting(c, j)
      BY <2>6 DEF ProcessResult, IInv, ConnSense, Sensible, Reporting
    <3>2. conn[c].outcome \in Outcomes /\ result[j] = "none" /\ starts[j] = 1
      BY <3>1 DEF Life, RunSense
    <3>3. status[j] \in {"queued", "cancelled"}
      BY <3>1, <3>2 DEF Life, RowSense
    <3>4. status'[j] = conn[c].outcome /\ \A i \in Jobs \ {j} : status'[i] = status[i]
      BY <3>1 DEF IInv, TypeOK
    <3>5. QED
      BY <3>2, <3>3, <3>4
  <2>7. \A i \in Jobs : status'[i] = status[i] \/ Step(i)
    <3>1. ASSUME NEW c \in Conns, Pop(c) \/ Receive(c) \/ PublishResult(c) \/ ReceiveAck(c) \/ DropAnswer(c)
                                  \/ RequestFails(c) \/ ClientTimeout(c)
          PROVE  status' = status
      BY <3>1 DEF Pop, Receive, PublishResult, ReceiveAck, DropAnswer, RequestFails, ClientTimeout
    <3>2. CASE \E j \in Jobs, c \in Conns : Finish(j, c)
      BY <2>1, <3>2 DEF Finish
    <3>3. CASE BackendCrash
      BY <2>1, <3>3 DEF BackendCrash
    <3>4. CASE \E j \in Jobs : \/ \E row \in AgentRows : CreateCheck(j, row)
                               \/ CreateAudit(j) \/ CreatePush(j) \/ CreatePublish(j) \/ CancelAudit(j)
                               \/ CreateFails(j) \/ CancelAuditFails(j) \/ PushedTaskPanics(j)
      <4>1. status' = status
        BY <3>4 DEF CreateCheck, CreateAudit, CreatePush, CreatePublish, CancelAudit, CreateFails,
                    CancelAuditFails, PushedTaskPanics
      <4>2. QED
        BY <2>1, <4>1
    <3>5. CASE \E a \in Agents : AgentCrash(a) \/ EvictQueue(a) \/ \E c \in Conns : SendHeartbeat(a, c) \/ SendPoll(a, c)
      <4>1. status' = status
        BY <3>5 DEF SendHeartbeat, SendPoll, AgentCrash, EvictQueue
      <4>2. QED
        BY <2>1, <4>1
    <3>6. CASE \E c \in Conns : ConnStep(c) \/ RequestFails(c) \/ ClientTimeout(c)
      BY <2>1, <2>5, <2>6, <3>1, <3>6 DEF ConnStep
    <3> HIDE DEF Step
    <3>7. CASE \E j \in Jobs : CreateInsert(j) \/ Cancel(j)
      BY <2>2, <2>3, <3>7
    <3>8. QED
      BY <2>4, <3>2, <3>3, <3>4, <3>5, <3>6, <3>7 DEF Next, CreateStep
  <2>8. ASSUME NEW i \in Jobs, Step(i)
        PROVE  status[i] \in DOMAIN Moves /\ status'[i] \in Moves[status[i]]
    BY <2>8 DEF Moves
  <2>9. QED
    BY <2>7, <2>8
<1>2. QED
  BY Inductive, Lives, <1>1, PTL DEF Spec, StatusMovesForward

-----------------------------------------------------------------------------
(* The contract.                                                           *)

\* Where a job stands, read off its row.
LEMMA StandIs ==
  ASSUME NEW j \in Jobs
  PROVE  /\ status[j] = "none" => Stand(j) = "absent"
         /\ status[j] = "agent_offline" => Stand(j) = "set_aside"
         /\ status[j] = "cancelled" => Stand(j) = "cancelled"
         /\ status[j] \in {"pending", "queued"} => Stand(j) = "accepted"
         /\ status[j] \in Outcomes => Stand(j) = "closed"
  BY DEF Stand, Outcomes

LEMMA StandIsNext ==
  ASSUME NEW j \in Jobs
  PROVE  /\ status'[j] = "none" => Stand(j)' = "absent"
         /\ status'[j] = "agent_offline" => Stand(j)' = "set_aside"
         /\ status'[j] = "cancelled" => Stand(j)' = "cancelled"
         /\ status'[j] \in {"pending", "queued"} => Stand(j)' = "accepted"
         /\ status'[j] \in Outcomes => Stand(j)' = "closed"
  BY DEF Stand, Outcomes

\* What a step does to the jobs as the contract sees them: nothing, or one of its
\* four actions for one job.
Aloof(j) == status'[j] = status[j] /\ starts'[j] = starts[j] /\ result'[j] = result[j]
StepOfOne(j) ==
  /\ \A i \in Jobs \ {j} : Aloof(i)
  /\ \/ /\ status[j] = "none" /\ status'[j] \in {"pending", "agent_offline"}
        /\ starts'[j] = starts[j] /\ result'[j] = result[j]
     \/ /\ status[j] \in {"pending", "queued"} /\ status'[j] = "cancelled"
        /\ starts'[j] = starts[j] /\ result'[j] = result[j]
     \/ /\ status[j] = "pending" /\ status'[j] = "queued"
        /\ starts'[j] = starts[j] /\ result'[j] = result[j]
     \/ /\ status[j] \in {"queued", "cancelled"} /\ status'[j] = status[j]
        /\ starts[j] = 0 /\ starts'[j] = 1 /\ result'[j] = result[j]
     \/ /\ status[j] \in {"queued", "cancelled"} /\ status'[j] \in Outcomes
        /\ starts[j] = 1 /\ starts'[j] = 1 /\ result'[j] = status'[j]

LEMMA OneAtATime ==
  ASSUME IInv, Life, [Next]_vars
  PROVE  (\A i \in Jobs : Aloof(i)) \/ (\E j \in Jobs : StepOfOne(j))
<1> DEFINE Goal == (\A i \in Jobs : Aloof(i)) \/ (\E j \in Jobs : StepOfOne(j))
<1>1. ASSUME UNCHANGED <<status, starts, result>>
      PROVE  Goal
  BY <1>1 DEF Aloof
<1>2. ASSUME NEW j \in Jobs, CreateInsert(j)
      PROVE  Goal
  <2>1. status[j] = "none" /\ initial[j] \in {"pending", "agent_offline"}
    BY <1>2 DEF CreateInsert, Life, RowSense
  <2>2. /\ status'[j] = initial[j] /\ \A i \in Jobs \ {j} : status'[i] = status[i]
        /\ UNCHANGED <<starts, result>>
    BY <1>2 DEF CreateInsert, IInv, TypeOK
  <2>3. StepOfOne(j)
    BY <2>1, <2>2 DEF StepOfOne, Aloof
  <2>4. QED
    BY <2>3
<1>3. ASSUME NEW j \in Jobs, Cancel(j)
      PROVE  Goal
  <2>1. StepOfOne(j)
    BY <1>3 DEF Cancel, Cancellable, StepOfOne, Aloof, IInv, TypeOK
  <2>2. QED
    BY <2>1
<1>4. ASSUME TimeoutSweep
      PROVE  Goal
  <2>1. {j \in Jobs : status[j] = "running" /\ result[j] # "none"} = {}
    BY DEF Life, RowSense
  <2>2. status' = [j \in Jobs |-> status[j]] /\ UNCHANGED <<starts, result>>
    BY <1>4, <2>1 DEF TimeoutSweep
  <2>3. \A i \in Jobs : Aloof(i)
    BY <2>2 DEF Aloof
  <2>4. QED
    BY <2>3
<1>5. ASSUME NEW c \in Conns, MarkQueued(c)
      PROVE  Goal
  <2> DEFINE j == conn[c].job
  <2>1. j \in Jobs /\ status' = [status EXCEPT ![j] = Marked(status[j])] /\ UNCHANGED <<starts, result>>
    BY <1>5 DEF MarkQueued, IInv, ConnSense, Sensible
  <2>2. status'[j] = Marked(status[j]) /\ \A i \in Jobs \ {j} : status'[i] = status[i]
    BY <2>1 DEF IInv, TypeOK
  <2>3. CASE status[j] = "pending"
    <3>1. StepOfOne(j)
      BY <2>1, <2>2, <2>3 DEF StepOfOne, Aloof, Marked
    <3>2. QED
      BY <2>1, <3>1
  <2>4. CASE status[j] # "pending"
    <3>1. \A i \in Jobs : Aloof(i)
      BY <2>1, <2>2, <2>4 DEF Aloof, Marked
    <3>2. QED
      BY <3>1
  <2>5. QED
    BY <2>3, <2>4
<1>6. ASSUME NEW c \in Conns, Receive(c)
      PROVE  Goal
  <2> DEFINE j == conn[c].job
  <2>1. CASE j = NoJob
    BY <1>1, <1>6, <2>1 DEF Receive, Takes
  <2>2. CASE j # NoJob
    <3>1. /\ UNCHANGED <<status, result>> /\ starts' = [starts EXCEPT ![j] = starts[j] + 1]
          /\ conn[c].stage = "answered" /\ conn[c].kind \in Deliveries
      BY <1>6, <2>2 DEF Receive, Takes
    <3>2. j \in Jobs /\ Carries(c, j)
      BY <2>2, <3>1, JobType DEF Carries, IInv
    <3>3. starts[j] = 0 /\ status[j] \in {"queued", "cancelled"}
      BY <3>1, <3>2, Known DEF Life, WaySense
    <3>4. starts'[j] = 1 /\ \A i \in Jobs \ {j} : starts'[i] = starts[i]
      BY <3>1, <3>2, <3>3 DEF IInv, TypeOK
    <3>5. StepOfOne(j)
      BY <3>1, <3>3, <3>4 DEF StepOfOne, Aloof
    <3>6. QED
      BY <3>2, <3>5
  <2>3. QED
    BY <2>1, <2>2
<1>7. ASSUME NEW c \in Conns, ProcessResult(c)
      PROVE  Goal
  <2> DEFINE j == conn[c].job
             o == conn[c].outcome
  <2>1. /\ status' = [status EXCEPT ![j] = o] /\ result' = [result EXCEPT ![j] = o]
        /\ starts' = starts /\ conn[c].stage = "reporting" /\ j \in Jobs /\ Reporting(c, j)
    BY <1>7 DEF ProcessResult, IInv, ConnSense, Sensible, Reporting
  <2>2. o \in Outcomes /\ result[j] = "none" /\ starts[j] = 1
    BY <2>1 DEF Life, RunSense
  <2>3. status[j] \in {"queued", "cancelled"}
    BY <2>1, <2>2 DEF Life, RowSense
  <2>4. /\ status'[j] = o /\ result'[j] = o
        /\ \A i \in Jobs \ {j} : status'[i] = status[i] /\ result'[i] = result[i]
    BY <2>1 DEF IInv, TypeOK
  <2>5. StepOfOne(j)
    BY <2>1, <2>2, <2>3, <2>4 DEF StepOfOne, Aloof
  <2>6. QED
    BY <2>1, <2>5
<1>8. ASSUME \E j \in Jobs : \/ \E row \in AgentRows : CreateCheck(j, row)
                             \/ CreateAudit(j) \/ CreatePush(j) \/ CreatePublish(j) \/ CancelAudit(j)
                             \/ CreateFails(j) \/ CancelAuditFails(j) \/ PushedTaskPanics(j)
      PROVE  Goal
  <2>1. UNCHANGED <<status, starts, result>>
    BY <1>8 DEF CreateCheck, CreateAudit, CreatePush, CreatePublish, CancelAudit, CreateFails,
                CancelAuditFails, PushedTaskPanics
  <2>2. QED
    BY <1>1, <2>1
<1>9. ASSUME \/ \E j \in Jobs, c \in Conns : Finish(j, c)
             \/ \E a \in Agents : AgentCrash(a) \/ EvictQueue(a) \/ \E c \in Conns : SendHeartbeat(a, c) \/ SendPoll(a, c)
             \/ BackendCrash
             \/ UNCHANGED vars
      PROVE  Goal
  <2>1. UNCHANGED <<status, starts, result>>
    BY <1>9 DEF Finish, SendHeartbeat, SendPoll, AgentCrash, EvictQueue, BackendCrash
  <2>2. QED
    BY <1>1, <2>1
<1>10. ASSUME \E c \in Conns : Pop(c) \/ PublishResult(c) \/ ReceiveAck(c) \/ DropAnswer(c) \/ RequestFails(c) \/ ClientTimeout(c)
       PROVE  Goal
  <2>1. UNCHANGED <<status, starts, result>>
    BY <1>10 DEF Pop, PublishResult, ReceiveAck, DropAnswer, RequestFails, ClientTimeout
  <2>2. QED
    BY <1>1, <2>1
<1> HIDE DEF Goal
<1>11. Goal
  <2>1. CASE \E j \in Jobs : CreateInsert(j) \/ Cancel(j)
    BY <1>2, <1>3, <2>1
  <2>2. CASE \E c \in Conns : MarkQueued(c) \/ Receive(c) \/ ProcessResult(c)
    BY <1>5, <1>6, <1>7, <2>2
  <2>3. QED
    BY <1>4, <1>8, <1>9, <1>10, <2>1, <2>2 DEF Next, CreateStep, ConnStep
<1>12. QED
  BY <1>11 DEF Goal

\* The job service keeps its contract: each step of the code is one of the contract's
\* four actions or changes nothing the contract speaks of.
THEOREM ContractIsKept == Spec => KeepsContract
<1> DEFINE stands == [j \in Jobs |-> Stand(j)]
           begun == {j \in Jobs : starts[j] > 0}
<1>1. Init => Contract!Init
  <2>1. SUFFICES ASSUME Init
                 PROVE  Contract!Init
    OBVIOUS
  <2>2. \A j \in Jobs : Stand(j) = "absent" /\ starts[j] = 0 /\ result[j] = "none"
    BY <2>1, StandIs DEF Init
  <2>3. result = [j \in Jobs |-> "none"]
    BY <2>1 DEF Init
  <2>4. QED
    BY <2>2, <2>3 DEF Contract!Init
<1>2. IInv /\ IInv' /\ Life /\ Life' /\ [Next]_vars => [Contract!Next]_<<stands, begun, result>>
  <2>1. SUFFICES ASSUME IInv, IInv', Life, Life', [Next]_vars
                 PROVE  Contract!Next \/ UNCHANGED <<stands, begun, result>>
    OBVIOUS
  <2>2. /\ result = [i \in Jobs |-> result[i]] /\ result' = [i \in Jobs |-> result'[i]]
        /\ \A i \in Jobs : starts[i] \in {0, 1} /\ starts'[i] \in {0, 1}
    <3>1. result \in [Jobs -> Outcomes \union {"none"}] /\ result' \in [Jobs -> Outcomes \union {"none"}]
      BY <2>1 DEF IInv, TypeOK
    <3>2. \A i \in Jobs : starts[i] \in {0, 1} /\ starts'[i] \in {0, 1}
      BY <2>1 DEF IInv, Handed, BegunSense
    <3>3. QED
      BY <3>1, <3>2
  <2>3. ASSUME NEW i \in Jobs, Aloof(i)
        PROVE  Stand(i)' = Stand(i) /\ (starts'[i] > 0 <=> starts[i] > 0)
    BY <2>3 DEF Aloof, Stand
  <2>4. CASE \A i \in Jobs : Aloof(i)
    <3>1. UNCHANGED stands
      BY <2>3, <2>4
    <3>2. UNCHANGED begun
      BY <2>3, <2>4
    <3>3. UNCHANGED result
      BY <2>2, <2>4 DEF Aloof
    <3>4. QED
      BY <3>1, <3>2, <3>3
  <2>5. ASSUME NEW j \in Jobs, StepOfOne(j)
        PROVE  Contract!Next \/ UNCHANGED <<stands, begun, result>>
    <3>1. /\ stands' = [stands EXCEPT ![j] = Stand(j)']
          /\ \A i \in Jobs \ {j} : starts'[i] > 0 <=> starts[i] > 0
      BY <2>3, <2>5 DEF StepOfOne
    <3>2. result' = [result EXCEPT ![j] = result'[j]]
      BY <2>2, <2>5 DEF StepOfOne, Aloof
    <3>3. begun' = IF starts'[j] > 0 THEN begun \union {j} ELSE begun \ {j}
      BY <3>1
    <3>4. starts'[j] = starts[j] => UNCHANGED begun
      BY <3>3
    <3>5. result'[j] = result[j] => UNCHANGED result
      BY <2>2, <3>2
    <3>6. stands[j] = Stand(j)
      OBVIOUS
    <3>7. Stand(j)' = Stand(j) => UNCHANGED stands
      BY <3>1, <3>6
    <3>8. CASE /\ status[j] = "none" /\ status'[j] \in {"pending", "agent_offline"}
               /\ starts'[j] = starts[j] /\ result'[j] = result[j]
      <4>1. Stand(j) = "absent" /\ Stand(j)' \in {"accepted", "set_aside"}
        BY <3>8, StandIs, StandIsNext
      <4>2. Contract!Accept(j)
        BY <3>1, <3>4, <3>5, <3>6, <3>8, <4>1 DEF Contract!Accept
      <4>3. QED
        BY <4>2 DEF Contract!Next
    <3>9. CASE /\ status[j] \in {"pending", "queued"} /\ status'[j] = "cancelled"
               /\ starts'[j] = starts[j] /\ result'[j] = result[j]
      <4>1. Stand(j) = "accepted" /\ Stand(j)' = "cancelled"
        BY <3>9, StandIs, StandIsNext
      <4>2. Contract!Withdraw(j)
        BY <3>1, <3>4, <3>5, <3>6, <3>9, <4>1 DEF Contract!Withdraw
      <4>3. QED
        BY <4>2 DEF Contract!Next
    <3>10. CASE /\ status[j] = "pending" /\ status'[j] = "queued"
                /\ starts'[j] = starts[j] /\ result'[j] = result[j]
      <4>1. Stand(j) = "accepted" /\ Stand(j)' = "accepted"
        BY <3>10, StandIs, StandIsNext
      <4>2. QED
        BY <3>4, <3>5, <3>7, <3>10, <4>1
    <3>11. CASE /\ status[j] \in {"queued", "cancelled"} /\ status'[j] = status[j]
                /\ starts[j] = 0 /\ starts'[j] = 1 /\ result'[j] = result[j]
      <4>1. Stand(j) \in {"accepted", "cancelled"} /\ Stand(j)' = Stand(j)
        BY <3>11, StandIs, StandIsNext
      <4>2. j \notin begun /\ begun' = begun \union {j}
        BY <3>3, <3>11
      <4>3. Contract!Begin(j)
        BY <3>5, <3>6, <3>7, <3>11, <4>1, <4>2 DEF Contract!Begin
      <4>4. QED
        BY <4>3 DEF Contract!Next
    <3>12. CASE /\ status[j] \in {"queued", "cancelled"} /\ status'[j] \in Outcomes
                /\ starts[j] = 1 /\ starts'[j] = 1 /\ result'[j] = status'[j]
      <4>1. Stand(j) \in {"accepted", "cancelled"} /\ Stand(j)' = "closed"
        BY <3>12, StandIs, StandIsNext
      <4>2. j \in begun
        BY <3>12
      <4>3. Contract!Close(j)
        BY <3>1, <3>2, <3>4, <3>6, <3>12, <4>1, <4>2 DEF Contract!Close
      <4>4. QED
        BY <4>3 DEF Contract!Next
    <3>13. QED
      BY <2>5, <3>8, <3>9, <3>10, <3>11, <3>12 DEF StepOfOne
  <2>6. QED
    BY <2>1, <2>4, <2>5, OneAtATime
<1>3. QED
  BY Inductive, Lives, <1>1, <1>2, PTL DEF Spec, KeepsContract, Contract!Spec

-----------------------------------------------------------------------------
(* Until something fails.                                                  *)

\* A connection that is not in use holds nothing.
FreeSense == \A c \in Conns : conn[c].stage = "free" => conn[c].kind = "none"

\* An entry is in a trail; a job that is pushed or done has the entry of its creation.
Has(s, x) == \E i \in 1..Len(s) : s[i] = x
CreatedSense == \A j \in Jobs : creating[j] \in {"audited", "pushed", "done"} => Has(audit[j], "job.created")

\* Where an open job is.
Open == {"pending", "queued", "cancelled"}
Somewhere(j) ==
  \/ creating[j] \in {"inserted", "audited"}
  \/ InList(j)
  \/ executing[j] # "no"
  \/ \E c \in Conns : Carries(c, j) \/ Reporting(c, j)

\* With no failure so far, every client still waits, every createJob came to its end,
\* every open job is somewhere and every cancellation is in the trail or on its way.
Calm ==
  faults = 0 =>
    /\ \A c \in Conns : conn[c].stage # "free" => conn[c].live
    /\ \A j \in Jobs : creating[j] # "failed"
    /\ \A j \in Jobs : status[j] \in Open => Somewhere(j)
    /\ \A j \in Jobs : status[j] = "cancelled" => j \in cancelling \/ Has(audit[j], "job.cancelled")

Account == FreeSense /\ CreatedSense /\ Calm

\* What a step may do to a connection.
LEMMA ConnMoves ==
  ASSUME IInv, [Next]_vars, NEW c \in Conns
  PROVE  \/ conn'[c] = conn[c]
         \/ conn'[c] = FreeConn
         \/ conn'[c] = GivenUp(conn[c]) /\ faults' # 0
         \/ /\ conn'[c].stage # "free"
            /\ conn'[c].live \/ (conn[c].stage # "free" /\ conn'[c].live = conn[c].live)
<1> DEFINE Moved == \/ conn'[c] = conn[c]
                    \/ conn'[c] = FreeConn
                    \/ conn'[c] = GivenUp(conn[c]) /\ faults' # 0
                    \/ /\ conn'[c].stage # "free"
                       /\ conn'[c].live \/ (conn[c].stage # "free" /\ conn'[c].live = conn[c].live)
<1>1. Fault => faults' # 0
  BY DEF Fault, IInv, TypeOK
<1>2. ASSUME conn' = conn
      PROVE  Moved
  BY <1>2
<1>3. ASSUME NEW d \in Conns, Closed(d)
      PROVE  Moved
  BY <1>3 DEF Closed, IInv, TypeOK
<1>4. ASSUME NEW d \in Conns, NEW stage \in Stages \ {"free"}, NEW j,
             conn[d].stage # "free", conn' = [conn EXCEPT ![d] = At(conn[d], stage, j)]
      PROVE  Moved
  BY <1>4 DEF At, IInv, TypeOK
<1>5. ASSUME NEW d \in Conns, NEW stage \in Stages \ {"free"}, NEW kind, NEW a, NEW j, NEW o,
             Send(d, stage, kind, a, j, o)
      PROVE  Moved
  <2>1. conn' = [conn EXCEPT ![d] = [stage |-> stage, kind |-> kind, agent |-> a,
                                     job |-> j, outcome |-> o, live |-> TRUE]]
    BY <1>5 DEF Send
  <2>2. QED
    BY <2>1 DEF IInv, TypeOK
<1>6. ASSUME NEW d \in Conns,
             Pop(d) \/ MarkQueued(d) \/ ProcessResult(d) \/ PublishResult(d)
      PROVE  Moved
  <2>1. \E stage \in Stages \ {"free"} : \E j :
          conn[d].stage # "free" /\ conn' = [conn EXCEPT ![d] = At(conn[d], stage, j)]
    BY <1>6 DEF Pop, MarkQueued, ProcessResult, PublishResult, Stages
  <2>2. QED
    BY <1>4, <2>1
<1>7. ASSUME NEW d \in Conns, Receive(d) \/ ReceiveAck(d) \/ DropAnswer(d) \/ RequestFails(d)
      PROVE  Moved
  BY <1>3, <1>7 DEF Receive, ReceiveAck, DropAnswer, RequestFails
<1>8. ASSUME NEW d \in Conns, ClientTimeout(d)
      PROVE  Moved
  BY <1>1, <1>8 DEF ClientTimeout, IInv, TypeOK
<1>9. ASSUME NEW j \in Jobs, NEW d \in Conns, Finish(j, d)
      PROVE  Moved
  <2>1. PICK o : Send(d, "reporting", IF executing[j] = "polled" THEN "polled_result" ELSE "pushed_result",
                      Target[j], j, o)
    BY <1>9 DEF Finish
  <2>2. "reporting" \in Stages \ {"free"}
    BY DEF Stages
  <2>3. QED
    BY <1>5, <2>1, <2>2
<1>10. ASSUME NEW a \in Agents, NEW d \in Conns, SendHeartbeat(a, d) \/ SendPoll(a, d)
       PROVE  Moved
  <2>1. "asking" \in Stages \ {"free"}
    BY DEF Stages
  <2>2. QED
    BY <1>5, <1>10, <2>1 DEF SendHeartbeat, SendPoll
<1>11. ASSUME NEW a \in Agents, AgentCrash(a)
       PROVE  Moved
  BY <1>1, <1>11 DEF AgentCrash
<1>12. ASSUME BackendCrash
       PROVE  Moved
  BY <1>12 DEF BackendCrash
<1>13. ASSUME \/ \E j \in Jobs : \/ \E row \in AgentRows : CreateCheck(j, row)
                                 \/ CreateStep(j) \/ Cancel(j) \/ CancelAudit(j)
                                 \/ CreateFails(j) \/ CancelAuditFails(j) \/ PushedTaskPanics(j)
              \/ \E a \in Agents : EvictQueue(a)
              \/ TimeoutSweep
              \/ UNCHANGED vars
       PROVE  Moved
  <2>1. conn' = conn
    BY <1>13 DEF CreateCheck, CreateStep, CreateInsert, CreateAudit, CreatePush, CreatePublish, Cancel, CancelAudit,
                 CreateFails, CancelAuditFails, PushedTaskPanics, EvictQueue, TimeoutSweep
  <2>2. QED
    BY <1>2, <2>1
<1> HIDE DEF Moved
<1>14. Moved
  BY <1>6, <1>7, <1>8, <1>9, <1>10, <1>11, <1>12, <1>13 DEF Next, ConnStep
<1>15. QED
  BY <1>14 DEF Moved

LEMMA FreeStep ==
  ASSUME IInv, FreeSense, [Next]_vars
  PROVE  FreeSense'
<1>1. SUFFICES ASSUME NEW c \in Conns, conn'[c].stage = "free"
               PROVE  conn'[c].kind = "none"
  BY DEF FreeSense
<1>2. CASE conn'[c] = conn[c]
  BY <1>1, <1>2 DEF FreeSense
<1>3. CASE conn'[c] = FreeConn
  BY <1>3 DEF FreeConn
<1>4. CASE conn'[c] = GivenUp(conn[c])
  BY <1>1, <1>4 DEF FreeSense, GivenUp
<1>5. QED
  BY <1>1, <1>2, <1>3, <1>4, ConnMoves

\* An appended entry is there, and those before it stay.
LEMMA Appended ==
  ASSUME NEW s \in Seq(AuditActions), NEW x \in AuditActions
  PROVE  Has(Append(s, x), x)
<1>1. Len(Append(s, x)) = Len(s) + 1 /\ Len(s) \in Nat /\ Append(s, x)[Len(s) + 1] = x
  OBVIOUS
<1>2. Len(s) + 1 \in 1..Len(Append(s, x))
  BY <1>1
<1>3. QED
  BY <1>1, <1>2 DEF Has

LEMMA AppendKeeps ==
  ASSUME NEW s \in Seq(AuditActions), NEW y \in AuditActions, NEW x, Has(s, x)
  PROVE  Has(Append(s, y), x)
<1>1. PICK i \in 1..Len(s) : s[i] = x
  BY DEF Has
<1>2. i \in 1..Len(Append(s, y)) /\ Append(s, y)[i] = x
  BY <1>1
<1>3. QED
  BY <1>2 DEF Has

\* The trail loses nothing.
LEMMA TrailKept ==
  ASSUME IInv, Life, [Next]_vars, NEW j \in Jobs, NEW x
  PROVE  Has(audit[j], x) => Has(audit'[j], x)
<1>1. ASSUME audit' = audit
      PROVE  Has(audit[j], x) => Has(audit'[j], x)
  BY <1>1
<1>2. ASSUME NEW i \in Jobs, NEW y \in AuditActions, audit' = [audit EXCEPT ![i] = Append(audit[i], y)]
      PROVE  Has(audit[j], x) => Has(audit'[j], x)
  <2>1. audit[j] \in Seq(AuditActions)
    BY DEF IInv, TypeOK
  <2>2. audit'[j] = audit[j] \/ audit'[j] = Append(audit[j], y)
    BY <1>2 DEF IInv, TypeOK
  <2>3. QED
    BY <2>1, <2>2, AppendKeeps
<1>3. ASSUME NEW i \in Jobs, CreateAudit(i) \/ CancelAudit(i)
      PROVE  Has(audit[j], x) => Has(audit'[j], x)
  BY <1>2, <1>3 DEF CreateAudit, CancelAudit, AuditActions
<1>4. ASSUME NEW c \in Conns, ProcessResult(c)
      PROVE  Has(audit[j], x) => Has(audit'[j], x)
  <2>1. /\ audit' = [audit EXCEPT ![conn[c].job] = Append(audit[conn[c].job], Verdict(conn[c].outcome))]
        /\ conn[c].job \in Jobs
    BY <1>4 DEF ProcessResult, IInv, ConnSense, Sensible
  <2>2. Verdict(conn[c].outcome) \in AuditActions
    BY DEF Verdict, AuditActions
  <2>3. QED
    BY <1>2, <2>1, <2>2
<1>5. ASSUME TimeoutSweep
      PROVE  Has(audit[j], x) => Has(audit'[j], x)
  <2>1. {i \in Jobs : status[i] = "running" /\ result[i] # "none"} = {}
    BY DEF Life, RowSense
  <2>2. audit' = [i \in Jobs |-> audit[i]]
    BY <1>5, <2>1 DEF TimeoutSweep
  <2>3. QED
    BY <2>2
<1>6. CASE \/ \E i \in Jobs : \/ \E row \in AgentRows : CreateCheck(i, row)
                              \/ CreateInsert(i) \/ CreatePush(i) \/ CreatePublish(i) \/ Cancel(i)
                              \/ CreateFails(i) \/ CancelAuditFails(i) \/ PushedTaskPanics(i)
                              \/ \E c \in Conns : Finish(i, c)
           \/ \E a \in Agents : EvictQueue(a) \/ AgentCrash(a) \/ \E c \in Conns : SendHeartbeat(a, c) \/ SendPoll(a, c)
           \/ BackendCrash
           \/ UNCHANGED vars
  <2>1. audit' = audit
    BY <1>6 DEF CreateCheck, CreateInsert, CreatePush, CreatePublish, Cancel, CreateFails, CancelAuditFails,
                PushedTaskPanics, Finish, EvictQueue, AgentCrash, SendHeartbeat, SendPoll, BackendCrash
  <2>2. QED
    BY <1>1, <2>1
<1>7. CASE \E c \in Conns : Pop(c) \/ MarkQueued(c) \/ Receive(c) \/ PublishResult(c) \/ ReceiveAck(c) \/ DropAnswer(c)
                            \/ RequestFails(c) \/ ClientTimeout(c)
  <2>1. audit' = audit
    BY <1>7 DEF Pop, MarkQueued, Receive, PublishResult, ReceiveAck, DropAnswer, RequestFails, ClientTimeout
  <2>2. QED
    BY <1>1, <2>1
<1>8. QED
  BY <1>3, <1>4, <1>5, <1>6, <1>7 DEF Next, CreateStep, ConnStep

\* createJob pushes only after its entry is written.
LEMMA CreatedStep ==
  ASSUME IInv, Life, CreatedSense, [Next]_vars
  PROVE  CreatedSense'
<1> DEFINE K == {"audited", "pushed", "done"}
<1>1. SUFFICES ASSUME NEW j \in Jobs, creating'[j] \in K
               PROVE  Has(audit'[j], "job.created")
  BY DEF CreatedSense
<1>2. CASE creating[j] \in K
  BY <1>2, TrailKept DEF CreatedSense
<1>3. CASE CreateAudit(j)
  <2>1. audit'[j] = Append(audit[j], "job.created") /\ audit[j] \in Seq(AuditActions)
    BY <1>3 DEF CreateAudit, IInv, TypeOK
  <2>2. QED
    BY <2>1, Appended DEF AuditActions
<1>4. creating[j] \in K \/ CreateAudit(j)
  <2>1. CASE creating'[j] = creating[j]
    BY <1>1, <2>1
  <2>2. ASSUME NEW i \in Jobs, \/ \E row \in AgentRows : CreateCheck(i, row)
                               \/ CreateInsert(i) \/ CreateAudit(i) \/ CreatePush(i) \/ CreatePublish(i)
                               \/ CreateFails(i)
        PROVE  creating[j] \in K \/ CreateAudit(j)
    BY <1>1, <2>2 DEF CreateCheck, CreateInsert, CreateAudit, CreatePush, CreatePublish, CreateFails, IInv, TypeOK
  <2>3. ASSUME \/ BackendCrash \/ TimeoutSweep \/ UNCHANGED vars
               \/ \E i \in Jobs : Cancel(i) \/ CancelAudit(i) \/ CancelAuditFails(i) \/ PushedTaskPanics(i)
                                  \/ \E c \in Conns : Finish(i, c)
               \/ \E a \in Agents : EvictQueue(a) \/ AgentCrash(a) \/ \E c \in Conns : SendHeartbeat(a, c) \/ SendPoll(a, c)
        PROVE  creating'[j] = creating[j] \/ creating'[j] \notin K
    BY <2>3 DEF BackendCrash, TimeoutSweep, Cancel, CancelAudit, CancelAuditFails, PushedTaskPanics, Finish,
                EvictQueue, AgentCrash, SendHeartbeat, SendPoll
  <2>4. ASSUME \E c \in Conns : ConnStep(c) \/ RequestFails(c) \/ ClientTimeout(c)
        PROVE  creating'[j] = creating[j]
    BY <2>4 DEF ConnStep, Pop, MarkQueued, Receive, ProcessResult, PublishResult, ReceiveAck, DropAnswer,
                RequestFails, ClientTimeout
  <2> HIDE DEF K
  <2>5. QED
    BY <1>1, <2>1, <2>2, <2>3, <2>4 DEF Next, CreateStep
<1>5. QED
  BY <1>2, <1>3, <1>4

\* Where the open jobs are, step by step, as long as nothing has failed.
LEMMA PlacesKept ==
  ASSUME IInv, Life, FreeSense, [Next]_vars, faults = 0, faults' = 0,
         \A c \in Conns : conn[c].stage # "free" => conn[c].live,
         \A j \in Jobs : status[j] \in Open => Somewhere(j),
         NEW j \in Jobs, status'[j] \in Open
  PROVE  Somewhere(j)'
<1>1. ~Fault
  BY DEF Fault
<1>2. ASSUME status[j] \in Open,
             creating'[j] = creating[j] \/ creating[j] \notin {"inserted", "audited"},
             InList(j) => InList(j)', executing[j] # "no" => executing'[j] # "no",
             \A c \in Conns : (Carries(c, j) => Carries(c, j)') /\ (Reporting(c, j) => Reporting(c, j)')
      PROVE  Somewhere(j)'
  BY <1>2 DEF Somewhere
<1>3. ASSUME NEW i \in Jobs, (\E row \in AgentRows : CreateCheck(i, row)) \/ CreatePublish(i) \/ Cancel(i) \/ CancelAudit(i)
      PROVE  Somewhere(j)'
  <2>1. UNCHANGED <<queue, conn, executing>>
    BY <1>3 DEF CreateCheck, CreatePublish, Cancel, CancelAudit
  <2>2. creating'[j] = creating[j] \/ creating[j] \notin {"inserted", "audited"}
    BY <1>3 DEF CreateCheck, CreatePublish, Cancel, CancelAudit, IInv, TypeOK
  <2>3. status[j] \in Open
    BY <1>3 DEF CreateCheck, CreatePublish, Cancel, CancelAudit, Cancellable, Open, IInv, TypeOK
  <2>4. QED
    BY <1>2, <2>1, <2>2, <2>3 DEF InList, Carries, Reporting
<1>4. ASSUME NEW i \in Jobs, CreateInsert(i)
      PROVE  Somewhere(j)'
  <2>1. /\ UNCHANGED <<queue, conn, executing>> /\ creating[i] = "checked" /\ creating'[i] = "inserted"
        /\ i # j => creating'[j] = creating[j] /\ status'[j] = status[j]
    BY <1>4 DEF CreateInsert, IInv, TypeOK
  <2>2. CASE i = j
    BY <2>1, <2>2 DEF Somewhere
  <2>3. CASE i # j
    BY <1>2, <2>1, <2>3 DEF InList, Carries, Reporting
  <2>4. QED
    BY <2>2, <2>3
<1>5. ASSUME NEW i \in Jobs, CreateAudit(i)
      PROVE  Somewhere(j)'
  <2>1. /\ UNCHANGED <<queue, conn, executing, status>> /\ creating[i] = "inserted"
        /\ creating'[i] = IF AwaitsPush(i) THEN "audited" ELSE "done"
        /\ i # j => creating'[j] = creating[j]
    BY <1>5 DEF CreateAudit, IInv, TypeOK
  <2>2. CASE i = j
    <3>1. status[j] # "agent_offline" /\ status[j] # "none"
      BY <2>1 DEF Open
    <3>2. initial[j] = "pending"
      BY <2>1, <2>2, <3>1 DEF Life, RowSense
    <3>3. QED
      BY <2>1, <2>2, <3>2 DEF Somewhere, AwaitsPush
  <2>3. CASE i # j
    BY <1>2, <2>1, <2>3 DEF InList, Carries, Reporting
  <2>4. QED
    BY <2>2, <2>3
<1>6. ASSUME NEW i \in Jobs, CreatePush(i)
      PROVE  Somewhere(j)'
  <2> DEFINE t == Target[i]
  <2>1. /\ UNCHANGED <<conn, executing, status>> /\ queue' = [queue EXCEPT ![t] = Append(queue[t], i)]
        /\ i # j => creating'[j] = creating[j]
        /\ t \in Agents /\ queue[t] \in Seq(Jobs)
    BY <1>6 DEF CreatePush, IInv, TypeOK
  <2>2. \A a \in Agents \ {t} : queue'[a] = queue[a]
    BY <2>1 DEF IInv, TypeOK
  <2>3. queue'[t] = Append(queue[t], i)
    BY <2>1 DEF IInv, TypeOK
  <2>4. CASE i = j
    <3>1. Len(queue[t]) + 1 \in 1..Len(queue'[t]) /\ queue'[t][Len(queue[t]) + 1] = j
      BY <2>1, <2>3, <2>4
    <3>2. InList(j)'
      BY <2>1, <3>1 DEF InList
    <3>3. QED
      BY <3>2 DEF Somewhere
  <2>5. CASE i # j
    <3>1. ASSUME InList(j)
          PROVE  InList(j)'
      <4>1. PICK a \in Agents : \E k \in 1..Len(queue[a]) : queue[a][k] = j
        BY <3>1 DEF InList
      <4>2. PICK k \in 1..Len(queue[a]) : queue[a][k] = j
        BY <4>1
      <4>3. k \in 1..Len(queue'[a]) /\ queue'[a][k] = j
        BY <2>1, <2>2, <2>3, <4>2
      <4>4. QED
        BY <4>3 DEF InList
    <3>2. QED
      BY <1>2, <2>1, <2>5, <3>1 DEF Carries, Reporting
  <2>6. QED
    BY <2>4, <2>5
<1>7. ASSUME NEW c \in Conns, NEW stage, NEW kind, NEW a, NEW i, NEW o, Send(c, stage, kind, a, i, o)
      PROVE  \A d \in Conns : (Carries(d, j) => Carries(d, j)') /\ (Reporting(d, j) => Reporting(d, j)')
  <2>1. conn[c].kind = "none" /\ \A d \in Conns \ {c} : conn'[d] = conn[d]
    BY <1>7 DEF Send, FreeSense, IInv, TypeOK
  <2>2. ~Carries(c, j) /\ ~Reporting(c, j)
    BY <2>1 DEF Carries, Reporting, Deliveries, Reports
  <2>3. QED
    BY <2>1, <2>2 DEF Carries, Reporting
<1>8. ASSUME NEW a \in Agents, NEW c \in Conns, SendHeartbeat(a, c) \/ SendPoll(a, c)
      PROVE  Somewhere(j)'
  <2>1. UNCHANGED <<queue, status, creating, executing>>
    BY <1>8 DEF SendHeartbeat, SendPoll
  <2>2. \A d \in Conns : (Carries(d, j) => Carries(d, j)') /\ (Reporting(d, j) => Reporting(d, j)')
    BY <1>7, <1>8 DEF SendHeartbeat, SendPoll
  <2>3. QED
    BY <1>2, <2>1, <2>2 DEF InList
<1>9. ASSUME NEW i \in Jobs, NEW c \in Conns, Finish(i, c)
      PROVE  Somewhere(j)'
  <2>1. PICK o \in OutcomesOf(i), kind \in Reports : Send(c, "reporting", kind, Target[i], i, o)
    BY <1>9 DEF Finish, Reports
  <2>2. UNCHANGED <<queue, status, creating>> /\ (i # j => executing'[j] = executing[j])
    BY <1>9 DEF Finish, IInv, TypeOK
  <2>3. \A d \in Conns : (Carries(d, j) => Carries(d, j)') /\ (Reporting(d, j) => Reporting(d, j)')
    BY <1>7, <2>1
  <2>4. CASE i = j
    <3>1. Reporting(c, j)'
      BY <2>1, <2>4 DEF Send, Reporting, IInv, TypeOK
    <3>2. QED
      BY <3>1 DEF Somewhere
  <2>5. CASE i # j
    BY <1>2, <2>2, <2>3, <2>5 DEF InList
  <2>6. QED
    BY <2>4, <2>5
<1>10. ASSUME NEW c \in Conns, Pop(c)
       PROVE  Somewhere(j)'
  <2> DEFINE a == conn[c].agent
  <2>1. /\ UNCHANGED <<status, creating, executing>> /\ conn[c].stage = "asking"
        /\ a \in Agents /\ conn[c].kind \in Deliveries /\ conn[c].job = NoJob /\ queue[a] \in Seq(Jobs)
    BY <1>10 DEF Pop, IInv, TypeOK, ConnSense, Sensible
  <2>2. \A d \in Conns \ {c} : conn'[d] = conn[d]
    BY <1>10 DEF Pop, IInv, TypeOK
  <2>3. \A d \in Conns : (Carries(d, j) => Carries(d, j)') /\ (Reporting(d, j) => Reporting(d, j)')
    BY <2>1, <2>2 DEF Carries, Reporting
  <2>4. CASE queue[a] = <<>>
    <3>1. queue' = queue
      BY <1>10, <2>4 DEF Pop
    <3>2. QED
      BY <1>2, <2>1, <2>3, <3>1 DEF InList
  <2>5. CASE queue[a] # <<>> /\ Head(queue[a]) = j
    <3>1. conn' = [conn EXCEPT ![c] = At(conn[c], "popped", j)]
      BY <1>10, <2>5 DEF Pop
    <3>2. Carries(c, j)'
      BY <2>1, <3>1 DEF At, Carries, IInv, TypeOK
    <3>3. QED
      BY <3>2 DEF Somewhere
  <2>6. CASE queue[a] # <<>> /\ Head(queue[a]) # j
    <3>1. queue' = [queue EXCEPT ![a] = Tail(queue[a])]
      BY <1>10, <2>6 DEF Pop, Popped
    <3>2. queue'[a] = Tail(queue[a]) /\ \A b \in Agents \ {a} : queue'[b] = queue[b]
      BY <2>1, <3>1 DEF IInv, TypeOK
    <3>3. ASSUME InList(j)
          PROVE  InList(j)'
      <4>1. PICK b \in Agents : \E k \in 1..Len(queue[b]) : queue[b][k] = j
        BY <3>3 DEF InList
      <4>2. CASE b # a
        BY <3>2, <4>1, <4>2 DEF InList
      <4>3. CASE b = a
        <5>1. PICK k \in 1..Len(queue[a]) : queue[a][k] = j
          BY <4>1, <4>3
        <5>2. k # 1
          BY <2>1, <2>6, <5>1
        <5>3. k - 1 \in 1..Len(queue'[a]) /\ queue'[a][k - 1] = j
          BY <2>1, <2>6, <3>2, <5>1, <5>2
        <5>4. QED
          BY <2>1, <5>3 DEF InList
      <4>4. QED
        BY <4>2, <4>3
    <3>4. QED
      BY <1>2, <2>1, <2>3, <3>3
  <2>7. QED
    BY <2>4, <2>5, <2>6
<1>11. ASSUME NEW c \in Conns, NEW stage, conn' = [conn EXCEPT ![c] = At(conn[c], stage, conn[c].job)]
       PROVE  \A d \in Conns : (Carries(d, j) => Carries(d, j)') /\ (Reporting(d, j) => Reporting(d, j)')
  BY <1>11 DEF At, Carries, Reporting, IInv, TypeOK
<1>12. ASSUME NEW c \in Conns, MarkQueued(c) \/ PublishResult(c)
       PROVE  Somewhere(j)'
  <2>1. UNCHANGED <<queue, creating, executing>>
    BY <1>12 DEF MarkQueued, PublishResult
  <2>2. \A d \in Conns : (Carries(d, j) => Carries(d, j)') /\ (Reporting(d, j) => Reporting(d, j)')
    BY <1>11, <1>12 DEF MarkQueued, PublishResult
  <2>3. status[j] \in Open
    BY <1>12 DEF MarkQueued, Marked, PublishResult, Open, IInv, TypeOK
  <2>4. QED
    BY <1>2, <2>1, <2>2, <2>3 DEF InList
<1>13. ASSUME NEW c \in Conns, ProcessResult(c)
       PROVE  Somewhere(j)'
  <2>1. UNCHANGED <<queue, creating, executing>>
    BY <1>13 DEF ProcessResult
  <2>2. \A d \in Conns : (Carries(d, j) => Carries(d, j)') /\ (Reporting(d, j) => Reporting(d, j)')
    BY <1>11, <1>13 DEF ProcessResult
  <2>3. status[j] \in Open
    <3>1. Reporting(c, conn[c].job) /\ conn[c].job \in Jobs /\ conn[c].stage = "reporting"
      BY <1>13 DEF ProcessResult, IInv, ConnSense, Sensible, Reporting
    <3>2. conn[c].outcome \in Outcomes
      BY <3>1 DEF Life, RunSense
    <3>3. status' = [status EXCEPT ![conn[c].job] = conn[c].outcome]
      BY <1>13 DEF ProcessResult
    <3>4. QED
      BY <3>2, <3>3 DEF Open, Outcomes, IInv, TypeOK
  <2>4. QED
    BY <1>2, <2>1, <2>2, <2>3 DEF InList
<1>14. ASSUME NEW c \in Conns, Receive(c)
       PROVE  Somewhere(j)'
  <2>1. /\ UNCHANGED <<queue, status, creating>> /\ conn' = [conn EXCEPT ![c] = FreeConn]
        /\ conn[c].kind \in Deliveries
    BY <1>14 DEF Receive, Closed
  <2>2. CASE conn[c].job = j
    <3>1. executing' = [executing EXCEPT ![j] = IF conn[c].kind = "heartbeat" THEN "pushed" ELSE "polled"]
      BY <1>14, <2>2 DEF Receive, Takes
    <3>2. executing'[j] # "no"
      BY <3>1 DEF IInv, TypeOK
    <3>3. QED
      BY <3>2 DEF Somewhere
  <2>3. CASE conn[c].job # j
    <3>1. executing'[j] = executing[j]
      BY <1>14, <2>3 DEF Receive, IInv, TypeOK
    <3>2. \A d \in Conns : (Carries(d, j) => Carries(d, j)') /\ (Reporting(d, j) => Reporting(d, j)')
      BY <2>1, <2>3 DEF Carries, Reporting, IInv, TypeOK
    <3>3. QED
      BY <1>2, <2>1, <3>1, <3>2 DEF InList
  <2>4. QED
    BY <2>2, <2>3
<1>15. ASSUME NEW c \in Conns, ReceiveAck(c)
       PROVE  Somewhere(j)'
  <2>1. /\ UNCHANGED <<queue, status, creating, executing>> /\ conn' = [conn EXCEPT ![c] = FreeConn]
        /\ conn[c].kind \in Reports /\ conn[c].stage = "answered"
    BY <1>15 DEF ReceiveAck, Closed
  <2>2. ~Carries(c, j) /\ ~Reporting(c, j)
    <3>1. Reporting(c, j) => result[j] # "none"
      BY <2>1 DEF Life, RunSense
    <3>2. result[j] # "none" => status[j] \in Outcomes
      BY DEF Life, RowSense, IInv, TypeOK
    <3>3. QED
      BY <2>1, <3>1, <3>2 DEF Carries, Deliveries, Reports, Open, Outcomes
  <2>3. \A d \in Conns : (Carries(d, j) => Carries(d, j)') /\ (Reporting(d, j) => Reporting(d, j)')
    BY <2>1, <2>2 DEF Carries, Reporting, IInv, TypeOK
  <2>4. QED
    BY <1>2, <2>1, <2>3 DEF InList
<1>16. ASSUME NEW c \in Conns, DropAnswer(c)
       PROVE  FALSE
  BY <1>16 DEF DropAnswer
<1>17. ASSUME TimeoutSweep
       PROVE  Somewhere(j)'
  <2>1. {i \in Jobs : status[i] = "running" /\ result[i] # "none"} = {}
    BY DEF Life, RowSense
  <2>2. status' = [i \in Jobs |-> status[i]] /\ UNCHANGED <<queue, creating, executing, conn>>
    BY <1>17, <2>1 DEF TimeoutSweep
  <2>3. QED
    BY <1>2, <2>2 DEF InList, Carries, Reporting
<1>18. ASSUME UNCHANGED vars
       PROVE  Somewhere(j)'
  BY <1>2, <1>18 DEF InList, Carries, Reporting
<1>19. CASE \E i \in Jobs : (\E row \in AgentRows : CreateCheck(i, row)) \/ CreateStep(i) \/ Cancel(i) \/ CancelAudit(i)
                            \/ \E c \in Conns : Finish(i, c)
  BY <1>3, <1>4, <1>5, <1>6, <1>9, <1>19 DEF CreateStep
<1>20. CASE \E c \in Conns : ConnStep(c)
  BY <1>10, <1>12, <1>13, <1>14, <1>15, <1>16, <1>20 DEF ConnStep
<1>21. ASSUME \/ \E i \in Jobs : CreateFails(i) \/ CancelAuditFails(i) \/ PushedTaskPanics(i)
              \/ \E a \in Agents : AgentCrash(a) \/ EvictQueue(a)
              \/ \E c \in Conns : RequestFails(c) \/ ClientTimeout(c)
              \/ BackendCrash
       PROVE  FALSE
  BY <1>1, <1>21 DEF CreateFails, CancelAuditFails, PushedTaskPanics, AgentCrash, EvictQueue,
                     RequestFails, ClientTimeout, BackendCrash
<1>22. CASE \E a \in Agents, c \in Conns : SendHeartbeat(a, c) \/ SendPoll(a, c)
  BY <1>8, <1>22
<1>23. QED
  BY <1>17, <1>18, <1>19, <1>20, <1>21, <1>22 DEF Next

\* Cancellations and their entries, step by step, as long as nothing has failed.
LEMMA CancelsKept ==
  ASSUME IInv, Life, [Next]_vars, faults = 0, faults' = 0,
         \A j \in Jobs : status[j] = "cancelled" => j \in cancelling \/ Has(audit[j], "job.cancelled"),
         NEW j \in Jobs, status'[j] = "cancelled"
  PROVE  j \in cancelling' \/ Has(audit'[j], "job.cancelled")
<1> DEFINE Told == j \in cancelling' \/ Has(audit'[j], "job.cancelled")
<1>1. ~Fault
  BY DEF Fault
<1>2. ASSUME status[j] = "cancelled", cancelling' = cancelling
      PROVE  Told
  BY <1>2, TrailKept
<1>3. ASSUME NEW i \in Jobs, Cancel(i)
      PROVE  Told
  <2>1. cancelling' = cancelling \union {i} /\ (i # j => status[j] = "cancelled")
    BY <1>3 DEF Cancel, IInv, TypeOK
  <2>2. QED
    BY <2>1, TrailKept
<1>4. ASSUME NEW i \in Jobs, CancelAudit(i)
      PROVE  Told
  <2>1. CASE i = j
    <3>1. audit'[j] = Append(audit[j], "job.cancelled") /\ audit[j] \in Seq(AuditActions)
      BY <1>4, <2>1 DEF CancelAudit, IInv, TypeOK
    <3>2. QED
      BY <3>1, Appended DEF AuditActions
  <2>2. CASE i # j
    <3>1. cancelling' = cancelling \ {i} /\ status[j] = "cancelled"
      BY <1>4 DEF CancelAudit
    <3>2. QED
      BY <2>2, <3>1, TrailKept
  <2>3. QED
    BY <2>1, <2>2
<1>5. ASSUME NEW i \in Jobs,
             \/ \E row \in AgentRows : CreateCheck(i, row)
             \/ CreateAudit(i) \/ CreatePush(i) \/ CreatePublish(i)
             \/ \E c \in Conns : Finish(i, c)
      PROVE  Told
  <2>1. UNCHANGED <<status, cancelling>>
    BY <1>5 DEF CreateCheck, CreateAudit, CreatePush, CreatePublish, Finish
  <2>2. QED
    BY <1>2, <2>1
<1>6. ASSUME NEW i \in Jobs, CreateInsert(i)
      PROVE  Told
  <2>1. cancelling' = cancelling /\ status' = [status EXCEPT ![i] = initial[i]]
        /\ initial[i] # "cancelled"
    BY <1>6 DEF CreateInsert, IInv, TypeOK
  <2>2. status[j] = "cancelled"
    BY <2>1 DEF IInv, TypeOK
  <2>3. QED
    BY <1>2, <2>1, <2>2
<1>7. ASSUME NEW a \in Agents, NEW c \in Conns, SendHeartbeat(a, c) \/ SendPoll(a, c)
      PROVE  Told
  BY <1>2, <1>7 DEF SendHeartbeat, SendPoll
<1>8. ASSUME NEW c \in Conns, Pop(c) \/ Receive(c) \/ PublishResult(c) \/ ReceiveAck(c) \/ DropAnswer(c)
      PROVE  Told
  <2>1. UNCHANGED <<status, cancelling>>
    BY <1>8 DEF Pop, Receive, PublishResult, ReceiveAck, DropAnswer
  <2>2. QED
    BY <1>2, <2>1
<1>9. ASSUME NEW c \in Conns, MarkQueued(c)
      PROVE  Told
  <2>1. cancelling' = cancelling /\ status' = [status EXCEPT ![conn[c].job] = Marked(status[conn[c].job])]
    BY <1>9 DEF MarkQueued
  <2>2. status[j] = "cancelled"
    BY <2>1 DEF Marked, IInv, TypeOK
  <2>3. QED
    BY <1>2, <2>1, <2>2
<1>10. ASSUME NEW c \in Conns, ProcessResult(c)
       PROVE  Told
  <2>1. cancelling' = cancelling /\ status' = [status EXCEPT ![conn[c].job] = conn[c].outcome]
        /\ conn[c].outcome # "cancelled"
    BY <1>10, JobType DEF ProcessResult, IInv, Outcomes
  <2>2. status[j] = "cancelled"
    BY <2>1 DEF IInv, TypeOK
  <2>3. QED
    BY <1>2, <2>1, <2>2
<1>11. ASSUME TimeoutSweep
       PROVE  Told
  <2>1. {i \in Jobs : status[i] = "running" /\ result[i] # "none"} = {}
    BY DEF Life, RowSense
  <2>2. status' = [i \in Jobs |-> status[i]] /\ cancelling' = cancelling
    BY <1>11, <2>1 DEF TimeoutSweep
  <2>3. QED
    BY <1>2, <2>2
<1>12. ASSUME UNCHANGED vars
       PROVE  Told
  BY <1>2, <1>12
<1>13. ASSUME \/ \E i \in Jobs : CreateFails(i) \/ CancelAuditFails(i) \/ PushedTaskPanics(i)
              \/ \E a \in Agents : AgentCrash(a) \/ EvictQueue(a)
              \/ \E c \in Conns : RequestFails(c) \/ ClientTimeout(c)
              \/ BackendCrash
       PROVE  FALSE
  BY <1>1, <1>13 DEF CreateFails, CancelAuditFails, PushedTaskPanics, AgentCrash, EvictQueue,
                     RequestFails, ClientTimeout, BackendCrash
<1> HIDE DEF Told
<1>14. Told
  <2>1. CASE \E i \in Jobs : (\E row \in AgentRows : CreateCheck(i, row)) \/ CreateStep(i) \/ Cancel(i) \/ CancelAudit(i)
                             \/ \E c \in Conns : Finish(i, c)
    BY <1>3, <1>4, <1>5, <1>6, <2>1 DEF CreateStep
  <2>2. CASE \E c \in Conns : ConnStep(c)
    BY <1>8, <1>9, <1>10, <2>2 DEF ConnStep
  <2>3. QED
    BY <1>7, <1>11, <1>12, <1>13, <2>1, <2>2 DEF Next
<1>15. QED
  BY <1>14 DEF Told

\* No createJob is given up without a failure.
LEMMA NoneFailed ==
  ASSUME IInv, [Next]_vars, faults = 0, faults' = 0, \A j \in Jobs : creating[j] # "failed",
         NEW j \in Jobs
  PROVE  creating'[j] # "failed"
<1>1. ~Fault
  BY DEF Fault
<1>2. CASE creating' = creating
  BY <1>2
<1>3. ASSUME NEW i \in Jobs, (\E row \in AgentRows : CreateCheck(i, row)) \/ CreateStep(i)
      PROVE  creating'[j] # "failed"
  BY <1>3 DEF CreateCheck, CreateStep, CreateInsert, CreateAudit, CreatePush, CreatePublish, IInv, TypeOK
<1>4. ASSUME \/ TimeoutSweep \/ UNCHANGED vars
             \/ \E i \in Jobs : Cancel(i) \/ CancelAudit(i) \/ \E c \in Conns : Finish(i, c)
             \/ \E a \in Agents, c \in Conns : SendHeartbeat(a, c) \/ SendPoll(a, c)
             \/ \E c \in Conns : ConnStep(c)
      PROVE  creating' = creating
  BY <1>4 DEF TimeoutSweep, Cancel, CancelAudit, Finish, SendHeartbeat, SendPoll, ConnStep, Pop, MarkQueued,
              Receive, ProcessResult, PublishResult, ReceiveAck, DropAnswer
<1>5. ASSUME \/ \E i \in Jobs : CreateFails(i) \/ CancelAuditFails(i) \/ PushedTaskPanics(i)
             \/ \E a \in Agents : AgentCrash(a) \/ EvictQueue(a)
             \/ \E c \in Conns : RequestFails(c) \/ ClientTimeout(c)
             \/ BackendCrash
      PROVE  FALSE
  BY <1>1, <1>5 DEF CreateFails, CancelAuditFails, PushedTaskPanics, AgentCrash, EvictQueue,
                    RequestFails, ClientTimeout, BackendCrash
<1>6. QED
  BY <1>2, <1>3, <1>4, <1>5 DEF Next

\* The count of failures only grows.
LEMMA FaultsGrow ==
  ASSUME IInv, [Next]_vars, faults' = 0
  PROVE  faults = 0
<1>1. CASE faults' = faults
  BY <1>1
<1>2. CASE Fault
  BY <1>2 DEF Fault, IInv, TypeOK
<1>3. CASE \E j \in Jobs : (\E row \in AgentRows : CreateCheck(j, row)) \/ CreateStep(j) \/ Cancel(j) \/ CancelAudit(j)
                           \/ \E c \in Conns : Finish(j, c)
  BY <1>1, <1>3 DEF CreateCheck, CreateStep, CreateInsert, CreateAudit, CreatePush, CreatePublish, Cancel, CancelAudit, Finish
<1>4. CASE \E j \in Jobs : CreateFails(j) \/ CancelAuditFails(j) \/ PushedTaskPanics(j)
  BY <1>2, <1>4 DEF CreateFails, CancelAuditFails, PushedTaskPanics
<1>5. CASE \E a \in Agents : AgentCrash(a) \/ EvictQueue(a) \/ \E c \in Conns : SendHeartbeat(a, c) \/ SendPoll(a, c)
  BY <1>1, <1>2, <1>5 DEF AgentCrash, EvictQueue, SendHeartbeat, SendPoll
<1>6. CASE \E c \in Conns : ConnStep(c)
  BY <1>1, <1>6 DEF ConnStep, Pop, MarkQueued, Receive, ProcessResult, PublishResult, ReceiveAck, DropAnswer
<1>7. CASE TimeoutSweep \/ UNCHANGED vars \/ BackendCrash \/ \E c \in Conns : RequestFails(c) \/ ClientTimeout(c)
  BY <1>1, <1>2, <1>7 DEF TimeoutSweep, BackendCrash, RequestFails, ClientTimeout
<1>8. QED
  BY <1>3, <1>4, <1>5, <1>6, <1>7 DEF Next

LEMMA AccountStep ==
  ASSUME IInv, Life, Account, [Next]_vars
  PROVE  Account'
<1>1. FreeSense' /\ CreatedSense'
  BY FreeStep, CreatedStep DEF Account
<1>2. Calm'
  <2>1. SUFFICES ASSUME faults' = 0
                 PROVE  /\ \A c \in Conns : conn'[c].stage # "free" => conn'[c].live
                        /\ \A j \in Jobs : creating'[j] # "failed"
                        /\ \A j \in Jobs : status'[j] \in Open => Somewhere(j)'
                        /\ \A j \in Jobs : status'[j] = "cancelled" => j \in cancelling' \/ Has(audit'[j], "job.cancelled")
    BY DEF Calm
  <2>2. faults = 0
    BY <2>1, FaultsGrow
  <2>3. /\ \A c \in Conns : conn[c].stage # "free" => conn[c].live
        /\ \A j \in Jobs : creating[j] # "failed"
        /\ \A j \in Jobs : status[j] \in Open => Somewhere(j)
        /\ \A j \in Jobs : status[j] = "cancelled" => j \in cancelling \/ Has(audit[j], "job.cancelled")
    BY <2>2 DEF Account, Calm
  <2>4. \A c \in Conns : conn'[c].stage # "free" => conn'[c].live
    BY <2>1, <2>3, ConnMoves DEF FreeConn
  <2>5. \A j \in Jobs : creating'[j] # "failed"
    BY <2>1, <2>2, <2>3, NoneFailed
  <2>6. \A j \in Jobs : status'[j] \in Open => Somewhere(j)'
    BY <2>1, <2>2, <2>3, PlacesKept DEF Account
  <2>7. \A j \in Jobs : status'[j] = "cancelled" => j \in cancelling' \/ Has(audit'[j], "job.cancelled")
    BY <2>1, <2>2, <2>3, CancelsKept
  <2>8. QED
    BY <2>4, <2>5, <2>6, <2>7
<1>3. QED
  BY <1>1, <1>2 DEF Account

LEMMA InitAccount == Init => Account
  BY DEF Init, Account, FreeSense, CreatedSense, Calm, FreeConn, Open

\* The third invariant holds in every state the system reaches.
THEOREM Accounted == Spec => []Account
<1>1. IInv /\ Life /\ Account /\ [Next]_vars => Account'
  BY AccountStep
<1>2. QED
  BY InitAccount, Inductive, Lives, <1>1, PTL DEF Spec

\* Until something fails no accepted job is lost between createJob, the list, the
\* responses, the agent's tasks and the reports.
THEOREM NoJobIsLost == Spec => []NothingLost
<1>1. IInv /\ Account => NothingLost
  <2>1. SUFFICES ASSUME IInv, Account, faults = 0, NEW j \in Jobs, status[j] \in Open
                 PROVE  \/ creating[j] \in {"inserted", "audited"} \/ Queued(j) \/ executing[j] # "no"
                        \/ \E c \in Conns : Carries(c, j) \/ Reporting(c, j)
    BY DEF NothingLost, Open
  <2>2. Somewhere(j)
    BY <2>1 DEF Account, Calm
  <2>3. InList(j) => Queued(j)
    BY <2>1 DEF InList, Queued, IInv, TypeOK
  <2>4. QED
    BY <2>2, <2>3 DEF Somewhere
<1>2. QED
  BY Inductive, Accounted, <1>1, PTL

\* Until something fails the audit trail has the creation, the cancellation and the
\* verdict of every job, although the three are written by three handlers.
THEOREM TrailHasEveryStep == Spec => []TrailIsComplete
<1>1. IInv /\ Life /\ Account => TrailIsComplete
  <2>1. SUFFICES ASSUME IInv, Life, Account, faults = 0, NEW j \in Jobs
                 PROVE  /\ creating[j] = "done" \/ Queued(j) \/ starts[j] > 0 => Audited(j, "job.created")
                        /\ status[j] = "cancelled" => j \in cancelling \/ Audited(j, "job.cancelled")
                        /\ result[j] # "none" => Audited(j, "job.completed") \/ Audited(j, "job.failed")
    BY DEF TrailIsComplete
  <2>2. \A x : Has(audit[j], x) => Audited(j, x)
    BY <2>1 DEF Has, Audited, IInv, TypeOK
  <2>3. creating[j] = "done" \/ Queued(j) \/ starts[j] > 0 => creating[j] \in {"pushed", "done"}
    <3>1. Queued(j) => InList(j)
      BY <2>1 DEF InList, Queued, IInv, TypeOK
    <3>2. Queued(j) \/ starts[j] > 0 => creating[j] \in Past
      BY <2>1, <3>1, Known
    <3>3. creating[j] # "failed"
      BY <2>1 DEF Account, Calm
    <3>4. QED
      BY <3>2, <3>3 DEF Past
  <2>4. creating[j] \in {"pushed", "done"} => Has(audit[j], "job.created")
    BY <2>1 DEF Account, CreatedSense
  <2>5. status[j] = "cancelled" => j \in cancelling \/ Has(audit[j], "job.cancelled")
    BY <2>1 DEF Account, Calm
  <2>6. result[j] # "none" => Has(audit[j], "job.completed") \/ Has(audit[j], "job.failed")
    <3>1. result[j] # "none" => JudgedOnce(audit[j], Verdict(result[j]))
      BY <2>1 DEF Life, AuditSense
    <3>2. QED
      BY <3>1 DEF JudgedOnce, Verdict, Has
  <2>7. QED
    BY <2>2, <2>3, <2>4, <2>5, <2>6
<1>2. QED
  BY Inductive, Lives, Accounted, <1>1, PTL


-----------------------------------------------------------------------------
(* The agent's loops.                                                      *)

\* The requests of a kind that an agent waits for, and the jobs its poll loop runs.
Waiting(a, kind) == {c \in Conns : conn[c].live /\ conn[c].agent = a /\ conn[c].kind = kind}
Polled(a) == {j \in Jobs : Target[j] = a /\ executing[j] = "polled"}

\* A loop that waits waits for exactly one thing, and nothing is there for one that does not.
Exactly(waits, S) == IF waits THEN \E x \in S : S = {x} ELSE S = {}
LoopSense ==
  \A a \in Agents :
    /\ Exactly(beating[a], Waiting(a, "heartbeat"))
    /\ Exactly(polling[a] = "waiting", Waiting(a, "poll"))
    /\ Exactly(polling[a] = "reporting", Waiting(a, "polled_result"))
    /\ Exactly(polling[a] = "executing", Polled(a))

\* What a connection is in use for; a report is its agent's own.
UseSense ==
  \A c \in Conns :
    /\ conn[c].stage = "free" => ~conn[c].live
    /\ conn[c].stage # "free" => conn[c].kind # "none"
    /\ conn[c].kind \in Reports => conn[c].job \in Jobs /\ conn[c].agent = Target[conn[c].job]

Loops == LoopSense /\ UseSense

\* A handler that goes on changes nothing about who waits for it.
LEMMA WaitingSame ==
  ASSUME TypeOK, NEW c \in Conns, NEW stage, NEW j, conn' = [conn EXCEPT ![c] = At(conn[c], stage, j)],
         NEW a, NEW kind
  PROVE  Waiting(a, kind)' = Waiting(a, kind)
BY DEF Waiting, TypeOK, At

\* A request that has ended, or is given up, is waited for no more.
LEMMA WaitingEnds ==
  ASSUME TypeOK, NEW c \in Conns, NEW a, NEW kind,
         conn' = [conn EXCEPT ![c] = FreeConn] \/ conn' = [conn EXCEPT ![c] = GivenUp(conn[c])]
  PROVE  Waiting(a, kind)' = Waiting(a, kind) \ {c}
BY DEF Waiting, TypeOK, FreeConn, GivenUp

\* A request that is sent is waited for.
LEMMA WaitingBegins ==
  ASSUME TypeOK, UseSense, NEW c \in Conns, NEW stage, NEW sort, NEW b, NEW j, NEW o,
         Send(c, stage, sort, b, j, o), NEW a, NEW kind
  PROVE  Waiting(a, kind)' = IF a = b /\ kind = sort THEN Waiting(a, kind) \union {c} ELSE Waiting(a, kind)
<1> DEFINE r == [stage |-> stage, kind |-> sort, agent |-> b, job |-> j, outcome |-> o, live |-> TRUE]
<1>1. conn' = [conn EXCEPT ![c] = r] /\ ~conn[c].live
  BY DEF Send, UseSense
<1>2. \A d \in Conns : conn'[d] = IF d = c THEN r ELSE conn[d]
  BY <1>1 DEF TypeOK
<1>3. r.live /\ r.agent = b /\ r.kind = sort
  OBVIOUS
<1> HIDE DEF r
<1> QED BY <1>1, <1>2, <1>3 DEF Waiting

\* One that does not wait, and one that is the only one.
LEMMA ExactlyIs ==
  ASSUME NEW waits \in BOOLEAN, NEW S, Exactly(waits, S)
  PROVE  /\ ~waits => S = {}
         /\ \A x \in S : waits /\ S = {x}
BY DEF Exactly

\* What the loops can see is as it was.
LEMMA LoopsSame ==
  ASSUME LoopSense, UNCHANGED <<beating, polling>>,
         \A a \in Agents : Polled(a)' = Polled(a) /\ \A kind : Waiting(a, kind)' = Waiting(a, kind)
  PROVE  LoopSense'
BY DEF LoopSense, Exactly

\* A request ends for the loop that waits for it, or is given up, and the loop goes on.
LEMMA LoopsReleased ==
  ASSUME TypeOK, LoopSense, NEW c \in Conns, Released(c), UNCHANGED executing,
         conn' = [conn EXCEPT ![c] = FreeConn] \/ conn' = [conn EXCEPT ![c] = GivenUp(conn[c])]
  PROVE  LoopSense'
<1> SUFFICES ASSUME NEW a \in Agents
             PROVE  /\ Exactly(beating'[a], Waiting(a, "heartbeat")')
                    /\ Exactly(polling'[a] = "waiting", Waiting(a, "poll")')
                    /\ Exactly(polling'[a] = "reporting", Waiting(a, "polled_result")')
                    /\ Exactly(polling'[a] = "executing", Polled(a)')
  BY DEF LoopSense
<1>1. \A kind : Waiting(a, kind)' = Waiting(a, kind) \ {c}
  BY WaitingEnds
<1>2. Polled(a)' = Polled(a)
  BY DEF Polled
<1>3. /\ Exactly(beating[a], Waiting(a, "heartbeat"))
      /\ Exactly(polling[a] = "waiting", Waiting(a, "poll"))
      /\ Exactly(polling[a] = "reporting", Waiting(a, "polled_result"))
      /\ Exactly(polling[a] = "executing", Polled(a))
  BY DEF LoopSense
<1>4. \A kind : c \in Waiting(a, kind) <=> conn[c].live /\ conn[c].agent = a /\ conn[c].kind = kind
  BY DEF Waiting
<1>5. beating'[a] = IF c \in Waiting(a, "heartbeat") THEN FALSE ELSE beating[a]
  BY <1>4 DEF Released, TypeOK
<1>6. polling'[a] = IF c \in Waiting(a, "poll") \/ c \in Waiting(a, "polled_result") THEN "idle" ELSE polling[a]
  BY <1>4 DEF Released, TypeOK
<1>7. Exactly(beating'[a], Waiting(a, "heartbeat")')
  BY <1>1, <1>3, <1>5 DEF Exactly
<1>8. Exactly(polling'[a] = "waiting", Waiting(a, "poll")')
  BY <1>1, <1>3, <1>6 DEF Exactly
<1>9. Exactly(polling'[a] = "reporting", Waiting(a, "polled_result")')
  BY <1>1, <1>3, <1>6 DEF Exactly
<1>10. Exactly(polling'[a] = "executing", Polled(a)')
  BY <1>2, <1>3, <1>6 DEF Exactly
<1> QED BY <1>7, <1>8, <1>9, <1>10

\* A loop sends its request.
LEMMA LoopsSend ==
  ASSUME TypeOK, Loops, NEW b \in Agents, NEW c \in Conns, SendHeartbeat(b, c) \/ SendPoll(b, c)
  PROVE  LoopSense'
<1> SUFFICES ASSUME NEW a \in Agents
             PROVE  /\ Exactly(beating'[a], Waiting(a, "heartbeat")')
                    /\ Exactly(polling'[a] = "waiting", Waiting(a, "poll")')
                    /\ Exactly(polling'[a] = "reporting", Waiting(a, "polled_result")')
                    /\ Exactly(polling'[a] = "executing", Polled(a)')
  BY DEF LoopSense
<1>1. /\ Exactly(beating[a], Waiting(a, "heartbeat"))
      /\ Exactly(polling[a] = "waiting", Waiting(a, "poll"))
      /\ Exactly(polling[a] = "reporting", Waiting(a, "polled_result"))
      /\ Exactly(polling[a] = "executing", Polled(a))
  BY DEF Loops, LoopSense
<1>2. Polled(a)' = Polled(a)
  BY DEF SendHeartbeat, SendPoll, Polled
<1>3. CASE SendHeartbeat(b, c)
  <2>1. \A kind : Waiting(a, kind)' = IF a = b /\ kind = "heartbeat" THEN Waiting(a, kind) \union {c} ELSE Waiting(a, kind)
    BY <1>3, WaitingBegins DEF SendHeartbeat, Loops
  <2>2. ~beating[b] /\ beating' = [beating EXCEPT ![b] = TRUE] /\ polling' = polling
    BY <1>3 DEF SendHeartbeat
  <2>3. CASE a = b
    <3>1. beating'[a] = TRUE /\ Waiting(a, "heartbeat") = {} /\ Waiting(a, "heartbeat")' = {c}
      BY <1>1, <2>1, <2>2, <2>3 DEF Exactly, TypeOK
    <3>2. Exactly(beating'[a], Waiting(a, "heartbeat")')
      BY <3>1 DEF Exactly
    <3> QED BY <1>1, <1>2, <2>1, <2>2, <3>2
  <2>4. CASE a # b
    <3>1. beating'[a] = beating[a] /\ \A kind : Waiting(a, kind)' = Waiting(a, kind)
      BY <2>1, <2>2, <2>4 DEF TypeOK
    <3> QED BY <1>1, <1>2, <2>2, <3>1
  <2> QED BY <2>3, <2>4
<1>4. CASE SendPoll(b, c)
  <2>1. \A kind : Waiting(a, kind)' = IF a = b /\ kind = "poll" THEN Waiting(a, kind) \union {c} ELSE Waiting(a, kind)
    BY <1>4, WaitingBegins DEF SendPoll, Loops
  <2>2. polling[b] = "idle" /\ polling' = [polling EXCEPT ![b] = "waiting"] /\ beating' = beating
    BY <1>4 DEF SendPoll
  <2>3. CASE a = b
    <3>1. polling'[a] = "waiting" /\ Waiting(a, "poll") = {} /\ Waiting(a, "poll")' = {c}
      BY <1>1, <2>1, <2>2, <2>3 DEF Exactly, TypeOK
    <3>2. Waiting(a, "polled_result")' = {} /\ Polled(a)' = {} /\ Waiting(a, "heartbeat")' = Waiting(a, "heartbeat")
      BY <1>1, <1>2, <2>1, <2>2, <2>3 DEF Exactly
    <3> QED BY <1>1, <2>2, <3>1, <3>2 DEF Exactly
  <2>4. CASE a # b
    <3>1. polling'[a] = polling[a] /\ \A kind : Waiting(a, kind)' = Waiting(a, kind)
      BY <2>1, <2>2, <2>4 DEF TypeOK
    <3> QED BY <1>1, <1>2, <2>2, <3>1
  <2> QED BY <2>3, <2>4
<1> QED BY <1>3, <1>4

\* A job ends: its report is now what the poll loop waits for, if the loop ran it.
LEMMA LoopsFinish ==
  ASSUME TypeOK, Loops, NEW j \in Jobs, NEW c \in Conns, Finish(j, c)
  PROVE  LoopSense'
<1> SUFFICES ASSUME NEW a \in Agents
             PROVE  /\ Exactly(beating'[a], Waiting(a, "heartbeat")')
                    /\ Exactly(polling'[a] = "waiting", Waiting(a, "poll")')
                    /\ Exactly(polling'[a] = "reporting", Waiting(a, "polled_result")')
                    /\ Exactly(polling'[a] = "executing", Polled(a)')
  BY DEF LoopSense
<1> DEFINE b == Target[j]
           sort == IF executing[j] = "polled" THEN "polled_result" ELSE "pushed_result"
<1>1. /\ Exactly(beating[a], Waiting(a, "heartbeat"))
      /\ Exactly(polling[a] = "waiting", Waiting(a, "poll"))
      /\ Exactly(polling[a] = "reporting", Waiting(a, "polled_result"))
      /\ Exactly(polling[a] = "executing", Polled(a))
  BY DEF Loops, LoopSense
<1>2. \A kind : Waiting(a, kind)' = IF a = b /\ kind = sort THEN Waiting(a, kind) \union {c} ELSE Waiting(a, kind)
  <2>1. PICK o : Send(c, "reporting", sort, b, j, o)
    BY DEF Finish
  <2> HIDE DEF b, sort
  <2> QED BY <2>1, WaitingBegins DEF Loops
<1>3. Polled(a)' = Polled(a) \ {j} /\ b \in Agents
  BY DEF Finish, TypeOK, Polled
<1>4. beating' = beating /\ Waiting(a, "heartbeat")' = Waiting(a, "heartbeat") /\ Waiting(a, "poll")' = Waiting(a, "poll")
  BY <1>2 DEF Finish
<1>5. CASE executing[j] = "polled" /\ a = b
  <2>1. j \in Polled(a)
    BY <1>5 DEF Polled
  <2>2. polling[a] = "executing" /\ Polled(a) = {j} /\ Waiting(a, "polled_result") = {} /\ Waiting(a, "poll") = {}
    BY <1>1, <2>1 DEF Exactly
  <2>3. polling'[a] = "reporting" /\ Polled(a)' = {} /\ Waiting(a, "polled_result")' = {c}
    BY <1>2, <1>3, <1>5, <2>2 DEF Finish, TypeOK
  <2>4. Exactly(polling'[a] = "reporting", Waiting(a, "polled_result")')
    BY <2>3 DEF Exactly
  <2>5. Exactly(polling'[a] = "waiting", Waiting(a, "poll")') /\ Exactly(polling'[a] = "executing", Polled(a)')
    BY <1>4, <2>2, <2>3 DEF Exactly
  <2> QED BY <1>1, <1>4, <2>4, <2>5
<1>6. CASE ~(executing[j] = "polled" /\ a = b)
  <2>1. j \notin Polled(a) /\ polling'[a] = polling[a]
    BY <1>6 DEF Polled, Finish, TypeOK
  <2>2. Polled(a)' = Polled(a) /\ Waiting(a, "polled_result")' = Waiting(a, "polled_result")
    BY <1>2, <1>3, <1>6, <2>1
  <2> QED BY <1>1, <1>4, <2>1, <2>2
<1> QED BY <1>5, <1>6

\* A response arrives: the loop has its answer, and the poll loop its job, if there is one.
LEMMA LoopsReceive ==
  ASSUME IInv, Life, Loops, NEW c \in Conns, Receive(c)
  PROVE  LoopSense'
<1> SUFFICES ASSUME NEW a \in Agents
             PROVE  /\ Exactly(beating'[a], Waiting(a, "heartbeat")')
                    /\ Exactly(polling'[a] = "waiting", Waiting(a, "poll")')
                    /\ Exactly(polling'[a] = "reporting", Waiting(a, "polled_result")')
                    /\ Exactly(polling'[a] = "executing", Polled(a)')
  BY DEF LoopSense
<1> DEFINE b == conn[c].agent
           j == conn[c].job
<1>1. /\ Exactly(beating[a], Waiting(a, "heartbeat"))
      /\ Exactly(polling[a] = "waiting", Waiting(a, "poll"))
      /\ Exactly(polling[a] = "reporting", Waiting(a, "polled_result"))
      /\ Exactly(polling[a] = "executing", Polled(a))
  BY DEF Loops, LoopSense
<1>2. TypeOK /\ b \in Agents /\ conn[c].kind \in Deliveries /\ conn[c].live /\ j \in Jobs \union {NoJob}
  BY JobType DEF Receive, IInv, ConnSense, Sensible
<1>3. \A kind : Waiting(a, kind)' = Waiting(a, kind) \ {c}
  BY <1>2, WaitingEnds DEF Receive, Closed
<1>4. \A kind : c \in Waiting(a, kind) <=> a = b /\ kind = conn[c].kind
  BY <1>2 DEF Waiting
<1>5. j # NoJob => j \in Jobs /\ Target[j] = b /\ executing[j] = "no"
  <2>1. SUFFICES ASSUME j # NoJob PROVE Target[j] = b /\ executing[j] = "no"
    BY <1>2
  <2>2. Carries(c, j) /\ j \in Jobs
    BY <1>2, <2>1 DEF Carries
  <2>3. Target[j] = b /\ starts[j] = 0
    BY <2>2 DEF IInv, Handed, CarriedSense
  <2>4. executing[j] # "no" => starts[j] = 1
    BY <2>2 DEF Life, RunSense
  <2> QED BY <2>3, <2>4
<1>6. CASE conn[c].kind = "heartbeat"
  <2>1. polling' = polling /\ beating' = [beating EXCEPT ![b] = FALSE]
        /\ (executing' = executing \/ (j # NoJob /\ executing' = [executing EXCEPT ![j] = "pushed"]))
    BY <1>6 DEF Receive, Takes
  <2>2. Polled(a)' = Polled(a)
    BY <1>2, <1>5, <2>1 DEF Polled, TypeOK
  <2>3. Waiting(a, "poll")' = Waiting(a, "poll") /\ Waiting(a, "polled_result")' = Waiting(a, "polled_result")
    BY <1>3, <1>4, <1>6
  <2>4. Exactly(beating'[a], Waiting(a, "heartbeat")')
    <3>1. CASE a = b
      <4>1. Waiting(a, "heartbeat")' = {} /\ beating'[a] = FALSE
        BY <1>1, <1>2, <1>3, <1>4, <1>6, <2>1, <3>1 DEF Exactly, TypeOK
      <4> QED BY <4>1 DEF Exactly
    <3>2. CASE a # b
      <4>1. Waiting(a, "heartbeat")' = Waiting(a, "heartbeat")
        BY <1>3, <1>4, <3>2
      <4>2. beating'[a] = beating[a]
        BY <1>2, <2>1, <3>2 DEF TypeOK
      <4> QED BY <1>1, <4>1, <4>2
    <3> QED BY <3>1, <3>2
  <2> QED BY <1>1, <2>1, <2>2, <2>3, <2>4
<1>7. CASE conn[c].kind = "poll"
  <2>1. beating' = beating /\ polling' = [polling EXCEPT ![b] = IF j # NoJob THEN "executing" ELSE "idle"]
        /\ IF j # NoJob THEN executing' = [executing EXCEPT ![j] = "polled"] ELSE executing' = executing
    BY <1>7 DEF Receive, Takes
  <2>2. Waiting(a, "heartbeat")' = Waiting(a, "heartbeat") /\ Waiting(a, "polled_result")' = Waiting(a, "polled_result")
    <3>1. c \notin Waiting(a, "heartbeat") /\ c \notin Waiting(a, "polled_result")
      BY <1>4, <1>7
    <3> QED BY <1>3, <3>1
  <2>3. Polled(a)' = IF j # NoJob /\ a = b THEN Polled(a) \union {j} ELSE Polled(a)
    <3>1. CASE j # NoJob
      BY <1>2, <1>5, <2>1, <3>1 DEF Polled, TypeOK
    <3>2. CASE j = NoJob
      BY <2>1, <3>2 DEF Polled
    <3> QED BY <3>1, <3>2
  <2>4. CASE a = b
    <3>1. polling[a] = "waiting" /\ Waiting(a, "poll")' = {} /\ Polled(a) = {} /\ Waiting(a, "polled_result") = {}
      BY <1>1, <1>3, <1>4, <1>7, <2>4 DEF Exactly
    <3>2. polling'[a] = IF j # NoJob THEN "executing" ELSE "idle"
      BY <1>2, <2>1, <2>4 DEF TypeOK
    <3>3. Polled(a)' = IF j # NoJob THEN {j} ELSE {}
      BY <2>3, <2>4, <3>1
    <3> HIDE DEF j
    <3>4. Exactly(polling'[a] = "executing", Polled(a)')
      BY <3>2, <3>3 DEF Exactly
    <3>5. Exactly(polling'[a] = "waiting", Waiting(a, "poll")') /\ Exactly(polling'[a] = "reporting", Waiting(a, "polled_result")')
      BY <2>2, <3>1, <3>2 DEF Exactly
    <3> QED BY <1>1, <2>1, <2>2, <3>4, <3>5
  <2>5. CASE a # b
    <3>1. Waiting(a, "poll")' = Waiting(a, "poll")
      BY <1>3, <1>4, <2>5
    <3>2. Polled(a)' = Polled(a) /\ polling'[a] = polling[a]
      BY <1>2, <2>1, <2>3, <2>5 DEF TypeOK
    <3> QED BY <1>1, <2>1, <2>2, <3>1, <3>2
  <2> QED BY <2>4, <2>5
<1> QED BY <1>2, <1>6, <1>7 DEF Deliveries

\* An agent that starts again waits for nothing; of a backend that exits nothing is
\* waited for, while the jobs go on.
LEMMA LoopsCrash ==
  ASSUME TypeOK, LoopSense, BackendCrash \/ \E b \in Agents : AgentCrash(b)
  PROVE  LoopSense'
<1> SUFFICES ASSUME NEW a \in Agents
             PROVE  /\ Exactly(beating'[a], Waiting(a, "heartbeat")')
                    /\ Exactly(polling'[a] = "waiting", Waiting(a, "poll")')
                    /\ Exactly(polling'[a] = "reporting", Waiting(a, "polled_result")')
                    /\ Exactly(polling'[a] = "executing", Polled(a)')
  BY DEF LoopSense
<1>1. /\ Exactly(beating[a], Waiting(a, "heartbeat"))
      /\ Exactly(polling[a] = "waiting", Waiting(a, "poll"))
      /\ Exactly(polling[a] = "reporting", Waiting(a, "polled_result"))
      /\ Exactly(polling[a] = "executing", Polled(a))
  BY DEF LoopSense
<1>2. CASE BackendCrash
  <2>1. \A kind : Waiting(a, kind)' = {}
    BY <1>2 DEF BackendCrash, Waiting, FreeConn
  <2>2. Polled(a)' = Polled(a) /\ beating'[a] = FALSE /\ polling'[a] = IF polling[a] = "executing" THEN "executing" ELSE "idle"
    BY <1>2 DEF BackendCrash, Polled
  <2>3. Exactly(beating'[a], Waiting(a, "heartbeat")')
    BY <2>1, <2>2 DEF Exactly
  <2> QED BY <1>1, <2>1, <2>2, <2>3 DEF Exactly
<1>3. CASE AgentCrash(a)
  <2>1. \A kind : Waiting(a, kind)' = {}
    BY <1>3 DEF AgentCrash, Waiting, GivenUp
  <2>2. Polled(a)' = {} /\ beating'[a] = FALSE /\ polling'[a] = "idle"
    BY <1>3 DEF AgentCrash, Polled, TypeOK
  <2>3. Exactly(beating'[a], Waiting(a, "heartbeat")')
    BY <2>1, <2>2 DEF Exactly
  <2> QED BY <2>1, <2>2, <2>3 DEF Exactly
<1>4. ASSUME NEW b \in Agents \ {a}, AgentCrash(b)
      PROVE  /\ beating'[a] = beating[a] /\ polling'[a] = polling[a] /\ Polled(a)' = Polled(a)
             /\ \A kind : Waiting(a, kind)' = Waiting(a, kind)
  <2>1. beating'[a] = beating[a] /\ polling'[a] = polling[a]
    <3>1. beating' = [beating EXCEPT ![b] = FALSE] /\ polling' = [polling EXCEPT ![b] = "idle"]
      BY <1>4 DEF AgentCrash
    <3> QED BY <1>4, <3>1 DEF TypeOK
  <2>2. Polled(a)' = Polled(a)
    BY <1>4 DEF AgentCrash, Polled
  <2>3. \A kind : Waiting(a, kind)' = Waiting(a, kind)
    BY <1>4 DEF AgentCrash, Waiting, GivenUp
  <2> QED BY <2>1, <2>2, <2>3
<1>5. CASE \E b \in Agents \ {a} : AgentCrash(b)
  BY <1>1, <1>4, <1>5
<1> QED BY <1>2, <1>3, <1>5

\* What every other step leaves alone.
LEMMA LoopsOther ==
  ASSUME IInv, Loops,
         \/ \E j \in Jobs : \/ \E row \in AgentRows : CreateCheck(j, row)
                            \/ CreateStep(j) \/ Cancel(j) \/ CancelAudit(j)
                            \/ CreateFails(j) \/ CancelAuditFails(j) \/ PushedTaskPanics(j)
         \/ \E a \in Agents : EvictQueue(a)
         \/ TimeoutSweep
         \/ UNCHANGED vars
  PROVE  Loops'
<1>1. UNCHANGED <<conn, beating, polling>>
  BY DEF CreateCheck, CreateStep, CreateInsert, CreateAudit, CreatePush, CreatePublish, Cancel, CancelAudit,
         CreateFails, CancelAuditFails, PushedTaskPanics, EvictQueue, TimeoutSweep
<1>2. \A a \in Agents : Polled(a)' = Polled(a)
  <2>1. CASE UNCHANGED executing
    BY <2>1 DEF Polled
  <2>2. CASE \E j \in Jobs : PushedTaskPanics(j)
    BY <2>2 DEF PushedTaskPanics, Polled, IInv, TypeOK
  <2> QED BY <2>1, <2>2 DEF CreateCheck, CreateStep, CreateInsert, CreateAudit, CreatePush, CreatePublish, Cancel,
                CancelAudit, CreateFails, CancelAuditFails, EvictQueue, TimeoutSweep
<1>3. \A a \in Agents : \A kind : Waiting(a, kind)' = Waiting(a, kind)
  BY <1>1 DEF Waiting
<1>4. LoopSense'
  BY <1>1, <1>2, <1>3, LoopsSame DEF Loops
<1>5. UseSense'
  BY <1>1 DEF Loops, UseSense
<1> QED BY <1>4, <1>5 DEF Loops

\* A connection is opened for a request, moved on with its job, given up or given back.
LEMMA UseMoves ==
  ASSUME TypeOK, UseSense, NEW c \in Conns, NEW r,
         conn' = [conn EXCEPT ![c] = r],
         r.stage = "free" => ~r.live,
         r.stage # "free" => r.kind # "none",
         r.kind \in Reports => r.job \in Jobs /\ r.agent = Target[r.job]
  PROVE  UseSense'
<1>1. \A d \in Conns : conn'[d] = IF d = c THEN r ELSE conn[d]
  BY DEF TypeOK
<1> QED BY <1>1 DEF UseSense

LEMMA UseGoesOn ==
  ASSUME TypeOK, UseSense, NEW c \in Conns, NEW stage \in Stages \ {"free"}, NEW j,
         conn' = [conn EXCEPT ![c] = At(conn[c], stage, j)], conn[c].stage # "free",
         conn[c].kind \in Reports => j = conn[c].job
  PROVE  UseSense'
<1> DEFINE r == At(conn[c], stage, j)
<1>1. r.stage = stage /\ r.kind = conn[c].kind /\ r.agent = conn[c].agent /\ r.job = j
  BY DEF At
<1>2. /\ conn[c].kind # "none"
      /\ conn[c].kind \in Reports => conn[c].job \in Jobs /\ conn[c].agent = Target[conn[c].job]
  BY DEF UseSense
<1>3. conn' = [conn EXCEPT ![c] = r] /\ stage # "free"
  OBVIOUS
<1> HIDE DEF r
<1>4. r.stage # "free" /\ r.kind # "none"
  BY <1>1, <1>2, <1>3
<1>5. r.kind \in Reports => r.job \in Jobs /\ r.agent = Target[r.job]
  BY <1>1, <1>2
<1> QED BY <1>3, <1>4, <1>5, UseMoves

LEMMA UseEnds ==
  ASSUME TypeOK, UseSense, NEW c \in Conns,
         conn' = [conn EXCEPT ![c] = FreeConn] \/ conn' = [conn EXCEPT ![c] = GivenUp(conn[c])]
  PROVE  UseSense'
<1>1. CASE conn' = [conn EXCEPT ![c] = FreeConn]
  <2>1. FreeConn.stage = "free" /\ ~FreeConn.live /\ FreeConn.kind \notin Reports
    BY DEF FreeConn, Reports
  <2> QED BY <1>1, <2>1, UseMoves
<1>2. CASE conn' = [conn EXCEPT ![c] = GivenUp(conn[c])]
  <2> DEFINE r == GivenUp(conn[c])
  <2>1. /\ r.stage = conn[c].stage /\ r.kind = conn[c].kind /\ r.agent = conn[c].agent
        /\ r.job = conn[c].job /\ ~r.live
    BY DEF GivenUp
  <2>2. /\ conn[c].stage # "free" => conn[c].kind # "none"
        /\ conn[c].kind \in Reports => conn[c].job \in Jobs /\ conn[c].agent = Target[conn[c].job]
    BY DEF UseSense
  <2>3. conn' = [conn EXCEPT ![c] = r]
    BY <1>2
  <2> HIDE DEF r
  <2> QED BY <2>1, <2>2, <2>3, UseMoves
<1> QED BY <1>1, <1>2

LEMMA UseBegins ==
  ASSUME TypeOK, UseSense, NEW c \in Conns, NEW stage \in {"asking", "reporting"},
         NEW kind \in Deliveries \union Reports, NEW a, NEW j, NEW o, Send(c, stage, kind, a, j, o),
         kind \in Reports => j \in Jobs /\ a = Target[j]
  PROVE  UseSense'
<1> DEFINE r == [stage |-> stage, kind |-> kind, agent |-> a, job |-> j, outcome |-> o, live |-> TRUE]
<1>1. conn' = [conn EXCEPT ![c] = r]
  BY DEF Send
<1>2. r.stage # "free" /\ r.kind = kind /\ kind # "none" /\ r.job = j /\ r.agent = a
  BY DEF Deliveries, Reports
<1> HIDE DEF r
<1> QED BY <1>1, <1>2, UseMoves

\* Every step keeps what is said about the loops.
LEMMA LoopsStep ==
  ASSUME IInv, Life, Loops, [Next]_vars
  PROVE  Loops'
<1>1. TypeOK /\ LoopSense /\ UseSense
  BY DEF IInv, Loops
<1>2. ASSUME NEW a \in Agents, NEW c \in Conns, SendHeartbeat(a, c) \/ SendPoll(a, c) PROVE Loops'
  <2>1. UseSense'
    BY <1>1, <1>2, UseBegins DEF SendHeartbeat, SendPoll, Deliveries, Reports
  <2> QED BY <1>1, <1>2, <2>1, LoopsSend DEF Loops
<1>3. ASSUME NEW j \in Jobs, NEW c \in Conns, Finish(j, c) PROVE Loops'
  <2>1. UseSense'
    <3>1. PICK o : Send(c, "reporting", IF executing[j] = "polled" THEN "polled_result" ELSE "pushed_result",
                        Target[j], j, o)
      BY <1>3 DEF Finish
    <3> QED BY <1>1, <3>1, UseBegins DEF Reports
  <2> QED BY <1>1, <1>3, <2>1, LoopsFinish DEF Loops
<1>4. ASSUME NEW c \in Conns, Pop(c) \/ MarkQueued(c) \/ ProcessResult(c) \/ PublishResult(c) PROVE Loops'
  <2>1. /\ conn[c].stage # "free" /\ UNCHANGED <<beating, polling, executing>>
        /\ \E stage \in Stages \ {"free"} : \E j :
             /\ conn' = [conn EXCEPT ![c] = At(conn[c], stage, j)]
             /\ conn[c].kind \in Reports => j = conn[c].job
    <3>1. conn[c].stage = "asking" => conn[c].kind \notin Reports
      BY DEF IInv, ConnSense, Sensible, Deliveries, Reports
    <3> QED BY <1>4, <3>1 DEF Pop, MarkQueued, ProcessResult, PublishResult, Stages
  <2>2. UseSense'
    BY <1>1, <2>1, UseGoesOn
  <2>3. \A a \in Agents : Polled(a)' = Polled(a) /\ \A kind : Waiting(a, kind)' = Waiting(a, kind)
    BY <1>1, <2>1, WaitingSame DEF Polled
  <2> QED BY <1>1, <2>1, <2>2, <2>3, LoopsSame DEF Loops
<1>5. ASSUME NEW c \in Conns, Receive(c) PROVE Loops'
  <2>1. UseSense'
    BY <1>1, <1>5, UseEnds DEF Receive, Closed
  <2> QED BY <1>5, <2>1, LoopsReceive DEF Loops
<1>6. ASSUME NEW c \in Conns, ReceiveAck(c) \/ DropAnswer(c) \/ RequestFails(c) \/ ClientTimeout(c) PROVE Loops'
  <2>1. /\ Released(c) /\ UNCHANGED executing
        /\ conn' = [conn EXCEPT ![c] = FreeConn] \/ conn' = [conn EXCEPT ![c] = GivenUp(conn[c])]
    BY <1>6 DEF ReceiveAck, DropAnswer, RequestFails, ClientTimeout, Closed, Released
  <2> QED BY <1>1, <2>1, UseEnds, LoopsReleased DEF Loops
<1>7. CASE BackendCrash \/ \E b \in Agents : AgentCrash(b)
  <2>1. UseSense'
    <3>1. ASSUME BackendCrash PROVE UseSense'
      BY <3>1 DEF BackendCrash, UseSense, FreeConn, Reports
    <3>2. ASSUME NEW b \in Agents, AgentCrash(b) PROVE UseSense'
      BY <1>1, <3>2 DEF AgentCrash, UseSense, GivenUp
    <3> QED BY <1>7, <3>1, <3>2
  <2> QED BY <1>1, <1>7, <2>1, LoopsCrash DEF Loops
<1>8. QED
  BY <1>2, <1>3, <1>4, <1>5, <1>6, <1>7, LoopsOther DEF Next, ConnStep

LEMMA InitLoops == Init => Loops
<1> SUFFICES ASSUME Init PROVE Loops
  OBVIOUS
<1>1. \A a \in Agents : Polled(a) = {} /\ ~beating[a] /\ polling[a] = "idle"
  BY DEF Init, Polled
<1>2. \A a \in Agents : \A kind : Waiting(a, kind) = {}
  BY DEF Init, Waiting, FreeConn
<1>3. UseSense
  BY DEF Init, UseSense, FreeConn, Reports
<1> QED BY <1>1, <1>2, <1>3 DEF Loops, LoopSense, Exactly

\* An open request can go on, whoever gave it up and whatever was done to its job.
GoesOn(c) ==
  \/ conn[c].stage \in {"free", "asking", "popped", "committed"}
  \/ conn[c].stage = "reporting" /\ status[conn[c].job] # "none" /\ Target[conn[c].job] = conn[c].agent
  \/ conn[c].stage = "answered" /\ (conn[c].live => conn[c].kind \in Deliveries \union Reports)
Unblocked == LoopSense /\ \A c \in Conns : GoesOn(c)

\* No loop of an agent waits for an answer that cannot come: each waits for one open request
\* or one job, through timeouts and crashes of both sides, no request is stuck and no report
\* refused.  It is the safety part of EveryJobFinishes.
THEOREM NoLoopHangs == Spec => []Unblocked
<1>1. IInv /\ Life /\ Loops => Unblocked
  <2>1. SUFFICES ASSUME IInv, Life, Loops, NEW c \in Conns PROVE GoesOn(c)
    BY DEF Unblocked, Loops
  <2>2. conn[c].stage \in Stages /\ conn[c].kind \in Deliveries \union Reports \union {"none"}
    BY <2>1 DEF IInv, TypeOK, Requests
  <2>3. CASE conn[c].stage = "reporting"
    <3>1. conn[c].kind \in Reports /\ conn[c].job \in Jobs
      BY <2>1, <2>3 DEF IInv, ConnSense, Sensible
    <3>2. starts[conn[c].job] = 1
      BY <2>1, <3>1 DEF Life, RunSense, Reporting
    <3>3. status[conn[c].job] # "none"
      BY <2>1, <3>1, <3>2 DEF Life, RowSense
    <3> QED BY <2>1, <2>3, <3>1, <3>3 DEF GoesOn, Loops, UseSense
  <2>4. CASE conn[c].stage # "reporting"
    BY <2>1, <2>2, <2>4 DEF GoesOn, Stages, Loops, UseSense
  <2> QED BY <2>3, <2>4
<1>2. IInv /\ Life /\ Loops /\ [Next]_vars => Loops'
  BY LoopsStep
<1>3. Spec => []Loops
  BY InitLoops, Inductive, Lives, <1>2, PTL DEF Spec
<1> QED BY <1>1, <1>3, Inductive, Lives, PTL

-----------------------------------------------------------------------------
(* A job that is nowhere stays nowhere.                                    *)

\* A job whose createJob has come to the push or to its end, and that is in no list, in no
\* response, with no agent and in no report: it is over, was set aside, or is lost.
Nowhere(j) ==
  /\ creating[j] \in Past
  /\ ~InList(j)
  /\ executing[j] = "no"
  /\ \A c \in Conns : ~Carries(c, j) /\ ~Reporting(c, j)

\* Nothing but a user who cancels it does anything with such a job.
LeftAlone(j) ==
  /\ result'[j] = result[j] /\ starts'[j] = starts[j]
  /\ status'[j] = status[j] \/ Cancel(j)
LostForGood == \A j \in Jobs : Nowhere(j) => Nowhere(j)' /\ LeftAlone(j)

\* What keeps a job nowhere: nothing that leads to it moves.
LEMMA StaysNowhere ==
  ASSUME NEW j \in Jobs, Nowhere(j),
         creating'[j] \in Past, InList(j)' => InList(j), executing'[j] = "no",
         \A c \in Conns : conn'[c] = conn[c] \/ conn'[c].job # j
                          \/ (conn'[c].job = conn[c].job /\ conn'[c].kind = conn[c].kind)
  PROVE  Nowhere(j)'
  BY DEF Nowhere, Carries, Reporting

\* The steps of createJob and cancelJob, and the sweep.
LEMMA NowhereService ==
  ASSUME IInv, Life, NEW j \in Jobs, Nowhere(j),
         \/ \E i \in Jobs : \/ \E row \in AgentRows : CreateCheck(i, row)
                            \/ CreateStep(i) \/ Cancel(i) \/ CancelAudit(i) \/ CreateFails(i) \/ CancelAuditFails(i)
         \/ TimeoutSweep
  PROVE  Nowhere(j)' /\ LeftAlone(j)
<1>1. creating[j] \in Past
  BY DEF Nowhere
<1>2. ASSUME NEW i \in Jobs,
             \/ \E row \in AgentRows : CreateCheck(i, row)
             \/ CreateInsert(i) \/ CreateAudit(i) \/ CreatePublish(i) \/ CreateFails(i)
      PROVE  Nowhere(j)' /\ LeftAlone(j)
  <2>1. UNCHANGED <<result, starts, executing, queue, conn>>
    BY <1>2 DEF CreateCheck, CreateInsert, CreateAudit, CreatePublish, CreateFails
  <2>2. creating'[j] \in Past /\ status'[j] = status[j]
    BY <1>1, <1>2 DEF CreateCheck, CreateInsert, CreateAudit, CreatePublish, CreateFails, Past, IInv, TypeOK
  <2>3. QED
    BY <2>1, <2>2, StaysNowhere DEF LeftAlone, InList, Nowhere
<1>3. ASSUME NEW i \in Jobs, CreatePush(i)
      PROVE  Nowhere(j)' /\ LeftAlone(j)
  <2>1. /\ UNCHANGED <<rows, starts, executing, conn>> /\ i # j /\ creating'[j] = creating[j]
        /\ queue' = [queue EXCEPT ![Target[i]] = Append(queue[Target[i]], i)]
    BY <1>1, <1>3 DEF CreatePush, Past, IInv, TypeOK
  <2>2. ASSUME NEW a \in Agents, NEW k \in 1..Len(queue'[a]), queue'[a][k] = j
        PROVE  \E l \in 1..Len(queue[a]) : queue[a][l] = j
    <3>1. CASE a # Target[i]
      BY <2>1, <2>2, <3>1 DEF IInv, TypeOK
    <3>2. CASE a = Target[i]
      <4>1. queue'[a] = Append(queue[a], i) /\ queue[a] \in Seq(Jobs)
        BY <2>1, <3>2 DEF IInv, TypeOK
      <4>2. QED
        BY <2>1, <2>2, <4>1
    <3>3. QED
      BY <3>1, <3>2
  <2>3. InList(j)' => InList(j)
    BY <2>2 DEF InList
  <2>4. QED
    BY <1>1, <2>1, <2>3, StaysNowhere DEF LeftAlone, Nowhere
<1>4. ASSUME NEW i \in Jobs, Cancel(i) \/ CancelAudit(i) \/ CancelAuditFails(i)
      PROVE  Nowhere(j)' /\ LeftAlone(j)
  <2>1. UNCHANGED <<creating, result, starts, executing, queue, conn>>
    BY <1>4 DEF Cancel, CancelAudit, CancelAuditFails
  <2>2. status'[j] = status[j] \/ Cancel(j)
    BY <1>4 DEF Cancel, CancelAudit, CancelAuditFails, IInv, TypeOK
  <2>3. QED
    BY <1>1, <2>1, <2>2, StaysNowhere DEF LeftAlone, InList, Nowhere
<1>5. CASE TimeoutSweep
  <2>1. {i \in Jobs : status[i] = "running" /\ result[i] # "none"} = {}
    BY DEF Life, RowSense
  <2>2. status' = [i \in Jobs |-> status[i]] /\ UNCHANGED <<result, starts, creating, executing, queue, conn>>
    BY <1>5, <2>1 DEF TimeoutSweep
  <2>3. QED
    BY <1>1, <2>2, StaysNowhere DEF LeftAlone, InList, Nowhere
<1>6. QED
  BY <1>2, <1>3, <1>4, <1>5 DEF CreateStep

\* The handlers that hand jobs out: the job they take off a list, mark or deliver is another.
LEMMA NowhereDelivery ==
  ASSUME IInv, NEW j \in Jobs, Nowhere(j), NEW c \in Conns, Pop(c) \/ MarkQueued(c) \/ Receive(c)
  PROVE  Nowhere(j)' /\ LeftAlone(j)
<1>1. creating[j] \in Past /\ executing[j] = "no" /\ ~InList(j) /\ ~Carries(c, j)
  BY DEF Nowhere
<1>2. CASE Pop(c)
  <2> DEFINE a == conn[c].agent
  <2>1. /\ UNCHANGED <<rows, service, agent>> /\ conn[c].stage = "asking" /\ a \in Agents
        /\ conn[c].kind \in Deliveries /\ queue[a] \in Seq(Jobs)
    BY <1>2 DEF Pop, IInv, TypeOK, ConnSense, Sensible
  <2>2. CASE queue[a] = <<>>
    <3>1. queue' = queue /\ conn' = [conn EXCEPT ![c] = At(conn[c], "answered", conn[c].job)]
      BY <1>2, <2>2 DEF Pop
    <3>2. \A d \in Conns : conn'[d].job = conn[d].job /\ conn'[d].kind = conn[d].kind
      BY <3>1 DEF At, IInv, TypeOK
    <3>3. QED
      BY <1>1, <2>1, <3>1, <3>2, StaysNowhere DEF LeftAlone, InList
  <2>3. CASE queue[a] # <<>>
    <3>1. /\ queue' = [queue EXCEPT ![a] = Tail(queue[a])]
          /\ conn' = [conn EXCEPT ![c] = At(conn[c], "popped", Head(queue[a]))]
      BY <1>2, <2>3 DEF Pop, Popped
    <3>2. Head(queue[a]) # j
      <4>1. 1 \in 1..Len(queue[a]) /\ Head(queue[a]) = queue[a][1]
        BY <2>1, <2>3
      <4>2. QED
        BY <1>1, <2>1, <4>1 DEF InList
    <3>3. \A d \in Conns : conn'[d] = conn[d] \/ conn'[d].job # j
      BY <3>1, <3>2 DEF At, IInv, TypeOK
    <3>4. ASSUME NEW b \in Agents, NEW k \in 1..Len(queue'[b]), queue'[b][k] = j
          PROVE  \E l \in 1..Len(queue[b]) : queue[b][l] = j
      <4>1. CASE b # a
        BY <3>1, <3>4, <4>1 DEF IInv, TypeOK
      <4>2. CASE b = a
        <5>1. queue'[b] = Tail(queue[a])
          BY <2>1, <3>1, <4>2 DEF IInv, TypeOK
        <5>2. k + 1 \in 1..Len(queue[a]) /\ queue[a][k + 1] = j
          BY <2>1, <2>3, <3>4, <5>1
        <5>3. QED
          BY <4>2, <5>2
      <4>3. QED
        BY <4>1, <4>2
    <3>5. InList(j)' => InList(j)
      BY <3>4 DEF InList
    <3>6. QED
      BY <1>1, <2>1, <3>3, <3>5, StaysNowhere DEF LeftAlone
  <2>4. QED
    BY <2>2, <2>3
<1>3. CASE MarkQueued(c)
  <2>1. conn[c].job # j
    BY <1>1, <1>3 DEF MarkQueued, Carries, IInv, ConnSense, Sensible
  <2>2. UNCHANGED <<result, starts, creating, executing, queue>> /\ status'[j] = status[j]
    BY <1>3, <2>1 DEF MarkQueued, IInv, TypeOK
  <2>3. \A d \in Conns : conn'[d].job = conn[d].job /\ conn'[d].kind = conn[d].kind
    BY <1>3 DEF MarkQueued, At, IInv, TypeOK
  <2>4. QED
    BY <1>1, <2>2, <2>3, StaysNowhere DEF LeftAlone, InList
<1>4. CASE Receive(c)
  <2>1. conn[c].job # j
    BY <1>1, <1>4 DEF Receive, Carries
  <2>2. UNCHANGED <<status, result, creating, queue>> /\ executing'[j] = executing[j] /\ starts'[j] = starts[j]
    BY <1>4, <2>1 DEF Receive, IInv, TypeOK
  <2>3. \A d \in Conns : conn'[d] = conn[d] \/ conn'[d].job # j
    BY <1>4 DEF Receive, Closed, FreeConn, IInv, TypeOK
  <2>4. QED
    BY <1>1, <2>2, <2>3, StaysNowhere DEF LeftAlone, InList
<1>5. QED
  BY <1>2, <1>3, <1>4

\* Running and reporting: the job is another.
LEMMA NowhereReport ==
  ASSUME IInv, NEW j \in Jobs, Nowhere(j),
         NEW c \in Conns, ProcessResult(c) \/ PublishResult(c) \/ \E i \in Jobs : Finish(i, c)
  PROVE  Nowhere(j)' /\ LeftAlone(j)
<1>1. creating[j] \in Past /\ executing[j] = "no" /\ ~Reporting(c, j)
  BY DEF Nowhere
<1>2. CASE ProcessResult(c)
  <2>1. conn[c].job # j
    BY <1>1, <1>2 DEF ProcessResult, Reporting, IInv, ConnSense, Sensible
  <2>2. UNCHANGED <<starts, creating, executing, queue>> /\ status'[j] = status[j] /\ result'[j] = result[j]
    BY <1>2, <2>1 DEF ProcessResult, IInv, TypeOK
  <2>3. \A d \in Conns : conn'[d].job = conn[d].job /\ conn'[d].kind = conn[d].kind
    BY <1>2 DEF ProcessResult, At, IInv, TypeOK
  <2>4. QED
    BY <1>1, <2>2, <2>3, StaysNowhere DEF LeftAlone, InList
<1>3. CASE PublishResult(c)
  <2>1. UNCHANGED <<rows, starts, creating, executing, queue>>
    BY <1>3 DEF PublishResult
  <2>2. \A d \in Conns : conn'[d].job = conn[d].job /\ conn'[d].kind = conn[d].kind
    BY <1>3 DEF PublishResult, At, IInv, TypeOK
  <2>3. QED
    BY <1>1, <2>1, <2>2, StaysNowhere DEF LeftAlone, InList
<1>4. ASSUME NEW i \in Jobs, Finish(i, c)
      PROVE  Nowhere(j)' /\ LeftAlone(j)
  <2>1. i # j
    BY <1>1, <1>4 DEF Finish
  <2>2. UNCHANGED <<rows, starts, creating, queue>> /\ executing'[j] = executing[j]
    BY <1>4, <2>1 DEF Finish, IInv, TypeOK
  <2>3. PICK kind \in Reports, o \in OutcomesOf(i) : Send(c, "reporting", kind, Target[i], i, o)
    BY <1>4 DEF Finish, Reports
  <2>4. \A d \in Conns : conn'[d] = conn[d] \/ conn'[d].job # j
    BY <2>1, <2>3 DEF Send, IInv, TypeOK
  <2>5. QED
    BY <1>1, <2>2, <2>4, StaysNowhere DEF LeftAlone, InList
<1>5. QED
  BY <1>2, <1>3, <1>4

\* Requests that are sent, end or are given up, and everything that fails.
LEMMA NowhereOther ==
  ASSUME IInv, NEW j \in Jobs, Nowhere(j),
         \/ \E a \in Agents : EvictQueue(a) \/ AgentCrash(a) \/ \E c \in Conns : SendHeartbeat(a, c) \/ SendPoll(a, c)
         \/ \E i \in Jobs : PushedTaskPanics(i)
         \/ \E c \in Conns : ReceiveAck(c) \/ DropAnswer(c) \/ RequestFails(c) \/ ClientTimeout(c)
         \/ BackendCrash
         \/ UNCHANGED vars
  PROVE  Nowhere(j)' /\ LeftAlone(j)
<1> DEFINE Same == \A c \in Conns : \/ conn'[c] = conn[c] \/ conn'[c].job # j
                                    \/ (conn'[c].job = conn[c].job /\ conn'[c].kind = conn[c].kind)
<1>1. creating[j] \in Past /\ executing[j] = "no" /\ j # NoJob
  BY DEF Nowhere
<1>2. ASSUME NEW a \in Agents, EvictQueue(a)
      PROVE  Nowhere(j)' /\ LeftAlone(j)
  <2>1. UNCHANGED <<rows, starts, creating, executing, conn>>
    BY <1>2 DEF EvictQueue
  <2>2. \A b \in Agents : queue'[b] = <<>> \/ queue'[b] = queue[b]
    BY <1>2 DEF EvictQueue, IInv, TypeOK
  <2>3. InList(j)' => InList(j)
    BY <2>2 DEF InList
  <2>4. QED
    BY <1>1, <2>1, <2>3, StaysNowhere DEF LeftAlone
<1>3. ASSUME UNCHANGED <<rows, starts, queue>>, creating'[j] \in Past, executing'[j] = "no", Same
      PROVE  Nowhere(j)' /\ LeftAlone(j)
  BY <1>3, StaysNowhere DEF LeftAlone, InList
<1>4. ASSUME NEW a \in Agents, NEW c \in Conns, SendHeartbeat(a, c) \/ SendPoll(a, c)
      PROVE  Nowhere(j)' /\ LeftAlone(j)
  <2>1. PICK kind \in Deliveries : Send(c, "asking", kind, a, NoJob, "none")
    BY <1>4 DEF SendHeartbeat, SendPoll, Deliveries
  <2>2. Same
    BY <1>1, <2>1 DEF Send, IInv, TypeOK
  <2>3. UNCHANGED <<rows, starts, queue, creating, executing>>
    BY <1>4 DEF SendHeartbeat, SendPoll
  <2>4. QED
    BY <1>1, <1>3, <2>2, <2>3
<1>5. ASSUME NEW c \in Conns, ReceiveAck(c) \/ DropAnswer(c) \/ RequestFails(c)
      PROVE  Nowhere(j)' /\ LeftAlone(j)
  <2>1. Same
    BY <1>1, <1>5 DEF ReceiveAck, DropAnswer, RequestFails, Closed, FreeConn, IInv, TypeOK
  <2>2. UNCHANGED <<rows, starts, queue, creating, executing>>
    BY <1>5 DEF ReceiveAck, DropAnswer, RequestFails
  <2>3. QED
    BY <1>1, <1>3, <2>1, <2>2
<1>6. ASSUME NEW c \in Conns, ClientTimeout(c)
      PROVE  Nowhere(j)' /\ LeftAlone(j)
  <2>1. Same
    BY <1>6 DEF ClientTimeout, GivenUp, IInv, TypeOK
  <2>2. UNCHANGED <<rows, starts, queue, creating, executing>>
    BY <1>6 DEF ClientTimeout
  <2>3. QED
    BY <1>1, <1>3, <2>1, <2>2
<1>7. ASSUME NEW i \in Jobs, PushedTaskPanics(i)
      PROVE  Nowhere(j)' /\ LeftAlone(j)
  <2>1. UNCHANGED <<rows, starts, queue, creating, conn>> /\ executing'[j] = "no"
    BY <1>1, <1>7 DEF PushedTaskPanics, IInv, TypeOK
  <2>2. QED
    BY <1>1, <1>3, <2>1
<1>8. ASSUME NEW a \in Agents, AgentCrash(a)
      PROVE  Nowhere(j)' /\ LeftAlone(j)
  <2>1. Same
    BY <1>8 DEF AgentCrash, GivenUp
  <2>2. UNCHANGED <<rows, starts, queue, creating>> /\ executing'[j] = "no"
    BY <1>1, <1>8 DEF AgentCrash
  <2>3. QED
    BY <1>1, <1>3, <2>1, <2>2
<1>9. CASE BackendCrash
  <2>1. Same
    BY <1>1, <1>9 DEF BackendCrash, FreeConn
  <2>2. UNCHANGED <<rows, starts, queue, executing>> /\ creating'[j] \in Past
    BY <1>1, <1>9 DEF BackendCrash, Past
  <2>3. QED
    BY <1>1, <1>3, <2>1, <2>2
<1>10. CASE UNCHANGED vars
  BY <1>1, <1>3, <1>10
<1>11. QED
  BY <1>2, <1>4, <1>5, <1>6, <1>7, <1>8, <1>9, <1>10

\* What is lost is lost for good, whatever happens: no restart, no timeout and no sweep
\* brings back a job whose list was evicted, whose response was dropped or whose agent
\* went away; its row keeps its status until a user cancels it, and no result comes.
THEOREM LostStaysLost == Spec => [][LostForGood]_vars
<1>1. ASSUME IInv, Life, [Next]_vars
      PROVE  LostForGood
  <2>1. SUFFICES ASSUME NEW j \in Jobs, Nowhere(j)
                 PROVE  Nowhere(j)' /\ LeftAlone(j)
    BY DEF LostForGood
  <2>2. QED
    BY <1>1, <2>1, NowhereService, NowhereDelivery, NowhereReport, NowhereOther DEF Next, ConnStep
<1>2. IInv /\ Life /\ [Next]_vars => [LostForGood]_vars
  BY <1>1
<1>3. QED
  BY Inductive, Lives, <1>2, PTL DEF Spec
=============================================================================
