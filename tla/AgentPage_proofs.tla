-------------------------- MODULE AgentPage_proofs --------------------------
(***************************************************************************)
(* Proofs about the page of an agent, for any number of jobs asked for, of *)
(* changes of the agent's status and of failures, for every role and every *)
(* button.                                                                 *)
(***************************************************************************)
EXTENDS AgentPage, FiniteSetTheorems, TLAPS

-----------------------------------------------------------------------------
(* The inductive invariant.                                                *)

\* Nobody has seen more than has happened, and the dialog was opened by an enabled button.
SeenSense ==
  /\ heard <= version /\ shown <= version /\ query.of <= version
  /\ news \subseteq 1..version
  /\ dialog.open => Online(dialog.seen) /\ dialog.seen <= version
  /\ AnswersAreFresh

\* Whatever the panel sets up or has set up is for its session, and a panel that is
\* not there has nothing.
PanelSense ==
  /\ strays = {}
  /\ loading \in {NoTerminal, session} /\ terminal \in {NoTerminal, session}
  /\ starting => session = NoJob
  /\ place # "shell" => session = NoJob /\ ~starting /\ loading = NoTerminal /\ terminal = NoTerminal

\* The panel waits for one start at a time.
AwaitedSense ==
  \A j \in Jobs : post[j].heeded =>
    /\ starting
    /\ post[j].type = "remote_shell_start" /\ post[j].stage \in {"sent", "created", "refused"}
    /\ \A i \in Jobs : post[i].heeded => i = j

\* What was asked was enabled by what the page showed, at the latest when the dialog was
\* opened, and is there if it was created.
PostSense ==
  \A j \in Jobs :
    /\ post[j].stage = "none" => post[j] = Unasked
    /\ post[j].stage \in {"none", "sent", "refused"} => row[j] = "none"
    /\ post[j].stage = "created" => MayCreate(role, post[j].type)
    /\ post[j].stage # "none" /\ post[j].type # "remote_shell_stop" =>
         /\ Online(post[j].seen) /\ post[j].seen <= version
         /\ row[j] = "agent_offline" => post[j].seen < version
    /\ post[j].stage # "none" /\ post[j].type = "remote_shell_stop" =>
         post[j].stage # "refused" /\ MayCreate(role, "remote_shell_stop")

\* The session is a start that was answered, by somebody who may stop it.
SessionSense ==
  session # NoJob =>
    post[session].type = "remote_shell_start" /\ post[session].stage = "answered" /\ MayCreate(role, "remote_shell_stop")

\* A session that was asked to stop is one no more, and is not asked again.
IsStop(k, j) == post[k].type = "remote_shell_stop" /\ post[k].of = j
StopSense ==
  \A j, k \in Jobs : IsStop(k, j) =>
    post[j].stage = "answered" /\ session # j /\ \A i \in Jobs : IsStop(i, j) => i = k

\* Every start under way or come true is in somebody's hands.
InHand(j) == session = j \/ post[j].heeded \/ j \in given \/ \E k \in Jobs : IsStop(k, j)
HandSense ==
  \A j \in Jobs :
    (post[j].type = "remote_shell_start" /\ (post[j].stage \in {"sent", "created"} \/ row[j] # "none")) => InHand(j)

IInv ==
  /\ TypeOK
  /\ SeenSense /\ PanelSense /\ AwaitedSense /\ PostSense /\ SessionSense /\ StopSense /\ HandSense

\* The types of what was asked.
Posts == [stage: {"none", "sent", "created", "refused", "answered"},
          type: Types, of: Jobs \union {NoJob},
          seen: Loading..MaxChanges, heeded: BOOLEAN]

-----------------------------------------------------------------------------
(* Tables.                                                                 *)

\* Both ends of a shell session have the same permission and the same capability.
LEMMA StopLikeStart == ASSUME NEW r PROVE MayCreate(r, "remote_shell_start") <=> MayCreate(r, "remote_shell_stop")
<1> DEFINE OnlyShell(t) == t \in Shell /\ t \notin Desktop /\ t \notin Privacy /\ t \notin Service
<1>1. OnlyShell("remote_shell_start") /\ OnlyShell("remote_shell_stop")
  BY DEF Shell, Desktop, Privacy, Service
<1>2. ASSUME NEW t \in Shell PROVE t \in JobTypes /\ t \in {"remote_shell_start", "remote_shell_stop"}
  BY DEF JobTypes, Shell
<1>3. ASSUME NEW t \in Shell, OnlyShell(t) PROVE JOB_TYPE_PERMISSION[t] = "remote.shell"
  BY <1>2, <1>3 DEF JOB_TYPE_PERMISSION
<1>4. ASSUME NEW t \in Shell, OnlyShell(t) PROVE JOB_TYPE_CAPABILITY[t] = "remote_shell"
  BY <1>2, <1>4 DEF JOB_TYPE_CAPABILITY
<1> QED BY <1>1, <1>3, <1>4 DEF MayCreate, Permitted, Capable

\* Jobs and markers.
LEMMA Markers ==
  /\ NoJob \notin Jobs /\ NoTerminal \notin Jobs /\ NoTerminal # NoJob
  /\ Unasked \in Posts /\ Unasked.stage = "none" /\ Unasked.of = NoJob /\ ~Unasked.heeded
  /\ "remote_shell_start" \in Types /\ "remote_shell_stop" \in Types /\ "run_script" \in Types
<1>1. NoJob \notin Jobs /\ NoTerminal \notin Jobs /\ NoTerminal # NoJob
  BY NumberAssumption DEF NoJob, Jobs, NoTerminal
<1>2. Loading \in Loading..MaxChanges
  BY NumberAssumption DEF Loading
<1> QED BY <1>1, <1>2 DEF Unasked, Posts, Types, Shell

-----------------------------------------------------------------------------
(* Initially, and through every step.                                      *)

\* The initial state satisfies the invariant.
LEMMA InitIInv == Init => IInv
<1> SUFFICES ASSUME Init PROVE IInv
  OBVIOUS
<1> USE NumberAssumption, TableAssumption DEF Init
<1>1. TypeOK
  <2>1. post \in [Jobs -> Posts]
    BY Markers
  <2>2. query \in [stage: {"idle", "asked", "read"}, of: Loading..MaxChanges]
    BY DEF Idle, Loading
  <2>3. /\ version \in 0..MaxChanges /\ shown \in Loading..MaxChanges /\ heard \in 0..MaxChanges
        /\ news \subseteq 1..MaxChanges /\ faults \in 0..MaxFaults
    BY DEF Loading
  <2>4. /\ role \in Users /\ place \in {"shell", "tab", "away"}
        /\ session \in Jobs \union {NoJob} /\ starting \in BOOLEAN
        /\ loading \in Jobs \union {NoJob, NoTerminal} /\ terminal \in Jobs \union {NoJob, NoTerminal}
        /\ outdated \subseteq Jobs \union {NoJob} /\ strays \subseteq Jobs \union {NoJob}
        /\ row \in [Jobs -> {"none", "pending", "agent_offline"}] /\ given \subseteq Jobs
    OBVIOUS
  <2>5. dialog \in [open: BOOLEAN, seen: Loading..MaxChanges, of: Jobs \union {NoJob}]
    BY DEF Closed, Loading
  <2> QED BY <2>1, <2>2, <2>3, <2>4, <2>5 DEF TypeOK, Posts
<1>2. SeenSense
  BY DEF SeenSense, AnswersAreFresh, Idle, Closed, Loading
<1>3. PanelSense /\ AwaitedSense
  BY Markers DEF PanelSense, AwaitedSense
<1>4. PostSense /\ SessionSense
  BY Markers DEF PostSense, SessionSense
<1>5. StopSense
  BY Markers DEF StopSense, IsStop
<1>6. HandSense
  BY DEF HandSense, Unasked
<1> QED BY <1>1, <1>2, <1>3, <1>4, <1>5, <1>6 DEF IInv

\* What happens to the agent's status leaves panel and jobs alone.
LEMMA StatusKeeps ==
  ASSUME IInv, UNCHANGED <<role, panel, post, row, given>>,
         version' \in 0..MaxChanges, version' >= version,
         place' \in {"shell", "tab", "away"}, place' = "shell" <=> place = "shell"
  PROVE  PanelSense' /\ AwaitedSense' /\ PostSense' /\ SessionSense' /\ StopSense' /\ HandSense'
<1> USE DEF IInv, panel
<1>1. PanelSense' /\ AwaitedSense'
  BY DEF PanelSense, AwaitedSense
<1>2. PostSense'
  BY NumberAssumption DEF TypeOK, PostSense, Loading
<1>3. SessionSense' /\ StopSense'
  BY DEF SessionSense, StopSense, IsStop
<1>4. HandSense'
  BY DEF HandSense, InHand, IsStop
<1> QED BY <1>1, <1>2, <1>3, <1>4

\* The query of the agent, its answers and its events.
LEMMA QueryKeeps ==
  ASSUME IInv,
         Poll \/ Read \/ Answer \/ Change \/ ReadFails \/ OpenPage
           \/ \E v \in news : News(v) \/ NewsLost(v)
  PROVE  IInv'
<1> USE NumberAssumption DEF IInv
<1>1. UNCHANGED <<role, panel, jobVars, given>>
  BY DEF Poll, Read, Answer, Change, ReadFails, OpenPage, News, NewsLost
<1>2. version' \in 0..MaxChanges /\ version' >= version
  BY DEF Poll, Read, Answer, Change, ReadFails, OpenPage, News, NewsLost, TypeOK
<1>3. place' \in {"shell", "tab", "away"} /\ (place' = "shell" <=> place = "shell")
  BY DEF Poll, Read, Answer, Change, ReadFails, OpenPage, News, NewsLost, TypeOK
<1>4. query' \in [stage: {"idle", "asked", "read"}, of: Loading..MaxChanges]
  <2>1. Asked \in [stage: {"idle", "asked", "read"}, of: Loading..MaxChanges]
    BY DEF Asked, Loading
  <2>2. Idle \in [stage: {"idle", "asked", "read"}, of: Loading..MaxChanges]
    BY DEF Idle, Loading
  <2>3. [stage |-> "read", of |-> version] \in [stage: {"idle", "asked", "read"}, of: Loading..MaxChanges]
    BY DEF TypeOK, Loading
  <2> QED BY <2>1, <2>2, <2>3
        DEF Poll, Read, Answer, Change, ReadFails, OpenPage, News, NewsLost, Refetched, TypeOK
<1>5. /\ shown' \in Loading..MaxChanges /\ heard' \in 0..MaxChanges
      /\ news' \subseteq 1..MaxChanges /\ faults' \in 0..MaxFaults
  <2>1. CASE Poll \/ Read \/ Answer \/ OpenPage
    BY <2>1 DEF Poll, Read, Answer, OpenPage, TypeOK
  <2>2. CASE Change
    BY <2>2 DEF Change, TypeOK
  <2>3. CASE ReadFails \/ \E v \in news : NewsLost(v)
    <3>1. news' \subseteq news /\ UNCHANGED <<shown, heard>>
      BY <2>3 DEF ReadFails, NewsLost
    <3>2. faults < MaxFaults /\ faults' = faults + 1
      BY <2>3 DEF ReadFails, NewsLost, Fault
    <3> QED BY <3>1, <3>2 DEF TypeOK
  <2>4. CASE \E v \in news : News(v)
    BY <2>4 DEF News, TypeOK
  <2> QED BY <2>1, <2>2, <2>3, <2>4
<1>6. TypeOK'
  BY <1>1, <1>2, <1>3, <1>4, <1>5 DEF TypeOK, panel, jobVars
<1>7. SeenSense'
  <2>1. /\ version \in Nat /\ heard \in Nat /\ shown \in Int /\ query.of \in Int
        /\ heard <= version /\ shown <= version /\ query.of <= version
        /\ news \subseteq 1..version
    BY DEF SeenSense, TypeOK, Loading
  <2>2. /\ Asked.stage # "read" /\ Asked.of <= version
        /\ Idle.stage # "read" /\ Idle.of <= version
    BY <2>1 DEF Asked, Idle, Loading
  <2>3. query.stage = "read" => query.of >= heard
    BY DEF SeenSense, AnswersAreFresh
  <2> DEFINE IsPast == dialog.open => Online(dialog.seen) /\ dialog.seen <= version
  <2>d. IsPast'
    <3>1. dialog.seen \in Int /\ version' \in Int
      BY <1>2 DEF TypeOK, Loading
    <3> QED BY <1>1, <1>2, <2>1, <3>1 DEF SeenSense, jobVars
  <2> USE <2>1, <2>2, <2>3, <2>d DEF SeenSense, AnswersAreFresh
  <2>4. CASE Poll \/ OpenPage \/ ReadFails
    BY <2>4 DEF Poll, OpenPage, ReadFails
  <2>5. CASE Read
    BY <2>5 DEF Read
  <2>6. CASE Answer
    BY <2>6 DEF Answer
  <2>7. CASE Change
    BY <2>7 DEF Change
  <2>8. CASE \E v \in news : NewsLost(v)
    BY <2>8 DEF NewsLost
  <2>9. ASSUME NEW v \in news, News(v) PROVE SeenSense'
    BY <2>9 DEF News, Refetched
  <2> QED BY <2>4, <2>5, <2>6, <2>7, <2>8, <2>9
<1> QED BY <1>1, <1>2, <1>3, <1>6, <1>7, StatusKeeps DEF jobVars

\* What happens to panel and jobs leaves the query alone.
LEMMA SeenKeeps ==
  ASSUME IInv, UNCHANGED agentVars,
         dialog'.open => dialog.open /\ dialog'.seen = dialog.seen
  PROVE  SeenSense'
BY DEF IInv, agentVars, SeenSense, AnswersAreFresh

\* A request that is sent: nothing had been made of it before.
LEMMA AskPost ==
  ASSUME IInv, NEW j \in Jobs, NEW type \in Types, NEW of \in Jobs \union {NoJob},
         NEW seen \in Loading..MaxChanges, Ask(j, type, of, seen)
  PROVE  /\ post' \in [Jobs -> Posts]
         /\ post[j] = Unasked /\ row[j] = "none"
         /\ \A i \in Jobs \ {j} : post'[i] = post[i]
         /\ post'[j] = [stage |-> "sent", type |-> type, of |-> of, seen |-> seen,
                        heeded |-> type = "remote_shell_start"]
<1>1. [stage |-> "sent", type |-> type, of |-> of, seen |-> seen,
       heeded |-> type = "remote_shell_start"] \in Posts
  BY DEF Posts
<1>2. post \in [Jobs -> Posts]
  BY DEF IInv, TypeOK, Posts
<1>3. post[j] = Unasked /\ row[j] = "none"
  BY DEF Ask, IInv, PostSense
<1> QED BY <1>1, <1>2, <1>3 DEF Ask

-----------------------------------------------------------------------------
(* What is asked.                                                          *)

\* A job that is no session: it was enabled by what the page showed.
LEMMA JobKeeps ==
  ASSUME IInv, NEW j \in Jobs, NEW t \in Types, t \notin Shell, NEW seen \in Loading..MaxChanges,
         Online(seen), seen <= version, Ask(j, t, NoJob, seen),
         UNCHANGED <<role, agentVars, place, panel, row, given, faults>>,
         dialog' \in [open: BOOLEAN, seen: Loading..MaxChanges, of: Jobs \union {NoJob}],
         dialog'.open => dialog.open /\ dialog'.seen = dialog.seen
  PROVE  IInv'
<1> USE DEF IInv
<1>1. UNCHANGED <<role, agentVars, place, panel, row, given, faults>>
  OBVIOUS
<1>2. t # "remote_shell_start" /\ t # "remote_shell_stop"
  BY DEF Shell
<1>3. /\ post' \in [Jobs -> Posts] /\ post[j] = Unasked /\ row[j] = "none"
      /\ \A i \in Jobs \ {j} : post'[i] = post[i]
      /\ post'[j] = [stage |-> "sent", type |-> t, of |-> NoJob, seen |-> seen, heeded |-> FALSE]
  <2>1. NoJob \in Jobs \union {NoJob}
    OBVIOUS
  <2>2. /\ post' \in [Jobs -> Posts] /\ post[j] = Unasked /\ row[j] = "none"
        /\ \A i \in Jobs \ {j} : post'[i] = post[i]
        /\ post'[j] = [stage |-> "sent", type |-> t, of |-> NoJob, seen |-> seen,
                        heeded |-> t = "remote_shell_start"]
    BY <2>1, AskPost
  <2> QED BY <1>2, <2>2
<1> USE <1>1, <1>2, <1>3, Markers DEF panel, agentVars
<1>4. TypeOK'
  BY DEF TypeOK, Posts
<1>5. SeenSense'
  BY SeenKeeps
<1>6. PanelSense' /\ AwaitedSense'
  BY DEF PanelSense, AwaitedSense
<1>7. PostSense'
  BY DEF PostSense, SeenSense
<1>8. SessionSense'
  BY DEF SessionSense, TypeOK
<1>9. StopSense'
  BY DEF StopSense, IsStop
<1>10. HandSense'
  <2> SUFFICES ASSUME NEW i \in Jobs, post'[i].type = "remote_shell_start",
                      post'[i].stage \in {"sent", "created"} \/ row'[i] # "none"
               PROVE  InHand(i)'
    BY DEF HandSense
  <2>1. i # j
    OBVIOUS
  <2>2. InHand(i)
    BY <2>1 DEF HandSense
  <2> QED BY <2>1, <2>2 DEF InHand, IsStop
<1> QED BY <1>4, <1>5, <1>6, <1>7, <1>8, <1>9, <1>10

\* A button outside the panel, and the dialog.
LEMMA PressKeeps ==
  ASSUME IInv, NEW j \in Jobs, (\E t \in Buttons : Press(j, t)) \/ Submit(j)
  PROVE  IInv'
<1>1. /\ shown \in Loading..MaxChanges /\ shown <= version
      /\ dialog \in [open: BOOLEAN, seen: Loading..MaxChanges, of: Jobs \union {NoJob}]
      /\ dialog.open => Online(dialog.seen) /\ dialog.seen <= version
  BY DEF IInv, TypeOK, SeenSense
<1>2. \A t \in Buttons \union {"run_script"} : t \in Types /\ t \notin Shell
  BY TableAssumption DEF Types, Shell
<1>3. ASSUME NEW t \in Buttons, Press(j, t) PROVE IInv'
  <2>1. /\ Ask(j, t, NoJob, shown) /\ Online(shown) /\ dialog' = dialog
        /\ UNCHANGED <<role, agentVars, place, panel, row, given, faults>>
    BY <1>3 DEF Press, Enabled, IsOnline
  <2> QED BY <1>1, <1>2, <2>1, JobKeeps
<1>4. CASE Submit(j)
  <2>1. /\ Ask(j, "run_script", NoJob, dialog.seen) /\ dialog.open
        /\ dialog' = [dialog EXCEPT !.of = j]
        /\ UNCHANGED <<role, agentVars, place, panel, row, given, faults>>
    BY <1>4 DEF Submit
  <2> QED BY <1>1, <1>2, <2>1, JobKeeps
<1> QED BY <1>3, <1>4

\* The dialog opens, or is closed.
LEMMA DialogKeeps ==
  ASSUME IInv, OpenDialog \/ CloseDialog
  PROVE  IInv'
<1>1. UNCHANGED <<role, agentVars, place, panel, post, row, given, faults>>
  BY DEF OpenDialog, CloseDialog
<1>2. /\ dialog' \in [open: BOOLEAN, seen: Loading..MaxChanges, of: Jobs \union {NoJob}]
      /\ dialog'.open => Online(dialog'.seen) /\ dialog'.seen <= version
  <2>1. /\ Closed \in [open: BOOLEAN, seen: Loading..MaxChanges, of: Jobs \union {NoJob}] /\ ~Closed.open
        /\ shown \in Loading..MaxChanges /\ shown <= version
    BY NumberAssumption DEF Closed, Loading, IInv, TypeOK, SeenSense
  <2>2. CASE OpenDialog
    <3>1. dialog' = [open |-> TRUE, seen |-> shown, of |-> NoJob] /\ Online(shown)
      BY <2>2 DEF OpenDialog, Enabled, IsOnline
    <3> QED BY <2>1, <3>1
  <2>3. CASE CloseDialog
    BY <2>1, <2>3 DEF CloseDialog
  <2> QED BY <2>2, <2>3
<1>3. TypeOK'
  BY <1>1, <1>2 DEF IInv, TypeOK, agentVars, panel
<1>4. SeenSense'
  BY <1>1, <1>2 DEF IInv, SeenSense, AnswersAreFresh, agentVars
<1>5. version' \in 0..MaxChanges /\ version' >= version /\ place' \in {"shell", "tab", "away"}
  BY <1>1 DEF IInv, TypeOK, agentVars
<1> QED BY <1>1, <1>3, <1>4, <1>5, StatusKeeps DEF IInv

\* The start of a session.
LEMMA StartKeeps ==
  ASSUME IInv, NEW j \in Jobs, StartSession(j)
  PROVE  IInv'
<1> USE DEF IInv
<1>1. /\ Ask(j, "remote_shell_start", NoJob, shown) /\ place = "shell" /\ session = NoJob /\ ~starting /\ starting'
      /\ UNCHANGED <<role, agentVars, place, session, loading, outdated, terminal, strays, row, dialog, given, faults>>
      /\ Online(shown) /\ shown \in Loading..MaxChanges
  BY DEF StartSession, CanStart, IsOnline, TypeOK
<1>2. /\ post' \in [Jobs -> Posts] /\ post[j] = Unasked /\ row[j] = "none"
      /\ \A i \in Jobs \ {j} : post'[i] = post[i]
      /\ post'[j] = [stage |-> "sent", type |-> "remote_shell_start", of |-> NoJob, seen |-> shown, heeded |-> TRUE]
  <2>1. NoJob \in Jobs \union {NoJob} /\ "remote_shell_start" \in Types
    BY Markers
  <2>2. /\ post' \in [Jobs -> Posts] /\ post[j] = Unasked /\ row[j] = "none"
        /\ \A i \in Jobs \ {j} : post'[i] = post[i]
        /\ post'[j] = [stage |-> "sent", type |-> "remote_shell_start", of |-> NoJob, seen |-> shown,
                        heeded |-> "remote_shell_start" = "remote_shell_start"]
    BY <1>1, <2>1, AskPost
  <2> QED BY <2>2
<1>3. starting' \in BOOLEAN
  BY DEF StartSession
<1>4. \A i \in Jobs : ~post[i].heeded
  BY <1>1 DEF AwaitedSense
<1> USE <1>1, <1>2, <1>3, <1>4, Markers DEF agentVars
<1>5. TypeOK'
  BY DEF TypeOK, Posts
<1>6. SeenSense'
  BY SeenKeeps
<1>7. PanelSense'
  BY DEF PanelSense
<1>8. AwaitedSense'
  BY DEF AwaitedSense
<1>9. PostSense'
  BY DEF PostSense, SeenSense
<1>10. SessionSense' /\ StopSense'
  BY DEF SessionSense, StopSense, IsStop
<1>11. HandSense'
  <2> SUFFICES ASSUME NEW i \in Jobs \ {j}, post'[i].type = "remote_shell_start",
                      post'[i].stage \in {"sent", "created"} \/ row'[i] # "none"
               PROVE  InHand(i)'
    BY DEF HandSense, InHand
  <2>1. InHand(i)
    BY DEF HandSense
  <2> QED BY <2>1 DEF InHand, IsStop
<1> QED BY <1>5, <1>6, <1>7, <1>8, <1>9, <1>10, <1>11

\* The stop of a session: it is asked once, and its session is over for the panel.
LEMMA StopKeeps ==
  ASSUME IInv, NEW j \in Jobs, StopSession(j)
  PROVE  IInv'
<1> USE DEF IInv
<1>1. session \in Jobs /\ session # NoJob
  BY DEF StopSession, TypeOK
<1>2. /\ Ask(j, "remote_shell_stop", session, Loading) /\ place = "shell" /\ session' = NoJob
      /\ loading' = NoJob /\ terminal' = NoTerminal /\ outdated' = outdated \union ({loading} \ {NoTerminal})
      /\ UNCHANGED <<role, agentVars, place, starting, strays, row, dialog, given, faults>>
  BY DEF StopSession, Effect
<1>3. /\ post' \in [Jobs -> Posts] /\ post[j] = Unasked /\ row[j] = "none"
      /\ \A i \in Jobs \ {j} : post'[i] = post[i]
      /\ post'[j] = [stage |-> "sent", type |-> "remote_shell_stop", of |-> session, seen |-> Loading, heeded |-> FALSE]
  <2>1. session \in Jobs \union {NoJob} /\ "remote_shell_stop" \in Types /\ Loading \in Loading..MaxChanges
    BY <1>1, Markers, NumberAssumption DEF Loading
  <2>2. /\ post' \in [Jobs -> Posts] /\ post[j] = Unasked /\ row[j] = "none"
        /\ \A i \in Jobs \ {j} : post'[i] = post[i]
        /\ post'[j] = [stage |-> "sent", type |-> "remote_shell_stop", of |-> session, seen |-> Loading,
                        heeded |-> "remote_shell_stop" = "remote_shell_start"]
    BY <1>2, <2>1, AskPost
  <2> QED BY <1>1, <2>2
<1>4. ~starting /\ \A i \in Jobs : ~post[i].heeded
  BY <1>1 DEF PanelSense, AwaitedSense
<1>5. post[session].type = "remote_shell_start" /\ post[session].stage = "answered" /\ MayCreate(role, "remote_shell_stop")
  BY <1>1 DEF SessionSense
<1>6. \A i \in Jobs : ~IsStop(i, session)
  BY <1>1 DEF StopSense
<1> USE <1>1, <1>2, <1>3, <1>4, Markers DEF agentVars
<1>7. TypeOK'
  BY DEF TypeOK, Posts
<1>8. SeenSense'
  BY SeenKeeps
<1>9. PanelSense'
  BY DEF PanelSense
<1>10. AwaitedSense'
  BY DEF AwaitedSense
<1>11. PostSense'
  BY <1>5 DEF PostSense
<1>12. SessionSense'
  BY DEF SessionSense
<1>13. StopSense'
  BY <1>5, <1>6 DEF StopSense, IsStop
<1>14. HandSense'
  <2> SUFFICES ASSUME NEW i \in Jobs, post'[i].type = "remote_shell_start",
                      post'[i].stage \in {"sent", "created"} \/ row'[i] # "none"
               PROVE  InHand(i)'
    BY DEF HandSense
  <2>1. CASE i = session
    BY <2>1 DEF InHand, IsStop
  <2>2. CASE i # session
    <3>1. i # j
      OBVIOUS
    <3>2. InHand(i)
      BY <3>1 DEF HandSense
    <3> QED BY <2>2, <3>1, <3>2 DEF InHand, IsStop
  <2> QED BY <2>1, <2>2
<1> QED BY <1>7, <1>8, <1>9, <1>10, <1>11, <1>12, <1>13, <1>14

-----------------------------------------------------------------------------
(* What becomes of it.                                                     *)

\* The backend creates the job, or refuses it.
LEMMA CreateKeeps ==
  ASSUME IInv, NEW j \in Jobs, Create(j)
  PROVE  IInv'
<1> USE DEF IInv
<1>1. /\ post[j].stage = "sent" /\ post \in [Jobs -> Posts] /\ row[j] = "none"
      /\ UNCHANGED <<role, agentVars, place, panel, dialog, given, faults>>
  BY DEF Create, TypeOK, Posts, PostSense
<1>2. /\ post' \in [Jobs -> Posts] /\ row' \in [Jobs -> {"none", "pending", "agent_offline"}]
      /\ \A i \in Jobs \ {j} : post'[i] = post[i] /\ row'[i] = row[i]
      /\ post'[j].type = post[j].type /\ post'[j].of = post[j].of
      /\ post'[j].seen = post[j].seen /\ post'[j].heeded = post[j].heeded
  BY <1>1 DEF Create, TypeOK, Posts
<1>3. \/ /\ post'[j].stage = "created" /\ MayCreate(role, post[j].type)
         /\ row'[j] = "agent_offline" => ~Online(version)
      \/ /\ post'[j].stage = "refused" /\ ~MayCreate(role, post[j].type)
         /\ row'[j] = "none"
  BY <1>1 DEF Create, TypeOK, Posts
<1> USE <1>1, <1>2, Markers DEF agentVars, panel
<1>4. TypeOK'
  BY DEF TypeOK, Posts
<1>5. SeenSense'
  BY SeenKeeps
<1>6. PanelSense'
  BY DEF PanelSense
<1>7. AwaitedSense'
  BY <1>3 DEF AwaitedSense
<1>8. PostSense'
  <2> SUFFICES ASSUME NEW i \in Jobs
               PROVE  /\ post'[i].stage = "none" => post'[i] = Unasked
                      /\ post'[i].stage \in {"none", "sent", "refused"} => row'[i] = "none"
                      /\ post'[i].stage = "created" => MayCreate(role', post'[i].type)
                      /\ post'[i].stage # "none" /\ post'[i].type # "remote_shell_stop" =>
                           /\ Online(post'[i].seen) /\ post'[i].seen <= version'
                           /\ row'[i] = "agent_offline" => post'[i].seen < version'
                      /\ post'[i].stage # "none" /\ post'[i].type = "remote_shell_stop" =>
                           post'[i].stage # "refused" /\ MayCreate(role', "remote_shell_stop")
    BY DEF PostSense
  <2>1. CASE i # j
    BY <2>1 DEF PostSense
  <2>2. CASE i = j
    <3>1. post[j].type # "remote_shell_stop" =>
            /\ Online(post[j].seen) /\ post[j].seen <= version
            /\ ~Online(version) => post[j].seen < version
      <4>1. post[j].type # "remote_shell_stop" => Online(post[j].seen) /\ post[j].seen <= version
        BY DEF PostSense
      <4>2. post[j].seen \in Int /\ version \in Int
        BY DEF Posts, TypeOK, Loading
      <4>3. Online(post[j].seen) /\ ~Online(version) => post[j].seen # version
        OBVIOUS
      <4> QED BY <4>1, <4>2, <4>3
    <3>2. post[j].type = "remote_shell_stop" => MayCreate(role, "remote_shell_stop")
      BY DEF PostSense
    <3> QED BY <1>3, <2>2, <3>1, <3>2
  <2> QED BY <2>1, <2>2
<1>9. SessionSense' /\ StopSense'
  <2>1. SessionSense'
    BY DEF SessionSense, TypeOK
  <2>2. \A i, k \in Jobs : IsStop(k, i)' <=> IsStop(k, i)
    BY DEF IsStop
  <2>3. StopSense'
    BY <2>2 DEF StopSense
  <2> QED BY <2>1, <2>3
<1>10. HandSense'
  <2> SUFFICES ASSUME NEW i \in Jobs, post'[i].type = "remote_shell_start",
                      post'[i].stage \in {"sent", "created"} \/ row'[i] # "none"
               PROVE  InHand(i)'
    BY DEF HandSense
  <2>1. InHand(i)
    BY DEF HandSense
  <2> QED BY <2>1 DEF InHand, IsStop
<1> QED BY <1>4, <1>5, <1>6, <1>7, <1>8, <1>9, <1>10

\* A dialog whose script is answered closes, or may send another.
LEMMA AfterAnswerType ==
  ASSUME IInv, NEW j \in Jobs, NEW accepted, dialog' = AfterAnswer(j, accepted)
  PROVE  /\ dialog' \in [open: BOOLEAN, seen: Loading..MaxChanges, of: Jobs \union {NoJob}]
         /\ dialog'.open => dialog.open /\ dialog'.seen = dialog.seen
<1>1. dialog \in [open: BOOLEAN, seen: Loading..MaxChanges, of: Jobs \union {NoJob}]
  BY DEF IInv, TypeOK
<1>2. Closed \in [open: BOOLEAN, seen: Loading..MaxChanges, of: Jobs \union {NoJob}] /\ ~Closed.open
  BY NumberAssumption DEF Closed, Loading
<1> QED BY <1>1, <1>2 DEF AfterAnswer

\* An answer arrives.  Only a start that is awaited does anything to the panel.
LEMMA AnsweredKeeps ==
  ASSUME IInv, NEW j \in Jobs, Answered(j)
  PROVE  IInv'
<1> USE DEF IInv
<1>1. /\ post[j].stage \in {"created", "refused"} /\ post \in [Jobs -> Posts]
      /\ UNCHANGED <<role, agentVars, place, strays, row, given, faults>>
      /\ dialog' = AfterAnswer(j, post[j].stage = "created")
  BY DEF Answered, TypeOK, Posts
<1>2. /\ post' \in [Jobs -> Posts]
      /\ \A i \in Jobs \ {j} : post'[i] = post[i]
      /\ post'[j].type = post[j].type /\ post'[j].of = post[j].of /\ post'[j].seen = post[j].seen
      /\ post'[j].stage = "answered" /\ ~post'[j].heeded
  BY <1>1 DEF Answered, Posts
<1>3. \/ /\ post[j].heeded /\ post[j].stage = "created" /\ starting' = FALSE
         /\ session' = j /\ loading' = j /\ terminal' = NoTerminal
         /\ outdated' = outdated \union ({loading} \ {NoTerminal})
      \/ /\ post[j].heeded /\ post[j].stage = "refused" /\ starting' = FALSE
         /\ UNCHANGED <<session, loading, outdated, terminal>>
      \/ /\ ~post[j].heeded
         /\ UNCHANGED <<session, starting, loading, outdated, terminal>>
  BY <1>1 DEF Answered, Started, Effect
<1>4. post[j].heeded =>
        /\ starting /\ session = NoJob /\ place = "shell" /\ post[j].type = "remote_shell_start"
        /\ \A i \in Jobs : post[i].heeded => i = j
  BY DEF AwaitedSense, PanelSense
<1> USE <1>1, <1>2, Markers DEF agentVars
<1>d. /\ dialog' \in [open: BOOLEAN, seen: Loading..MaxChanges, of: Jobs \union {NoJob}]
      /\ dialog'.open => dialog.open /\ dialog'.seen = dialog.seen
  BY AfterAnswerType
<1>5. TypeOK'
  <2>1. /\ session' \in Jobs \union {NoJob} /\ starting' \in BOOLEAN
        /\ loading' \in Jobs \union {NoJob, NoTerminal} /\ terminal' \in Jobs \union {NoJob, NoTerminal}
        /\ outdated' \subseteq Jobs \union {NoJob}
    BY <1>3 DEF TypeOK
  <2> QED BY <1>d, <2>1 DEF TypeOK, Posts
<1>6. SeenSense'
  BY <1>d, SeenKeeps
<1>7. PanelSense'
  BY <1>3, <1>4 DEF PanelSense
<1>8. AwaitedSense'
  BY <1>3, <1>4 DEF AwaitedSense
<1>9. PostSense'
  BY DEF PostSense
<1>10. SessionSense'
  <2>1. post[j].stage = "created" /\ post[j].heeded => MayCreate(role, "remote_shell_stop")
    <3>1. post[j].stage = "created" => MayCreate(role, post[j].type)
      BY DEF PostSense
    <3> QED BY <1>4, <3>1, StopLikeStart
  <2> QED BY <1>3, <1>4, <2>1 DEF SessionSense, TypeOK
<1>11. StopSense'
  <2> SUFFICES ASSUME NEW i \in Jobs, NEW k \in Jobs, IsStop(k, i)'
               PROVE  /\ post'[i].stage = "answered" /\ session' # i
                      /\ \A l \in Jobs : IsStop(l, i)' => l = k
    BY DEF StopSense
  <2>1. \A l \in Jobs : IsStop(l, i)' <=> IsStop(l, i)
    BY DEF IsStop
  <2>2. /\ post[i].stage = "answered" /\ session # i
        /\ \A l \in Jobs : IsStop(l, i) => l = k
    BY <2>1 DEF StopSense
  <2>3. i # j
    BY <2>2
  <2> QED BY <1>3, <2>1, <2>2, <2>3
<1>12. HandSense'
  <2> SUFFICES ASSUME NEW i \in Jobs, post'[i].type = "remote_shell_start",
                      post'[i].stage \in {"sent", "created"} \/ row'[i] # "none"
               PROVE  InHand(i)'
    BY DEF HandSense
  <2>1. InHand(i)
    BY DEF HandSense
  <2>2. CASE i = j /\ post[j].heeded
    <3>1. post[j].stage # "refused"
      BY <2>2 DEF PostSense
    <3> QED BY <1>3, <2>2, <3>1 DEF InHand
  <2>3. CASE i # j \/ ~post[j].heeded
    <3>1. post[i].heeded => post'[i].heeded
      BY <2>3
    <3>2. session = i => session' = i
      BY <1>3, <1>4
    <3>3. \A k \in Jobs : IsStop(k, i) => IsStop(k, i)'
      BY DEF IsStop
    <3> QED BY <2>1, <3>1, <3>2, <3>3 DEF InHand
  <2> QED BY <2>2, <2>3
<1> QED BY <1>5, <1>6, <1>7, <1>8, <1>9, <1>10, <1>11, <1>12

\* A request or its answer is lost: a start that was awaited is given up.
LEMMA PostFailsKeeps ==
  ASSUME IInv, NEW j \in Jobs, PostFails(j)
  PROVE  IInv'
<1> USE DEF IInv
<1>1. /\ post[j].stage \in {"sent", "created"} /\ post \in [Jobs -> Posts]
      /\ faults < MaxFaults /\ faults' = faults + 1
      /\ starting' = (starting /\ j \notin Awaited)
      /\ given' = given \union ({j} \intersect Awaited)
      /\ dialog' = AfterAnswer(j, FALSE)
      /\ UNCHANGED <<role, agentVars, place, session, loading, outdated, terminal, strays, row>>
  BY DEF PostFails, Fault, TypeOK, Posts
<1>2. /\ post' \in [Jobs -> Posts]
      /\ \A i \in Jobs \ {j} : post'[i] = post[i]
      /\ post'[j].type = post[j].type /\ post'[j].of = post[j].of /\ post'[j].seen = post[j].seen
      /\ post'[j].stage = "answered" /\ ~post'[j].heeded
  BY <1>1 DEF PostFails, Posts
<1>3. /\ starting' \in BOOLEAN /\ starting' => starting
      /\ starting /\ ~post[j].heeded => starting'
  BY <1>1 DEF Awaited
<1>4. given' \subseteq Jobs /\ given \subseteq given' /\ (post[j].heeded => j \in given')
  BY <1>1 DEF Awaited, TypeOK
<1>5. faults' \in 0..MaxFaults
  BY <1>1, NumberAssumption DEF TypeOK
<1>d. /\ dialog' \in [open: BOOLEAN, seen: Loading..MaxChanges, of: Jobs \union {NoJob}]
      /\ dialog'.open => dialog.open /\ dialog'.seen = dialog.seen
  BY <1>1, AfterAnswerType
<1> USE <1>2, <1>3, <1>4, Markers DEF agentVars
<1>6. TypeOK'
  BY <1>1, <1>5, <1>d DEF TypeOK, Posts
<1>7. SeenSense'
  BY <1>1, <1>d, SeenKeeps
<1>8. PanelSense'
  BY <1>1 DEF PanelSense
<1>9. AwaitedSense'
  BY <1>1 DEF AwaitedSense
<1>10. PostSense'
  <2>1. \A i \in Jobs \ {j} : post'[i] = post[i] /\ row'[i] = row[i]
    BY <1>1
  <2>2. UNCHANGED <<role, version, row>>
    BY <1>1
  <2>3. post[j].type = "remote_shell_stop" => MayCreate(role, "remote_shell_stop")
    BY <1>1 DEF PostSense
  <2>4. post[j].type # "remote_shell_stop" =>
          /\ Online(post[j].seen) /\ post[j].seen <= version
          /\ row[j] = "agent_offline" => post[j].seen < version
    BY <1>1 DEF PostSense
  <2> SUFFICES ASSUME NEW i \in Jobs
               PROVE  /\ post'[i].stage = "none" => post'[i] = Unasked
                      /\ post'[i].stage \in {"none", "sent", "refused"} => row'[i] = "none"
                      /\ post'[i].stage = "created" => MayCreate(role', post'[i].type)
                      /\ post'[i].stage # "none" /\ post'[i].type # "remote_shell_stop" =>
                           /\ Online(post'[i].seen) /\ post'[i].seen <= version'
                           /\ row'[i] = "agent_offline" => post'[i].seen < version'
                      /\ post'[i].stage # "none" /\ post'[i].type = "remote_shell_stop" =>
                           post'[i].stage # "refused" /\ MayCreate(role', "remote_shell_stop")
    BY DEF PostSense
  <2>5. CASE i # j
    BY <2>1, <2>2, <2>5 DEF PostSense
  <2>6. CASE i = j
    <3>1. /\ post'[j].type = post[j].type /\ post'[j].seen = post[j].seen /\ post'[j].stage = "answered"
      OBVIOUS
    <3>2. row'[j] = row[j] /\ version' = version /\ role' = role
      BY <2>2
    <3> QED BY ONLY <2>3, <2>4, <2>6, <3>1, <3>2
  <2> QED BY <2>5, <2>6
<1>11. SessionSense' /\ StopSense'
  <2>1. \A i \in Jobs : /\ post'[i].type = post[i].type /\ post'[i].of = post[i].of
                        /\ post[i].stage = "answered" => post'[i].stage = "answered"
    OBVIOUS
  <2>2. session' = session /\ role' = role /\ session \in Jobs \union {NoJob}
    BY <1>1 DEF TypeOK
  <2>3. SessionSense /\ StopSense
    OBVIOUS
  <2>4. SessionSense'
    BY ONLY <2>1, <2>2, <2>3 DEF SessionSense
  <2>5. StopSense'
    BY ONLY <2>1, <2>2, <2>3 DEF StopSense, IsStop
  <2> QED BY <2>4, <2>5
<1>12. HandSense'
  <2> SUFFICES ASSUME NEW i \in Jobs, post'[i].type = "remote_shell_start",
                      post'[i].stage \in {"sent", "created"} \/ row'[i] # "none"
               PROVE  InHand(i)'
    BY DEF HandSense
  <2>1. InHand(i)
    BY <1>1 DEF HandSense
  <2> QED BY <1>1, <2>1 DEF InHand, IsStop
<1> QED BY <1>6, <1>7, <1>8, <1>9, <1>10, <1>11, <1>12

-----------------------------------------------------------------------------
(* The terminal, and going to and fro.                                     *)

\* The modules of a terminal have loaded, in time or too late.
LEMMA ReadyKeeps ==
  ASSUME IInv, Ready \/ \E s \in outdated : ReadyTooLate(s)
  PROVE  IInv'
<1> USE DEF IInv
<1>1. /\ UNCHANGED <<role, agentVars, place, session, starting, jobVars, given, faults>>
      /\ loading' \in {loading, NoTerminal} /\ terminal' \in {loading, terminal}
      /\ outdated' \subseteq outdated /\ strays' = strays
      /\ loading # NoTerminal \/ terminal' = terminal
  BY DEF Ready, ReadyTooLate, OpensAfterCleanup
<1> USE <1>1, Markers DEF agentVars, jobVars
<1>2. TypeOK'
  BY DEF TypeOK
<1>3. SeenSense'
  BY SeenKeeps
<1>4. PanelSense' /\ AwaitedSense'
  BY DEF PanelSense, AwaitedSense
<1>5. PostSense' /\ SessionSense' /\ StopSense' /\ HandSense'
  BY DEF PostSense, SessionSense, StopSense, HandSense, InHand, IsStop
<1> QED BY <1>2, <1>3, <1>4, <1>5

\* The panel appears without a session.
LEMMA OpenShellKeeps ==
  ASSUME IInv, OpenShell
  PROVE  IInv'
<1> USE DEF IInv
<1>1. /\ UNCHANGED <<role, agentVars, session, starting, strays, jobVars, given, faults>>
      /\ place = "tab" /\ place' = "shell" /\ session = NoJob /\ ~starting
      /\ loading' = NoJob /\ terminal' = NoTerminal
      /\ outdated' = outdated \union ({loading} \ {NoTerminal})
  BY DEF OpenShell, Effect, PanelSense
<1> USE <1>1, Markers DEF agentVars, jobVars
<1>2. TypeOK'
  BY DEF TypeOK
<1>3. SeenSense'
  BY SeenKeeps
<1>4. PanelSense' /\ AwaitedSense'
  BY DEF PanelSense, AwaitedSense
<1>5. PostSense' /\ SessionSense' /\ StopSense' /\ HandSense'
  BY DEF PostSense, SessionSense, StopSense, HandSense, InHand, IsStop
<1> QED BY <1>2, <1>3, <1>4, <1>5

\* Another page, or another tab: the panel goes and gives up what it had.
LEMMA LeaveKeeps ==
  ASSUME IInv, NEW to \in {"tab", "away"}, Leave(to)
  PROVE  IInv'
<1> USE DEF IInv
<1>d. /\ dialog' \in [open: BOOLEAN, seen: Loading..MaxChanges, of: Jobs \union {NoJob}]
      /\ dialog'.open => dialog.open /\ dialog'.seen = dialog.seen
  BY NumberAssumption DEF Leave, TypeOK, Closed, Loading
<1>1. CASE place # "shell"
  <2>1. /\ UNCHANGED <<role, agentVars, panel, post, row, given, faults>>
        /\ place' \in {"tab", "away"}
    BY <1>1 DEF Leave
  <2>2. version' \in 0..MaxChanges /\ version' >= version
    BY <2>1 DEF agentVars, TypeOK
  <2>3. TypeOK'
    BY <1>d, <2>1 DEF TypeOK, agentVars, panel
  <2> QED BY <1>1, <1>d, <2>1, <2>2, <2>3, SeenKeeps, StatusKeeps
<1>2. CASE place = "shell"
  <2>1. /\ UNCHANGED <<role, agentVars, strays, row, faults>>
        /\ place' \in {"tab", "away"} /\ session' = NoJob /\ starting' = FALSE
        /\ loading' = NoTerminal /\ terminal' = NoTerminal
        /\ outdated' = outdated \union ({loading} \ {NoTerminal})
        /\ given' = given \union Awaited \union ({session} \ {NoJob})
    BY <1>2 DEF Leave, Unmount
  <2>2. /\ post' \in [Jobs -> Posts]
        /\ \A i \in Jobs :
             /\ post'[i].type = post[i].type /\ post'[i].of = post[i].of /\ post'[i].seen = post[i].seen
             /\ post'[i].stage = post[i].stage /\ ~post'[i].heeded
    <3>1. post' = [i \in Jobs |-> [post[i] EXCEPT !.heeded = FALSE]] /\ post \in [Jobs -> Posts]
      BY <1>2 DEF Leave, Unmount, TypeOK, Posts
    <3> QED BY <3>1 DEF Posts
  <2>3. \A i \in Jobs : post[i] = Unasked => post'[i] = Unasked
    BY <1>2 DEF Leave, Unmount, Unasked
  <2> USE <2>1, <2>2, <2>3, Markers DEF agentVars
  <2>4. TypeOK'
    BY <1>d DEF TypeOK, Posts, Awaited
  <2>5. SeenSense'
    BY <1>d, SeenKeeps
  <2>6. PanelSense' /\ AwaitedSense'
    BY DEF PanelSense, AwaitedSense
  <2>7. PostSense' /\ SessionSense'
    BY DEF PostSense, SessionSense
  <2>8. StopSense'
    <3>1. \A i, k \in Jobs : IsStop(k, i)' <=> IsStop(k, i)
      BY DEF IsStop
    <3> QED BY <3>1 DEF StopSense
  <2>9. HandSense'
    <3> SUFFICES ASSUME NEW i \in Jobs, post'[i].type = "remote_shell_start",
                        post'[i].stage \in {"sent", "created"} \/ row'[i] # "none"
                 PROVE  InHand(i)'
      BY DEF HandSense
    <3>1. InHand(i)
      BY DEF HandSense
    <3>2. session = i \/ post[i].heeded => i \in given'
      BY DEF Awaited
    <3> QED BY <3>1, <3>2 DEF InHand, IsStop
  <2> QED BY <2>4, <2>5, <2>6, <2>7, <2>8, <2>9
<1> QED BY <1>1, <1>2

-----------------------------------------------------------------------------
(* Theorems.                                                               *)

\* The invariant holds throughout.
THEOREM Inductive == Spec => []IInv
<1>1. Init => IInv
  BY InitIInv
<1>2. IInv /\ [Next]_vars => IInv'
  <2> SUFFICES ASSUME IInv, [Next]_vars PROVE IInv'
    OBVIOUS
  <2>1. CASE Poll \/ Read \/ Answer \/ Change \/ ReadFails \/ OpenPage
    BY <2>1, QueryKeeps
  <2>2. CASE \E v \in news : News(v) \/ NewsLost(v)
    BY <2>2, QueryKeeps
  <2>3. CASE \E j \in Jobs : (\E t \in Buttons : Press(j, t)) \/ Submit(j)
    BY <2>3, PressKeeps
  <2>9. CASE OpenDialog \/ CloseDialog
    BY <2>9, DialogKeeps
  <2>4. CASE \E j \in Jobs : Create(j) \/ Answered(j) \/ PostFails(j)
    BY <2>4, CreateKeeps, AnsweredKeeps, PostFailsKeeps
  <2>5. CASE \E j \in Jobs : StartSession(j) \/ StopSession(j)
    BY <2>5, StartKeeps, StopKeeps
  <2>6. CASE Ready \/ \E s \in outdated : ReadyTooLate(s)
    BY <2>6, ReadyKeeps
  <2>7. CASE OpenShell \/ \E to \in {"tab", "away"} : Leave(to)
    BY <2>7, OpenShellKeeps, LeaveKeeps
  <2>8. CASE UNCHANGED vars
    <3>1. UNCHANGED <<role, panel, jobVars, given, agentVars, place, faults>>
      BY <2>8 DEF vars
    <3>2. version' \in 0..MaxChanges /\ version' >= version /\ place' \in {"shell", "tab", "away"}
      BY <3>1 DEF agentVars, IInv, TypeOK
    <3>3. TypeOK'
      BY <3>1 DEF IInv, TypeOK, agentVars, panel, jobVars
    <3> QED BY <3>1, <3>2, <3>3, SeenKeeps, StatusKeeps DEF IInv, jobVars
  <2> QED BY <2>1, <2>2, <2>3, <2>4, <2>5, <2>6, <2>7, <2>8, <2>9 DEF Next
<1> QED BY <1>1, <1>2, PTL DEF Spec

\* Every variable keeps its type.
THEOREM TypeCorrect == Spec => []TypeOK
BY Inductive, PTL DEF IInv

\* What is typed goes to the session shown, and no other terminal is open.
THEOREM InputIsForTheSession == Spec => []InputGoesToShown
<1>1. IInv => InputGoesToShown
  BY DEF IInv, PanelSense, InputGoesToShown
<1> QED BY <1>1, Inductive, PTL

\* A session that was started is in somebody's hands, or was given up.
THEOREM SessionsAreInHand == Spec => []NoOrphanSession
<1>1. IInv => NoOrphanSession
  BY DEF IInv, HandSense, InHand, IsStop, NoOrphanSession, Awaited, Stops
<1> QED BY <1>1, Inductive, PTL

\* An answer about the agent is not older than the event that made the page ask.
THEOREM AnswersKnowTheEvents == Spec => []AnswersAreFresh
<1>1. IInv => AnswersAreFresh
  BY DEF IInv, SeenSense
<1> QED BY <1>1, Inductive, PTL

\* A session is asked to stop once.
THEOREM StoppedOnce == Spec => []StopAtMostOnce
<1>1. IInv => StopAtMostOnce
  <2> SUFFICES ASSUME IInv, NEW j \in Jobs PROVE Cardinality(Stops(j)) <= 1
    BY DEF StopAtMostOnce
  <2>1. CASE Stops(j) = {}
    BY <2>1, FS_EmptySet
  <2>2. CASE Stops(j) # {}
    <3>1. PICK k \in Jobs : k \in Stops(j)
      BY <2>2 DEF Stops
    <3>2. Stops(j) = {k}
      BY <3>1 DEF IInv, StopSense, IsStop, Stops
    <3> QED BY <3>2, FS_Singleton
  <2> QED BY <2>1, <2>2
<1> QED BY <1>1, Inductive, PTL

\* No stop is refused: the tables let everybody stop what they could start.
THEOREM StopsAreAccepted == Spec => []StopAccepted
<1>1. IInv => StopAccepted
  BY DEF IInv, PostSense, StopAccepted
<1> QED BY <1>1, Inductive, PTL

\* A job is not set aside unless the agent has gone away since the button was pressed, or
\* the dialog opened, on a page that showed it online: nothing checks again before the
\* script is sent, and the page may show the agent offline by then.
THEOREM SetAsideHasACause == Spec => []SetAsideOnlyIfStale
<1>1. IInv => SetAsideOnlyIfStale
  BY DEF IInv, PostSense, SetAsideOnlyIfStale
<1> QED BY <1>1, Inductive, PTL
=============================================================================
