------------------------------ MODULE AgentPage ------------------------------
(***************************************************************************)
(* The page of one agent in the browser of one user: the agent's status as *)
(* the page last read it, which enables its buttons; the jobs it asks for; *)
(* the dialog in which a script is written and sent; and the remote shell  *)
(* panel, whose session is the job that started it and whose terminal is   *)
(* set up asynchronously for one session.                                  *)
(*                                                                         *)
(* The agent's status is told by the number of its changes: online while   *)
(* that is even.  No service publishes the notification that would end a   *)
(* session from outside, so nothing here does.                             *)
(***************************************************************************)
EXTENDS Integers, FiniteSets, AccessControl

CONSTANTS
  MaxJobs,     \* bound: calls of createJob.mutate
  Users,       \* the roles of those who look at the page
  Buttons,     \* the types of job its buttons ask for at once
  MaxChanges,  \* bound: changes of the agent's status
  MaxFaults    \* bound: failed requests and lost events

ASSUME NumberAssumption == MaxJobs \in Nat /\ MaxChanges \in Nat /\ MaxFaults \in Nat
ASSUME TableAssumption  == Users \subseteq Roles /\ Buttons \subseteq {"reboot", "shutdown"}

VARIABLES
  role,      \* the user's, one of BUILT_IN_ROLES
  version,   \* how often the agent's status has changed
  query,     \* the request of useAgent, and the version it has read
  shown,     \* the version the page shows, Loading before the first
  news,      \* status events on their way to the page
  heard,     \* history: the newest event that made a page with data ask again
  place,     \* the tab that is open: the shell's, another one, or not this page
  session,   \* sessionId of the panel
  starting,  \* isConnecting of the panel
  loading,   \* the session initTerminal is at work for
  outdated,  \* sessions of runs of initTerminal that have been cleaned up
  terminal,  \* the session that the terminal of terminalInstanceRef writes to
  strays,    \* terminals that nobody can dispose
  post,      \* what was asked with createJob
  row,       \* jobs.status as createJob leaves it, "none" without a row
  dialog,    \* RunScriptDialog: the version shown when it opened, the job it waits for
  given,     \* history: sessions given up by leaving or by a failed request
  faults

agentVars == <<version, query, shown, news, heard>>
panel     == <<session, starting, loading, outdated, terminal, strays>>
jobVars   == <<post, row, dialog>>
vars      == <<role, agentVars, place, panel, jobVars, given, faults>>

Jobs == 1..MaxJobs        \* in the order in which they are asked for
NoJob == 0                \* no session
NoTerminal == -1
Loading == -1
Online(v) == v >= 0 /\ v % 2 = 0
Idle == [stage |-> "idle", of |-> Loading]
Closed == [open |-> FALSE, seen |-> Loading, of |-> NoJob]
Types == Buttons \union Shell \union {"run_script"}
Unasked == [stage |-> "none", type |-> "remote_shell_stop", of |-> NoJob, seen |-> Loading, heeded |-> FALSE]

TypeOK ==
  /\ role \in Users
  /\ version \in 0..MaxChanges /\ shown \in Loading..MaxChanges /\ heard \in 0..MaxChanges
  /\ query \in [stage: {"idle", "asked", "read"}, of: Loading..MaxChanges]
  /\ news \subseteq 1..MaxChanges
  /\ place \in {"shell", "tab", "away"}
  /\ session \in Jobs \union {NoJob} /\ starting \in BOOLEAN
  /\ loading \in Jobs \union {NoJob, NoTerminal}
  /\ terminal \in Jobs \union {NoJob, NoTerminal}
  /\ outdated \subseteq Jobs \union {NoJob} /\ strays \subseteq Jobs \union {NoJob}
  /\ post \in [Jobs -> [stage: {"none", "sent", "created", "refused", "answered"},
                        type: Types, of: Jobs \union {NoJob},
                        seen: Loading..MaxChanges, heeded: BOOLEAN]]
  /\ row \in [Jobs -> {"none", "pending", "agent_offline"}]
  /\ dialog \in [open: BOOLEAN, seen: Loading..MaxChanges, of: Jobs \union {NoJob}]
  /\ given \subseteq Jobs /\ faults \in 0..MaxFaults

Init ==
  /\ role \in Users
  /\ version = 0 /\ query = Idle /\ shown = Loading /\ news = {} /\ heard = 0
  /\ place = "away"
  /\ session = NoJob /\ starting = FALSE
  /\ loading = NoTerminal /\ outdated = {} /\ terminal = NoTerminal /\ strays = {}
  /\ post = [j \in Jobs |-> Unasked]
  /\ row = [j \in Jobs |-> "none"]
  /\ dialog = Closed
  /\ given = {} /\ faults = 0

-----------------------------------------------------------------------------
(* useAgent: one request at a time, every ten seconds and when asked to.   *)

Asked == [stage |-> "asked", of |-> Loading]

\* Variant: the page does not poll.
NeverPolls == FALSE
Polls == place # "away"

Poll ==
  /\ Polls /\ query = Idle
  /\ query' = Asked
  /\ UNCHANGED <<role, version, shown, news, heard, place, panel, jobVars, given, faults>>

Read ==
  /\ query.stage = "asked"
  /\ query' = [stage |-> "read", of |-> version]
  /\ UNCHANGED <<role, version, shown, news, heard, place, panel, jobVars, given, faults>>

Answer ==
  /\ query.stage = "read"
  /\ shown' = query.of
  /\ query' = Idle
  /\ UNCHANGED <<role, version, news, heard, place, panel, jobVars, given, faults>>

\* refetch() cancels a request under way, unless the query has no data yet: then it
\* waits for that one.  Variant: it always waits for that one.
Joins == IF query = Idle THEN Asked ELSE query
Refetched == IF query = Idle \/ shown # Loading THEN Asked ELSE query

\* The backend changes the row, and publishes afterwards.
Change ==
  /\ version < MaxChanges
  /\ version' = version + 1
  /\ news' = news \union {version'}
  /\ UNCHANGED <<role, query, shown, heard, place, panel, jobVars, given, faults>>

News(v) ==
  /\ v \in news /\ news' = news \ {v}
  /\ IF place = "away" THEN UNCHANGED <<query, heard>>
     ELSE /\ query' = Refetched
          /\ heard' = IF shown # Loading /\ v > heard THEN v ELSE heard
  /\ UNCHANGED <<role, version, shown, place, panel, jobVars, given, faults>>

-----------------------------------------------------------------------------
(* createJob.mutate, and POST /jobs.                                       *)

IsOnline == Online(shown)

\* The panel waits for the answers to its starts.
Ask(j, type, of, seen) ==
  /\ post[j].stage = "none" /\ \A i \in 1..(j - 1) : post[i].stage # "none"
  /\ post' = [post EXCEPT ![j] = [stage |-> "sent", type |-> type, of |-> of, seen |-> seen,
                                   heeded |-> type = "remote_shell_start"]]

\* Variant: the buttons are always enabled.
PressAnyway == TRUE
Enabled == IsOnline

\* Reboot, Shutdown.
Press(j, type) ==
  /\ place # "away" /\ shown # Loading /\ Enabled
  /\ Ask(j, type, NoJob, shown)
  /\ UNCHANGED <<role, agentVars, place, panel, row, dialog, given, faults>>

\* Run Script opens the dialog; its user may go on with what is behind it.
OpenDialog ==
  /\ place # "away" /\ shown # Loading /\ Enabled /\ ~dialog.open
  /\ dialog' = [open |-> TRUE, seen |-> shown, of |-> NoJob]
  /\ UNCHANGED <<role, agentVars, place, panel, post, row, given, faults>>

CloseDialog ==
  /\ dialog.open /\ dialog' = Closed
  /\ UNCHANGED <<role, agentVars, place, panel, post, row, given, faults>>

\* Execute, whatever has become of the agent's status meanwhile.
Submit(j) ==
  /\ dialog.open /\ dialog.of = NoJob
  /\ Ask(j, "run_script", NoJob, dialog.seen)
  /\ dialog' = [dialog EXCEPT !.of = j]
  /\ UNCHANGED <<role, agentVars, place, panel, row, given, faults>>

\* A script that was accepted closes the dialog that sent it, if it is still open.
AfterAnswer(j, accepted) ==
  IF dialog.of # j THEN dialog ELSE IF accepted THEN Closed ELSE [dialog EXCEPT !.of = NoJob]

Create(j) ==
  /\ post[j].stage = "sent"
  /\ IF MayCreate(role, post[j].type)
       THEN /\ post' = [post EXCEPT ![j].stage = "created"]
            /\ row' = [row EXCEPT ![j] = IF Online(version) THEN "pending" ELSE "agent_offline"]
       ELSE /\ post' = [post EXCEPT ![j].stage = "refused"]
            /\ UNCHANGED row
  /\ UNCHANGED <<role, agentVars, place, panel, dialog, given, faults>>

-----------------------------------------------------------------------------
(* The terminal of the panel: an effect that runs for each session.        *)

\* The effect for the session before is cleaned up, and runs for this one.
\* Variant: the session is not among its dependencies.
EffectStays(s) ==
  /\ loading' = IF loading = NoTerminal /\ terminal = NoTerminal THEN s ELSE loading
  /\ UNCHANGED <<outdated, terminal>>
Effect(s) ==
  /\ loading' = s
  /\ outdated' = outdated \union ({loading} \ {NoTerminal})
  /\ terminal' = NoTerminal

\* The modules are there.
Ready ==
  /\ loading # NoTerminal
  /\ terminal' = loading
  /\ loading' = NoTerminal
  /\ UNCHANGED <<role, agentVars, place, session, starting, outdated, strays, jobVars, given, faults>>

\* A run that was cleaned up meanwhile finds that it is not mounted any more.
\* Variant: it does not ask.
OpensAnyway(s) == {s}
OpensAfterCleanup(s) == {}

ReadyTooLate(s) ==
  /\ s \in outdated
  /\ outdated' = outdated \ {s}
  /\ strays' = strays \union OpensAfterCleanup(s)
  /\ UNCHANGED <<role, agentVars, place, session, starting, loading, terminal, jobVars, given, faults>>

-----------------------------------------------------------------------------
(* startSession and stopSession.                                           *)

\* Variant: only the row of buttons knows that a session is starting.
CanStartAgain == IsOnline
CanStart == IsOnline /\ ~starting

StartSession(j) ==
  /\ place = "shell" /\ session = NoJob /\ CanStart
  /\ Ask(j, "remote_shell_start", NoJob, shown)
  /\ starting' = TRUE
  /\ UNCHANGED <<role, agentVars, place, session, loading, outdated, terminal, strays, row, dialog, given, faults>>

\* The answer to a start that the panel still waits for.
Started(j) ==
  /\ post[j].heeded
  /\ starting' = FALSE
  /\ IF post[j].stage = "created"
       THEN session' = j /\ Effect(j)
       ELSE UNCHANGED <<session, loading, outdated, terminal>>

Answered(j) ==
  /\ post[j].stage \in {"created", "refused"}
  /\ post' = [post EXCEPT ![j].stage = "answered", ![j].heeded = FALSE]
  /\ \/ Started(j)
     \/ /\ ~post[j].heeded
        /\ UNCHANGED <<session, starting, loading, outdated, terminal>>
  /\ dialog' = AfterAnswer(j, post[j].stage = "created")
  /\ UNCHANGED <<role, agentVars, place, strays, row, given, faults>>

\* The panel forgets the session before it knows what becomes of the stop.
StopSession(j) ==
  /\ place = "shell" /\ session # NoJob
  /\ Ask(j, "remote_shell_stop", session, Loading)
  /\ session' = NoJob
  /\ Effect(NoJob)
  /\ UNCHANGED <<role, agentVars, place, starting, strays, row, dialog, given, faults>>

-----------------------------------------------------------------------------
(* Going to and fro.                                                       *)

\* Starts whose answer the panel waits for.
Awaited == {j \in Jobs : post[j].heeded}

\* The panel is gone: nobody waits for its answers, and its session is not stopped.
Unmount ==
  /\ session' = NoJob /\ starting' = FALSE
  /\ loading' = NoTerminal /\ terminal' = NoTerminal
  /\ outdated' = outdated \union ({loading} \ {NoTerminal})
  /\ post' = [j \in Jobs |-> [post[j] EXCEPT !.heeded = FALSE]]
  /\ given' = given \union Awaited \union ({session} \ {NoJob})

\* A first visit shows no tab until the agent is read.
OpenPage ==
  /\ place = "away" /\ place' = "tab"
  /\ query' = IF query = Idle THEN Asked ELSE query
  /\ UNCHANGED <<role, version, shown, news, heard, panel, jobVars, given, faults>>

OpenShell ==
  /\ place = "tab" /\ place' = "shell" /\ shown # Loading
  /\ Effect(NoJob)
  /\ UNCHANGED <<role, agentVars, session, starting, strays, jobVars, given, faults>>

Leave(to) ==
  /\ place # "away" /\ to # place /\ place' = to
  /\ IF place = "shell" THEN Unmount /\ UNCHANGED <<strays, row>>
                        ELSE to = "away" /\ UNCHANGED <<panel, post, row, given>>
  /\ dialog' = IF to = "away" THEN Closed ELSE dialog
  /\ UNCHANGED <<role, agentVars, faults>>

-----------------------------------------------------------------------------
(* What goes wrong.                                                        *)

Fault == faults < MaxFaults /\ faults' = faults + 1

\* The request or its answer is lost, the row being there or not: onError.
PostFails(j) ==
  /\ Fault
  /\ post[j].stage \in {"sent", "created"}
  /\ post' = [post EXCEPT ![j].stage = "answered", ![j].heeded = FALSE]
  /\ given' = given \union ({j} \intersect Awaited)
  /\ starting' = (starting /\ j \notin Awaited)
  /\ dialog' = AfterAnswer(j, FALSE)
  /\ UNCHANGED <<role, agentVars, place, session, loading, outdated, terminal, strays, row>>

ReadFails ==
  /\ Fault
  /\ query # Idle /\ query' = Idle
  /\ UNCHANGED <<role, version, shown, news, heard, place, panel, jobVars, given>>

\* The tab's socket is not open.
NewsLost(v) ==
  /\ Fault
  /\ v \in news /\ news' = news \ {v}
  /\ UNCHANGED <<role, version, query, shown, heard, place, panel, jobVars, given>>

-----------------------------------------------------------------------------
Next ==
  \/ Poll \/ Read \/ Answer \/ Change
  \/ \E v \in news : News(v) \/ NewsLost(v)
  \/ \E j \in Jobs, t \in Buttons : Press(j, t)
  \/ OpenDialog \/ CloseDialog
  \/ \E j \in Jobs : Submit(j) \/ Create(j) \/ Answered(j) \/ PostFails(j)
  \/ \E j \in Jobs : StartSession(j) \/ StopSession(j)
  \/ Ready \/ \E s \in outdated : ReadyTooLate(s)
  \/ OpenPage \/ OpenShell \/ \E to \in {"tab", "away"} : Leave(to)
  \/ ReadFails

\* The interval of useAgent, and the answers to its requests.
Fairness == WF_vars(Poll) /\ WF_vars(Read) /\ WF_vars(Answer)

Spec     == Init /\ [][Next]_vars
FairSpec == Spec /\ Fairness

-----------------------------------------------------------------------------
(* Properties.                                                             *)

\* The answer that the page is about to show is not older than an event that made it
\* ask again, even if an earlier request was under way.
AnswersAreFresh == query.stage = "read" => query.of >= heard

\* The only terminal that is open is the one of terminalInstanceRef, and what is typed
\* there goes to the session that the panel shows, however sessions and visits follow
\* each other while the terminal's modules load.
InputGoesToShown == strays = {} /\ terminal \in {NoTerminal, session}

\* A session is asked to stop once.
Stops(j) == {k \in Jobs : post[k].type = "remote_shell_stop" /\ post[k].of = j}
StopAtMostOnce == \A j \in Jobs : Cardinality(Stops(j)) <= 1

\* Whoever could start a session can stop it: no rule of the tables is in the way.
StopAccepted ==
  \A k \in Jobs : (post[k].type = "remote_shell_stop" /\ post[k].stage # "none") => post[k].stage # "refused"

\* A session that was started is shown, or about to be, or was asked to stop,
\* unless the user left the panel or the answer was lost.
NoOrphanSession ==
  \A j \in Jobs :
    (post[j].type = "remote_shell_start" /\ row[j] # "none")
      => session = j \/ j \in Awaited \/ Stops(j) # {} \/ j \in given

\* Stops excepted, a job is set aside only if the agent's status has changed since the page
\* last read it when the job's button was pressed: for a script that is the button that
\* opens the dialog, which may be sent from a page that shows the agent offline by then.
SetAsideOnlyIfStale ==
  \A j \in Jobs :
    (row[j] = "agent_offline" /\ post[j].type # "remote_shell_stop") => post[j].seen < version

\* While the page is open it comes to show the agent's status, with or without events.
PageCatchesUp == <>[](place # "away") => <>[](shown = version)
=============================================================================
