---------------------------- MODULE AgentPresence ----------------------------
(***************************************************************************)
(* Which agents are online: the heartbeat handler (processHeartbeat) and   *)
(* the sweep (markStaleAgentsOffline) both write agents.status, and both   *)
(* tell the audit trail and the UI what they believe has changed.  Each    *)
(* awaited call is an action.                                              *)
(*                                                                         *)
(* Time is one bit per agent: whether its last_seen is older than the 90   *)
(* seconds of the sweep.  Left out because they do not change or are read  *)
(* by nothing: agent_version, the capabilities (enabled at enrollment and  *)
(* only ever enabled again), agent:status and agent:lastseen in Redis.     *)
(***************************************************************************)
EXTENDS Naturals, FiniteSets

CONSTANTS
  Agents,     \* enrolled agents
  Beats,      \* bound: heartbeat handlers open at one time
  Sweeps,     \* bound: runs of the sweep open at one time
  MaxBeats,   \* bound: heartbeats each agent sends
  MaxFaults,  \* bound: failures of any kind in one behaviour
  NoAgent     \* the agent of a handler that is not in use

ASSUME BoundAssumption   == MaxBeats \in Nat /\ MaxFaults \in Nat
ASSUME NoAgentAssumption == NoAgent \notin Agents
ASSUME FiniteAssumption  == IsFiniteSet(Beats) /\ IsFiniteSet(Sweeps)

VARIABLES
  row,      \* agents.status
  silent,   \* agents.last_seen is more than 90 seconds ago
  audits,   \* how many audit entries of each action each agent has
  events,   \* how many status events were published, by their new_status
  flips,    \* history: how often each row went offline
  beat,     \* heartbeat requests and where their handlers are
  waiting,  \* the agent's heartbeat_loop waits for its response
  sent,     \* heartbeats sent
  sweep,    \* runs of the sweep: rows still to be told, row being told
  faults    \* failures so far

table  == <<row, silent, flips>>
told   == <<audits, events>>
client == <<waiting, sent>>
vars   == <<table, told, client, beat, sweep, faults>>

\* What an agent says of itself in a heartbeat.
Reported == {"online"}

Statuses == {"online", "offline"}
Actions  == {"agent.came_online", "agent.went_offline"}

Stages == {"free", "asked", "read", "updated", "audited", "done"}
FreeBeat == [stage |-> "free", agent |-> NoAgent, says |-> "none", seen |-> "none", live |-> FALSE]
Handlers == [stage: Stages, agent: Agents \union {NoAgent}, says: Statuses \union {"none"},
             seen: Statuses \union {"none"}, live: BOOLEAN]

\* A handler that has come to a stage; and one whose client waits no longer.
At(h, stage) == [stage |-> stage, agent |-> h.agent, says |-> h.says, seen |-> h.seen, live |-> h.live]
GivenUp(h) == [stage |-> h.stage, agent |-> h.agent, says |-> h.says, seen |-> h.seen, live |-> FALSE]

Idle == [due |-> {}, telling |-> NoAgent]

TypeOK ==
  /\ row \in [Agents -> Statuses]
  /\ silent \in [Agents -> BOOLEAN]
  /\ audits \in [Agents -> [Actions -> Nat]]
  /\ events \in [Agents -> [Statuses -> Nat]]
  /\ flips \in [Agents -> Nat]
  /\ beat \in [Beats -> Handlers]
  /\ waiting \in [Agents -> BOOLEAN]
  /\ sent \in [Agents -> 0..MaxBeats]
  /\ sweep \in [Sweeps -> [due: SUBSET Agents, telling: Agents \union {NoAgent}]]
  /\ faults \in 0..MaxFaults

\* enrollAgent inserts the row as online, seen now.
Init ==
  /\ row = [a \in Agents |-> "online"]
  /\ silent = [a \in Agents |-> FALSE]
  /\ audits = [a \in Agents |-> [x \in Actions |-> 0]]
  /\ events = [a \in Agents |-> [s \in Statuses |-> 0]]
  /\ flips = [a \in Agents |-> 0]
  /\ beat = [b \in Beats |-> FreeBeat]
  /\ waiting = [a \in Agents |-> FALSE]
  /\ sent = [a \in Agents |-> 0]
  /\ sweep = [s \in Sweeps |-> Idle]
  /\ faults = 0

-----------------------------------------------------------------------------
(* Telling: an entry in the audit trail, an event on Redis.                *)

OneMore(counts, a, k) == [counts EXCEPT ![a][k] = @ + 1]

Audit(a, action) == audits' = OneMore(audits, a, action)

Publish(a, new) == events' = OneMore(events, a, new)

-----------------------------------------------------------------------------
(* processHeartbeat: select, update, and if the two differ audit and       *)
(* publish.  The handler then goes on to the agent's jobs, and answers.    *)

SendBeat(a, b) ==
  /\ ~waiting[a] /\ sent[a] < MaxBeats /\ beat[b].stage = "free"
  /\ waiting' = [waiting EXCEPT ![a] = TRUE]
  /\ sent' = [sent EXCEPT ![a] = @ + 1]
  /\ \E s \in Reported :
       beat' = [beat EXCEPT ![b] = [stage |-> "asked", agent |-> a, says |-> s,
                                    seen |-> "none", live |-> TRUE]]
  /\ UNCHANGED <<table, told, sweep, faults>>

BeatRead(b) ==
  LET h == beat[b] IN
  /\ h.stage = "asked"
  /\ beat' = [beat EXCEPT ![b] = [stage |-> "read", agent |-> h.agent, says |-> h.says,
                                  seen |-> row[h.agent], live |-> h.live]]
  /\ UNCHANGED <<table, told, client, sweep, faults>>

\* The previous status is the one read before the UPDATE.
\* Variant: every heartbeat is taken for a change.
AlwaysChanged(h) == "updated"
AfterUpdate(h) == IF h.seen # h.says THEN "updated" ELSE "done"

BeatUpdate(b) ==
  LET h == beat[b] IN
  /\ h.stage = "read"
  /\ row' = [row EXCEPT ![h.agent] = h.says]
  /\ silent' = [silent EXCEPT ![h.agent] = FALSE]
  /\ beat' = [beat EXCEPT ![b] = At(h, AfterUpdate(h))]
  /\ UNCHANGED <<flips, told, client, sweep, faults>>

BeatAudit(b) ==
  LET h == beat[b] IN
  /\ h.stage = "updated"
  /\ Audit(h.agent, IF h.says = "online" THEN "agent.came_online" ELSE "agent.went_offline")
  /\ beat' = [beat EXCEPT ![b] = At(h, "audited")]
  /\ UNCHANGED <<table, events, client, sweep, faults>>

BeatPublish(b) ==
  LET h == beat[b] IN
  /\ h.stage = "audited"
  /\ Publish(h.agent, h.says)
  /\ beat' = [beat EXCEPT ![b] = At(h, "done")]
  /\ UNCHANGED <<table, audits, client, sweep, faults>>

\* The request ends: its client, if it still waits, goes round its loop.
Ended(b) ==
  /\ beat' = [beat EXCEPT ![b] = FreeBeat]
  /\ waiting' = IF beat[b].live THEN [waiting EXCEPT ![beat[b].agent] = FALSE] ELSE waiting

BeatAnswer(b) ==
  /\ beat[b].stage = "done"
  /\ Ended(b)
  /\ UNCHANGED <<table, told, sent, sweep, faults>>

BeatStep(b) ==
  \/ BeatRead(b)
  \/ BeatUpdate(b)
  \/ BeatAudit(b)
  \/ BeatPublish(b)
  \/ BeatAnswer(b)

-----------------------------------------------------------------------------
(* markStaleAgentsOffline: one UPDATE, then row by row audit and publish.  *)
(* Cron starts a run whether or not the one before has ended.              *)

\* Variants of the WHERE: the comparison reversed, and no look at the status.
StaleReversed == {a \in Agents : row[a] # "offline" /\ ~silent[a]}
StaleAgain == {a \in Agents : silent[a]}
Stale == {a \in Agents : row[a] # "offline" /\ silent[a]}

SweepUpdate(s) ==
  /\ sweep[s] = Idle
  /\ row' = [a \in Agents |-> IF a \in Stale THEN "offline" ELSE row[a]]
  /\ flips' = [a \in Agents |-> IF row[a] # row'[a] THEN flips[a] + 1 ELSE flips[a]]
  /\ sweep' = [sweep EXCEPT ![s] = [due |-> Stale, telling |-> NoAgent]]
  /\ UNCHANGED <<silent, told, client, beat, faults>>

SweepAudit(s) ==
  /\ sweep[s].telling = NoAgent
  /\ \E a \in sweep[s].due :
       /\ Audit(a, "agent.went_offline")
       /\ sweep' = [sweep EXCEPT ![s] = [due |-> sweep[s].due \ {a}, telling |-> a]]
  /\ UNCHANGED <<table, events, client, beat, faults>>

\* RETURNING gives the row as the UPDATE left it, so the old status the event
\* names is "offline" as well.
SweepPublish(s) ==
  LET a == sweep[s].telling IN
  /\ a # NoAgent
  /\ Publish(a, "offline")
  /\ sweep' = [sweep EXCEPT ![s] = [due |-> sweep[s].due, telling |-> NoAgent]]
  /\ UNCHANGED <<table, audits, client, beat, faults>>

SweepStep(s) ==
  \/ SweepUpdate(s)
  \/ SweepAudit(s)
  \/ SweepPublish(s)

\* Ninety seconds pass without a heartbeat that updates the row.
Lapse(a) ==
  /\ ~silent[a]
  /\ silent' = [silent EXCEPT ![a] = TRUE]
  /\ UNCHANGED <<row, flips, told, client, beat, sweep, faults>>

-----------------------------------------------------------------------------
(* What goes wrong.                                                        *)

Fault == faults < MaxFaults /\ faults' = faults + 1

\* The request, a call of its handler or its response fails.
BeatFails(b) ==
  /\ Fault
  /\ beat[b].stage # "free"
  /\ Ended(b)
  /\ UNCHANGED <<table, told, sent, sweep>>

\* The client's timeout, or the agent exits and is started again: the handler
\* goes on.
GiveUp(b) ==
  /\ Fault
  /\ beat[b].live
  /\ beat' = [beat EXCEPT ![b] = GivenUp(@)]
  /\ waiting' = [waiting EXCEPT ![beat[b].agent] = FALSE]
  /\ UNCHANGED <<table, told, sent, sweep>>

\* A call of the sweep throws: the scheduler logs it, and the rows of this run
\* that are not told yet never are.
SweepFails(s) ==
  /\ Fault
  /\ sweep[s] # Idle
  /\ sweep' = [sweep EXCEPT ![s] = Idle]
  /\ UNCHANGED <<table, told, client, beat>>

BackendCrash ==
  /\ Fault
  /\ beat' = [b \in Beats |-> FreeBeat]
  /\ waiting' = [a \in Agents |-> FALSE]
  /\ sweep' = [s \in Sweeps |-> Idle]
  /\ UNCHANGED <<table, told, sent>>

-----------------------------------------------------------------------------
Next ==
  \/ \E a \in Agents : Lapse(a) \/ \E b \in Beats : SendBeat(a, b)
  \/ \E b \in Beats : BeatStep(b) \/ BeatFails(b) \/ GiveUp(b)
  \/ \E s \in Sweeps : SweepStep(s) \/ SweepFails(s)
  \/ BackendCrash

\* The event loop runs handlers to their end, Cron starts the sweep again and
\* again, and time passes.  No agent is obliged to send a heartbeat.
Fairness ==
  /\ \A a \in Agents : WF_vars(Lapse(a))
  /\ \A b \in Beats : WF_vars(BeatStep(b))
  /\ \A s \in Sweeps : WF_vars(SweepStep(s))

Spec     == Init /\ [][Next]_vars
FairSpec == Spec /\ Fairness

-----------------------------------------------------------------------------
(* Properties.                                                             *)

\* An agent that is shown offline has been silent for 90 seconds: whatever
\* handlers and sweeps are under way, no heartbeat leaves its agent offline.
OfflineMeansSilent == \A a \in Agents : row[a] = "offline" => silent[a]

\* Each time a row goes offline, one run of the sweep has it to tell and
\* tells it once, although runs overlap; only a failure leaves it untold.
Owing(a) == {s \in Sweeps : a \in sweep[s].due}
OfflineToldOnce ==
  \A a \in Agents :
    LET known == audits[a]["agent.went_offline"] + Cardinality(Owing(a)) IN
    IF faults = 0 THEN known = flips[a] ELSE known <= flips[a]

\* Until something fails, an agent is not said to have come back more often
\* than it was gone.
NoPhantomReturn ==
  faults = 0 => \A a \in Agents : audits[a]["agent.came_online"] <= flips[a]

\* The UI is told nothing that the audit trail does not hold already.
NewsIsAudited ==
  \A a \in Agents :
    /\ events[a]["online"] <= audits[a]["agent.came_online"]
    /\ events[a]["offline"] <= audits[a]["agent.went_offline"]

\* An agent that sends no more heartbeats is shown offline in the end, and stays
\* so, whatever failed before.  (Each agent of the model sends at most MaxBeats.)
SilentGoesOffline == \A a \in Agents : <>[](row[a] = "offline")
=============================================================================
