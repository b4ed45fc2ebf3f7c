------------------------ MODULE AgentPresence_proofs ------------------------
(***************************************************************************)
(* Proofs about AgentPresence, for every set of agents, handlers and runs  *)
(* of the sweep, any number of heartbeats and any number of failures.      *)
(***************************************************************************)
EXTENDS AgentPresence, FiniteSetTheorems, TLAPS

USE BoundAssumption, NoAgentAssumption

\* A handler of its own has an agent; what it says and what it read are statuses.
Sensible(h) ==
  /\ h.stage # "free" => h.agent \in Agents /\ h.says \in Reported
  /\ h.stage \in {"read", "updated", "audited"} => h.seen \in Statuses

HandlerSense == \A b \in Beats : Sensible(beat[b])

\* The inductive invariant.
IInv == TypeOK /\ HandlerSense /\ OfflineMeansSilent

-----------------------------------------------------------------------------
(* Handlers and counters keep their types.                                 *)

LEMMA FreeBeatIsHandler == FreeBeat \in Handlers /\ Sensible(FreeBeat)
  BY DEF FreeBeat, Handlers, Stages, Sensible

LEMMA AtType ==
  ASSUME NEW h \in Handlers, Sensible(h), h.stage # "free",
         NEW stage \in {"updated", "audited", "done"}, h.stage \in {"read", "updated", "audited"}
  PROVE  At(h, stage) \in Handlers /\ Sensible(At(h, stage))
  BY DEF At, Handlers, Stages, Sensible

LEMMA GivenUpType ==
  ASSUME NEW h \in Handlers, Sensible(h)
  PROVE  GivenUp(h) \in Handlers /\ Sensible(GivenUp(h))
  BY DEF GivenUp, Handlers, Sensible

\* Counting one more keeps a table of counters a table of counters.
LEMMA OneMoreType ==
  ASSUME NEW K, NEW counts \in [Agents -> [K -> Nat]], NEW a \in Agents, NEW k \in K
  PROVE  OneMore(counts, a, k) \in [Agents -> [K -> Nat]]
<1> DEFINE f == counts[a]
           g == [f EXCEPT ![k] = f[k] + 1]
<1>1. f \in [K -> Nat]
  OBVIOUS
<1>2. f[k] + 1 \in Nat
  BY <1>1
<1>3. OneMore(counts, a, k) = [counts EXCEPT ![a] = g]
  BY DEF OneMore
<1> HIDE DEF f
<1>4. g \in [K -> Nat]
  BY <1>1, <1>2
<1> HIDE DEF g
<1>5. QED
  BY <1>3, <1>4

\* Changing one handler into a sensible one keeps all handlers sensible.
LEMMA OneBeat ==
  ASSUME TypeOK, HandlerSense, NEW b \in Beats, NEW h \in Handlers, Sensible(h),
         beat' = [beat EXCEPT ![b] = h]
  PROVE  beat' \in [Beats -> Handlers] /\ HandlerSense'
  BY DEF TypeOK, HandlerSense

\* Ending a request.
LEMMA EndedType ==
  ASSUME TypeOK, HandlerSense, NEW b \in Beats, Ended(b)
  PROVE  /\ beat' \in [Beats -> Handlers] /\ HandlerSense'
         /\ waiting' \in [Agents -> BOOLEAN]
<1>1. beat' \in [Beats -> Handlers] /\ HandlerSense'
  BY FreeBeatIsHandler, OneBeat DEF Ended
<1>2. waiting' \in [Agents -> BOOLEAN]
  BY DEF Ended, TypeOK
<1>3. QED
  BY <1>1, <1>2

\* The audit entry and the event.
LEMMA AuditType ==
  ASSUME TypeOK, NEW a \in Agents, NEW x \in Actions, Audit(a, x)
  PROVE  audits' \in [Agents -> [Actions -> Nat]]
<1>1. audits \in [Agents -> [Actions -> Nat]]
  BY DEF TypeOK
<1>2. QED
  BY <1>1, OneMoreType DEF Audit

LEMMA PublishType ==
  ASSUME TypeOK, NEW a \in Agents, NEW new \in Statuses, Publish(a, new)
  PROVE  events' \in [Agents -> [Statuses -> Nat]]
<1>1. events \in [Agents -> [Statuses -> Nat]]
  BY DEF TypeOK
<1>2. QED
  BY <1>1, OneMoreType DEF Publish

-----------------------------------------------------------------------------
(* Every step keeps the invariant.                                         *)

USE DEF table, told, client, vars

LEMMA Initially == Init => IInv
<1> SUFFICES ASSUME Init PROVE IInv
  OBVIOUS
<1>1. TypeOK
  BY FreeBeatIsHandler DEF Init, TypeOK, Statuses, Idle
<1>2. HandlerSense /\ OfflineMeansSilent
  BY FreeBeatIsHandler DEF Init, HandlerSense, OfflineMeansSilent
<1>3. QED
  BY <1>1, <1>2 DEF IInv

LEMMA BeatKeeps ==
  ASSUME IInv, NEW b \in Beats, BeatStep(b)
  PROVE  IInv'
<1> DEFINE h == beat[b]
<1>1. TypeOK /\ HandlerSense /\ OfflineMeansSilent /\ h \in Handlers /\ Sensible(h)
  BY DEF IInv, TypeOK, HandlerSense
<1>2. CASE BeatRead(b)
  <2> DEFINE g == [stage |-> "read", agent |-> h.agent, says |-> h.says,
                   seen |-> row[h.agent], live |-> h.live]
  <2>1. h.agent \in Agents /\ h.says \in Reported /\ row[h.agent] \in Statuses
    BY <1>1, <1>2 DEF BeatRead, Sensible, TypeOK
  <2>2. g \in Handlers /\ Sensible(g)
    BY <1>1, <2>1 DEF Handlers, Stages, Sensible, Statuses
  <2>3. beat' = [beat EXCEPT ![b] = g]
    BY <1>2 DEF BeatRead
  <2> HIDE DEF g
  <2>4. beat' \in [Beats -> Handlers] /\ HandlerSense'
    BY <1>1, <2>2, <2>3, OneBeat
  <2>5. QED
    BY <1>1, <1>2, <2>4 DEF IInv, BeatRead, TypeOK, OfflineMeansSilent
<1>3. CASE BeatUpdate(b)
  <2>1. h.agent \in Agents /\ h.says = "online" /\ h.stage = "read"
    BY <1>1, <1>3 DEF BeatUpdate, Sensible, Reported
  <2>2. At(h, AfterUpdate(h)) \in Handlers /\ Sensible(At(h, AfterUpdate(h)))
    BY <1>1, <2>1, AtType DEF AfterUpdate
  <2>3. beat' \in [Beats -> Handlers] /\ HandlerSense'
    BY <1>1, <1>3, <2>2, OneBeat DEF BeatUpdate
  <2>4. /\ row' = [row EXCEPT ![h.agent] = "online"]
        /\ silent' = [silent EXCEPT ![h.agent] = FALSE]
        /\ UNCHANGED <<flips, told, client, sweep, faults>>
    BY <1>3, <2>1 DEF BeatUpdate
  <2>5. TypeOK'
    BY <1>1, <2>3, <2>4 DEF TypeOK, Statuses
  <2>6. OfflineMeansSilent'
    BY <1>1, <2>1, <2>4 DEF OfflineMeansSilent, TypeOK
  <2>7. QED
    BY <2>3, <2>5, <2>6 DEF IInv
<1>4. CASE BeatAudit(b)
  <2>1. h.agent \in Agents /\ h.stage = "updated"
    BY <1>1, <1>4 DEF BeatAudit, Sensible
  <2>2. audits' \in [Agents -> [Actions -> Nat]]
    BY <1>1, <1>4, <2>1, AuditType DEF BeatAudit, Actions
  <2>3. beat' \in [Beats -> Handlers] /\ HandlerSense'
    BY <1>1, <1>4, <2>1, AtType, OneBeat DEF BeatAudit
  <2>4. QED
    BY <1>1, <1>4, <2>2, <2>3 DEF IInv, BeatAudit, TypeOK, OfflineMeansSilent
<1>5. CASE BeatPublish(b)
  <2>1. h.agent \in Agents /\ h.stage = "audited" /\ h.seen \in Statuses /\ h.says \in Statuses
    BY <1>1, <1>5 DEF BeatPublish, Sensible, Reported, Statuses
  <2>2. events' \in [Agents -> [Statuses -> Nat]]
    BY <1>1, <1>5, <2>1, PublishType DEF BeatPublish
  <2>3. beat' \in [Beats -> Handlers] /\ HandlerSense'
    BY <1>1, <1>5, <2>1, AtType, OneBeat DEF BeatPublish
  <2>4. QED
    BY <1>1, <1>5, <2>2, <2>3 DEF IInv, BeatPublish, TypeOK, OfflineMeansSilent
<1>6. CASE BeatAnswer(b)
  BY <1>1, <1>6, EndedType DEF IInv, BeatAnswer, TypeOK, OfflineMeansSilent
<1>7. QED
  BY <1>2, <1>3, <1>4, <1>5, <1>6 DEF BeatStep

LEMMA SweepKeeps ==
  ASSUME IInv, NEW s \in Sweeps, SweepStep(s)
  PROVE  IInv'
<1>1. TypeOK /\ HandlerSense /\ OfflineMeansSilent
  BY DEF IInv
<1>2. sweep[s].due \subseteq Agents /\ sweep[s].telling \in Agents \union {NoAgent}
  BY <1>1 DEF TypeOK
<1>3. CASE SweepUpdate(s)
  <2>1. Stale \subseteq Agents
    BY DEF Stale
  <2>2. /\ row' = [a \in Agents |-> IF a \in Stale THEN "offline" ELSE row[a]]
        /\ flips' = [a \in Agents |-> IF row[a] # row'[a] THEN flips[a] + 1 ELSE flips[a]]
        /\ sweep' = [sweep EXCEPT ![s] = [due |-> Stale, telling |-> NoAgent]]
        /\ UNCHANGED <<silent, told, client, beat, faults>>
    BY <1>3 DEF SweepUpdate
  <2>3. row' \in [Agents -> Statuses] /\ flips' \in [Agents -> Nat]
    BY <1>1, <2>2 DEF TypeOK, Statuses
  <2>4. sweep' \in [Sweeps -> [due: SUBSET Agents, telling: Agents \union {NoAgent}]]
    BY <1>1, <2>1, <2>2 DEF TypeOK
  <2>5. TypeOK'
    BY <1>1, <2>2, <2>3, <2>4 DEF TypeOK
  <2>6. OfflineMeansSilent'
    BY <1>1, <2>2 DEF OfflineMeansSilent, Stale
  <2>7. HandlerSense'
    BY <1>1, <2>2 DEF HandlerSense
  <2>8. QED
    BY <2>5, <2>6, <2>7 DEF IInv
<1>4. CASE SweepAudit(s)
  <2>1. PICK a \in sweep[s].due :
          /\ Audit(a, "agent.went_offline")
          /\ sweep' = [sweep EXCEPT ![s] = [due |-> sweep[s].due \ {a}, telling |-> a]]
    BY <1>4 DEF SweepAudit
  <2>2. audits' \in [Agents -> [Actions -> Nat]]
    BY <1>1, <1>2, <2>1, AuditType DEF Actions
  <2>3. sweep' \in [Sweeps -> [due: SUBSET Agents, telling: Agents \union {NoAgent}]]
    BY <1>1, <1>2, <2>1 DEF TypeOK
  <2>4. QED
    BY <1>1, <1>4, <2>2, <2>3 DEF IInv, SweepAudit, TypeOK, OfflineMeansSilent, HandlerSense
<1>5. CASE SweepPublish(s)
  <2>1. sweep[s].telling \in Agents
    BY <1>2, <1>5 DEF SweepPublish
  <2>2. events' \in [Agents -> [Statuses -> Nat]]
    BY <1>1, <1>5, <2>1, PublishType DEF SweepPublish, Statuses
  <2>3. sweep' \in [Sweeps -> [due: SUBSET Agents, telling: Agents \union {NoAgent}]]
    BY <1>1, <1>2, <1>5 DEF SweepPublish, TypeOK
  <2>4. QED
    BY <1>1, <1>5, <2>2, <2>3 DEF IInv, SweepPublish, TypeOK, OfflineMeansSilent, HandlerSense
<1>6. QED
  BY <1>3, <1>4, <1>5 DEF SweepStep

LEMMA NextKeeps ==
  ASSUME IInv, [Next]_vars
  PROVE  IInv'
<1>1. TypeOK /\ HandlerSense /\ OfflineMeansSilent
  BY DEF IInv
<1>2. ASSUME NEW a \in Agents, Lapse(a)
      PROVE  IInv'
  BY <1>1, <1>2 DEF IInv, Lapse, TypeOK, OfflineMeansSilent, HandlerSense
<1>3. ASSUME NEW a \in Agents, NEW b \in Beats, SendBeat(a, b)
      PROVE  IInv'
  <2>1. PICK says \in Reported :
          beat' = [beat EXCEPT ![b] = [stage |-> "asked", agent |-> a, says |-> says,
                                       seen |-> "none", live |-> TRUE]]
    BY <1>3 DEF SendBeat
  <2> DEFINE g == [stage |-> "asked", agent |-> a, says |-> says, seen |-> "none", live |-> TRUE]
  <2>2. g \in Handlers /\ Sensible(g)
    BY DEF Handlers, Stages, Sensible, Reported, Statuses
  <2> HIDE DEF g
  <2>3. beat' \in [Beats -> Handlers] /\ HandlerSense'
    BY <1>1, <2>1, <2>2, OneBeat DEF g
  <2>4. sent' \in [Agents -> 0..MaxBeats] /\ waiting' \in [Agents -> BOOLEAN]
    BY <1>1, <1>3 DEF SendBeat, TypeOK
  <2>5. QED
    BY <1>1, <1>3, <2>3, <2>4 DEF IInv, SendBeat, TypeOK, OfflineMeansSilent
<1>4. ASSUME Fault
      PROVE  faults' \in 0..MaxFaults
  BY <1>1, <1>4 DEF Fault, TypeOK
<1>5. ASSUME NEW b \in Beats, BeatFails(b)
      PROVE  IInv'
  BY <1>1, <1>4, <1>5, EndedType DEF IInv, BeatFails, TypeOK, OfflineMeansSilent
<1>6. ASSUME NEW b \in Beats, GiveUp(b)
      PROVE  IInv'
  <2>1. beat[b] \in Handlers /\ Sensible(beat[b])
    BY <1>1 DEF TypeOK, HandlerSense
  <2>2. beat' = [beat EXCEPT ![b] = GivenUp(beat[b])]
    BY <1>6 DEF GiveUp
  <2>3. beat' \in [Beats -> Handlers] /\ HandlerSense'
    BY <1>1, <2>1, <2>2, GivenUpType, OneBeat
  <2>4. QED
    BY <1>1, <1>4, <1>6, <2>3 DEF IInv, GiveUp, TypeOK, OfflineMeansSilent
<1>7. ASSUME NEW s \in Sweeps, SweepFails(s)
      PROVE  IInv'
  BY <1>1, <1>4, <1>7 DEF IInv, SweepFails, TypeOK, OfflineMeansSilent, HandlerSense, Idle
<1>8. CASE BackendCrash
  BY <1>1, <1>4, <1>8, FreeBeatIsHandler
  DEF IInv, BackendCrash, TypeOK, OfflineMeansSilent, HandlerSense, Idle
<1>9. CASE UNCHANGED vars
  BY <1>1, <1>9 DEF IInv, TypeOK, OfflineMeansSilent, HandlerSense
<1>10. QED
  BY <1>2, <1>3, <1>5, <1>6, <1>7, <1>8, <1>9, BeatKeeps, SweepKeeps DEF Next

-----------------------------------------------------------------------------
\* The inductive invariant holds in every state.
THEOREM Inductive == Spec => []IInv
  BY Initially, NextKeeps, PTL DEF Spec

\* Every variable keeps its type.
THEOREM TypeCorrect == Spec => []TypeOK
<1>1. IInv => TypeOK
  BY DEF IInv
<1>2. QED
  BY <1>1, Inductive, PTL

\* No heartbeat leaves its agent offline: an agent shown offline has been silent,
\* whatever the handlers, the runs of the sweep and the failures.
THEOREM OfflineOnlyIfSilent == Spec => []OfflineMeansSilent
<1>1. IInv => OfflineMeansSilent
  BY DEF IInv
<1>2. QED
  BY <1>1, Inductive, PTL

-----------------------------------------------------------------------------
(* Told once: counting the runs that still owe a row its entry.            *)

\* The runs that owe an entry, and those that have still to publish one, are finite.
Publishing(a) == {s \in Sweeps : sweep[s].telling = a}
Announcing(a) == {b \in Beats : beat[b].stage = "audited" /\ beat[b].agent = a}

LEMMA Countable ==
  ASSUME NEW S, IsFiniteSet(S), NEW T \in SUBSET S
  PROVE  IsFiniteSet(T) /\ Cardinality(T) \in Nat
  BY FS_Subset, FS_CardinalityType

LEMMA OwingCount ==
  ASSUME NEW a
  PROVE  /\ IsFiniteSet(Owing(a)) /\ Cardinality(Owing(a)) \in Nat
         /\ IsFiniteSet(Publishing(a)) /\ Cardinality(Publishing(a)) \in Nat
         /\ IsFiniteSet(Announcing(a)) /\ Cardinality(Announcing(a)) \in Nat
<1>1. /\ Owing(a) \in SUBSET Sweeps /\ Publishing(a) \in SUBSET Sweeps
      /\ Announcing(a) \in SUBSET Beats
  BY DEF Owing, Publishing, Announcing
<1>2. QED
  BY <1>1, Countable, FiniteAssumption

\* What is told of a row and what a run still owes it.
Known(a) == audits[a]["agent.went_offline"] + Cardinality(Owing(a))
ToldOf(a) == IF faults = 0 THEN Known(a) = flips[a] ELSE Known(a) <= flips[a]

\* The counters are numbers.
LEMMA CounterType ==
  ASSUME TypeOK, NEW a \in Agents
  PROVE  /\ audits[a]["agent.went_offline"] \in Nat /\ audits[a]["agent.came_online"] \in Nat
         /\ events[a]["online"] \in Nat /\ events[a]["offline"] \in Nat
         /\ flips[a] \in Nat /\ faults \in Nat
<1>1. audits[a] \in [Actions -> Nat] /\ events[a] \in [Statuses -> Nat]
  BY DEF TypeOK
<1>2. QED
  BY <1>1 DEF TypeOK, Actions, Statuses

\* An audit entry of one action of one agent changes no other counter.
LEMMA AuditCounts ==
  ASSUME TypeOK, NEW c \in Agents, NEW x \in Actions, Audit(c, x), NEW a \in Agents, NEW y \in Actions
  PROVE  audits'[a][y] = IF a = c /\ y = x THEN audits[a][y] + 1 ELSE audits[a][y]
<1>1. audits \in [Agents -> [Actions -> Nat]]
  BY DEF TypeOK
<1>2. audits' = [audits EXCEPT ![c][x] = audits[c][x] + 1]
  BY DEF Audit, OneMore
<1>3. audits[c] \in [Actions -> Nat] /\ audits[a] \in [Actions -> Nat]
  BY <1>1
<1>4. audits'[c] = [audits[c] EXCEPT ![x] = audits[c][x] + 1] /\ (a # c => audits'[a] = audits[a])
  BY <1>1, <1>2
<1>5. QED
  BY <1>3, <1>4

LEMMA PublishCounts ==
  ASSUME TypeOK, NEW c \in Agents, NEW x \in Statuses, Publish(c, x),
         NEW a \in Agents, NEW y \in Statuses
  PROVE  events'[a][y] = IF a = c /\ y = x THEN events[a][y] + 1 ELSE events[a][y]
<1>1. events \in [Agents -> [Statuses -> Nat]]
  BY DEF TypeOK
<1>2. events' = [events EXCEPT ![c][x] = events[c][x] + 1]
  BY DEF Publish, OneMore
<1>3. events[c] \in [Statuses -> Nat] /\ events[a] \in [Statuses -> Nat]
  BY <1>1
<1>4. events'[c] = [events[c] EXCEPT ![x] = events[c][x] + 1] /\ (a # c => events'[a] = events[a])
  BY <1>1, <1>2
<1>5. QED
  BY <1>3, <1>4

\* A step that tells nothing and owes nothing new leaves the count as it is.
LEMMA ToldFrame ==
  ASSUME IInv, NEW a \in Agents, ToldOf(a),
         audits'[a]["agent.went_offline"] = audits[a]["agent.went_offline"],
         flips'[a] = flips[a], Owing(a)' \subseteq Owing(a),
         faults' = 0 => faults = 0 /\ Owing(a)' = Owing(a)
  PROVE  ToldOf(a)'
<1>1. TypeOK
  BY DEF IInv
<1>2. Cardinality(Owing(a)') <= Cardinality(Owing(a)) /\ Cardinality(Owing(a)') \in Nat
  BY OwingCount, FS_Subset, FS_CardinalityType
<1>3. QED
  BY <1>1, <1>2, CounterType, OwingCount DEF ToldOf, Known

LEMMA ToldStep ==
  ASSUME IInv, [Next]_vars, NEW a \in Agents, ToldOf(a)
  PROVE  ToldOf(a)'
<1>1. TypeOK /\ HandlerSense
  BY DEF IInv
<1>2. CASE UNCHANGED <<audits, flips, sweep>> /\ (faults' = 0 => faults = 0)
  <2>1. Owing(a)' = Owing(a)
    BY <1>2 DEF Owing
  <2>2. QED
    BY <1>2, <2>1, ToldFrame
<1>3. ASSUME Fault
      PROVE  faults' # 0
  BY <1>1, <1>3 DEF Fault, TypeOK
<1>4. ASSUME NEW b \in Beats, BeatAudit(b)
      PROVE  ToldOf(a)'
  <2>1. beat[b].agent \in Agents /\ beat[b].says = "online"
    BY <1>1, <1>4 DEF HandlerSense, Sensible, BeatAudit, Reported
  <2>2. Audit(beat[b].agent, "agent.came_online")
    BY <1>4, <2>1 DEF BeatAudit
  <2>3. audits'[a]["agent.went_offline"] = audits[a]["agent.went_offline"]
    BY <1>1, <2>1, <2>2, AuditCounts DEF Actions
  <2>4. Owing(a)' = Owing(a) /\ flips' = flips /\ faults' = faults
    BY <1>4 DEF BeatAudit, Owing
  <2>5. QED
    BY <2>3, <2>4, ToldFrame
<1>5. ASSUME NEW s \in Sweeps, SweepUpdate(s)
      PROVE  ToldOf(a)'
  <2>1. /\ sweep[s].due = {} /\ row'[a] = IF a \in Stale THEN "offline" ELSE row[a]
        /\ flips'[a] = IF row[a] # row'[a] THEN flips[a] + 1 ELSE flips[a]
        /\ sweep' = [sweep EXCEPT ![s] = [due |-> Stale, telling |-> NoAgent]]
        /\ audits' = audits /\ faults' = faults
    BY <1>5 DEF SweepUpdate, Idle
  <2>2. CASE a \notin Stale
    <3>1. Owing(a)' = Owing(a)
      BY <1>1, <2>1, <2>2 DEF Owing, TypeOK
    <3>2. QED
      BY <2>1, <2>2, <3>1, ToldFrame
  <2>3. CASE a \in Stale
    <3>1. Owing(a)' = Owing(a) \union {s} /\ s \notin Owing(a)
      BY <1>1, <2>1, <2>3 DEF Owing, TypeOK
    <3>2. Cardinality(Owing(a)') = Cardinality(Owing(a)) + 1
      BY <3>1, OwingCount, FS_AddElement
    <3>3. flips'[a] = flips[a] + 1
      BY <2>1, <2>3 DEF Stale
    <3>4. QED
      BY <1>1, <2>1, <3>2, <3>3, CounterType, OwingCount DEF ToldOf, Known
  <2>4. QED
    BY <2>2, <2>3
<1>6. ASSUME NEW s \in Sweeps, SweepAudit(s)
      PROVE  ToldOf(a)'
  <2>1. PICK c \in sweep[s].due :
          /\ Audit(c, "agent.went_offline")
          /\ sweep' = [sweep EXCEPT ![s] = [due |-> sweep[s].due \ {c}, telling |-> c]]
    BY <1>6 DEF SweepAudit
  <2>2. c \in Agents /\ flips' = flips /\ faults' = faults
    BY <1>1, <1>6, <2>1 DEF TypeOK, SweepAudit
  <2>3. CASE a # c
    <3>1. audits'[a]["agent.went_offline"] = audits[a]["agent.went_offline"]
      BY <1>1, <2>1, <2>2, <2>3, AuditCounts DEF Actions
    <3>2. Owing(a)' = Owing(a)
      BY <1>1, <2>1, <2>3 DEF Owing, TypeOK
    <3>3. QED
      BY <2>2, <3>1, <3>2, ToldFrame
  <2>4. CASE a = c
    <3>1. audits'[a]["agent.went_offline"] = audits[a]["agent.went_offline"] + 1
      BY <1>1, <2>1, <2>2, <2>4, AuditCounts DEF Actions
    <3>2. Owing(a)' = Owing(a) \ {s} /\ s \in Owing(a)
      BY <1>1, <2>1, <2>4 DEF Owing, TypeOK
    <3>3. Cardinality(Owing(a)') = Cardinality(Owing(a)) - 1
      BY <3>2, OwingCount, FS_RemoveElement
    <3>4. QED
      BY <1>1, <2>2, <3>1, <3>3, CounterType, OwingCount DEF ToldOf, Known
  <2>5. QED
    BY <2>3, <2>4
<1>7. ASSUME NEW s \in Sweeps, SweepPublish(s)
      PROVE  ToldOf(a)'
  <2>1. Owing(a)' = Owing(a)
    BY <1>1, <1>7 DEF SweepPublish, Owing, TypeOK
  <2>2. QED
    BY <1>7, <2>1, ToldFrame DEF SweepPublish
<1>8. ASSUME NEW s \in Sweeps, SweepFails(s)
      PROVE  ToldOf(a)'
  <2>1. Owing(a)' \subseteq Owing(a)
    BY <1>1, <1>8 DEF SweepFails, Owing, TypeOK, Idle
  <2>2. QED
    BY <1>3, <1>8, <2>1, ToldFrame DEF SweepFails
<1>9. CASE BackendCrash
  <2>1. Owing(a)' \subseteq Owing(a)
    BY <1>9 DEF BackendCrash, Owing, Idle
  <2>2. QED
    BY <1>3, <1>9, <2>1, ToldFrame DEF BackendCrash
<1>10. CASE UNCHANGED vars
  BY <1>2, <1>10
<1>11. ASSUME NEW b \in Beats, BeatRead(b) \/ BeatUpdate(b) \/ BeatPublish(b) \/ BeatAnswer(b)
       PROVE  ToldOf(a)'
  BY <1>2, <1>11 DEF BeatRead, BeatUpdate, BeatPublish, BeatAnswer
<1>12. ASSUME NEW b \in Beats, BeatFails(b) \/ GiveUp(b)
       PROVE  ToldOf(a)'
  BY <1>2, <1>3, <1>12 DEF BeatFails, GiveUp
<1>13. ASSUME NEW c \in Agents, Lapse(c) \/ \E b \in Beats : SendBeat(c, b)
       PROVE  ToldOf(a)'
  BY <1>2, <1>13 DEF Lapse, SendBeat
<1>14. QED
  BY <1>4, <1>5, <1>6, <1>7, <1>8, <1>9, <1>10, <1>11, <1>12, <1>13
  DEF Next, BeatStep, SweepStep

\* Each time a row goes offline it is told once, although runs of the sweep
\* overlap and fail; while nothing fails none is forgotten.
THEOREM ToldOnce == Spec => []OfflineToldOnce
<1>1. OfflineToldOnce <=> \A a \in Agents : ToldOf(a)
  BY DEF OfflineToldOnce, ToldOf, Known
<1>2. Init => \A a \in Agents : ToldOf(a)
  <2> SUFFICES ASSUME Init, NEW a \in Agents PROVE ToldOf(a)
    OBVIOUS
  <2>1. Owing(a) = {}
    BY DEF Init, Owing, Idle
  <2>2. audits[a]["agent.went_offline"] = 0 /\ flips[a] = 0
    BY DEF Init, Actions
  <2>3. QED
    BY <2>1, <2>2, FS_EmptySet DEF ToldOf, Known
<1>3. IInv /\ OfflineToldOnce /\ [Next]_vars => OfflineToldOnce'
  <2> SUFFICES ASSUME IInv, OfflineToldOnce, [Next]_vars PROVE OfflineToldOnce'
    OBVIOUS
  <2>1. \A a \in Agents : ToldOf(a)'
    BY <1>1, ToldStep
  <2>2. QED
    BY <2>1 DEF OfflineToldOnce, ToldOf, Known
<1>4. QED
  BY <1>1, <1>2, <1>3, Inductive, PTL DEF Spec

-----------------------------------------------------------------------------
(* News: each handler and run between its entry and its event counts for   *)
(* one event to come.                                                      *)

Foretold(a) ==
  /\ events[a]["online"] + Cardinality(Announcing(a)) <= audits[a]["agent.came_online"]
  /\ events[a]["offline"] + Cardinality(Publishing(a)) <= audits[a]["agent.went_offline"]

LEMMA OneElement ==
  ASSUME NEW S, IsFiniteSet(S), NEW x
  PROVE  Cardinality(S \union {x}) \in Nat /\ Cardinality(S \union {x}) <= Cardinality(S) + 1
<1>1. Cardinality(S) \in Nat
  BY FS_CardinalityType
<1>2. Cardinality(S \union {x}) = IF x \in S THEN Cardinality(S) ELSE Cardinality(S) + 1
  BY FS_AddElement
<1>3. QED
  BY <1>1, <1>2

\* A step that neither tells nor enters the stage before an event.
LEMMA ForetoldFrame ==
  ASSUME IInv, NEW a \in Agents, Foretold(a), UNCHANGED <<audits, events>>,
         Announcing(a)' \subseteq Announcing(a), Publishing(a)' \subseteq Publishing(a)
  PROVE  Foretold(a)'
<1>1. /\ Cardinality(Announcing(a)') <= Cardinality(Announcing(a))
      /\ Cardinality(Announcing(a)') \in Nat
      /\ Cardinality(Publishing(a)') <= Cardinality(Publishing(a))
      /\ Cardinality(Publishing(a)') \in Nat
  BY OwingCount, FS_Subset, FS_CardinalityType
<1>2. QED
  BY <1>1, CounterType, OwingCount DEF Foretold, IInv

LEMMA ForetoldStep ==
  ASSUME IInv, [Next]_vars, NEW a \in Agents, Foretold(a)
  PROVE  Foretold(a)'
<1>1. TypeOK /\ HandlerSense
  BY DEF IInv
<1>2. ASSUME UNCHANGED <<audits, events, sweep>>, Announcing(a)' \subseteq Announcing(a)
      PROVE  Foretold(a)'
  BY <1>2, ForetoldFrame DEF Publishing
<1>3. ASSUME UNCHANGED <<audits, events, beat>>, Publishing(a)' \subseteq Publishing(a)
      PROVE  Foretold(a)'
  BY <1>3, ForetoldFrame DEF Announcing
<1>4. ASSUME NEW b \in Beats, NEW h, beat' = [beat EXCEPT ![b] = h], h.stage # "audited",
             UNCHANGED <<audits, events, sweep>>
      PROVE  Foretold(a)'
  <2>1. Announcing(a)' \subseteq Announcing(a)
    BY <1>1, <1>4 DEF Announcing, TypeOK
  <2>2. QED
    BY <1>2, <1>4, <2>1
<1>5. ASSUME NEW b \in Beats, BeatAudit(b)
      PROVE  Foretold(a)'
  <2> DEFINE c == beat[b].agent
  <2>1. c \in Agents /\ beat[b].says = "online" /\ beat[b].stage = "updated"
    BY <1>1, <1>5 DEF HandlerSense, Sensible, BeatAudit, Reported
  <2>2. /\ Audit(c, "agent.came_online") /\ UNCHANGED <<events, sweep>>
        /\ beat' = [beat EXCEPT ![b] = At(beat[b], "audited")]
    BY <1>5, <2>1 DEF BeatAudit
  <2>3. At(beat[b], "audited").stage = "audited" /\ At(beat[b], "audited").agent = c
    BY DEF At
  <2>4. /\ audits'[a]["agent.went_offline"] = audits[a]["agent.went_offline"]
        /\ audits'[a]["agent.came_online"] =
             IF a = c THEN audits[a]["agent.came_online"] + 1 ELSE audits[a]["agent.came_online"]
    BY <1>1, <2>1, <2>2, AuditCounts DEF Actions
  <2>5. Announcing(a)' = IF a = c THEN Announcing(a) \union {b} ELSE Announcing(a)
    BY <1>1, <2>1, <2>2, <2>3 DEF Announcing, TypeOK
  <2>6. /\ Cardinality(Announcing(a)') \in Nat
        /\ Cardinality(Announcing(a)') <=
             IF a = c THEN Cardinality(Announcing(a)) + 1 ELSE Cardinality(Announcing(a))
    <3>1. CASE a = c
      <4>1. Announcing(a)' = Announcing(a) \union {b}
        BY <3>1, <2>5
      <4>2. QED
        BY <3>1, <4>1, OwingCount, OneElement
    <3>2. CASE a # c
      <4>1. Announcing(a)' = Announcing(a)
        BY <3>2, <2>5
      <4>2. QED
        BY <3>2, <4>1, OwingCount
    <3>3. QED
      BY <3>1, <3>2
  <2>7. Publishing(a)' = Publishing(a)
    BY <2>2 DEF Publishing
  <2>8. QED
    BY <1>1, <2>2, <2>4, <2>6, <2>7, CounterType, OwingCount DEF Foretold
<1>6. ASSUME NEW b \in Beats, BeatPublish(b)
      PROVE  Foretold(a)'
  <2> DEFINE c == beat[b].agent
  <2>1. c \in Agents /\ beat[b].says = "online" /\ beat[b].stage = "audited"
    BY <1>1, <1>6 DEF HandlerSense, Sensible, BeatPublish, Reported
  <2>2. /\ Publish(c, "online") /\ UNCHANGED <<audits, sweep>>
        /\ beat' = [beat EXCEPT ![b] = At(beat[b], "done")]
    BY <1>6, <2>1 DEF BeatPublish
  <2>3. At(beat[b], "done").stage = "done"
    BY DEF At
  <2>4. /\ events'[a]["offline"] = events[a]["offline"]
        /\ events'[a]["online"] = IF a = c THEN events[a]["online"] + 1 ELSE events[a]["online"]
    BY <1>1, <2>1, <2>2, PublishCounts DEF Statuses
  <2>5. Announcing(a)' = Announcing(a) \ {b} /\ (a = c <=> b \in Announcing(a))
    BY <1>1, <2>1, <2>2, <2>3 DEF Announcing, TypeOK
  <2>6. Cardinality(Announcing(a)') =
          IF a = c THEN Cardinality(Announcing(a)) - 1 ELSE Cardinality(Announcing(a))
    BY <2>5, OwingCount, FS_RemoveElement
  <2>7. Publishing(a)' = Publishing(a)
    BY <2>2 DEF Publishing
  <2>8. QED
    BY <1>1, <2>2, <2>4, <2>6, <2>7, CounterType, OwingCount DEF Foretold
<1>7. ASSUME NEW s \in Sweeps, SweepAudit(s)
      PROVE  Foretold(a)'
  <2>1. PICK c \in sweep[s].due :
          /\ Audit(c, "agent.went_offline")
          /\ sweep' = [sweep EXCEPT ![s] = [due |-> sweep[s].due \ {c}, telling |-> c]]
    BY <1>7 DEF SweepAudit
  <2>2. c \in Agents /\ sweep[s].telling = NoAgent /\ UNCHANGED <<events, beat>>
    BY <1>1, <1>7, <2>1 DEF TypeOK, SweepAudit
  <2>3. /\ audits'[a]["agent.came_online"] = audits[a]["agent.came_online"]
        /\ audits'[a]["agent.went_offline"] =
             IF a = c THEN audits[a]["agent.went_offline"] + 1 ELSE audits[a]["agent.went_offline"]
    BY <1>1, <2>1, <2>2, AuditCounts DEF Actions
  <2>4. Publishing(a)' = IF a = c THEN Publishing(a) \union {s} ELSE Publishing(a)
    BY <1>1, <2>1, <2>2 DEF Publishing, TypeOK
  <2>5. /\ Cardinality(Publishing(a)') \in Nat
        /\ Cardinality(Publishing(a)') <=
             IF a = c THEN Cardinality(Publishing(a)) + 1 ELSE Cardinality(Publishing(a))
    <3>1. CASE a = c
      <4>1. Publishing(a)' = Publishing(a) \union {s}
        BY <3>1, <2>4
      <4>2. QED
        BY <3>1, <4>1, OwingCount, OneElement
    <3>2. CASE a # c
      <4>1. Publishing(a)' = Publishing(a)
        BY <3>2, <2>4
      <4>2. QED
        BY <3>2, <4>1, OwingCount
    <3>3. QED
      BY <3>1, <3>2
  <2>6. Announcing(a)' = Announcing(a)
    BY <2>2 DEF Announcing
  <2>7. QED
    BY <1>1, <2>2, <2>3, <2>5, <2>6, CounterType, OwingCount DEF Foretold
<1>8. ASSUME NEW s \in Sweeps, SweepPublish(s)
      PROVE  Foretold(a)'
  <2> DEFINE c == sweep[s].telling
  <2>1. c \in Agents /\ Publish(c, "offline") /\ UNCHANGED <<audits, beat>>
        /\ sweep' = [sweep EXCEPT ![s] = [due |-> sweep[s].due, telling |-> NoAgent]]
    BY <1>1, <1>8 DEF SweepPublish, TypeOK
  <2>2. /\ events'[a]["online"] = events[a]["online"]
        /\ events'[a]["offline"] = IF a = c THEN events[a]["offline"] + 1 ELSE events[a]["offline"]
    BY <1>1, <2>1, PublishCounts DEF Statuses
  <2>3. Publishing(a)' = Publishing(a) \ {s} /\ (a = c <=> s \in Publishing(a))
    BY <1>1, <2>1 DEF Publishing, TypeOK
  <2>4. Cardinality(Publishing(a)') =
          IF a = c THEN Cardinality(Publishing(a)) - 1 ELSE Cardinality(Publishing(a))
    BY <2>3, OwingCount, FS_RemoveElement
  <2>5. Announcing(a)' = Announcing(a)
    BY <2>1 DEF Announcing
  <2>6. QED
    BY <1>1, <2>1, <2>2, <2>4, <2>5, CounterType, OwingCount DEF Foretold
<1>9. ASSUME NEW s \in Sweeps, SweepUpdate(s) \/ SweepFails(s)
      PROVE  Foretold(a)'
  <2>1. /\ \E r : r.telling = NoAgent /\ sweep' = [sweep EXCEPT ![s] = r]
        /\ UNCHANGED <<audits, events, beat>>
    BY <1>9 DEF SweepUpdate, SweepFails, Idle
  <2>2. Publishing(a)' \subseteq Publishing(a)
    BY <1>1, <2>1 DEF Publishing, TypeOK
  <2>3. QED
    BY <1>3, <2>1, <2>2
<1>10. CASE BackendCrash
  <2>1. Publishing(a)' \subseteq Publishing(a) /\ Announcing(a)' \subseteq Announcing(a)
    BY <1>10 DEF BackendCrash, Publishing, Announcing, Idle, FreeBeat
  <2>2. QED
    BY <1>10, <2>1, ForetoldFrame DEF BackendCrash
<1>11. ASSUME NEW b \in Beats, BeatAnswer(b) \/ BeatFails(b)
       PROVE  Foretold(a)'
  <2>1. /\ beat' = [beat EXCEPT ![b] = FreeBeat]
        /\ UNCHANGED <<audits, events, sweep>>
    BY <1>11 DEF BeatAnswer, BeatFails, Ended, told
  <2>2. FreeBeat.stage # "audited"
    BY DEF FreeBeat
  <2> HIDE DEF FreeBeat
  <2>3. QED
    BY <1>4, <2>1, <2>2
<1>12. ASSUME NEW b \in Beats, BeatRead(b)
       PROVE  Foretold(a)'
  <2> DEFINE h == [stage |-> "read", agent |-> beat[b].agent, says |-> beat[b].says,
                   seen |-> row[beat[b].agent], live |-> beat[b].live]
  <2>1. /\ beat' = [beat EXCEPT ![b] = h]
        /\ UNCHANGED <<audits, events, sweep>>
    BY <1>12 DEF BeatRead, told
  <2>2. h.stage # "audited"
    OBVIOUS
  <2> HIDE DEF h
  <2>3. QED
    BY <1>4, <2>1, <2>2
<1>13. ASSUME NEW b \in Beats, BeatUpdate(b)
       PROVE  Foretold(a)'
  <2> DEFINE h == At(beat[b], AfterUpdate(beat[b]))
  <2>1. /\ beat' = [beat EXCEPT ![b] = h]
        /\ UNCHANGED <<audits, events, sweep>>
    BY <1>13 DEF BeatUpdate, told
  <2>2. h.stage # "audited"
    BY DEF At, AfterUpdate
  <2> HIDE DEF h
  <2>3. QED
    BY <1>4, <2>1, <2>2
<1>14. ASSUME NEW b \in Beats, GiveUp(b)
       PROVE  Foretold(a)'
  <2>1. beat' = [beat EXCEPT ![b] = GivenUp(beat[b])] /\ UNCHANGED <<audits, events, sweep>>
    BY <1>14 DEF GiveUp
  <2>2. GivenUp(beat[b]).stage = beat[b].stage /\ GivenUp(beat[b]).agent = beat[b].agent
    BY DEF GivenUp
  <2>3. Announcing(a)' \subseteq Announcing(a)
    BY <1>1, <2>1, <2>2 DEF Announcing, TypeOK
  <2>4. QED
    BY <1>2, <2>1, <2>3
<1>15. ASSUME NEW c \in Agents, NEW b \in Beats, SendBeat(c, b)
       PROVE  Foretold(a)'
  BY <1>4, <1>15 DEF SendBeat
<1>16. ASSUME UNCHANGED <<audits, events, beat, sweep>>
       PROVE  Foretold(a)'
  BY <1>2, <1>16 DEF Announcing
<1>17. QED
  BY <1>5, <1>6, <1>7, <1>8, <1>9, <1>10, <1>11, <1>12, <1>13, <1>14, <1>15, <1>16
  DEF Next, BeatStep, SweepStep, Lapse

\* Every event about an agent has its audit entry already, whatever fails.
THEOREM AuditedFirst == Spec => []NewsIsAudited
<1> DEFINE Inv == \A a \in Agents : Foretold(a)
<1>1. Init => Inv
  <2> SUFFICES ASSUME Init, NEW a \in Agents PROVE Foretold(a)
    OBVIOUS
  <2>1. Announcing(a) = {} /\ Publishing(a) = {}
    BY NoAgentAssumption DEF Init, Announcing, Publishing, Idle, FreeBeat
  <2>2. /\ audits[a]["agent.went_offline"] = 0 /\ audits[a]["agent.came_online"] = 0
        /\ events[a]["online"] = 0 /\ events[a]["offline"] = 0
    BY DEF Init, Actions, Statuses
  <2>3. QED
    BY <2>1, <2>2, FS_EmptySet DEF Foretold
<1>2. IInv /\ Inv /\ [Next]_vars => Inv'
  BY ForetoldStep
<1>3. IInv /\ Inv => NewsIsAudited
  BY CounterType, OwingCount DEF Foretold, NewsIsAudited, IInv
<1>4. QED
  BY <1>1, <1>2, <1>3, Inductive, PTL DEF Spec

-----------------------------------------------------------------------------
(* Returns.  Until something fails an agent has one handler at most, and   *)
(* each of its returns follows one time that its row went offline.         *)

\* An agent sends its next heartbeat after the answer to the one before.
AloneSense ==
  faults = 0 =>
    /\ \A b \in Beats : beat[b].stage # "free" => beat[b].live /\ waiting[beat[b].agent]
    /\ \A b, d \in Beats : beat[b].stage # "free" /\ beat[d].stage # "free" /\ beat[b].agent = beat[d].agent => b = d

\* A row that is offline, and a handler that is about to announce a return, each
\* stand for one time that the row went offline; a handler that has read offline
\* finds the row so when it updates it.
Away(a) == IF row[a] = "offline" THEN 1 ELSE 0
Returning(a) == IF \E b \in Beats : beat[b].stage = "updated" /\ beat[b].agent = a THEN 1 ELSE 0
ReturnOf(a) ==
  /\ audits[a]["agent.came_online"] + Away(a) + Returning(a) <= flips[a]
  /\ \A b \in Beats : beat[b].stage = "read" /\ beat[b].agent = a /\ beat[b].seen = "offline" => row[a] = "offline"
ReturnSense == faults = 0 => \A a \in Agents : ReturnOf(a)

LEMMA FaultsGrow ==
  ASSUME IInv, [Next]_vars, faults' = 0
  PROVE  /\ faults = 0
         /\ \A b \in Beats : ~BeatFails(b) /\ ~GiveUp(b)
         /\ \A s \in Sweeps : ~SweepFails(s)
         /\ ~BackendCrash
<1>1. ~Fault
  BY DEF Fault, IInv, TypeOK
<1>2. /\ \A b \in Beats : ~BeatFails(b) /\ ~GiveUp(b)
      /\ \A s \in Sweeps : ~SweepFails(s)
      /\ ~BackendCrash
  BY <1>1 DEF BeatFails, GiveUp, SweepFails, BackendCrash
<1>3. faults' = faults
  BY <1>2 DEF Next, Lapse, SendBeat, BeatStep, BeatRead, BeatUpdate, BeatAudit, BeatPublish, BeatAnswer,
              SweepStep, SweepUpdate, SweepAudit, SweepPublish, vars
<1>4. QED
  BY <1>2, <1>3

LEMMA AloneStep ==
  ASSUME IInv, AloneSense, [Next]_vars
  PROVE  AloneSense'
<1>1. SUFFICES ASSUME faults' = 0
               PROVE  /\ \A b \in Beats : beat'[b].stage # "free" => beat'[b].live /\ waiting'[beat'[b].agent]
                      /\ \A b, d \in Beats :
                           (beat'[b].stage # "free" /\ beat'[d].stage # "free" /\ beat'[b].agent = beat'[d].agent) => b = d
  BY DEF AloneSense
<1>2. /\ \A b \in Beats : beat[b].stage # "free" => beat[b].live /\ waiting[beat[b].agent]
      /\ \A b, d \in Beats : beat[b].stage # "free" /\ beat[d].stage # "free" /\ beat[b].agent = beat[d].agent => b = d
      /\ TypeOK /\ HandlerSense
  BY <1>1, FaultsGrow DEF AloneSense, IInv
<1>3. ASSUME NEW a \in Agents, NEW b \in Beats, SendBeat(a, b)
      PROVE  AloneSense'
  <2>1. PICK says \in Reported :
          beat' = [beat EXCEPT ![b] = [stage |-> "asked", agent |-> a, says |-> says, seen |-> "none", live |-> TRUE]]
    BY <1>3 DEF SendBeat
  <2>2. /\ \A d \in Beats \ {b} : beat'[d] = beat[d]
        /\ beat'[b].agent = a /\ beat'[b].live
        /\ ~waiting[a] /\ waiting'[a] /\ \A c \in Agents \ {a} : waiting'[c] = waiting[c]
    BY <1>2, <1>3, <2>1 DEF SendBeat, TypeOK
  <2>3. \A d \in Beats : beat[d].stage # "free" => beat[d].agent # a /\ beat[d].agent \in Agents
    BY <1>2, <2>2 DEF HandlerSense, Sensible
  <2>4. QED
    BY <1>2, <2>2, <2>3 DEF AloneSense
<1>4. ASSUME NEW b \in Beats, BeatRead(b) \/ BeatUpdate(b) \/ BeatAudit(b) \/ BeatPublish(b)
      PROVE  AloneSense'
  <2>1. /\ beat[b].stage # "free" /\ waiting' = waiting
        /\ \A d \in Beats \ {b} : beat'[d] = beat[d]
        /\ beat'[b].agent = beat[b].agent /\ beat'[b].live = beat[b].live
    BY <1>2, <1>4 DEF BeatRead, BeatUpdate, BeatAudit, BeatPublish, At, client, TypeOK
  <2>2. QED
    BY <1>2, <2>1 DEF AloneSense
<1>5. ASSUME NEW b \in Beats, BeatAnswer(b)
      PROVE  AloneSense'
  <2>1. /\ \A d \in Beats \ {b} : beat'[d] = beat[d]
        /\ beat'[b].stage = "free" /\ beat[b].stage # "free"
        /\ \A c \in Agents : c # beat[b].agent => waiting'[c] = waiting[c]
    BY <1>2, <1>5 DEF BeatAnswer, Ended, FreeBeat, TypeOK
  <2>2. \A d \in Beats : beat[d].stage # "free" => beat[d].agent \in Agents
    BY <1>2 DEF HandlerSense, Sensible
  <2>3. QED
    BY <1>2, <2>1, <2>2 DEF AloneSense
<1>6. ASSUME UNCHANGED <<beat, waiting>>
      PROVE  AloneSense'
  BY <1>2, <1>6 DEF AloneSense
<1>7. UNCHANGED <<beat, waiting>> \/ AloneSense'
  <2>1. CASE \E s \in Sweeps : SweepStep(s)
    BY <2>1 DEF SweepStep, SweepUpdate, SweepAudit, SweepPublish, client
  <2>2. CASE \E a \in Agents : Lapse(a) \/ \E b \in Beats : SendBeat(a, b)
    BY <1>3, <2>2 DEF Lapse, client
  <2>3. CASE \E b \in Beats : BeatStep(b)
    BY <1>4, <1>5, <2>3 DEF BeatStep
  <2>4. CASE UNCHANGED vars
    BY <2>4 DEF vars, client
  <2>5. QED
    BY <1>1, <2>1, <2>2, <2>3, <2>4, FaultsGrow DEF Next
<1>8. AloneSense'
  BY <1>6, <1>7
<1>9. QED
  BY <1>1, <1>8 DEF AloneSense

LEMMA ReturnStep ==
  ASSUME IInv, AloneSense, ReturnSense, [Next]_vars, faults' = 0, NEW a \in Agents
  PROVE  ReturnOf(a)'
<1>1. /\ TypeOK /\ HandlerSense /\ ReturnOf(a)
      /\ \A b, d \in Beats : beat[b].stage # "free" /\ beat[d].stage # "free" /\ beat[b].agent = beat[d].agent => b = d
  BY FaultsGrow DEF AloneSense, ReturnSense, IInv
<1>2. /\ audits[a]["agent.came_online"] \in Nat /\ flips[a] \in Nat /\ Away(a) \in {0, 1} /\ Returning(a) \in {0, 1}
      /\ \A b \in Beats : beat[b].stage # "free" => beat[b].says = "online" /\ beat[b].agent \in Agents
      /\ \A b \in Beats : beat[b].stage = "read" => beat[b].seen \in {"online", "offline"}
      /\ row[a] \in {"online", "offline"}
  BY <1>1, CounterType DEF Away, Returning, HandlerSense, Sensible, Reported, Statuses, TypeOK
<1>3. ASSUME UNCHANGED <<row, flips>>, audits'[a]["agent.came_online"] = audits[a]["agent.came_online"],
             \A b \in Beats : \/ beat'[b] = beat[b]
                              \/ beat'[b].stage \notin {"read", "updated"} /\ beat[b].stage # "updated"
                              \/ beat'[b].stage = "read" /\ beat[b].stage # "updated" /\ beat'[b].seen = row[beat'[b].agent]
      PROVE  ReturnOf(a)'
  <2>1. Away(a)' = Away(a) /\ Returning(a)' = Returning(a)
    BY <1>3 DEF Away, Returning
  <2>2. QED
    BY <1>1, <1>3, <2>1 DEF ReturnOf
<1>4. ASSUME NEW c \in Agents, NEW b \in Beats, SendBeat(c, b)
      PROVE  ReturnOf(a)'
  <2>1. /\ UNCHANGED <<row, flips, audits>> /\ beat[b].stage = "free"
        /\ beat'[b].stage = "asked" /\ \A d \in Beats \ {b} : beat'[d] = beat[d]
    BY <1>1, <1>4 DEF SendBeat, table, told, TypeOK
  <2>2. QED
    BY <1>3, <2>1
<1>5. ASSUME NEW b \in Beats, BeatRead(b)
      PROVE  ReturnOf(a)'
  <2>1. /\ UNCHANGED <<row, flips, audits>> /\ beat[b].stage = "asked"
        /\ beat'[b].stage = "read" /\ beat'[b].agent = beat[b].agent /\ beat'[b].seen = row[beat[b].agent]
        /\ \A d \in Beats \ {b} : beat'[d] = beat[d]
    BY <1>1, <1>5 DEF BeatRead, table, told, TypeOK
  <2>2. QED
    BY <1>3, <2>1
<1>6. ASSUME NEW b \in Beats, BeatUpdate(b)
      PROVE  ReturnOf(a)'
  <2> DEFINE c == beat[b].agent
  <2>1. /\ UNCHANGED <<flips, audits>> /\ beat[b].stage = "read" /\ c \in Agents
        /\ row' = [row EXCEPT ![c] = "online"]
        /\ beat' = [beat EXCEPT ![b] = At(beat[b], AfterUpdate(beat[b]))]
    BY <1>2, <1>6 DEF BeatUpdate, told
  <2>2. /\ \A d \in Beats \ {b} : beat'[d] = beat[d]
        /\ beat'[b].stage = AfterUpdate(beat[b]) /\ beat'[b].agent = c
    BY <1>1, <2>1 DEF At, TypeOK
  <2>3. AfterUpdate(beat[b]) = IF beat[b].seen = "offline" THEN "updated" ELSE "done"
    BY <1>2, <2>1 DEF AfterUpdate
  <2>4. CASE c # a
    <3>1. row'[a] = row[a]
      BY <1>1, <2>1, <2>4 DEF TypeOK
    <3>2. Away(a)' = Away(a) /\ Returning(a)' = Returning(a)
      BY <2>2, <2>4, <3>1 DEF Away, Returning
    <3>3. QED
      BY <1>1, <2>1, <2>2, <2>4, <3>1, <3>2 DEF ReturnOf
  <2>5. CASE c = a
    <3>1. row'[a] = "online" /\ Away(a)' = 0
      BY <1>1, <2>1, <2>5 DEF Away, TypeOK
    <3>2. \A d \in Beats : beat'[d].stage # "free" /\ beat'[d].agent = a => d = b
      BY <1>1, <2>1, <2>2, <2>5
    <3>3. \A d \in Beats : beat'[d].stage = "read" => beat'[d].agent # a
      BY <2>2, <2>3, <3>2
    <3>4. Returning(a)' <= Away(a)
      <4>1. CASE beat[b].seen = "offline"
        BY <1>1, <2>1, <2>5, <4>1 DEF ReturnOf, Away, Returning
      <4>2. CASE beat[b].seen # "offline"
        <5>1. \A d \in Beats : ~(beat'[d].stage = "updated" /\ beat'[d].agent = a)
          BY <2>2, <2>3, <3>2, <4>2
        <5>2. Returning(a)' = 0
          BY <5>1 DEF Returning
        <5>3. QED
          BY <1>2, <5>2
      <4>3. QED
        BY <4>1, <4>2
    <3>5. Returning(a)' \in {0, 1}
      BY DEF Returning
    <3>6. audits'[a]["agent.came_online"] + Away(a)' + Returning(a)' <= flips'[a]
      BY <1>1, <1>2, <2>1, <3>1, <3>4, <3>5 DEF ReturnOf
    <3>7. QED
      BY <3>3, <3>6 DEF ReturnOf
  <2>6. QED
    BY <2>4, <2>5
<1>7. ASSUME NEW b \in Beats, BeatAudit(b)
      PROVE  ReturnOf(a)'
  <2> DEFINE c == beat[b].agent
  <2>1. /\ UNCHANGED <<row, flips>> /\ beat[b].stage = "updated" /\ c \in Agents
        /\ Audit(c, "agent.came_online")
        /\ beat' = [beat EXCEPT ![b] = At(beat[b], "audited")]
    BY <1>2, <1>7 DEF BeatAudit, table
  <2>2. /\ \A d \in Beats \ {b} : beat'[d] = beat[d]
        /\ beat'[b].stage = "audited"
    BY <1>1, <2>1 DEF At, TypeOK
  <2>3. audits'[a]["agent.came_online"] =
          IF a = c THEN audits[a]["agent.came_online"] + 1 ELSE audits[a]["agent.came_online"]
    BY <1>1, <2>1, AuditCounts DEF Actions
  <2>4. Away(a)' = Away(a)
    BY <2>1 DEF Away
  <2>5. CASE c # a
    <3>1. Returning(a)' = Returning(a)
      BY <2>1, <2>2, <2>5 DEF Returning
    <3>2. QED
      BY <1>1, <2>1, <2>2, <2>3, <2>4, <2>5, <3>1 DEF ReturnOf
  <2>6. CASE c = a
    <3>1. Returning(a) = 1
      BY <2>1, <2>6 DEF Returning
    <3>2. \A d \in Beats : ~(beat'[d].stage = "updated" /\ beat'[d].agent = a)
      BY <1>1, <2>1, <2>2, <2>6
    <3>3. Returning(a)' = 0
      BY <3>2 DEF Returning
    <3>4. audits'[a]["agent.came_online"] + Away(a)' + Returning(a)' <= flips'[a]
      BY <1>1, <1>2, <2>1, <2>3, <2>4, <2>6, <3>1, <3>3 DEF ReturnOf
    <3>5. QED
      BY <1>1, <2>1, <2>2, <3>4 DEF ReturnOf
  <2>7. QED
    BY <2>5, <2>6
<1>8. ASSUME NEW b \in Beats, BeatPublish(b) \/ BeatAnswer(b)
      PROVE  ReturnOf(a)'
  <2>1. /\ UNCHANGED <<row, flips, audits>> /\ beat[b].stage # "updated"
        /\ beat'[b].stage \notin {"read", "updated"} /\ \A d \in Beats \ {b} : beat'[d] = beat[d]
    BY <1>1, <1>8 DEF BeatPublish, BeatAnswer, Ended, FreeBeat, At, table, told, TypeOK
  <2>2. QED
    BY <1>3, <2>1
<1>9. ASSUME NEW s \in Sweeps, SweepUpdate(s)
      PROVE  ReturnOf(a)'
  <2>1. /\ UNCHANGED <<audits, beat>>
        /\ row'[a] = IF a \in Stale THEN "offline" ELSE row[a]
        /\ flips'[a] = IF row[a] # row'[a] THEN flips[a] + 1 ELSE flips[a]
    BY <1>9 DEF SweepUpdate, told
  <2>2. Returning(a)' = Returning(a)
    BY <2>1 DEF Returning
  <2>3. flips'[a] - flips[a] = Away(a)' - Away(a)
    BY <1>2, <2>1 DEF Away, Stale
  <2>4. flips'[a] \in Nat /\ Away(a)' \in {0, 1}
    BY <1>2, <2>1 DEF Away
  <2>5. QED
    BY <1>1, <1>2, <2>1, <2>2, <2>3, <2>4 DEF ReturnOf
<1>10. ASSUME NEW s \in Sweeps, SweepAudit(s)
       PROVE  ReturnOf(a)'
  <2>1. PICK c \in sweep[s].due : Audit(c, "agent.went_offline")
    BY <1>10 DEF SweepAudit
  <2>2. c \in Agents /\ UNCHANGED <<row, flips, beat>>
    BY <1>1, <1>10, <2>1 DEF TypeOK, SweepAudit, table
  <2>3. audits'[a]["agent.came_online"] = audits[a]["agent.came_online"]
    BY <1>1, <2>1, <2>2, AuditCounts DEF Actions
  <2>4. QED
    BY <1>3, <2>2, <2>3
<1>11. ASSUME UNCHANGED <<row, flips, audits, beat>>
       PROVE  ReturnOf(a)'
  BY <1>3, <1>11
<1>12. ASSUME \/ \E s \in Sweeps : SweepPublish(s)
              \/ \E c \in Agents : Lapse(c)
              \/ UNCHANGED vars
       PROVE  ReturnOf(a)'
  <2>1. UNCHANGED <<row, flips, audits, beat>>
    BY <1>12 DEF SweepPublish, Lapse, vars, table, told
  <2>2. QED
    BY <1>11, <2>1
<1>13. QED
  BY <1>4, <1>5, <1>6, <1>7, <1>8, <1>9, <1>10, <1>12, FaultsGrow DEF Next, BeatStep, SweepStep

\* Until something fails processHeartbeat never announces a return that no sweep made
\* possible, although handler and sweep read and write the row in turns.
THEOREM ReturnsFollowAbsences == Spec => []NoPhantomReturn
<1>1. Init => AloneSense /\ ReturnSense
  <2> SUFFICES ASSUME Init PROVE AloneSense /\ ReturnSense
    OBVIOUS
  <2>1. \A b \in Beats : beat[b].stage = "free"
    BY DEF Init, FreeBeat
  <2>2. \A a \in Agents : row[a] = "online" /\ audits[a]["agent.came_online"] = 0 /\ flips[a] = 0
    BY DEF Init, Actions
  <2>3. QED
    BY <2>1, <2>2 DEF AloneSense, ReturnSense, ReturnOf, Away, Returning
<1>2. IInv /\ AloneSense /\ ReturnSense /\ [Next]_vars => AloneSense' /\ ReturnSense'
  BY AloneStep, ReturnStep DEF ReturnSense
<1>3. IInv /\ ReturnSense => NoPhantomReturn
  <2> SUFFICES ASSUME IInv, ReturnSense, faults = 0, NEW a \in Agents
               PROVE  audits[a]["agent.came_online"] <= flips[a]
    BY DEF NoPhantomReturn
  <2>1. audits[a]["agent.came_online"] \in Nat /\ flips[a] \in Nat /\ Away(a) \in {0, 1} /\ Returning(a) \in {0, 1}
    BY CounterType DEF IInv, Away, Returning
  <2>2. QED
    BY <2>1 DEF ReturnSense, ReturnOf
<1>4. QED
  BY <1>1, <1>2, <1>3, Inductive, PTL DEF Spec

-----------------------------------------------------------------------------
(* On the way to offline: what runs comes to its end, and what is silent   *)
(* for good is not brought back.                                           *)

\* The steps a handler still has to take.
StepsLeft(h) ==
  CASE h.stage = "asked"   -> 5
    [] h.stage = "read"    -> 4
    [] h.stage = "updated" -> 3
    [] h.stage = "audited" -> 2
    [] h.stage = "done"    -> 1
    [] h.stage = "free"    -> 0

\* A handler comes nearer to its end with each of its steps, and only a new heartbeat
\* starts it again.
BeatsEnd ==
  \A b \in Beats :
    /\ BeatStep(b) => StepsLeft(beat'[b]) < StepsLeft(beat[b])
    /\ \/ StepsLeft(beat'[b]) <= StepsLeft(beat[b])
       \/ \E a \in Agents : SendBeat(a, b) /\ sent'[a] = sent[a] + 1

\* A run of the sweep has fewer and fewer rows to tell: it ends, and Cron's next can update.
SweepsEnd ==
  \A s \in Sweeps :
    \/ sweep'[s] \in {sweep[s], Idle}
    \/ SweepUpdate(s)
    \/ \E a \in sweep[s].due : sweep'[s] = [due |-> sweep[s].due \ {a}, telling |-> a]
    \/ sweep[s].telling # NoAgent /\ sweep'[s] = [due |-> sweep[s].due, telling |-> NoAgent]

\* The agent has sent its last heartbeat, and no handler will write its row any more.
Over(a) ==
  /\ sent[a] = MaxBeats
  /\ \A b \in Beats : beat[b].agent = a => beat[b].stage \notin {"asked", "read"}

\* From then on its silence and its absence last, and the first sweep after the silence has
\* lasted long enough shows it offline.
StaysAway ==
  \A a \in Agents : Over(a) =>
    /\ Over(a)'
    /\ silent[a] => silent'[a]
    /\ row[a] = "offline" => row'[a] = "offline"
    /\ silent[a] /\ (\E s \in Sweeps : SweepUpdate(s)) => row'[a] = "offline"

Settling == BeatsEnd /\ SweepsEnd /\ StaysAway

\* What a step may do to a handler.
HandlerMoves(b) ==
  \/ beat'[b] = beat[b]
  \/ beat'[b] = FreeBeat
  \/ beat'[b] = GivenUp(beat[b])
  \/ BeatRead(b) /\ beat'[b].stage = "read" /\ beat'[b].agent = beat[b].agent
  \/ StepsLeft(beat'[b]) < StepsLeft(beat[b]) /\ beat'[b].stage \notin {"asked", "read"}
  \/ \E a \in Agents : /\ SendBeat(a, b) /\ sent'[a] = sent[a] + 1 /\ sent[a] # MaxBeats
                       /\ beat'[b].agent = a

LEMMA HandlerStep ==
  ASSUME IInv, [Next]_vars
  PROVE  \A b \in Beats : HandlerMoves(b)
<1>1. TypeOK
  BY DEF IInv
<1>2. CASE beat' = beat
  BY <1>2 DEF HandlerMoves
<1>3. ASSUME NEW a \in Agents, NEW b \in Beats, SendBeat(a, b)
      PROVE  \A d \in Beats : HandlerMoves(d)
  <2>1. PICK says \in Reported :
          beat' = [beat EXCEPT ![b] = [stage |-> "asked", agent |-> a, says |-> says,
                                       seen |-> "none", live |-> TRUE]]
    BY <1>3 DEF SendBeat
  <2>2. beat'[b].agent = a /\ \A d \in Beats \ {b} : beat'[d] = beat[d]
    BY <1>1, <2>1 DEF TypeOK
  <2>3. sent'[a] = sent[a] + 1 /\ sent[a] # MaxBeats
    BY <1>1, <1>3 DEF SendBeat, TypeOK
  <2>4. QED
    BY <1>3, <2>2, <2>3 DEF HandlerMoves
<1>4. ASSUME NEW b \in Beats, BeatRead(b)
      PROVE  \A d \in Beats : HandlerMoves(d)
  <2>1. beat'[b].stage = "read" /\ beat'[b].agent = beat[b].agent /\ \A d \in Beats \ {b} : beat'[d] = beat[d]
    BY <1>1, <1>4 DEF BeatRead, TypeOK
  <2>2. QED
    BY <1>4, <2>1 DEF HandlerMoves
<1>5. ASSUME NEW b \in Beats, BeatUpdate(b) \/ BeatAudit(b) \/ BeatPublish(b)
      PROVE  \A d \in Beats : HandlerMoves(d)
  <2>1. PICK stage \in {"updated", "audited", "done"} :
          /\ beat' = [beat EXCEPT ![b] = At(beat[b], stage)]
          /\ \/ beat[b].stage = "read"
             \/ beat[b].stage = "updated" /\ stage = "audited"
             \/ beat[b].stage = "audited" /\ stage = "done"
    BY <1>5 DEF BeatUpdate, BeatAudit, BeatPublish, AfterUpdate
  <2>2. beat'[b] = At(beat[b], stage) /\ \A d \in Beats \ {b} : beat'[d] = beat[d]
    BY <1>1, <2>1 DEF TypeOK
  <2>3. beat'[b].stage = stage
    BY <2>2 DEF At
  <2>4. StepsLeft(beat'[b]) < StepsLeft(beat[b])
    BY <2>1, <2>3 DEF StepsLeft
  <2>5. QED
    BY <1>5, <2>2, <2>3, <2>4 DEF HandlerMoves
<1>6. ASSUME NEW b \in Beats, BeatAnswer(b) \/ BeatFails(b) \/ GiveUp(b)
      PROVE  \A d \in Beats : HandlerMoves(d)
  BY <1>1, <1>6 DEF BeatAnswer, BeatFails, GiveUp, Ended, HandlerMoves, TypeOK
<1>7. CASE BackendCrash
  BY <1>7 DEF BackendCrash, HandlerMoves
<1>8. QED
  BY <1>2, <1>3, <1>4, <1>5, <1>6, <1>7
  DEF Next, BeatStep, SweepStep, Lapse, SweepUpdate, SweepAudit, SweepPublish, SweepFails

LEMMA BeatsDoEnd ==
  ASSUME IInv, [Next]_vars
  PROVE  BeatsEnd
<1>1. SUFFICES ASSUME NEW b \in Beats
               PROVE  /\ BeatStep(b) => StepsLeft(beat'[b]) < StepsLeft(beat[b])
                      /\ \/ StepsLeft(beat'[b]) <= StepsLeft(beat[b])
                         \/ \E a \in Agents : SendBeat(a, b) /\ sent'[a] = sent[a] + 1
  BY DEF BeatsEnd
<1>2. beat[b].stage \in Stages /\ beat'[b].stage \in Stages /\ beat \in [Beats -> Handlers]
  BY NextKeeps DEF IInv, TypeOK, Handlers
<1>3. StepsLeft(beat[b]) \in 0..5 /\ StepsLeft(beat'[b]) \in 0..5
  BY <1>2 DEF StepsLeft, Stages
<1>4. BeatStep(b) => StepsLeft(beat'[b]) < StepsLeft(beat[b])
  <2>1. ASSUME BeatRead(b)
        PROVE  StepsLeft(beat'[b]) < StepsLeft(beat[b])
    BY <1>2, <2>1 DEF BeatRead, StepsLeft
  <2>2. ASSUME BeatUpdate(b) \/ BeatAudit(b) \/ BeatPublish(b)
        PROVE  StepsLeft(beat'[b]) < StepsLeft(beat[b])
    <3>1. PICK stage \in {"updated", "audited", "done"} :
            /\ beat' = [beat EXCEPT ![b] = At(beat[b], stage)]
            /\ \/ beat[b].stage = "read"
               \/ beat[b].stage = "updated" /\ stage = "audited"
               \/ beat[b].stage = "audited" /\ stage = "done"
      BY <2>2 DEF BeatUpdate, BeatAudit, BeatPublish, AfterUpdate
    <3>2. beat'[b].stage = stage
      BY <1>2, <3>1 DEF At
    <3>3. QED
      BY <3>1, <3>2 DEF StepsLeft
  <2>3. ASSUME BeatAnswer(b)
        PROVE  StepsLeft(beat'[b]) < StepsLeft(beat[b])
    BY <1>2, <2>3 DEF BeatAnswer, Ended, StepsLeft, FreeBeat
  <2>4. QED
    BY <2>1, <2>2, <2>3 DEF BeatStep
<1>5. \/ StepsLeft(beat'[b]) <= StepsLeft(beat[b])
      \/ \E a \in Agents : SendBeat(a, b) /\ sent'[a] = sent[a] + 1
  <2>1. HandlerMoves(b)
    BY HandlerStep
  <2>2. CASE beat'[b] = beat[b]
    BY <1>3, <2>2
  <2>3. CASE beat'[b] = FreeBeat
    <3>1. beat'[b].stage = "free"
      BY <2>3 DEF FreeBeat
    <3>2. StepsLeft(beat'[b]) = 0
      BY <3>1 DEF StepsLeft
    <3>3. QED
      BY <1>3, <3>2
  <2>4. CASE beat'[b] = GivenUp(beat[b])
    <3>1. beat'[b].stage = beat[b].stage
      BY <2>4 DEF GivenUp
    <3>2. StepsLeft(beat'[b]) = StepsLeft(beat[b])
      BY <3>1 DEF StepsLeft
    <3>3. QED
      BY <1>3, <3>2
  <2>5. CASE BeatRead(b)
    BY <1>2, <2>5 DEF BeatRead, StepsLeft
  <2>6. CASE StepsLeft(beat'[b]) < StepsLeft(beat[b])
    BY <1>3, <2>6
  <2>7. QED
    BY <2>1, <2>2, <2>3, <2>4, <2>5, <2>6 DEF HandlerMoves
<1>6. QED
  BY <1>4, <1>5

LEMMA SweepsDoEnd ==
  ASSUME IInv, [Next]_vars
  PROVE  SweepsEnd
<1>1. SUFFICES ASSUME NEW s \in Sweeps
               PROVE  \/ sweep'[s] \in {sweep[s], Idle}
                      \/ SweepUpdate(s)
                      \/ \E a \in sweep[s].due : sweep'[s] = [due |-> sweep[s].due \ {a}, telling |-> a]
                      \/ sweep[s].telling # NoAgent /\ sweep'[s] = [due |-> sweep[s].due, telling |-> NoAgent]
  BY DEF SweepsEnd
<1>2. sweep \in [Sweeps -> [due: SUBSET Agents, telling: Agents \union {NoAgent}]]
  BY DEF IInv, TypeOK
<1>3. CASE sweep' = sweep
  BY <1>3
<1>4. ASSUME NEW r \in Sweeps, SweepUpdate(r) \/ SweepFails(r)
      PROVE  sweep'[s] \in {sweep[s], Idle} \/ SweepUpdate(s)
  BY <1>2, <1>4 DEF SweepUpdate, SweepFails
<1>5. ASSUME NEW r \in Sweeps, SweepAudit(r)
      PROVE  sweep'[s] = sweep[s] \/ \E a \in sweep[s].due : sweep'[s] = [due |-> sweep[s].due \ {a}, telling |-> a]
  BY <1>2, <1>5 DEF SweepAudit
<1>6. ASSUME NEW r \in Sweeps, SweepPublish(r)
      PROVE  \/ sweep'[s] = sweep[s]
             \/ sweep[s].telling # NoAgent /\ sweep'[s] = [due |-> sweep[s].due, telling |-> NoAgent]
  BY <1>2, <1>6 DEF SweepPublish
<1>7. CASE BackendCrash
  BY <1>7 DEF BackendCrash
<1>8. QED
  BY <1>3, <1>4, <1>5, <1>6, <1>7
  DEF Next, SweepStep, BeatStep, BeatRead, BeatUpdate, BeatAudit, BeatPublish, BeatAnswer, BeatFails, GiveUp, Lapse, SendBeat

LEMMA StillAway ==
  ASSUME IInv, [Next]_vars
  PROVE  StaysAway
<1>1. SUFFICES ASSUME NEW a \in Agents, Over(a)
               PROVE  /\ Over(a)'
                      /\ silent[a] => silent'[a]
                      /\ row[a] = "offline" => row'[a] = "offline"
                      /\ silent[a] /\ (\E s \in Sweeps : SweepUpdate(s)) => row'[a] = "offline"
  BY DEF StaysAway
<1>2. TypeOK
  BY DEF IInv
<1>3. sent'[a] = MaxBeats
  BY <1>1, <1>2 DEF Over, Next, BeatStep, SweepStep, Lapse, SendBeat, BeatRead, BeatUpdate, BeatAudit, BeatPublish,
                    BeatAnswer, BeatFails, GiveUp, SweepUpdate, SweepAudit, SweepPublish, SweepFails, BackendCrash, TypeOK
<1>4. ASSUME NEW b \in Beats, beat'[b].agent = a
      PROVE  beat'[b].stage \notin {"asked", "read"}
  <2>1. HandlerMoves(b)
    BY HandlerStep
  <2>2. beat[b].agent = a => beat[b].stage \notin {"asked", "read"}
    BY <1>1 DEF Over
  <2>3. sent[a] = MaxBeats
    BY <1>1 DEF Over
  <2>4. QED
    BY <1>4, <2>1, <2>2, <2>3 DEF HandlerMoves, FreeBeat, GivenUp, BeatRead
<1>5. Over(a)'
  BY <1>3, <1>4 DEF Over
<1>6. ASSUME NEW b \in Beats, BeatUpdate(b)
      PROVE  row'[a] = row[a] /\ silent'[a] = silent[a]
  <2>1. beat[b].agent # a
    BY <1>1, <1>6 DEF BeatUpdate, Over
  <2>2. QED
    BY <1>2, <1>6, <2>1 DEF BeatUpdate, TypeOK
<1>7. ASSUME NEW s \in Sweeps, SweepUpdate(s)
      PROVE  /\ silent'[a] = silent[a]
             /\ row[a] = "offline" => row'[a] = "offline"
             /\ silent[a] => row'[a] = "offline"
  BY <1>7 DEF SweepUpdate, Stale
<1>8. ASSUME NEW d \in Agents, Lapse(d)
      PROVE  row' = row /\ (silent[a] => silent'[a])
  BY <1>2, <1>8 DEF Lapse, TypeOK
<1>9. CASE UNCHANGED <<row, silent>>
  BY <1>5, <1>7, <1>9
<1>10. QED
  BY <1>5, <1>6, <1>7, <1>8, <1>9
  DEF Next, BeatStep, SweepStep, SendBeat, BeatRead, BeatAudit, BeatPublish, BeatAnswer,
      BeatFails, GiveUp, SweepAudit, SweepPublish, SweepFails, BackendCrash

\* An agent whose heartbeats are over is not brought back by a handler that is late or by
\* a run of the sweep, and all that is under way comes to its end, so that the next run of
\* the sweep shows it offline.  It is the safety part of SilentGoesOffline.
THEOREM SilentStaysAway == Spec => [][Settling]_vars
<1>1. IInv /\ [Next]_vars => [Settling]_vars
  BY BeatsDoEnd, SweepsDoEnd, StillAway DEF Settling
<1>2. QED
  BY Inductive, <1>1, PTL DEF Spec
=============================================================================
