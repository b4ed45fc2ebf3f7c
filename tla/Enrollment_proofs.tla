-------------------------- MODULE Enrollment_proofs --------------------------
(***************************************************************************)
(* Enrollment, for every set of machines, any finite number of requests    *)
(* open at once, any token and any number of failures.                     *)
(***************************************************************************)
EXTENDS Enrollment, FiniteSetTheorems, TLAPS

\* The row of an identity is that of a machine, and has its entry.
Own(i, m) == i \in rows /\ i \in trail /\ owner[i] = m

\* What a request is: of a machine, with an identity once it is committed, and
\* awaited only by a machine that asks.
RequestSense(h) ==
  /\ h.stage # "free" => h.machine \in Machines
  /\ IF h.stage = "committed" THEN h.id \in Ids /\ Own(h.id, h.machine) ELSE h.id = NoId
  /\ h.live => h.stage # "free" /\ phase[h.machine] = "asking"

OneAwaited ==
  \A r, s \in Requests :
    req[r].live /\ req[s].live /\ req[r].machine = req[s].machine => r = s

\* What a machine holds and has saved at each point of main.
MachineSense(m) ==
  /\ phase[m] \in {"stopped", "asking"} => held[m] = NoId
  /\ phase[m] \in {"saving", "writing"} => held[m] \in Ids
  /\ phase[m] \in {"asking", "saving", "writing"} => disk[m] \notin Ids
  /\ held[m] \in Ids => Own(held[m], m)
  /\ disk[m] \in Ids => Own(disk[m], m)

RequestsSense == \A r \in Requests : RequestSense(req[r])
MachinesSense == \A m \in Machines : MachineSense(m)

\* The inductive invariant.
IInv == TypeOK /\ RequestsSense /\ OneAwaited /\ MachinesSense

-----------------------------------------------------------------------------
(* What a row is, it stays.                                                *)

\* Steps that leave the store alone.
LEMMA OwnFrame ==
  ASSUME UNCHANGED <<rows, trail, owner>>, NEW i, NEW m, Own(i, m)
  PROVE  Own(i, m)'
  BY DEF Own

\* The transaction gives its machine a row, and takes none from another.
LEMMA CommitOwns ==
  ASSUME IInv, NEW r \in Requests, Commit(r)
  PROVE  /\ TypeOK'
         /\ \A i, m : Own(i, m) => Own(i, m)'
         /\ RequestsSense' /\ OneAwaited'
<1> DEFINE h == req[r]
<1>1. TypeOK /\ RequestsSense /\ OneAwaited
  BY DEF IInv
<1>2. h \in Handlers /\ h.stage = "allowed" /\ h.machine \in Machines /\ RequestSense(h)
  BY <1>1 DEF Commit, TypeOK, RequestsSense, RequestSense
<1>3. PICK i \in Fresh :
        /\ rows' = rows \union {i}
        /\ owner' = [owner EXCEPT ![i] = h.machine]
        /\ trail' = trail \union {i}
        /\ req' = [req EXCEPT ![r] = [stage |-> "committed", machine |-> h.machine,
                                      seen |-> h.seen, id |-> i, live |-> h.live]]
  BY DEF Commit
<1>4. /\ uses' = uses + 1
      /\ UNCHANGED <<expired, wanted, phase, held, disk, faults>>
  BY DEF Commit, Counted, local
<1>5. i \in Ids /\ i \notin trail
  BY <1>3 DEF Fresh
<1> DEFINE g == [stage |-> "committed", machine |-> h.machine, seen |-> h.seen, id |-> i, live |-> h.live]
<1>6. /\ g \in Handlers
      /\ g.stage = "committed" /\ g.machine = h.machine /\ g.id = i /\ g.live = h.live
  BY <1>2, <1>5 DEF Handlers, Stages
<1>7. req' = [req EXCEPT ![r] = g]
  BY <1>3
<1>8. i \in rows' /\ i \in trail' /\ owner'[i] = h.machine
  BY <1>1, <1>3, <1>5 DEF TypeOK
<1>9. \A j, m : Own(j, m) => Own(j, m)'
  BY <1>1, <1>3, <1>5 DEF Own, TypeOK
<1> HIDE DEF g, h
<1>10. TypeOK'
  <2>1. req' \in [Requests -> Handlers]
    BY <1>1, <1>6, <1>7 DEF TypeOK
  <2>2. owner' \in [Ids -> Machines \union {NoMachine}]
    BY <1>1, <1>2, <1>3, <1>5 DEF TypeOK
  <2>3. QED
    BY <1>1, <1>3, <1>4, <1>5, <2>1, <2>2 DEF TypeOK
<1>11. RequestsSense'
  <2> SUFFICES ASSUME NEW q \in Requests
               PROVE  RequestSense(req[q])'
    BY DEF RequestsSense
  <2>1. CASE q = r
    <3>1. req'[q] = g
      BY <1>1, <1>7, <2>1 DEF TypeOK
    <3>2. g.live => phase[h.machine] = "asking"
      BY <1>2, <1>6 DEF RequestSense
    <3>3. QED
      BY <1>2, <1>4, <1>5, <1>6, <1>8, <3>1, <3>2 DEF RequestSense, Own
  <2>2. CASE q # r
    <3>1. req'[q] = req[q] /\ RequestSense(req[q])
      BY <1>1, <1>7, <2>2 DEF TypeOK, RequestsSense
    <3>2. QED
      BY <1>4, <1>9, <3>1 DEF RequestSense
  <2>3. QED
    BY <2>1, <2>2
<1>12. OneAwaited'
  <2>1. \A q \in Requests : req'[q].live = req[q].live /\ req'[q].machine = req[q].machine
    BY <1>1, <1>6, <1>7 DEF TypeOK, h
  <2>2. QED
    BY <1>1, <2>1 DEF OneAwaited
<1>13. QED
  BY <1>9, <1>10, <1>11, <1>12

-----------------------------------------------------------------------------
(* Steps of one machine, with no request awaited.                          *)

LEMMA LocalStep ==
  ASSUME IInv, UNCHANGED <<rows, trail, owner, req>>, TypeOK', NEW m \in Machines,
         phase[m] # "asking", MachineSense(m)',
         \A n \in Machines \ {m} : phase'[n] = phase[n] /\ held'[n] = held[n] /\ disk'[n] = disk[n]
  PROVE  IInv'
<1>1. RequestsSense'
  <2> SUFFICES ASSUME NEW q \in Requests
               PROVE  RequestSense(req[q])'
    BY DEF RequestsSense
  <2>1. RequestSense(req[q]) /\ req'[q] = req[q]
    BY DEF IInv, RequestsSense
  <2>2. req[q].live => req[q].machine \in Machines \ {m}
    BY <2>1 DEF RequestSense
  <2>3. QED
    BY <2>1, <2>2, OwnFrame DEF RequestSense
<1>2. OneAwaited'
  BY DEF IInv, OneAwaited
<1>3. MachinesSense'
  <2> SUFFICES ASSUME NEW n \in Machines, n # m
               PROVE  MachineSense(n)'
    BY DEF MachinesSense
  <2>1. MachineSense(n)
    BY DEF IInv, MachinesSense
  <2>2. QED
    BY <2>1, OwnFrame DEF MachineSense
<1>4. QED
  BY <1>1, <1>2, <1>3 DEF IInv

LEMMA StartEnrolledKeeps ==
  ASSUME IInv, NEW m \in Machines, StartEnrolled(m)
  PROVE  IInv'
<1>1. TypeOK /\ MachineSense(m) /\ phase[m] = "stopped" /\ disk[m] \in Ids
  BY DEF IInv, MachinesSense, StartEnrolled, IsEnrolled
<1>2. /\ UNCHANGED <<rows, owner, trail, uses, expired, wanted, req, disk, faults>>
      /\ phase' = [phase EXCEPT ![m] = "running"] /\ held' = [held EXCEPT ![m] = disk[m]]
  BY DEF StartEnrolled, store
<1>3. TypeOK'
  BY <1>1, <1>2 DEF TypeOK, Phases
<1>4. phase'[m] = "running" /\ held'[m] = disk[m] /\ disk'[m] = disk[m]
  BY <1>1, <1>2 DEF TypeOK
<1>5. MachineSense(m)'
  BY <1>1, <1>2, <1>4, OwnFrame DEF MachineSense
<1>6. \A n \in Machines \ {m} : phase'[n] = phase[n] /\ held'[n] = held[n] /\ disk'[n] = disk[n]
  BY <1>1, <1>2 DEF TypeOK
<1>7. QED
  BY <1>1, <1>2, <1>3, <1>5, <1>6, LocalStep

LEMMA SaveBeginKeeps ==
  ASSUME IInv, NEW m \in Machines, SaveBegin(m)
  PROVE  IInv'
<1>1. TypeOK /\ MachineSense(m) /\ phase[m] = "saving"
  BY DEF IInv, MachinesSense, SaveBegin
<1>2. /\ UNCHANGED <<rows, owner, trail, uses, expired, wanted, req, held, faults>>
      /\ phase' = [phase EXCEPT ![m] = "writing"] /\ disk' = [disk EXCEPT ![m] = Torn]
  BY DEF SaveBegin, store
<1>3. TypeOK'
  BY <1>1, <1>2 DEF TypeOK, Phases
<1>4. phase'[m] = "writing" /\ held'[m] = held[m] /\ disk'[m] = Torn
  BY <1>1, <1>2 DEF TypeOK
<1>5. MachineSense(m)'
  BY <1>1, <1>2, <1>4, OwnFrame, IdAssumption DEF MachineSense
<1>6. \A n \in Machines \ {m} : phase'[n] = phase[n] /\ held'[n] = held[n] /\ disk'[n] = disk[n]
  BY <1>1, <1>2 DEF TypeOK
<1>7. QED
  BY <1>1, <1>2, <1>3, <1>5, <1>6, LocalStep

LEMMA SaveEndKeeps ==
  ASSUME IInv, NEW m \in Machines, SaveEnd(m)
  PROVE  IInv'
<1>1. TypeOK /\ MachineSense(m) /\ phase[m] = "writing" /\ held[m] \in Ids
  BY DEF IInv, MachinesSense, SaveEnd, MachineSense
<1>2. /\ UNCHANGED <<rows, owner, trail, uses, expired, wanted, req, held, faults>>
      /\ phase' = [phase EXCEPT ![m] = "running"] /\ disk' = [disk EXCEPT ![m] = held[m]]
  BY DEF SaveEnd, store
<1>3. TypeOK'
  BY <1>1, <1>2 DEF TypeOK, Phases
<1>4. phase'[m] = "running" /\ held'[m] = held[m] /\ disk'[m] = held[m]
  BY <1>1, <1>2 DEF TypeOK
<1>5. MachineSense(m)'
  BY <1>1, <1>2, <1>4, OwnFrame DEF MachineSense
<1>6. \A n \in Machines \ {m} : phase'[n] = phase[n] /\ held'[n] = held[n] /\ disk'[n] = disk[n]
  BY <1>1, <1>2 DEF TypeOK
<1>7. QED
  BY <1>1, <1>2, <1>3, <1>5, <1>6, LocalStep

LEMMA StopKeeps ==
  ASSUME IInv, NEW m \in Machines, Stop(m)
  PROVE  IInv'
<1>1. TypeOK /\ MachineSense(m) /\ phase[m] = "running"
  BY DEF IInv, MachinesSense, Stop
<1>2. /\ UNCHANGED <<rows, owner, trail, uses, expired, wanted, req, disk, faults>>
      /\ phase' = [phase EXCEPT ![m] = "stopped"] /\ held' = [held EXCEPT ![m] = NoId]
  BY DEF Stop, store
<1>3. TypeOK'
  BY <1>1, <1>2 DEF TypeOK, Phases
<1>4. phase'[m] = "stopped" /\ held'[m] = NoId /\ disk'[m] = disk[m]
  BY <1>1, <1>2 DEF TypeOK
<1>5. MachineSense(m)'
  BY <1>1, <1>2, <1>4, OwnFrame, IdAssumption DEF MachineSense
<1>6. \A n \in Machines \ {m} : phase'[n] = phase[n] /\ held'[n] = held[n] /\ disk'[n] = disk[n]
  BY <1>1, <1>2 DEF TypeOK
<1>7. QED
  BY <1>1, <1>2, <1>3, <1>5, <1>6, LocalStep

-----------------------------------------------------------------------------
(* Steps of one request.                                                   *)

\* A request is asked, or goes on without losing its client or its machine.
LEMMA RequestChanges ==
  ASSUME IInv, NEW r \in Requests, NEW g \in Handlers, req' = [req EXCEPT ![r] = g],
         UNCHANGED <<rows, trail, owner, phase>>, RequestSense(g),
         g.live => req[r].live /\ g.machine = req[r].machine
  PROVE  req' \in [Requests -> Handlers] /\ RequestsSense' /\ OneAwaited'
<1>1. TypeOK /\ RequestsSense /\ OneAwaited
  BY DEF IInv
<1>2. req' \in [Requests -> Handlers] /\ \A q \in Requests : req'[q] = IF q = r THEN g ELSE req[q]
  BY <1>1 DEF TypeOK
<1>3. RequestsSense'
  <2> SUFFICES ASSUME NEW q \in Requests
               PROVE  RequestSense(req[q])'
    BY DEF RequestsSense
  <2>1. RequestSense(IF q = r THEN g ELSE req[q])
    BY <1>1 DEF RequestsSense
  <2>2. req'[q] = IF q = r THEN g ELSE req[q]
    BY <1>2
  <2> DEFINE k == req'[q]
  <2>3. RequestSense(k)
    BY <2>1, <2>2
  <2>4. QED
    BY <2>3 DEF RequestSense, Own
<1>4. OneAwaited'
  BY <1>1, <1>2 DEF OneAwaited
<1>5. QED
  BY <1>2, <1>3, <1>4

LEMMA CheckKeeps ==
  ASSUME IInv, NEW r \in Requests, Check(r)
  PROVE  IInv'
<1> DEFINE g == [stage |-> IF Allowed THEN "allowed" ELSE "refused", machine |-> req[r].machine,
                 seen |-> uses, id |-> NoId, live |-> req[r].live]
<1>1. TypeOK /\ RequestSense(req[r]) /\ req[r] \in Handlers /\ req[r].stage = "asked"
  BY DEF IInv, RequestsSense, TypeOK, Check
<1>2. /\ req' = [req EXCEPT ![r] = g]
      /\ UNCHANGED <<rows, owner, trail, uses, expired, wanted, phase, held, disk, faults>>
  BY DEF Check, store, local
<1>3. g.stage \in {"allowed", "refused"} /\ g.machine = req[r].machine /\ g.id = NoId /\ g.live = req[r].live
  OBVIOUS
<1>4. g \in Handlers
  BY <1>1 DEF TypeOK, Handlers, Stages
<1> HIDE DEF g
<1>5. RequestSense(g)
  BY <1>1, <1>3 DEF RequestSense
<1>6. req' \in [Requests -> Handlers] /\ RequestsSense' /\ OneAwaited'
  BY <1>2, <1>3, <1>4, <1>5, RequestChanges
<1>7. TypeOK'
  BY <1>1, <1>2, <1>6 DEF TypeOK
<1>8. MachinesSense'
  BY <1>2, OwnFrame DEF IInv, MachinesSense, MachineSense
<1>9. QED
  BY <1>6, <1>7, <1>8 DEF IInv

LEMMA CommitKeeps ==
  ASSUME IInv, NEW r \in Requests, Commit(r)
  PROVE  IInv'
<1>1. TypeOK' /\ RequestsSense' /\ OneAwaited' /\ \A i, m : Own(i, m) => Own(i, m)'
  BY CommitOwns
<1>2. UNCHANGED <<phase, held, disk>>
  BY DEF Commit, local
<1>3. MachinesSense'
  <2> SUFFICES ASSUME NEW m \in Machines
               PROVE  MachineSense(m)'
    BY DEF MachinesSense
  <2>1. MachineSense(m)
    BY DEF IInv, MachinesSense
  <2>2. QED
    BY <1>1, <1>2, <2>1 DEF MachineSense
<1>4. QED
  BY <1>1, <1>3 DEF IInv

\* A request ends, and its machine, if it still waits, goes on to phase p.
LEMMA RequestEnds ==
  ASSUME IInv, NEW r \in Requests, req' = [req EXCEPT ![r] = FreeRequest],
         UNCHANGED <<store, disk>>, faults' \in 0..MaxFaults,
         NEW p \in {"saving", "stopped"}, p = "saving" => req[r].stage = "committed",
         NEW m, m = req[r].machine,
         phase' = IF req[r].live THEN [phase EXCEPT ![m] = p] ELSE phase,
         held' = IF req[r].live /\ p = "saving" THEN [held EXCEPT ![m] = req[r].id] ELSE held
  PROVE  IInv'
<1>1. TypeOK /\ RequestsSense /\ OneAwaited /\ RequestSense(req[r]) /\ req[r] \in Handlers
  BY DEF IInv, RequestsSense, TypeOK
<1>2. UNCHANGED <<rows, owner, trail, uses, expired, wanted, disk>>
  BY DEF store
<1>3. req[r].live => m \in Machines /\ phase[m] = "asking"
  BY <1>1 DEF RequestSense
<1>4. /\ FreeRequest \in Handlers
      /\ FreeRequest.stage = "free" /\ FreeRequest.id = NoId /\ FreeRequest.live = FALSE
  BY DEF FreeRequest, Handlers, Stages
<1>5. p = "saving" => req[r].id \in Ids /\ Own(req[r].id, m)
  BY <1>1 DEF RequestSense
<1> HIDE DEF FreeRequest
<1>6. /\ req' \in [Requests -> Handlers]
      /\ \A q \in Requests : req'[q] = IF q = r THEN FreeRequest ELSE req[q]
  BY <1>1, <1>4 DEF TypeOK
<1>7. TypeOK'
  <2>1. phase' \in [Machines -> Phases]
    BY <1>1 DEF TypeOK, Phases
  <2>2. held' \in [Machines -> Ids \union {NoId}]
    BY <1>1, <1>5 DEF TypeOK
  <2>3. QED
    BY <1>1, <1>2, <1>6, <2>1, <2>2 DEF TypeOK
<1>8. RequestsSense'
  <2> SUFFICES ASSUME NEW q \in Requests
               PROVE  RequestSense(req[q])'
    BY DEF RequestsSense
  <2>1. CASE q = r
    <3>1. req'[q] = FreeRequest
      BY <1>6, <2>1
    <3>2. QED
      BY <1>4, <3>1 DEF RequestSense
  <2>2. CASE q # r
    <3>1. req'[q] = req[q] /\ RequestSense(req[q])
      BY <1>1, <1>6, <2>2 DEF RequestsSense
    <3>2. req[q].live => phase'[req[q].machine] = "asking"
      <4> HAVE req[q].live
      <4>1. req[q].machine \in Machines /\ phase[req[q].machine] = "asking"
        BY <3>1 DEF RequestSense
      <4>2. req[r].live => req[q].machine # m
        BY <1>1, <2>2 DEF OneAwaited
      <4>3. QED
        BY <1>1, <4>1, <4>2 DEF TypeOK
    <3>3. QED
      BY <1>2, <3>1, <3>2, OwnFrame DEF RequestSense
  <2>3. QED
    BY <2>1, <2>2
<1>9. OneAwaited'
  BY <1>1, <1>4, <1>6 DEF OneAwaited
<1>10. MachinesSense'
  <2> SUFFICES ASSUME NEW n \in Machines
               PROVE  MachineSense(n)'
    BY DEF MachinesSense
  <2>1. MachineSense(n)
    BY DEF IInv, MachinesSense
  <2>2. CASE n = m /\ req[r].live
    <3>1. phase[n] = "asking" /\ phase'[n] = p /\ disk'[n] = disk[n] /\ disk[n] \notin Ids /\ held[n] = NoId
      BY <1>1, <1>2, <1>3, <2>1, <2>2 DEF TypeOK, MachineSense
    <3>2. held'[n] = IF p = "saving" THEN req[r].id ELSE NoId
      BY <1>1, <2>2, <3>1 DEF TypeOK
    <3>3. CASE p = "saving"
      <4>1. Own(req[r].id, n) /\ req[r].id \in Ids /\ held'[n] = req[r].id
        BY <1>5, <2>2, <3>2, <3>3
      <4>2. Own(held[n], n)'
        BY <1>2, <4>1 DEF Own
      <4>3. QED
        BY <3>1, <3>3, <4>1, <4>2 DEF MachineSense
    <3>4. CASE p = "stopped"
      BY <3>1, <3>2, <3>4, IdAssumption DEF MachineSense
    <3>5. QED
      BY <3>3, <3>4
  <2>3. CASE ~(n = m /\ req[r].live)
    <3>1. phase'[n] = phase[n] /\ held'[n] = held[n] /\ disk'[n] = disk[n]
      BY <1>1, <1>2, <2>3 DEF TypeOK
    <3>2. QED
      BY <1>2, <2>1, <3>1, OwnFrame DEF MachineSense
  <2>4. QED
    BY <2>2, <2>3
<1>11. QED
  BY <1>7, <1>8, <1>9, <1>10 DEF IInv

LEMMA AnswerKeeps ==
  ASSUME IInv, NEW r \in Requests, Answer(r)
  PROVE  IInv'
<1>1. TypeOK /\ RequestSense(req[r]) /\ MachinesSense
  BY DEF IInv, RequestsSense
<1> DEFINE m == req[r].machine
           p == IF req[r].stage = "committed" THEN "saving" ELSE "stopped"
<1>2. /\ req' = [req EXCEPT ![r] = FreeRequest] /\ UNCHANGED <<store, disk, faults>>
      /\ phase' = IF req[r].live THEN [phase EXCEPT ![m] = p] ELSE phase
      /\ held' = IF req[r].live THEN [held EXCEPT ![m] = req[r].id] ELSE held
  BY DEF Answer
<1>3. held' = IF req[r].live /\ p = "saving" THEN [held EXCEPT ![m] = req[r].id] ELSE held
  <2>1. CASE req[r].live /\ p = "stopped"
    <3>1. m \in Machines /\ held[m] = NoId /\ req[r].id = NoId
      BY <1>1, <2>1 DEF RequestSense, MachinesSense, MachineSense
    <3>2. [held EXCEPT ![m] = NoId] = held
      BY <1>1, <3>1 DEF TypeOK
    <3>3. QED
      BY <1>2, <2>1, <3>1, <3>2
  <2>2. QED
    BY <1>2, <2>1
<1>4. faults' \in 0..MaxFaults /\ p \in {"saving", "stopped"} /\ (p = "saving" => req[r].stage = "committed")
  BY <1>1, <1>2 DEF TypeOK
<1> HIDE DEF p
<1>5. QED
  BY <1>2, <1>3, <1>4, RequestEnds

LEMMA RequestFailsKeeps ==
  ASSUME IInv, NEW r \in Requests, RequestFails(r)
  PROVE  IInv'
<1>1. faults' \in 0..MaxFaults
  BY NatAssumption DEF IInv, TypeOK, RequestFails, Fault
<1>2. /\ req' = [req EXCEPT ![r] = FreeRequest] /\ UNCHANGED <<store, held, disk>>
      /\ phase' = IF req[r].live THEN [phase EXCEPT ![req[r].machine] = "stopped"] ELSE phase
  BY DEF RequestFails
<1>3. QED
  BY <1>1, <1>2, RequestEnds

-----------------------------------------------------------------------------
(* The steps of both sides at once, and of the store alone.                *)

LEMMA StartEnrollingKeeps ==
  ASSUME IInv, NEW m \in Machines, NEW r \in Requests, StartEnrolling(m, r)
  PROVE  IInv'
<1> DEFINE g == [stage |-> "asked", machine |-> m, seen |-> 0, id |-> NoId, live |-> TRUE]
<1>1. /\ TypeOK /\ RequestsSense /\ OneAwaited /\ MachinesSense
      /\ phase[m] = "stopped" /\ disk[m] \notin Ids
  BY DEF IInv, StartEnrolling, IsEnrolled
<1>2. /\ UNCHANGED <<rows, owner, trail, uses, expired, wanted, held, disk, faults>>
      /\ phase' = [phase EXCEPT ![m] = "asking"] /\ req' = [req EXCEPT ![r] = g]
  BY DEF StartEnrolling, store
<1>3. /\ g \in Handlers
      /\ g.stage = "asked" /\ g.machine = m /\ g.id = NoId /\ g.live
  BY DEF Handlers, Stages
<1> HIDE DEF g
<1>4. /\ req' \in [Requests -> Handlers]
      /\ \A q \in Requests : req'[q] = IF q = r THEN g ELSE req[q]
  BY <1>1, <1>2, <1>3 DEF TypeOK
<1>5. \A n \in Machines : phase'[n] = IF n = m THEN "asking" ELSE phase[n]
  BY <1>1, <1>2 DEF TypeOK
<1>6. \A q \in Requests : req[q].live => req[q].machine \in Machines \ {m} /\ phase[req[q].machine] = "asking"
  BY <1>1 DEF RequestsSense, RequestSense
<1>7. TypeOK'
  BY <1>1, <1>2, <1>4 DEF TypeOK, Phases
<1>8. RequestsSense'
  <2> SUFFICES ASSUME NEW q \in Requests
               PROVE  RequestSense(req[q])'
    BY DEF RequestsSense
  <2>1. CASE q = r
    <3>1. req'[q] = g
      BY <1>4, <2>1
    <3>2. QED
      BY <1>3, <1>5, <3>1 DEF RequestSense
  <2>2. CASE q # r
    <3>1. req'[q] = req[q] /\ RequestSense(req[q])
      BY <1>1, <1>4, <2>2 DEF RequestsSense
    <3>2. req[q].live => phase'[req[q].machine] = "asking"
      BY <1>5, <1>6
    <3>3. QED
      BY <1>2, <3>1, <3>2, OwnFrame DEF RequestSense
  <2>3. QED
    BY <2>1, <2>2
<1>9. OneAwaited'
  BY <1>1, <1>3, <1>4, <1>6 DEF OneAwaited
<1>10. MachinesSense'
  <2> SUFFICES ASSUME NEW n \in Machines
               PROVE  MachineSense(n)'
    BY DEF MachinesSense
  <2>1. MachineSense(n) /\ held'[n] = held[n] /\ disk'[n] = disk[n]
    BY <1>1, <1>2 DEF MachinesSense
  <2>2. QED
    BY <1>1, <1>2, <1>5, <2>1, OwnFrame DEF MachineSense
<1>11. QED
  BY <1>7, <1>8, <1>9, <1>10 DEF IInv

LEMMA AgentCrashKeeps ==
  ASSUME IInv, NEW m \in Machines, AgentCrash(m)
  PROVE  IInv'
<1>1. TypeOK /\ RequestsSense /\ OneAwaited /\ MachinesSense
  BY DEF IInv
<1>2. /\ UNCHANGED <<rows, owner, trail, uses, expired, wanted, disk>>
      /\ phase' = [phase EXCEPT ![m] = "stopped"] /\ held' = [held EXCEPT ![m] = NoId]
      /\ req' = [r \in Requests |-> IF req[r].machine = m THEN GivenUp(req[r]) ELSE req[r]]
  BY DEF AgentCrash, store
<1>3. faults' \in 0..MaxFaults
  BY <1>1, NatAssumption DEF TypeOK, AgentCrash, Fault
<1>4. \A q \in Requests :
        /\ req'[q] \in Handlers
        /\ req'[q].stage = req[q].stage /\ req'[q].machine = req[q].machine /\ req'[q].id = req[q].id
        /\ req'[q].live <=> req[q].live /\ req[q].machine # m
  <2> SUFFICES ASSUME NEW q \in Requests
               PROVE  /\ req'[q] \in Handlers
                      /\ req'[q].stage = req[q].stage /\ req'[q].machine = req[q].machine /\ req'[q].id = req[q].id
                      /\ req'[q].live <=> req[q].live /\ req[q].machine # m
    OBVIOUS
  <2>1. req[q] \in Handlers /\ req'[q] = IF req[q].machine = m THEN GivenUp(req[q]) ELSE req[q]
    BY <1>1, <1>2 DEF TypeOK
  <2>2. QED
    BY <2>1 DEF GivenUp, Handlers
<1>5. \A n \in Machines :
        /\ phase'[n] = IF n = m THEN "stopped" ELSE phase[n]
        /\ held'[n] = IF n = m THEN NoId ELSE held[n]
  BY <1>1, <1>2 DEF TypeOK
<1>6. TypeOK'
  <2>1. req' \in [Requests -> Handlers]
    BY <1>2, <1>4
  <2>2. QED
    BY <1>1, <1>2, <1>3, <2>1 DEF TypeOK, Phases
<1>7. RequestsSense'
  <2> SUFFICES ASSUME NEW q \in Requests
               PROVE  RequestSense(req[q])'
    BY DEF RequestsSense
  <2>1. RequestSense(req[q])
    BY <1>1 DEF RequestsSense
  <2>2. QED
    BY <1>2, <1>4, <1>5, <2>1 DEF RequestSense, Own
<1>8. OneAwaited'
  BY <1>1, <1>4 DEF OneAwaited
<1>9. MachinesSense'
  <2> SUFFICES ASSUME NEW n \in Machines
               PROVE  MachineSense(n)'
    BY DEF MachinesSense
  <2>1. MachineSense(n) /\ disk'[n] = disk[n]
    BY <1>1, <1>2 DEF MachinesSense
  <2>2. QED
    BY <1>2, <1>5, <2>1, OwnFrame, IdAssumption DEF MachineSense
<1>10. QED
  BY <1>6, <1>7, <1>8, <1>9 DEF IInv

LEMMA BackendCrashKeeps ==
  ASSUME IInv, BackendCrash
  PROVE  IInv'
<1>1. TypeOK /\ MachinesSense
  BY DEF IInv
<1>2. /\ UNCHANGED <<rows, owner, trail, uses, expired, wanted, held, disk>>
      /\ req' = [r \in Requests |-> FreeRequest]
      /\ phase' = [m \in Machines |-> IF phase[m] = "asking" THEN "stopped" ELSE phase[m]]
  BY DEF BackendCrash, store
<1>3. faults' \in 0..MaxFaults
  BY <1>1, NatAssumption DEF TypeOK, BackendCrash, Fault
<1>4. FreeRequest \in Handlers /\ FreeRequest.stage = "free" /\ FreeRequest.id = NoId /\ ~FreeRequest.live
  BY DEF FreeRequest, Handlers, Stages
<1> HIDE DEF FreeRequest
<1>5. TypeOK'
  BY <1>1, <1>2, <1>3, <1>4 DEF TypeOK, Phases
<1>6. RequestsSense' /\ OneAwaited'
  BY <1>2, <1>4 DEF RequestsSense, RequestSense, OneAwaited
<1>7. MachinesSense'
  <2> SUFFICES ASSUME NEW n \in Machines
               PROVE  MachineSense(n)'
    BY DEF MachinesSense
  <2>1. MachineSense(n) /\ held'[n] = held[n] /\ disk'[n] = disk[n]
    BY <1>1, <1>2 DEF MachinesSense
  <2>2. phase'[n] = IF phase[n] = "asking" THEN "stopped" ELSE phase[n]
    BY <1>2
  <2>3. QED
    BY <1>2, <2>1, <2>2, OwnFrame DEF MachineSense
<1>8. QED
  BY <1>5, <1>6, <1>7 DEF IInv

\* Deleting removes no row that has an entry, and every owned row has one.
LEMMA StoreKeeps ==
  ASSUME IInv, (\E i \in Unwanted : Delete(i)) \/ Expire \/ UNCHANGED vars
  PROVE  IInv'
<1>1. UNCHANGED <<owner, trail, uses, req, phase, held, disk, faults>>
  BY DEF Delete, Expire, vars, store, local
<1>2. rows' \subseteq Ids /\ wanted' \subseteq Ids /\ expired' \in BOOLEAN
  BY UnwantedAssumption DEF IInv, TypeOK, Delete, Expire, vars, store
<1>3. \A i, m : Own(i, m) => Own(i, m)'
  BY DEF Own, Delete, Expire, vars, store
<1>4. TypeOK'
  BY <1>1, <1>2 DEF IInv, TypeOK
<1>5. RequestsSense' /\ OneAwaited' /\ MachinesSense'
  BY <1>1, <1>3 DEF IInv, RequestsSense, RequestSense, OneAwaited, MachinesSense, MachineSense
<1>6. QED
  BY <1>4, <1>5 DEF IInv

LEMMA Step == IInv /\ [Next]_vars => IInv'
  BY StartEnrolledKeeps, StartEnrollingKeeps, SaveBeginKeeps, SaveEndKeeps, StopKeeps,
     AgentCrashKeeps, CheckKeeps, CommitKeeps, AnswerKeeps, RequestFailsKeeps,
     BackendCrashKeeps, StoreKeeps
  DEF Next, Start, RequestStep

-----------------------------------------------------------------------------
(* The theorems.                                                           *)

LEMMA InitSense == Init => IInv
<1> SUFFICES ASSUME Init PROVE IInv
  OBVIOUS
<1>1. FreeRequest \in Handlers /\ FreeRequest.stage = "free" /\ FreeRequest.id = NoId /\ ~FreeRequest.live
  BY DEF FreeRequest, Handlers, Stages
<1> HIDE DEF FreeRequest
<1>2. TypeOK
  <2>1. req \in [Requests -> Handlers]
    BY <1>1 DEF Init
  <2>2. /\ phase \in [Machines -> Phases]
        /\ held \in [Machines -> Ids \union {NoId}]
        /\ disk \in [Machines -> Ids \union {NoId, Torn}]
        /\ owner \in [Ids -> Machines \union {NoMachine}]
    BY DEF Init, Phases
  <2>3. rows \subseteq Ids /\ trail \subseteq Ids /\ wanted \subseteq Ids
    BY DEF Init
  <2>4. uses \in Nat /\ faults \in 0..MaxFaults
    BY NatAssumption DEF Init
  <2>5. expired \in BOOLEAN
    BY DEF Init
  <2>6. QED
    BY <2>1, <2>2, <2>3, <2>4, <2>5 DEF TypeOK
<1>3. RequestsSense /\ OneAwaited
  BY <1>1 DEF Init, RequestsSense, RequestSense, OneAwaited
<1>4. MachinesSense
  BY IdAssumption DEF Init, MachinesSense, MachineSense
<1>5. QED
  BY <1>2, <1>3, <1>4 DEF IInv

\* The inductive invariant holds in every behaviour.
THEOREM Inductive == Spec => []IInv
  BY InitSense, Step, PTL DEF Spec

\* Every variable keeps its type.
THEOREM TypeCorrect == Spec => []TypeOK
<1>1. IInv => TypeOK
  BY DEF IInv
<1>2. QED
  BY <1>1, Inductive, PTL

\* A machine holds and has saved no identity but its own, although handlers
\* outlive the clients that asked and machines ask again.
THEOREM NoForeignIdentity == Spec => []IdentityIsOwn
<1>1. IInv => IdentityIsOwn
  BY DEF IInv, TypeOK, MachinesSense, MachineSense, IdentityIsOwn, Own
<1>2. QED
  BY <1>1, Inductive, PTL

\* No step changes a saved identity.
THEOREM SavedForGood == Spec => IdentityKept
<1>1. IInv /\ [Next]_vars => [\A m \in Machines : disk[m] \in Ids => disk'[m] = disk[m]]_disk
  <2> SUFFICES ASSUME IInv, [Next]_vars, disk' # disk, NEW m \in Machines, disk[m] \in Ids
               PROVE  disk'[m] = disk[m]
    OBVIOUS
  <2>1. PICK n \in Machines : SaveBegin(n) \/ SaveEnd(n)
    BY DEF Next, Start, StartEnrolled, StartEnrolling, Stop, AgentCrash, RequestStep, Check,
           Commit, Answer, RequestFails, Delete, Expire, BackendCrash, vars, local
  <2>2. disk[n] \notin Ids
    BY <2>1 DEF IInv, MachinesSense, MachineSense, SaveBegin, SaveEnd
  <2>3. n # m
    BY <2>2
  <2>4. QED
    BY <2>1, <2>3 DEF IInv, TypeOK, SaveBegin, SaveEnd
<1>2. QED
  BY <1>1, Inductive, PTL DEF Spec, IdentityKept

-----------------------------------------------------------------------------
(* Counting: the uses of the token.                                        *)

\* Handlers that were told there is a use left and have not taken it.
Taking == {r \in Requests : req[r].stage = "allowed"}

UsesBounded ==
  /\ IsFiniteSet(trail) /\ EachUseCounted
  /\ uses + Cardinality(Taking) < MaxUses + Cardinality(Requests)

LEMMA TakingCount ==
  IsFiniteSet(Taking) /\ Cardinality(Taking) \in Nat /\ Cardinality(Requests) \in Nat
  /\ Cardinality(Taking) <= Cardinality(Requests)
<1>1. Taking \subseteq Requests /\ IsFiniteSet(Requests)
  BY RequestAssumption DEF Taking
<1>2. QED
  BY <1>1, FS_Subset, FS_CardinalityType

\* A step that enrolls nobody and lets nobody.
LEMMA UsesFrame ==
  ASSUME IInv, UsesBounded, UNCHANGED <<uses, trail>>, Taking' \subseteq Taking
  PROVE  UsesBounded'
<1>1. Cardinality(Taking') \in Nat /\ Cardinality(Taking') <= Cardinality(Taking)
  BY TakingCount, FS_Subset, FS_CardinalityType
<1>2. QED
  BY <1>1, TakingCount, NatAssumption DEF UsesBounded, EachUseCounted, IInv, TypeOK

LEMMA UsesStep == IInv /\ UsesBounded /\ [Next]_vars => UsesBounded'
<1> SUFFICES ASSUME IInv, UsesBounded, [Next]_vars
             PROVE  UsesBounded'
  OBVIOUS
<1>1. TypeOK
  BY DEF IInv
<1>2. ASSUME NEW r \in Requests, Check(r)
      PROVE  UsesBounded'
  <2>1. /\ UNCHANGED <<uses, trail>>
        /\ \A q \in Requests \ {r} : req'[q] = req[q]
    BY <1>1, <1>2 DEF Check, TypeOK, store
  <2>2. CASE Allowed
    <3>1. Taking' \subseteq Requests
      BY DEF Taking
    <3>2. Cardinality(Taking') \in Nat /\ Cardinality(Taking') <= Cardinality(Requests)
      BY <3>1, RequestAssumption, FS_Subset, FS_CardinalityType
    <3>3. uses < MaxUses /\ uses \in Nat
      BY <1>1, <2>2 DEF Allowed, TypeOK
    <3>4. uses + Cardinality(Taking') < MaxUses + Cardinality(Requests)
      BY <3>2, <3>3, TakingCount, NatAssumption
    <3>5. QED
      BY <2>1, <3>4 DEF UsesBounded, EachUseCounted
  <2>3. CASE ~Allowed
    <3>1. req'[r].stage = "refused"
      BY <1>1, <1>2, <2>3 DEF Check, TypeOK
    <3>2. Taking' \subseteq Taking
      BY <2>1, <3>1 DEF Taking
    <3>3. QED
      BY <2>1, <3>2, UsesFrame
  <2>4. QED
    BY <2>2, <2>3
<1>3. ASSUME NEW r \in Requests, Commit(r)
      PROVE  UsesBounded'
  <2>1. /\ r \in Taking /\ uses' = uses + 1
        /\ req'[r].stage = "committed" /\ \A q \in Requests \ {r} : req'[q] = req[q]
    BY <1>1, <1>3 DEF Commit, Counted, TypeOK, Taking
  <2>2. PICK i : i \notin trail /\ trail' = trail \union {i}
    BY <1>3 DEF Commit, Fresh
  <2>3. IsFiniteSet(trail') /\ Cardinality(trail') = Cardinality(trail) + 1
    BY <2>2, FS_AddElement DEF UsesBounded
  <2>4. Taking' = Taking \ {r}
    BY <2>1 DEF Taking
  <2>5. Cardinality(Taking') = Cardinality(Taking) - 1
    BY <2>1, <2>4, TakingCount, FS_RemoveElement
  <2>6. uses' + Cardinality(Taking') < MaxUses + Cardinality(Requests)
    BY <1>1, <2>1, <2>5, TakingCount, NatAssumption DEF UsesBounded, TypeOK
  <2>7. QED
    BY <2>1, <2>3, <2>6 DEF UsesBounded, EachUseCounted
<1>4. ASSUME NEW r \in Requests, Answer(r) \/ RequestFails(r)
      PROVE  UsesBounded'
  <2>1. req' = [req EXCEPT ![r] = FreeRequest] /\ UNCHANGED <<uses, trail>>
    BY <1>4 DEF Answer, RequestFails, store
  <2>2. FreeRequest.stage # "allowed"
    BY DEF FreeRequest
  <2> HIDE DEF FreeRequest
  <2>3. Taking' \subseteq Taking
    BY <1>1, <2>1, <2>2 DEF Taking, TypeOK
  <2>4. QED
    BY <2>1, <2>3, UsesFrame
<1>5. ASSUME NEW m \in Machines, NEW r \in Requests, StartEnrolling(m, r)
      PROVE  UsesBounded'
  <2>1. /\ UNCHANGED <<uses, trail>> /\ req'[r].stage = "asked"
        /\ \A q \in Requests \ {r} : req'[q] = req[q]
    BY <1>1, <1>5 DEF StartEnrolling, TypeOK, store
  <2>2. Taking' \subseteq Taking
    BY <2>1 DEF Taking
  <2>3. QED
    BY <2>1, <2>2, UsesFrame
<1>6. ASSUME NEW m \in Machines, AgentCrash(m)
      PROVE  UsesBounded'
  <2>1. /\ UNCHANGED <<uses, trail>>
        /\ req' = [r \in Requests |-> IF req[r].machine = m THEN GivenUp(req[r]) ELSE req[r]]
    BY <1>6 DEF AgentCrash, store
  <2>2. \A r \in Requests : GivenUp(req[r]).stage = req[r].stage
    BY DEF GivenUp
  <2>3. \A r \in Requests : req'[r].stage = req[r].stage
    BY <2>1, <2>2
  <2>4. Taking' \subseteq Taking
    BY <2>3 DEF Taking
  <2>5. QED
    BY <2>1, <2>4, UsesFrame
<1>7. CASE BackendCrash
  <2>1. Taking' \subseteq Taking /\ UNCHANGED <<uses, trail>>
    BY <1>7 DEF BackendCrash, FreeRequest, Taking, store
  <2>2. QED
    BY <2>1, UsesFrame
<1>8. ASSUME UNCHANGED <<uses, trail, req>>
      PROVE  UsesBounded'
  <2>1. Taking' \subseteq Taking
    BY <1>8 DEF Taking
  <2>2. QED
    BY <1>8, <2>1, UsesFrame
<1>9. CASE (\E m \in Machines : StartEnrolled(m) \/ SaveBegin(m) \/ SaveEnd(m) \/ Stop(m))
           \/ (\E i \in Unwanted : Delete(i)) \/ Expire \/ UNCHANGED vars
  BY <1>8, <1>9 DEF StartEnrolled, SaveBegin, SaveEnd, Stop, Delete, Expire, vars, store
<1>10. QED
  BY <1>2, <1>3, <1>4, <1>5, <1>6, <1>7, <1>9 DEF Next, Start, RequestStep

LEMMA UsesAlways == Spec => []UsesBounded
<1>1. Init => UsesBounded
  <2> SUFFICES ASSUME Init PROVE UsesBounded
    OBVIOUS
  <2>1. Taking = {} /\ trail = {} /\ uses = 0
    BY DEF Init, Taking, FreeRequest
  <2>2. Cardinality(Requests) # 0
    BY RequestAssumption, FS_EmptySet
  <2>3. QED
    BY <2>1, <2>2, FS_EmptySet, TakingCount, NatAssumption DEF UsesBounded, EachUseCounted
<1>2. QED
  BY <1>1, UsesStep, Inductive, PTL DEF Spec

\* The token counts each agent enrolled with it once.
THEOREM CountedOnce == Spec => []EachUseCounted
<1>1. UsesBounded => EachUseCounted
  BY DEF UsesBounded
<1>2. QED
  BY <1>1, UsesAlways, PTL

\* max_uses is exceeded by less than the number of requests open at once.
THEOREM OverrunIsBounded == Spec => []OverrunBounded
<1>1. IInv /\ UsesBounded => OverrunBounded
  BY TakingCount, NatAssumption DEF IInv, TypeOK, UsesBounded, OverrunBounded
<1>2. QED
  BY <1>1, UsesAlways, Inductive, PTL
-----------------------------------------------------------------------------
(* Counting: the rows of one machine.                                      *)

\* Requests of m that may still enroll it, or that it waits for to try again.
Open(m) == {r \in Requests : /\ req[r].machine = m
                             /\ \/ req[r].stage \in {"asked", "allowed"}
                                \/ req[r].stage = "refused" /\ req[r].live}

\* The request m may send when it is started.
ToCome(m) == IF phase[m] = "stopped" /\ disk[m] \notin Ids THEN 1 ELSE 0

\* What may become a row of m has been paid for as if it were one.
Paid(m) ==
  /\ IsFiniteSet(RowsOf(m))
  /\ Cardinality(RowsOf(m)) + Cardinality(Open(m)) + ToCome(m) <= 1 + faults
  /\ phase[m] = "running" => disk[m] \in Ids

LEMMA OpenCount ==
  ASSUME NEW m
  PROVE  IsFiniteSet(Open(m)) /\ Cardinality(Open(m)) \in Nat
<1>1. Open(m) \subseteq Requests
  BY DEF Open
<1>2. QED
  BY <1>1, RequestAssumption, FS_Subset, FS_CardinalityType

\* A step that opens no request of m, and lets it send one only for a failure.
LEMMA PaidFrame ==
  ASSUME TypeOK, TypeOK', NEW m \in Machines, Paid(m),
         RowsOf(m)' = RowsOf(m), Open(m)' \subseteq Open(m),
         (faults' = faults /\ ToCome(m)' <= ToCome(m)) \/ faults' = faults + 1,
         phase'[m] = "running" => disk'[m] \in Ids
  PROVE  Paid(m)'
<1>1. /\ Cardinality(Open(m)') \in Nat /\ Cardinality(Open(m)) \in Nat
      /\ Cardinality(Open(m)') <= Cardinality(Open(m))
  BY OpenCount, FS_Subset, FS_CardinalityType
<1>2. Cardinality(RowsOf(m)) \in Nat
  BY FS_CardinalityType DEF Paid
<1>3. ToCome(m) \in 0..1 /\ ToCome(m)' \in 0..1 /\ faults \in Nat /\ faults' \in Nat
  BY NatAssumption DEF ToCome, TypeOK
<1>4. Cardinality(RowsOf(m)) + Cardinality(Open(m)) + ToCome(m) <= 1 + faults
  BY DEF Paid
<1>5. Cardinality(RowsOf(m)') + Cardinality(Open(m)') + ToCome(m)' <= 1 + faults'
  BY <1>1, <1>2, <1>3, <1>4
<1>6. IsFiniteSet(RowsOf(m)')
  BY DEF Paid
<1>7. QED
  BY <1>5, <1>6 DEF Paid

LEMMA PaidStart ==
  ASSUME TypeOK, TypeOK', NEW m \in Machines, Paid(m), NEW n \in Machines,
         NEW r \in Requests, StartEnrolling(n, r)
  PROVE  Paid(m)'
<1>1. /\ req'[r].stage = "asked" /\ req'[r].machine = n /\ req[r].stage = "free"
      /\ \A q \in Requests \ {r} : req'[q] = req[q]
      /\ phase' = [phase EXCEPT ![n] = "asking"] /\ phase[n] = "stopped" /\ disk[n] \notin Ids
      /\ UNCHANGED <<trail, owner, disk, faults>>
  BY DEF StartEnrolling, IsEnrolled, TypeOK, store
<1>2. RowsOf(m)' = RowsOf(m)
  BY <1>1 DEF RowsOf
<1>3. CASE n = m
  <2>1. Open(m)' = Open(m) \union {r} /\ r \notin Open(m)
    BY <1>1, <1>3 DEF Open
  <2>2. Cardinality(Open(m)') = Cardinality(Open(m)) + 1
    BY <2>1, OpenCount, FS_AddElement
  <2>3. ToCome(m) = 1 /\ ToCome(m)' = 0 /\ phase'[m] = "asking"
    BY <1>1, <1>3 DEF ToCome, TypeOK
  <2>4. Cardinality(RowsOf(m)) \in Nat /\ Cardinality(Open(m)) \in Nat /\ faults \in Nat
    BY OpenCount, FS_CardinalityType, NatAssumption DEF Paid, TypeOK
  <2>5. Cardinality(RowsOf(m)') + Cardinality(Open(m)') + ToCome(m)' <= 1 + faults'
    BY <1>1, <1>2, <2>2, <2>3, <2>4 DEF Paid
  <2>6. QED
    BY <1>2, <2>3, <2>5 DEF Paid
<1>4. CASE n # m
  <2>1. Open(m)' \subseteq Open(m)
    BY <1>1, <1>4 DEF Open
  <2>2. phase'[m] = phase[m]
    BY <1>1, <1>4 DEF TypeOK
  <2>3. ToCome(m)' <= ToCome(m)
    BY <1>1, <2>2 DEF ToCome
  <2>4. QED
    BY <1>1, <1>2, <2>1, <2>2, <2>3, PaidFrame DEF Paid
<1>5. QED
  BY <1>3, <1>4

LEMMA PaidCommit ==
  ASSUME TypeOK, TypeOK', NEW m \in Machines, Paid(m), NEW r \in Requests, Commit(r)
  PROVE  Paid(m)'
<1>1. /\ req[r].stage = "allowed" /\ req'[r].stage = "committed"
      /\ \A q \in Requests \ {r} : req'[q] = req[q]
      /\ UNCHANGED <<phase, disk, faults>>
  BY DEF Commit, TypeOK, local
<1>2. PICK i \in Ids : /\ i \notin trail /\ trail' = trail \union {i}
                       /\ owner' = [owner EXCEPT ![i] = req[r].machine]
  BY DEF Commit, Fresh
<1>3. \A j \in trail : j # i /\ owner'[j] = owner[j]
  BY <1>2 DEF TypeOK
<1>4. owner'[i] = req[r].machine
  BY <1>2 DEF TypeOK
<1>5. ToCome(m)' = ToCome(m)
  BY <1>1 DEF ToCome
<1>6. CASE req[r].machine = m
  <2>1. RowsOf(m)' = RowsOf(m) \union {i} /\ i \notin RowsOf(m)
    BY <1>2, <1>3, <1>4, <1>6 DEF RowsOf
  <2>2. IsFiniteSet(RowsOf(m)') /\ Cardinality(RowsOf(m)') = Cardinality(RowsOf(m)) + 1
    BY <2>1, FS_AddElement DEF Paid
  <2>3. Open(m)' = Open(m) \ {r} /\ r \in Open(m)
    BY <1>1, <1>6 DEF Open
  <2>4. Cardinality(Open(m)') = Cardinality(Open(m)) - 1
    BY <2>3, OpenCount, FS_RemoveElement
  <2>5. Cardinality(RowsOf(m)) \in Nat /\ Cardinality(Open(m)) \in Nat /\ faults \in Nat /\ ToCome(m) \in Nat
    BY OpenCount, FS_CardinalityType, NatAssumption DEF Paid, TypeOK, ToCome
  <2>6. Cardinality(RowsOf(m)') + Cardinality(Open(m)') + ToCome(m)' <= 1 + faults'
    BY <1>1, <1>5, <2>2, <2>4, <2>5 DEF Paid
  <2>7. QED
    BY <1>1, <2>2, <2>6 DEF Paid
<1>7. CASE req[r].machine # m
  <2>1. RowsOf(m)' = RowsOf(m)
    BY <1>2, <1>3, <1>4, <1>7 DEF RowsOf
  <2>2. Open(m)' \subseteq Open(m)
    BY <1>1 DEF Open
  <2>3. ToCome(m)' <= ToCome(m)
    BY <1>5 DEF ToCome
  <2>4. QED
    BY <1>1, <2>1, <2>2, <2>3, PaidFrame DEF Paid
<1>8. QED
  BY <1>6, <1>7

LEMMA PaidAnswer ==
  ASSUME IInv, TypeOK', NEW m \in Machines, Paid(m), NEW r \in Requests, Answer(r)
  PROVE  Paid(m)'
<1> DEFINE n == req[r].machine
<1>1. /\ TypeOK /\ RequestSense(req[r])
      /\ UNCHANGED <<trail, owner, disk, faults>>
      /\ req[r].stage \in {"committed", "refused"}
      /\ phase' = IF ~req[r].live THEN phase
                  ELSE [phase EXCEPT ![n] = IF req[r].stage = "committed" THEN "saving" ELSE "stopped"]
      /\ req' = [req EXCEPT ![r] = FreeRequest]
  BY DEF IInv, RequestsSense, Answer, store
<1>2. FreeRequest.stage = "free"
  BY DEF FreeRequest
<1>3. req'[r].stage = "free" /\ \A q \in Requests \ {r} : req'[q] = req[q]
  BY <1>1, <1>2 DEF TypeOK
<1>4. Open(m)' \subseteq Open(m) \ {r}
  BY <1>3 DEF Open
<1>5. RowsOf(m)' = RowsOf(m)
  BY <1>1 DEF RowsOf
<1>6. CASE req[r].live /\ n = m /\ req[r].stage = "refused"
  <2>1. r \in Open(m)
    BY <1>6 DEF Open
  <2>2. Cardinality(Open(m) \ {r}) = Cardinality(Open(m)) - 1 /\ IsFiniteSet(Open(m) \ {r})
    BY <2>1, OpenCount, FS_RemoveElement
  <2>3. Cardinality(Open(m)') \in Nat /\ Cardinality(Open(m)') <= Cardinality(Open(m)) - 1
    BY <1>4, <2>2, FS_Subset, FS_CardinalityType
  <2>4. /\ Cardinality(RowsOf(m)) \in Nat /\ Cardinality(Open(m)) \in Nat /\ faults \in Nat
        /\ ToCome(m) \in 0..1 /\ ToCome(m)' \in 0..1
    BY <1>1, OpenCount, FS_CardinalityType, NatAssumption DEF Paid, TypeOK, ToCome
  <2>5. Cardinality(RowsOf(m)') + Cardinality(Open(m)') + ToCome(m)' <= 1 + faults'
    BY <1>1, <1>5, <2>3, <2>4 DEF Paid
  <2>6. phase'[m] = "stopped"
    BY <1>1, <1>6 DEF TypeOK
  <2>7. QED
    BY <1>5, <2>5, <2>6 DEF Paid
<1>7. CASE req[r].live /\ n = m /\ req[r].stage = "committed"
  <2>1. phase'[m] = "saving"
    BY <1>1, <1>7 DEF TypeOK
  <2>2. ToCome(m)' <= ToCome(m)
    BY <2>1 DEF ToCome
  <2>3. QED
    BY <1>1, <1>4, <1>5, <2>1, <2>2, PaidFrame
<1>8. CASE ~req[r].live \/ n # m
  <2>1. phase'[m] = phase[m]
    BY <1>1, <1>8 DEF TypeOK
  <2>2. ToCome(m)' <= ToCome(m)
    BY <1>1, <2>1 DEF ToCome
  <2>3. phase'[m] = "running" => disk'[m] \in Ids
    BY <1>1, <2>1 DEF Paid
  <2>4. QED
    BY <1>1, <1>4, <1>5, <2>2, <2>3, PaidFrame
<1>9. QED
  BY <1>1, <1>6, <1>7, <1>8

\* Every failure pays for the row it may lead to.
LEMMA PaidFault ==
  ASSUME IInv, TypeOK', NEW m \in Machines, Paid(m),
         \/ \E r \in Requests : RequestFails(r)
         \/ \E n \in Machines : AgentCrash(n)
         \/ BackendCrash
  PROVE  Paid(m)'
<1>1. TypeOK /\ UNCHANGED <<trail, owner, disk>> /\ faults' = faults + 1
  BY DEF IInv, RequestFails, AgentCrash, BackendCrash, Fault, store
<1>2. RowsOf(m)' = RowsOf(m)
  BY <1>1 DEF RowsOf
<1>3. phase'[m] \in {phase[m], "stopped"}
  BY <1>1 DEF RequestFails, AgentCrash, BackendCrash, TypeOK
<1>4. FreeRequest.stage = "free"
  BY DEF FreeRequest
<1> HIDE DEF FreeRequest
<1>5. \A q \in Requests :
        \/ req'[q] = FreeRequest
        \/ req'[q] = req[q]
        \/ req'[q] = GivenUp(req[q])
  BY <1>1 DEF RequestFails, AgentCrash, BackendCrash, TypeOK
<1>6. \A q \in Requests : /\ GivenUp(req[q]).stage = req[q].stage /\ ~GivenUp(req[q]).live
                          /\ GivenUp(req[q]).machine = req[q].machine
  BY DEF GivenUp
<1>7. Open(m)' \subseteq Open(m)
  BY <1>4, <1>5, <1>6 DEF Open
<1>8. phase'[m] = "running" => disk'[m] \in Ids
  BY <1>1, <1>3 DEF Paid
<1>9. QED
  BY <1>1, <1>2, <1>7, <1>8, PaidFrame

\* Steps of a machine that has its identity, and of users and time.
LEMMA PaidLocal ==
  ASSUME IInv, TypeOK', NEW m \in Machines, Paid(m),
         \/ \E n \in Machines : StartEnrolled(n) \/ SaveBegin(n) \/ SaveEnd(n) \/ Stop(n)
         \/ (\E i \in Unwanted : Delete(i)) \/ Expire \/ UNCHANGED vars
  PROVE  Paid(m)'
<1>1. TypeOK /\ MachineSense(m) /\ UNCHANGED <<trail, owner, req, faults>>
  BY DEF IInv, MachinesSense, StartEnrolled, SaveBegin, SaveEnd, Stop, Delete, Expire, vars, store
<1>2. RowsOf(m)' = RowsOf(m) /\ Open(m)' = Open(m)
  BY <1>1 DEF RowsOf, Open
<1>3. /\ ToCome(m)' <= ToCome(m)
      /\ phase'[m] = "running" => disk'[m] \in Ids
  <2>1. ASSUME NEW n \in Machines, StartEnrolled(n) \/ SaveBegin(n) \/ SaveEnd(n) \/ Stop(n), n = m
        PROVE  \/ phase'[m] = "running" /\ disk'[m] \in Ids
               \/ phase'[m] = "writing"
               \/ phase'[m] = "stopped" /\ disk'[m] \in Ids
    BY <1>1, <2>1 DEF StartEnrolled, IsEnrolled, SaveBegin, SaveEnd, Stop, TypeOK, MachineSense, Paid
  <2>2. ASSUME NEW n \in Machines, StartEnrolled(n) \/ SaveBegin(n) \/ SaveEnd(n) \/ Stop(n), n # m
        PROVE  phase'[m] = phase[m] /\ disk'[m] = disk[m]
    BY <1>1, <2>2 DEF StartEnrolled, SaveBegin, SaveEnd, Stop, TypeOK
  <2>3. CASE (\E i \in Unwanted : Delete(i)) \/ Expire \/ UNCHANGED vars
    <3>1. phase'[m] = phase[m] /\ disk'[m] = disk[m]
      BY <2>3 DEF Delete, Expire, vars, local
    <3>2. QED
      BY <3>1 DEF ToCome, Paid
  <2>4. CASE phase'[m] = phase[m] /\ disk'[m] = disk[m]
    BY <2>4 DEF ToCome, Paid
  <2>5. CASE \/ phase'[m] = "running" /\ disk'[m] \in Ids
             \/ phase'[m] = "writing"
             \/ phase'[m] = "stopped" /\ disk'[m] \in Ids
    BY <2>5 DEF ToCome
  <2>6. QED
    BY <2>1, <2>2, <2>3, <2>4, <2>5
<1>4. QED
  BY <1>1, <1>2, <1>3, PaidFrame

LEMMA PaidCheck ==
  ASSUME TypeOK, TypeOK', NEW m \in Machines, Paid(m), NEW r \in Requests, Check(r)
  PROVE  Paid(m)'
<1>1. /\ req[r].stage = "asked" /\ req'[r].machine = req[r].machine
      /\ \A q \in Requests \ {r} : req'[q] = req[q]
      /\ UNCHANGED <<trail, owner, phase, disk, faults>>
  BY DEF Check, TypeOK, store, local
<1>2. RowsOf(m)' = RowsOf(m) /\ Open(m)' \subseteq Open(m)
  BY <1>1 DEF RowsOf, Open
<1>3. ToCome(m)' <= ToCome(m)
  BY <1>1 DEF ToCome
<1>4. QED
  BY <1>1, <1>2, <1>3, PaidFrame DEF Paid

\* A machine has one row more than it has seen failures, at most: no start, no
\* handler that outlives its client and no refusal gives it another.
THEOREM NoRowUnpaid == Spec => []RowsPaidFor
<1> DEFINE AllPaid == \A m \in Machines : Paid(m)
<1>1. Init => AllPaid
  <2> SUFFICES ASSUME Init, NEW m \in Machines PROVE Paid(m)
    OBVIOUS
  <2>1. RowsOf(m) = {} /\ Open(m) = {} /\ phase[m] = "stopped" /\ faults = 0
    BY DEF Init, RowsOf, Open, FreeRequest
  <2>2. QED
    BY <2>1, FS_EmptySet DEF Paid, ToCome
<1>2. IInv /\ IInv' /\ AllPaid /\ [Next]_vars => AllPaid'
  <2> SUFFICES ASSUME IInv, IInv', AllPaid, [Next]_vars, NEW m \in Machines PROVE Paid(m)'
    OBVIOUS
  <2>1. TypeOK /\ TypeOK' /\ Paid(m)
    BY DEF IInv
  <2> HIDE DEF AllPaid
  <2>2. QED
    BY <2>1, PaidStart, PaidCheck, PaidCommit, PaidAnswer, PaidFault, PaidLocal
    DEF Next, Start, RequestStep
<1>3. IInv /\ AllPaid => RowsPaidFor
  <2> SUFFICES ASSUME IInv, NEW m \in Machines, Paid(m)
               PROVE  Cardinality(RowsOf(m)) <= 1 + faults
    BY DEF RowsPaidFor
  <2>1. Cardinality(RowsOf(m)) \in Nat /\ Cardinality(Open(m)) \in Nat /\ ToCome(m) \in Nat /\ faults \in Nat
    BY OpenCount, FS_CardinalityType, NatAssumption DEF Paid, IInv, TypeOK, ToCome
  <2>2. QED
    BY <2>1 DEF Paid
<1> HIDE DEF AllPaid
<1>4. QED
  BY <1>1, <1>2, <1>3, Inductive, PTL DEF Spec

-----------------------------------------------------------------------------
(* Machines that get on.                                                   *)

\* The requests that a machine waits for.
Awaited(m) == {r \in Requests : req[r].live /\ req[r].machine = m}

\* Where main is, what it waits for, and what is in its file.
OnItsWay(m) ==
  /\ phase[m] = "asking" => Awaited(m) # {}
  /\ phase[m] \in {"asking", "saving"} => disk[m] = NoId
  /\ phase[m] = "writing" => disk[m] = Torn
  /\ phase[m] = "running" => disk[m] = held[m] /\ held[m] \in Ids
  /\ disk[m] = Torn => phase[m] = "writing" \/ faults > 0

\* Nothing that matters to a machine changes but the stage of a request.
LEMMA WayFrame ==
  ASSUME NEW m \in Machines, OnItsWay(m), Awaited(m) \subseteq Awaited(m)', faults \in Nat, faults' \in Nat,
         faults' >= faults, phase'[m] = phase[m], held'[m] = held[m], disk'[m] = disk[m]
  PROVE  OnItsWay(m)'
BY DEF OnItsWay

\* One machine takes a step of its own.
LEMMA WayLocal ==
  ASSUME IInv, NEW m \in Machines, OnItsWay(m), NEW n \in Machines,
         StartEnrolled(n) \/ SaveBegin(n) \/ SaveEnd(n) \/ Stop(n)
  PROVE  OnItsWay(m)'
<1>1. TypeOK /\ MachineSense(n) /\ Awaited(m)' = Awaited(m) /\ faults' = faults /\ faults \in Nat
  BY NatAssumption DEF IInv, MachinesSense, StartEnrolled, SaveBegin, SaveEnd, Stop, Awaited, TypeOK
<1>2. CASE m # n
  <2>1. phase'[m] = phase[m] /\ held'[m] = held[m] /\ disk'[m] = disk[m]
    BY <1>1, <1>2 DEF StartEnrolled, SaveBegin, SaveEnd, Stop, TypeOK
  <2> QED BY <1>1, <2>1, WayFrame
<1>3. CASE m = n
  <2>1. CASE StartEnrolled(n)
    <3>1. phase'[m] = "running" /\ disk'[m] = disk[m] /\ held'[m] = disk[m] /\ disk[m] \in Ids
      BY <1>1, <1>3, <2>1 DEF StartEnrolled, IsEnrolled, TypeOK
    <3> QED BY <3>1, IdAssumption DEF OnItsWay
  <2>2. CASE SaveBegin(n)
    <3>1. phase'[m] = "writing" /\ disk'[m] = Torn
      BY <1>1, <1>3, <2>2 DEF SaveBegin, TypeOK
    <3> QED BY <3>1, IdAssumption DEF OnItsWay
  <2>3. CASE SaveEnd(n)
    <3>1. phase'[m] = "running" /\ held'[m] = held[m] /\ disk'[m] = held[m] /\ held[m] \in Ids
      BY <1>1, <1>3, <2>3 DEF SaveEnd, TypeOK, MachineSense
    <3> QED BY <3>1, IdAssumption DEF OnItsWay
  <2>4. CASE Stop(n)
    <3>1. phase[m] = "running" /\ phase'[m] = "stopped" /\ disk'[m] = disk[m]
      BY <1>1, <1>3, <2>4 DEF Stop, TypeOK
    <3> QED BY <1>1, <3>1 DEF OnItsWay
  <2> QED BY <2>1, <2>2, <2>3, <2>4
<1> QED BY <1>2, <1>3

\* A machine asks.
LEMMA WayAsks ==
  ASSUME IInv, NEW m \in Machines, OnItsWay(m), NEW n \in Machines, NEW r \in Requests, StartEnrolling(n, r)
  PROVE  OnItsWay(m)'
<1> DEFINE g == [stage |-> "asked", machine |-> n, seen |-> 0, id |-> NoId, live |-> TRUE]
<1>1. /\ req' = [req EXCEPT ![r] = g] /\ phase' = [phase EXCEPT ![n] = "asking"]
      /\ UNCHANGED <<held, disk, faults>> /\ disk[n] \notin Ids /\ disk[n] # Torn /\ req[r].stage = "free"
  BY DEF StartEnrolling, IsEnrolled
<1>2. g.live /\ g.machine = n
  OBVIOUS
<1> HIDE DEF g
<1>3. TypeOK /\ faults \in Nat /\ ~req[r].live
  BY <1>1, NatAssumption DEF IInv, TypeOK, RequestsSense, RequestSense
<1>4. \A q \in Requests : req'[q] = IF q = r THEN g ELSE req[q]
  BY <1>1, <1>3 DEF TypeOK
<1>5. CASE m = n
  <2>1. r \in Awaited(m)' /\ phase'[m] = "asking" /\ disk'[m] = NoId
    BY <1>1, <1>2, <1>3, <1>4, <1>5 DEF Awaited, TypeOK
  <2> QED BY <2>1, IdAssumption DEF OnItsWay
<1>6. CASE m # n
  <2>1. phase'[m] = phase[m] /\ held'[m] = held[m] /\ disk'[m] = disk[m]
    BY <1>1, <1>3, <1>6 DEF TypeOK
  <2>2. Awaited(m) \subseteq Awaited(m)'
    BY <1>3, <1>4 DEF Awaited
  <2> QED BY <1>1, <1>3, <2>1, <2>2, WayFrame
<1> QED BY <1>5, <1>6

\* A handler goes on.
LEMMA WayHandler ==
  ASSUME IInv, NEW m \in Machines, OnItsWay(m), NEW r \in Requests, Check(r) \/ Commit(r)
  PROVE  OnItsWay(m)'
<1>1. TypeOK /\ faults \in Nat /\ UNCHANGED <<phase, held, disk, faults>>
  BY NatAssumption DEF IInv, TypeOK, Check, Commit, local
<1>2. \A q \in Requests : req'[q].live = req[q].live /\ req'[q].machine = req[q].machine
  BY <1>1 DEF Check, Commit, TypeOK
<1>3. Awaited(m) = Awaited(m)'
  BY <1>2 DEF Awaited
<1> QED BY <1>1, <1>3, WayFrame

\* A request ends: the only one its machine waits for.
LEMMA WayEnds ==
  ASSUME IInv, NEW m \in Machines, OnItsWay(m), NEW r \in Requests, Answer(r) \/ RequestFails(r)
  PROVE  OnItsWay(m)'
<1> DEFINE n == req[r].machine
<1>1. /\ TypeOK /\ faults \in Nat /\ faults' \in Nat /\ faults' >= faults
      /\ req' = [req EXCEPT ![r] = FreeRequest] /\ disk' = disk
  BY NatAssumption DEF IInv, TypeOK, Answer, RequestFails, Fault
<1>2. \A q \in Requests \ {r} : req'[q] = req[q]
  BY <1>1 DEF TypeOK
<1>3. CASE req[r].live /\ m = n
  <2>1. phase[m] = "asking"
    BY <1>3 DEF IInv, RequestsSense, RequestSense
  <2>2. phase'[m] \in {"saving", "stopped"}
    BY <1>1, <1>3 DEF Answer, RequestFails, TypeOK
  <2>3. disk'[m] = NoId
    BY <1>1, <2>1 DEF OnItsWay
  <2> QED BY <2>2, <2>3, IdAssumption DEF OnItsWay
<1>4. CASE ~(req[r].live /\ m = n)
  <2>1. phase'[m] = phase[m] /\ held'[m] = held[m]
    BY <1>1, <1>4 DEF Answer, RequestFails, TypeOK
  <2>2. Awaited(m) \subseteq Awaited(m)'
    BY <1>2, <1>4 DEF Awaited
  <2> QED BY <1>1, <2>1, <2>2, WayFrame
<1> QED BY <1>3, <1>4

\* One side ends: who waited waits no longer.
LEMMA WayCrash ==
  ASSUME IInv, NEW m \in Machines, OnItsWay(m), BackendCrash \/ \E n \in Machines : AgentCrash(n)
  PROVE  OnItsWay(m)'
<1>1. TypeOK /\ faults \in Nat /\ faults' \in Nat /\ faults' > 0 /\ faults' >= faults /\ disk' = disk
  BY NatAssumption DEF IInv, TypeOK, BackendCrash, AgentCrash, Fault
<1>2. CASE BackendCrash
  <2>1. held' = held /\ phase'[m] = IF phase[m] = "asking" THEN "stopped" ELSE phase[m]
    BY <1>2 DEF BackendCrash
  <2> QED BY <1>1, <2>1 DEF OnItsWay
<1>3. CASE AgentCrash(m)
  <2>1. phase'[m] = "stopped"
    BY <1>1, <1>3 DEF AgentCrash, TypeOK
  <2> QED BY <1>1, <2>1 DEF OnItsWay
<1>4. ASSUME NEW n \in Machines \ {m}, AgentCrash(n) PROVE OnItsWay(m)'
  <2>1. phase'[m] = phase[m] /\ held'[m] = held[m]
    BY <1>1, <1>4 DEF AgentCrash, TypeOK
  <2>2. Awaited(m) \subseteq Awaited(m)'
    BY <1>4 DEF AgentCrash, Awaited
  <2> QED BY <1>1, <2>1, <2>2, WayFrame
<1> QED BY <1>2, <1>3, <1>4

\* A machine that waits has exactly one request that will answer it, one that runs has saved
\* the identity it uses, and a file is torn only while it is written or by a failure.
GetsOn ==
  \A m \in Machines :
    /\ IF phase[m] = "asking" THEN \E r \in Requests : Awaited(m) = {r} ELSE Awaited(m) = {}
    /\ phase[m] \in {"saving", "writing"} => held[m] \in Ids
    /\ phase[m] = "running" => disk[m] = held[m] /\ held[m] \in rows /\ owner[held[m]] = m
    /\ disk[m] = Torn => phase[m] = "writing" \/ faults > 0

\* No main waits for an answer that cannot come, through crashes of both sides, and whatever
\* else keeps a machine from running has its cause: the safety part of ComesBackUnlessTorn.
THEOREM MachinesGetOn == Spec => []GetsOn
<1> DEFINE AllOn == \A m \in Machines : OnItsWay(m)
<1>1. Init => AllOn
  <2> SUFFICES ASSUME Init, NEW m \in Machines PROVE OnItsWay(m)
    OBVIOUS
  <2> QED BY IdAssumption DEF Init, OnItsWay
<1>2. IInv /\ AllOn /\ [Next]_vars => AllOn'
  <2> SUFFICES ASSUME IInv, AllOn, [Next]_vars, NEW m \in Machines PROVE OnItsWay(m)'
    OBVIOUS
  <2>1. OnItsWay(m)
    OBVIOUS
  <2> HIDE DEF AllOn
  <2>2. CASE (\E i \in Unwanted : Delete(i)) \/ Expire \/ UNCHANGED vars
    <3>1. UNCHANGED <<req, phase, held, disk, faults>>
      BY <2>2 DEF Delete, Expire, vars, local
    <3> QED BY <2>1, <3>1 DEF OnItsWay, Awaited
  <2> QED BY <2>1, <2>2, WayLocal, WayAsks, WayHandler, WayEnds, WayCrash DEF Next, Start, RequestStep
<1>3. IInv /\ AllOn => GetsOn
  <2> SUFFICES ASSUME IInv, NEW m \in Machines, OnItsWay(m)
               PROVE  /\ IF phase[m] = "asking" THEN \E r \in Requests : Awaited(m) = {r} ELSE Awaited(m) = {}
                      /\ phase[m] \in {"saving", "writing"} => held[m] \in Ids
                      /\ phase[m] = "running" => disk[m] = held[m] /\ held[m] \in rows /\ owner[held[m]] = m
                      /\ disk[m] = Torn => phase[m] = "writing" \/ faults > 0
    BY DEF GetsOn
  <2>1. \A r \in Awaited(m) : phase[m] = "asking" /\ Awaited(m) = {r}
    BY DEF IInv, RequestsSense, RequestSense, OneAwaited, Awaited
  <2>2. IF phase[m] = "asking" THEN \E r \in Requests : Awaited(m) = {r} ELSE Awaited(m) = {}
    BY <2>1 DEF OnItsWay, Awaited
  <2>3. MachineSense(m)
    BY DEF IInv, MachinesSense
  <2> QED BY <2>2, <2>3 DEF OnItsWay, MachineSense, Own
<1> HIDE DEF AllOn
<1> QED BY <1>1, <1>2, <1>3, Inductive, PTL DEF Spec
=============================================================================
