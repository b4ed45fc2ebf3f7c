----------------------------- MODULE Enrollment -----------------------------
(***************************************************************************)
(* How a machine becomes an agent: enrollAgent on the backend, which reads *)
(* the token and later writes everything in one transaction, and main,     *)
(* enroll and AgentConfig::save on the machine, which keep the identity.   *)
(* deleteAgent is here too, since it meets what enrollment wrote.          *)
(*                                                                         *)
(* One token, of one organisation.  A token without max_uses is one whose  *)
(* MaxUses is never reached.  Left out: is_active, which no code changes,  *)
(* and what is stored about a machine.                                     *)
(***************************************************************************)
EXTENDS Naturals, FiniteSets

CONSTANTS
  Machines,   \* machines the agent is installed on, configured with the token
  Requests,   \* bound: enrollment handlers open at one time
  Ids,        \* bound: the identities uuidv4 can give
  Unwanted,   \* bound: the agents a user tries to delete
  MaxUses,    \* max_uses of the token
  MaxFaults,  \* bound: failures of any kind in one behaviour
  MayExpire,  \* whether the token has an expiry
  NoMachine,  \* the machine of a handler that is not in use, and of an id
  NoId,       \* no identity yet
  Torn        \* what is in a file whose writing was cut short

ASSUME NatAssumption      == MaxUses \in Nat /\ MaxFaults \in Nat
ASSUME MachineAssumption  == NoMachine \notin Machines
ASSUME IdAssumption       == NoId \notin Ids /\ Torn \notin Ids /\ NoId # Torn
ASSUME RequestAssumption  == IsFiniteSet(Requests) /\ Requests # {}
ASSUME UnwantedAssumption == Unwanted \subseteq Ids

VARIABLES
  rows,     \* rows of agents
  owner,    \* the machine each was inserted for
  trail,    \* agents with an entry agent.enrolled in audit_logs
  uses,     \* current_uses of the token
  expired,  \* its expires_at is past
  wanted,   \* history: the agents a user has tried to delete
  req,      \* enrollment requests and where their handlers are
  phase,    \* where each machine's main is
  held,     \* the identity it has in memory
  disk,     \* the identity in its agent.toml
  faults    \* failures so far

store == <<rows, owner, trail, uses, expired, wanted>>
local == <<phase, held, disk>>
vars  == <<store, req, local, faults>>

Stages == {"free", "asked", "allowed", "refused", "committed"}
Phases == {"stopped", "asking", "saving", "writing", "running"}
Handlers == [stage: Stages, machine: Machines \union {NoMachine}, seen: Nat,
             id: Ids \union {NoId}, live: BOOLEAN]
FreeRequest == [stage |-> "free", machine |-> NoMachine, seen |-> 0, id |-> NoId, live |-> FALSE]

TypeOK ==
  /\ rows \subseteq Ids /\ trail \subseteq Ids /\ wanted \subseteq Ids
  /\ owner \in [Ids -> Machines \union {NoMachine}]
  /\ uses \in Nat /\ expired \in BOOLEAN
  /\ req \in [Requests -> Handlers]
  /\ phase \in [Machines -> Phases]
  /\ held \in [Machines -> Ids \union {NoId}]
  /\ disk \in [Machines -> Ids \union {NoId, Torn}]
  /\ faults \in 0..MaxFaults

\* The configuration file is there, with the token and no identity.
Init ==
  /\ rows = {} /\ trail = {} /\ wanted = {}
  /\ owner = [i \in Ids |-> NoMachine]
  /\ uses = 0 /\ expired = FALSE
  /\ req = [r \in Requests |-> FreeRequest]
  /\ phase = [m \in Machines |-> "stopped"]
  /\ held = [m \in Machines |-> NoId]
  /\ disk = [m \in Machines |-> NoId]
  /\ faults = 0

-----------------------------------------------------------------------------
(* main: load the configuration, enroll if it has no identity, then run.   *)

\* Variant: an agent that asks for an identity at every start.
NeverEnrolled(m) == FALSE
IsEnrolled(m) == disk[m] \in Ids

StartEnrolled(m) ==
  /\ phase[m] = "stopped" /\ IsEnrolled(m)
  /\ phase' = [phase EXCEPT ![m] = "running"]
  /\ held' = [held EXCEPT ![m] = disk[m]]
  /\ UNCHANGED <<store, req, disk, faults>>

\* A file that was cut short does not parse, and main ends at once.
StartEnrolling(m, r) ==
  /\ phase[m] = "stopped" /\ ~IsEnrolled(m) /\ disk[m] # Torn
  /\ req[r].stage = "free"
  /\ phase' = [phase EXCEPT ![m] = "asking"]
  /\ req' = [req EXCEPT ![r] = [stage |-> "asked", machine |-> m, seen |-> 0,
                                id |-> NoId, live |-> TRUE]]
  /\ UNCHANGED <<store, held, disk, faults>>

Start(m) == StartEnrolled(m) \/ \E r \in Requests : StartEnrolling(m, r)

\* AgentConfig::save empties the file and then writes it.
SaveBegin(m) ==
  /\ phase[m] = "saving"
  /\ phase' = [phase EXCEPT ![m] = "writing"]
  /\ disk' = [disk EXCEPT ![m] = Torn]
  /\ UNCHANGED <<store, req, held, faults>>

SaveEnd(m) ==
  /\ phase[m] = "writing"
  /\ phase' = [phase EXCEPT ![m] = "running"]
  /\ disk' = [disk EXCEPT ![m] = held[m]]
  /\ UNCHANGED <<store, req, held, faults>>

\* Ctrl+C, or a job that reboots the machine.
Stop(m) ==
  /\ phase[m] = "running"
  /\ phase' = [phase EXCEPT ![m] = "stopped"]
  /\ held' = [held EXCEPT ![m] = NoId]
  /\ UNCHANGED <<store, req, disk, faults>>

-----------------------------------------------------------------------------
(* enrollAgent.                                                            *)

\* Variant: one use too many.
AllowedOnceMore == ~expired /\ uses <= MaxUses
Allowed == ~expired /\ uses < MaxUses

Check(r) ==
  LET h == req[r] IN
  /\ h.stage = "asked"
  /\ req' = [req EXCEPT ![r] = [stage |-> IF Allowed THEN "allowed" ELSE "refused",
                                machine |-> h.machine, seen |-> uses, id |-> NoId,
                                live |-> h.live]]
  /\ UNCHANGED <<store, local, faults>>

\* uuidv4 gives an identity nobody has had.
\* Variant: one that may have been given before.
AnyId == Ids
Fresh == Ids \ trail

\* The database adds one to what it has, not to what the handler has read.
Counted(r) == uses + 1

\* The transaction, its audit INSERT taken as it is meant.  That statement uses one parameter
\* for a UUID and for a VARCHAR column, which PostgreSQL refuses as it stands: until that is
\* mended the transaction rolls back, and this action is more than the program can do.
Commit(r) ==
  LET h == req[r] IN
  /\ h.stage = "allowed"
  /\ \E i \in Fresh :
       /\ rows' = rows \union {i}
       /\ owner' = [owner EXCEPT ![i] = h.machine]
       /\ trail' = trail \union {i}
       /\ req' = [req EXCEPT ![r] = [stage |-> "committed", machine |-> h.machine,
                                     seen |-> h.seen, id |-> i, live |-> h.live]]
  /\ uses' = Counted(r)
  /\ UNCHANGED <<expired, wanted, local, faults>>

\* The answer reaches enroll, or nobody.  A refusal ends main.
Answer(r) ==
  LET h == req[r]
      m == h.machine
  IN
  /\ h.stage \in {"committed", "refused"}
  /\ req' = [req EXCEPT ![r] = FreeRequest]
  /\ phase' = IF ~h.live THEN phase
              ELSE [phase EXCEPT ![m] = IF h.stage = "committed" THEN "saving" ELSE "stopped"]
  /\ held' = IF h.live THEN [held EXCEPT ![m] = h.id] ELSE held
  /\ UNCHANGED <<store, disk, faults>>

RequestStep(r) ==
  \/ Check(r)
  \/ Commit(r)
  \/ Answer(r)

\* deleteAgent.  The foreign key of audit_logs is to clear agent_id, the rule
\* audit_logs_no_update makes nothing of that, and PostgreSQL refuses.
Delete(i) ==
  /\ i \in rows \ wanted
  /\ wanted' = wanted \union {i}
  /\ rows' = IF i \in trail THEN rows ELSE rows \ {i}
  /\ UNCHANGED <<owner, trail, uses, expired, req, local, faults>>

Expire ==
  /\ MayExpire /\ ~expired
  /\ expired' = TRUE
  /\ UNCHANGED <<rows, owner, trail, uses, wanted, req, local, faults>>

-----------------------------------------------------------------------------
(* What goes wrong.                                                        *)

Fault == faults < MaxFaults /\ faults' = faults + 1

\* The client waits no longer.
GivenUp(h) == [stage |-> h.stage, machine |-> h.machine, seen |-> h.seen, id |-> h.id, live |-> FALSE]

\* A call of the handler fails, or its answer is lost: enroll fails, main ends.
RequestFails(r) ==
  /\ Fault
  /\ req[r].stage # "free"
  /\ req' = [req EXCEPT ![r] = FreeRequest]
  /\ phase' = IF req[r].live THEN [phase EXCEPT ![req[r].machine] = "stopped"] ELSE phase
  /\ UNCHANGED <<store, held, disk>>

\* main ends, by the client's timeout, a file it cannot write, a panic or a
\* kill; a handler at work for it goes on.
AgentCrash(m) ==
  /\ Fault
  /\ phase[m] # "stopped"
  /\ phase' = [phase EXCEPT ![m] = "stopped"]
  /\ held' = [held EXCEPT ![m] = NoId]
  /\ req' = [r \in Requests |-> IF req[r].machine = m THEN GivenUp(req[r]) ELSE req[r]]
  /\ UNCHANGED <<store, disk>>

BackendCrash ==
  /\ Fault
  /\ req' = [r \in Requests |-> FreeRequest]
  /\ phase' = [m \in Machines |-> IF phase[m] = "asking" THEN "stopped" ELSE phase[m]]
  /\ UNCHANGED <<store, held, disk>>

-----------------------------------------------------------------------------
Next ==
  \/ \E m \in Machines : Start(m) \/ SaveBegin(m) \/ SaveEnd(m) \/ Stop(m) \/ AgentCrash(m)
  \/ \E r \in Requests : RequestStep(r) \/ RequestFails(r)
  \/ \E i \in Unwanted : Delete(i)
  \/ Expire
  \/ BackendCrash

\* Handlers run to their end, and the machine's service manager starts the
\* agent again whenever it has ended.
Fairness ==
  /\ \A m \in Machines : WF_vars(Start(m)) /\ WF_vars(SaveBegin(m)) /\ WF_vars(SaveEnd(m))
  /\ \A r \in Requests : WF_vars(RequestStep(r))

Spec     == Init /\ [][Next]_vars
FairSpec == Spec /\ Fairness

-----------------------------------------------------------------------------
(* Properties.                                                             *)

\* The token counts each agent that was ever enrolled with it once, however
\* enrollments interleave and whatever becomes of their answers.
EachUseCounted == uses = Cardinality(trail)

\* The limit is read before the transaction, so it can be exceeded: by one
\* less than the number of enrollments under way at once, and no more.
OverrunBounded == uses < MaxUses + Cardinality(Requests)

\* The identity a machine holds or has saved is a row of its own, which no
\* other machine has.
IdentityIsOwn ==
  \A m \in Machines : \A i \in {held[m], disk[m]} \ {NoId, Torn} :
    i \in rows /\ owner[i] = m

\* A machine has one row, and another one only for a failure it has seen.
RowsOf(m) == {i \in trail : owner[i] = m}
RowsPaidFor == \A m \in Machines : Cardinality(RowsOf(m)) <= 1 + faults

\* What is saved stays: no later start, answer or failure changes it.
IdentityKept == [][\A m \in Machines : disk[m] \in Ids => disk'[m] = disk[m]]_disk

\* Every machine runs again and again, whatever stops it and whatever fails,
\* unless its file is torn, or it has no identity and the token gives none any more.
ComesBackUnlessTorn ==
  \A m \in Machines :
    []<>(phase[m] = "running" \/ disk[m] = Torn \/ (disk[m] = NoId /\ ~Allowed))
=============================================================================
