----------------------------- MODULE Migrations -----------------------------
(***************************************************************************)
(* The migration runner, each run of it a process with one connection, and *)
(* what the database makes of its statements.  A run may be cut off at any *)
(* point; the database then ends what it had open, a COMMIT on its way     *)
(* included.                                                               *)
(*                                                                         *)
(* Before any run, postgres may have executed the files on its own: the    *)
(* compose files mount their directory where its image looks for scripts   *)
(* when it creates the database.                                           *)
(***************************************************************************)
EXTENDS Integers

CONSTANTS
  Runners,   \* runs of the program, one process each
  N          \* the migration files, by their place in the sorted directory

ASSUME NAssumption == N \in Nat \ {0}

VARIABLES
  prior,     \* how many files postgres executed when it created the database
  table,     \* _migrations exists
  schema,    \* files whose objects are committed
  recorded,  \* names committed in _migrations
  pc,        \* where a run is
  known,     \* its appliedSet
  at,        \* the file its loop is at
  holds,     \* the file its open transaction has executed, 0 for none
  cut,       \* runs that were killed or lost their connection
  alone      \* history: runs that no other run has overlapped

vars == <<prior, table, schema, recorded, pc, known, at, holds, cut, alone>>

Files   == 1..N
InTx    == {"begun", "applied", "recorded", "committing", "rollback"}
Running == InTx \union {"ensure", "creating", "read", "loop"}

TypeOK ==
  /\ prior \in 0..N
  /\ table \in BOOLEAN
  /\ schema \subseteq Files /\ recorded \subseteq Files
  /\ pc \in [Runners -> Running \union {"off", "done", "failed"}]
  /\ known \in [Runners -> SUBSET Files]
  /\ at \in [Runners -> 1..(N + 1)]
  /\ holds \in [Runners -> 0..N]
  /\ cut \subseteq Runners /\ alone \subseteq Runners

Init ==
  /\ prior \in 0..N /\ schema = 1..prior
  /\ table = FALSE /\ recorded = {}
  /\ pc = [r \in Runners |-> "off"]
  /\ known = [r \in Runners |-> {}]
  /\ at = [r \in Runners |-> 1]
  /\ holds = [r \in Runners |-> 0]
  /\ cut = {} /\ alone = Runners

-----------------------------------------------------------------------------
(* The program.                                                            *)

Goes(r, from, to) == pc[r] = from /\ r \notin cut /\ pc' = [pc EXCEPT ![r] = to]

\* pool.connect().
Start(r) ==
  LET others == {q \in Runners \ {r} : pc[q] \in Running} IN
  /\ Goes(r, "off", "ensure")
  /\ alone' = IF others = {} THEN alone ELSE alone \ (others \union {r})
  /\ UNCHANGED <<prior, table, schema, recorded, known, at, holds, cut>>

\* CREATE TABLE IF NOT EXISTS looks whether the table is there, and creates it: of two
\* that saw none, the second fails.
EnsureTable(r) ==
  /\ Goes(r, "ensure", IF table THEN "read" ELSE "creating")
  /\ UNCHANGED <<prior, table, schema, recorded, known, at, holds, cut, alone>>

CreateTable(r) ==
  /\ Goes(r, "creating", IF table THEN "failed" ELSE "read")
  /\ table' = TRUE
  /\ UNCHANGED <<prior, schema, recorded, known, at, holds, cut, alone>>

ReadApplied(r) ==
  /\ Goes(r, "read", "loop")
  /\ known' = [known EXCEPT ![r] = recorded]
  /\ UNCHANGED <<prior, table, schema, recorded, at, holds, cut, alone>>

File(i) == i

\* Variant: what is recorded is not passed over.
PassesNothing(r) == FALSE
Passes(r) == File(at[r]) \in known[r]

More(r) == at[r] \in Files

\* Variant: continue does not advance.
Same(i) == i
Following(i) == i + 1

Skip(r) ==
  /\ More(r) /\ Passes(r)
  /\ Goes(r, "loop", "loop")
  /\ at' = [at EXCEPT ![r] = Following(at[r])]
  /\ UNCHANGED <<prior, table, schema, recorded, known, holds, cut, alone>>

Finish(r) ==
  /\ ~More(r)
  /\ Goes(r, "loop", "done")
  /\ UNCHANGED <<prior, table, schema, recorded, known, at, holds, cut, alone>>

Begin(r) ==
  /\ More(r) /\ ~Passes(r)
  /\ Goes(r, "loop", "begun")
  /\ UNCHANGED <<prior, table, schema, recorded, known, at, holds, cut, alone>>

-----------------------------------------------------------------------------
(* The transaction of a file.                                              *)

\* A file creates objects, or inserts rows with fixed keys: it fails if they are there.
\* Variant: it would not.
NeverClashes(f) == FALSE
Clashes(f) == f \in schema

\* Variant: there is no BEGIN.
ExecutedAtOnce(f) == schema \union {f}
Executed(f) == schema

\* It waits for a transaction that has executed the same file.
Apply(r) ==
  LET f == File(at[r]) IN
  /\ \A q \in Runners \ {r} : holds[q] # f
  /\ Goes(r, "begun", IF Clashes(f) THEN "rollback" ELSE "applied")
  /\ IF Clashes(f) THEN UNCHANGED <<schema, holds>>
     ELSE /\ schema' = Executed(f)
          /\ holds' = [holds EXCEPT ![r] = f]
  /\ UNCHANGED <<prior, table, recorded, known, at, cut, alone>>

Record(r) ==
  /\ Goes(r, "applied", IF File(at[r]) \in recorded THEN "rollback" ELSE "recorded")
  /\ UNCHANGED <<prior, table, schema, recorded, known, at, holds, cut, alone>>

SendCommit(r) ==
  /\ Goes(r, "recorded", "committing")
  /\ UNCHANGED <<prior, table, schema, recorded, known, at, holds, cut, alone>>

\* The run goes on if it is still there.
Commit(r) ==
  /\ pc[r] = "committing"
  /\ schema' = schema \union {holds[r]}
  /\ recorded' = recorded \union {holds[r]}
  /\ holds' = [holds EXCEPT ![r] = 0]
  /\ pc' = [pc EXCEPT ![r] = IF r \in cut THEN "failed" ELSE "loop"]
  /\ at' = [at EXCEPT ![r] = IF r \in cut THEN at[r] ELSE at[r] + 1]
  /\ UNCHANGED <<prior, table, known, cut, alone>>

\* The error is thrown again, and the process exits with 1.
Thrown(r) == Goes(r, "rollback", "failed") /\ UNCHANGED at

Rollback(r) ==
  /\ Thrown(r)
  /\ holds' = [holds EXCEPT ![r] = 0]
  /\ UNCHANGED <<prior, table, schema, recorded, known, cut, alone>>

-----------------------------------------------------------------------------
(* What goes wrong.                                                        *)

Cut(r) ==
  /\ pc[r] \in Running /\ r \notin cut
  /\ cut' = cut \union {r}
  /\ UNCHANGED <<prior, table, schema, recorded, pc, known, at, holds, alone>>

\* The database notices.
Abort(r) ==
  /\ pc[r] \in Running /\ r \in cut
  /\ pc' = [pc EXCEPT ![r] = "failed"]
  /\ holds' = [holds EXCEPT ![r] = 0]
  /\ UNCHANGED <<prior, table, schema, recorded, known, at, cut, alone>>

-----------------------------------------------------------------------------
Step(r) ==
  \/ EnsureTable(r) \/ CreateTable(r) \/ ReadApplied(r)
  \/ Skip(r) \/ Finish(r) \/ Begin(r)
  \/ Apply(r) \/ Record(r) \/ SendCommit(r) \/ Commit(r) \/ Rollback(r)
  \/ Abort(r)

Next == \E r \in Runners : Start(r) \/ Step(r) \/ Cut(r)

\* A run that goes on, and the database that ends the sessions of one that does not.
Fairness == \A r \in Runners : WF_vars(Step(r))

Spec     == Init /\ [][Next]_vars
FairSpec == Spec /\ Fairness

-----------------------------------------------------------------------------
(* Properties.                                                             *)

\* A file is executed if and only if its name is recorded, whatever was cut off, those
\* apart that postgres executed itself.
RecordedIsExecuted == schema = 1..prior \union recorded

\* The files are executed in their order, by however many runs.
InOrder == \A f \in recorded : 1..f \subseteq recorded

\* A run that ends well has brought the database to the last file.
DoneMeansAll == \A r \in Runners : pc[r] = "done" => recorded = Files

\* A run that nothing overlaps or cuts off ends well: it repeats a run that failed.
FailsForCause ==
  \A r \in Runners : (pc[r] = "failed" /\ prior = 0) => r \notin alone \/ r \in cut

\* In a database that postgres has filled itself no run gets past the first file, so
\* that no later file would ever be executed.
FilledStaysUnrecorded == prior > 0 => recorded = {} /\ \A r \in Runners : pc[r] # "done"

\* Every run ends, waiting for each other or not.
EveryRunEnds == \A r \in Runners : pc[r] = "ensure" ~> pc[r] \in {"done", "failed"}
=============================================================================
