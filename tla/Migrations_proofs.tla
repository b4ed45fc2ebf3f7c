------------------------- MODULE Migrations_proofs -------------------------
(***************************************************************************)
(* Proofs about the migration runner, for any number of files and any runs *)
(* of the program, cut off anywhere.                                       *)
(***************************************************************************)
EXTENDS Migrations, TLAPS

-----------------------------------------------------------------------------
(* The inductive invariant.                                                *)

\* What a run has passed is recorded.
PassedIsRecorded == \A r \in Runners : 1..(at[r] - 1) \subseteq recorded /\ known[r] \subseteq recorded

\* A transaction is about the file the loop is at.
OfItsFile ==
  \A r \in Runners :
    /\ pc[r] \in {"begun", "applied", "recorded", "committing"} => at[r] \in Files
    /\ pc[r] \in {"applied", "recorded", "committing"} => holds[r] = at[r]
    /\ pc[r] = "done" => at[r] = N + 1

\* Of the transactions that are open at most one has executed a file, and no other has
\* committed it: its INSERT cannot clash, and who waits for it waits for nobody that waits.
OneExecutes ==
  \A r \in Runners : holds[r] # 0 =>
    /\ pc[r] \in {"applied", "recorded", "committing"}
    /\ holds[r] = at[r] /\ at[r] \notin schema
    /\ \A q \in Runners \ {r} : holds[q] # holds[r]

\* A database that postgres has filled lets nobody past the first file.
NobodyPasses ==
  prior > 0 =>
    /\ recorded = {}
    /\ \A r \in Runners : at[r] = 1 /\ pc[r] \notin {"applied", "recorded", "committing", "done"}

\* Runs that are alone are: no other is going on.
AloneIsAlone ==
  \A r \in alone : pc[r] \in Running => \A q \in Runners \ {r} : pc[q] \notin Running

\* A run that is alone knows what is recorded.
AloneKnows ==
  \A r \in alone :
    prior = 0 /\ r \notin cut =>
      /\ pc[r] = "creating" => ~table
      /\ pc[r] \in {"loop", "begun", "applied", "recorded", "committing"}
           => recorded = known[r] \union 1..(at[r] - 1)
      /\ pc[r] \in {"begun", "applied", "recorded", "committing"} => at[r] \notin known[r]
      /\ pc[r] # "rollback"

IInv ==
  /\ TypeOK
  /\ RecordedIsExecuted /\ InOrder
  /\ PassedIsRecorded /\ OfItsFile /\ NobodyPasses
  /\ AloneIsAlone /\ AloneKnows /\ FailsForCause

-----------------------------------------------------------------------------
(* Initially, and through every step.                                      *)

\* The initial state satisfies the invariant.
LEMMA InitIInv == Init => IInv
<1> SUFFICES ASSUME Init PROVE IInv
  OBVIOUS
<1> USE NAssumption
<1>1. TypeOK
  <2>1. schema \subseteq Files /\ recorded \subseteq Files
    BY DEF Init, Files
  <2>2. 1 \in 1..(N + 1) /\ 0 \in 0..N
    OBVIOUS
  <2> QED BY <2>1, <2>2 DEF Init, TypeOK, Running, InTx
<1>2. RecordedIsExecuted /\ InOrder
  BY DEF Init, RecordedIsExecuted, InOrder
<1>3. PassedIsRecorded /\ OfItsFile /\ NobodyPasses
  BY DEF Init, PassedIsRecorded, OfItsFile, NobodyPasses
<1>4. AloneIsAlone /\ AloneKnows /\ FailsForCause
  BY DEF Init, AloneIsAlone, AloneKnows, FailsForCause, Running, InTx
<1> QED BY <1>1, <1>2, <1>3, <1>4 DEF IInv

\* Start keeps the invariant.
LEMMA StartKeeps ==
  ASSUME IInv, NEW r \in Runners, Start(r)
  PROVE  IInv'
<1> USE NAssumption DEF IInv, Start, Goes, Running, InTx, Files
<1>1. TypeOK'
  BY DEF TypeOK
<1>2. RecordedIsExecuted' /\ InOrder'
  BY DEF TypeOK, RecordedIsExecuted, InOrder, PassedIsRecorded, OfItsFile
<1>3. PassedIsRecorded' /\ OfItsFile'
  BY DEF TypeOK, PassedIsRecorded, OfItsFile
<1>4. NobodyPasses'
  BY DEF TypeOK, NobodyPasses, RecordedIsExecuted, PassedIsRecorded
<1>5. AloneIsAlone'
  BY DEF TypeOK, AloneIsAlone
<1>6. AloneKnows'
  BY DEF TypeOK, AloneKnows, AloneIsAlone, OfItsFile, RecordedIsExecuted
<1>7. FailsForCause'
  BY DEF TypeOK, FailsForCause, AloneKnows
<1> QED BY <1>1, <1>2, <1>3, <1>4, <1>5, <1>6, <1>7

\* EnsureTable keeps the invariant.
LEMMA EnsureTableKeeps ==
  ASSUME IInv, NEW r \in Runners, EnsureTable(r)
  PROVE  IInv'
<1> USE NAssumption DEF IInv, EnsureTable, Goes, Running, InTx, Files
<1>1. TypeOK'
  BY DEF TypeOK
<1>2. RecordedIsExecuted' /\ InOrder'
  BY DEF TypeOK, RecordedIsExecuted, InOrder, PassedIsRecorded, OfItsFile
<1>3. PassedIsRecorded' /\ OfItsFile'
  BY DEF TypeOK, PassedIsRecorded, OfItsFile
<1>4. NobodyPasses'
  BY DEF TypeOK, NobodyPasses, RecordedIsExecuted, PassedIsRecorded
<1>5. AloneIsAlone'
  BY DEF TypeOK, AloneIsAlone
<1>6. AloneKnows'
  BY DEF TypeOK, AloneKnows, AloneIsAlone, OfItsFile, RecordedIsExecuted
<1>7. FailsForCause'
  BY DEF TypeOK, FailsForCause, AloneKnows
<1> QED BY <1>1, <1>2, <1>3, <1>4, <1>5, <1>6, <1>7

\* CreateTable keeps the invariant.
LEMMA CreateTableKeeps ==
  ASSUME IInv, NEW r \in Runners, CreateTable(r)
  PROVE  IInv'
<1> USE NAssumption DEF IInv, CreateTable, Goes, Running, InTx, Files
<1>1. TypeOK'
  BY DEF TypeOK
<1>2. RecordedIsExecuted' /\ InOrder'
  BY DEF TypeOK, RecordedIsExecuted, InOrder, PassedIsRecorded, OfItsFile
<1>3. PassedIsRecorded' /\ OfItsFile'
  BY DEF TypeOK, PassedIsRecorded, OfItsFile
<1>4. NobodyPasses'
  BY DEF TypeOK, NobodyPasses, RecordedIsExecuted, PassedIsRecorded
<1>5. AloneIsAlone'
  BY DEF TypeOK, AloneIsAlone
<1>6. AloneKnows'
  BY DEF TypeOK, AloneKnows, AloneIsAlone, OfItsFile, RecordedIsExecuted
<1>7. FailsForCause'
  BY DEF TypeOK, FailsForCause, AloneKnows
<1> QED BY <1>1, <1>2, <1>3, <1>4, <1>5, <1>6, <1>7

\* ReadApplied keeps the invariant.
LEMMA ReadAppliedKeeps ==
  ASSUME IInv, NEW r \in Runners, ReadApplied(r)
  PROVE  IInv'
<1> USE NAssumption DEF IInv, ReadApplied, Goes, Running, InTx, Files
<1>1. TypeOK'
  BY DEF TypeOK
<1>2. RecordedIsExecuted' /\ InOrder'
  BY DEF TypeOK, RecordedIsExecuted, InOrder, PassedIsRecorded, OfItsFile
<1>3. PassedIsRecorded' /\ OfItsFile'
  BY DEF TypeOK, PassedIsRecorded, OfItsFile
<1>4. NobodyPasses'
  BY DEF TypeOK, NobodyPasses, RecordedIsExecuted, PassedIsRecorded
<1>5. AloneIsAlone'
  BY DEF TypeOK, AloneIsAlone
<1>6. AloneKnows'
  BY DEF TypeOK, AloneKnows, AloneIsAlone, OfItsFile, RecordedIsExecuted, PassedIsRecorded
<1>7. FailsForCause'
  BY DEF TypeOK, FailsForCause, AloneKnows
<1> QED BY <1>1, <1>2, <1>3, <1>4, <1>5, <1>6, <1>7

\* Skip keeps the invariant.
LEMMA SkipKeeps ==
  ASSUME IInv, NEW r \in Runners, Skip(r)
  PROVE  IInv'
<1> USE NAssumption DEF IInv, Skip, Passes, File, More, Following, Goes, Running, InTx, Files
<1>1. TypeOK'
  BY DEF TypeOK
<1>2. RecordedIsExecuted' /\ InOrder'
  BY DEF TypeOK, RecordedIsExecuted, InOrder, PassedIsRecorded, OfItsFile
<1>3. PassedIsRecorded' /\ OfItsFile'
  BY DEF TypeOK, PassedIsRecorded, OfItsFile
<1>4. NobodyPasses'
  BY DEF TypeOK, NobodyPasses, RecordedIsExecuted, PassedIsRecorded
<1>5. AloneIsAlone'
  BY DEF TypeOK, AloneIsAlone
<1>6. AloneKnows'
  <2>1. at[r] \in 1..N /\ at[r] \in known[r] /\ at'[r] = at[r] + 1 /\ UNCHANGED <<known, recorded>>
    BY DEF TypeOK
  <2>2. 1..(at'[r] - 1) = 1..(at[r] - 1) \union {at[r]}
    BY <2>1
  <2>3. \A q \in Runners \ {r} : at'[q] = at[q]
    BY DEF TypeOK
  <2>4. \A q \in Runners : pc'[q] = pc[q]
    BY DEF TypeOK
  <2> QED BY <2>1, <2>2, <2>3, <2>4 DEF AloneKnows
<1>7. FailsForCause'
  BY DEF TypeOK, FailsForCause, AloneKnows
<1> QED BY <1>1, <1>2, <1>3, <1>4, <1>5, <1>6, <1>7

\* Finish keeps the invariant.
LEMMA FinishKeeps ==
  ASSUME IInv, NEW r \in Runners, Finish(r)
  PROVE  IInv'
<1> USE NAssumption DEF IInv, Finish, More, Goes, Running, InTx, Files
<1>1. TypeOK'
  BY DEF TypeOK
<1>2. RecordedIsExecuted' /\ InOrder'
  BY DEF TypeOK, RecordedIsExecuted, InOrder, PassedIsRecorded, OfItsFile
<1>3. PassedIsRecorded' /\ OfItsFile'
  BY DEF TypeOK, PassedIsRecorded, OfItsFile
<1>4. NobodyPasses'
  BY DEF TypeOK, NobodyPasses, RecordedIsExecuted, PassedIsRecorded
<1>5. AloneIsAlone'
  BY DEF TypeOK, AloneIsAlone
<1>6. AloneKnows'
  BY DEF TypeOK, AloneKnows, AloneIsAlone, OfItsFile, RecordedIsExecuted
<1>7. FailsForCause'
  BY DEF TypeOK, FailsForCause, AloneKnows
<1> QED BY <1>1, <1>2, <1>3, <1>4, <1>5, <1>6, <1>7

\* Begin keeps the invariant.
LEMMA BeginKeeps ==
  ASSUME IInv, NEW r \in Runners, Begin(r)
  PROVE  IInv'
<1> USE NAssumption DEF IInv, Begin, Passes, File, More, Goes, Running, InTx, Files
<1>1. TypeOK'
  BY DEF TypeOK
<1>2. RecordedIsExecuted' /\ InOrder'
  BY DEF TypeOK, RecordedIsExecuted, InOrder, PassedIsRecorded, OfItsFile
<1>3. PassedIsRecorded' /\ OfItsFile'
  BY DEF TypeOK, PassedIsRecorded, OfItsFile
<1>4. NobodyPasses'
  BY DEF TypeOK, NobodyPasses, RecordedIsExecuted, PassedIsRecorded
<1>5. AloneIsAlone'
  BY DEF TypeOK, AloneIsAlone
<1>6. AloneKnows'
  BY DEF TypeOK, AloneKnows, AloneIsAlone, OfItsFile, RecordedIsExecuted
<1>7. FailsForCause'
  BY DEF TypeOK, FailsForCause, AloneKnows
<1> QED BY <1>1, <1>2, <1>3, <1>4, <1>5, <1>6, <1>7

\* Apply keeps the invariant.
LEMMA ApplyKeeps ==
  ASSUME IInv, NEW r \in Runners, Apply(r)
  PROVE  IInv'
<1> USE NAssumption DEF IInv, Apply, Clashes, Executed, File, Goes, Running, InTx, Files
<1>1. TypeOK'
  <2>1. at[r] \in 1..N
    BY DEF TypeOK, OfItsFile
  <2>2. holds' \in [Runners -> 0..N] /\ schema' = schema
    BY <2>1 DEF TypeOK
  <2> QED BY <2>2 DEF TypeOK
<1>2. RecordedIsExecuted' /\ InOrder'
  BY DEF TypeOK, RecordedIsExecuted, InOrder, PassedIsRecorded, OfItsFile
<1>3. PassedIsRecorded' /\ OfItsFile'
  BY DEF TypeOK, PassedIsRecorded, OfItsFile
<1>4. NobodyPasses'
  BY DEF TypeOK, NobodyPasses, RecordedIsExecuted, PassedIsRecorded
<1>5. AloneIsAlone'
  BY DEF TypeOK, AloneIsAlone
<1>6. AloneKnows'
  BY DEF TypeOK, AloneKnows, AloneIsAlone, OfItsFile, RecordedIsExecuted
<1>7. FailsForCause'
  BY DEF TypeOK, FailsForCause, AloneKnows
<1> QED BY <1>1, <1>2, <1>3, <1>4, <1>5, <1>6, <1>7

\* Record keeps the invariant.
LEMMA RecordKeeps ==
  ASSUME IInv, NEW r \in Runners, Record(r)
  PROVE  IInv'
<1> USE NAssumption DEF IInv, Record, File, Goes, Running, InTx, Files
<1>1. TypeOK'
  BY DEF TypeOK
<1>2. RecordedIsExecuted' /\ InOrder'
  BY DEF TypeOK, RecordedIsExecuted, InOrder, PassedIsRecorded, OfItsFile
<1>3. PassedIsRecorded' /\ OfItsFile'
  BY DEF TypeOK, PassedIsRecorded, OfItsFile
<1>4. NobodyPasses'
  BY DEF TypeOK, NobodyPasses, RecordedIsExecuted, PassedIsRecorded
<1>5. AloneIsAlone'
  BY DEF TypeOK, AloneIsAlone
<1>6. AloneKnows'
  BY DEF TypeOK, AloneKnows, AloneIsAlone, OfItsFile, RecordedIsExecuted
<1>7. FailsForCause'
  BY DEF TypeOK, FailsForCause, AloneKnows
<1> QED BY <1>1, <1>2, <1>3, <1>4, <1>5, <1>6, <1>7

\* SendCommit keeps the invariant.
LEMMA SendCommitKeeps ==
  ASSUME IInv, NEW r \in Runners, SendCommit(r)
  PROVE  IInv'
<1> USE NAssumption DEF IInv, SendCommit, Goes, Running, InTx, Files
<1>1. TypeOK'
  BY DEF TypeOK
<1>2. RecordedIsExecuted' /\ InOrder'
  BY DEF TypeOK, RecordedIsExecuted, InOrder, PassedIsRecorded, OfItsFile
<1>3. PassedIsRecorded' /\ OfItsFile'
  BY DEF TypeOK, PassedIsRecorded, OfItsFile
<1>4. NobodyPasses'
  BY DEF TypeOK, NobodyPasses, RecordedIsExecuted, PassedIsRecorded
<1>5. AloneIsAlone'
  BY DEF TypeOK, AloneIsAlone
<1>6. AloneKnows'
  BY DEF TypeOK, AloneKnows, AloneIsAlone, OfItsFile, RecordedIsExecuted
<1>7. FailsForCause'
  BY DEF TypeOK, FailsForCause, AloneKnows
<1> QED BY <1>1, <1>2, <1>3, <1>4, <1>5, <1>6, <1>7

\* Commit keeps the invariant.
LEMMA CommitKeeps ==
  ASSUME IInv, NEW r \in Runners, Commit(r)
  PROVE  IInv'
<1> USE NAssumption DEF IInv, Commit, Running, InTx, Files
<1>1. TypeOK'
  <2>1. at[r] \in 1..N /\ holds[r] = at[r]
    BY DEF TypeOK, OfItsFile
  <2>2. schema' \subseteq 1..N /\ recorded' \subseteq 1..N
    BY <2>1 DEF TypeOK
  <2>3. at[r] + 1 \in 1..(N + 1) /\ 0 \in 0..N
    BY <2>1
  <2>4. at' \in [Runners -> 1..(N + 1)] /\ holds' \in [Runners -> 0..N]
    BY <2>3 DEF TypeOK
  <2> QED BY <2>2, <2>4 DEF TypeOK
<1>2. RecordedIsExecuted' /\ InOrder'
  BY DEF TypeOK, RecordedIsExecuted, InOrder, PassedIsRecorded, OfItsFile
<1>3. PassedIsRecorded' /\ OfItsFile'
  BY DEF TypeOK, PassedIsRecorded, OfItsFile
<1>4. NobodyPasses'
  BY DEF TypeOK, NobodyPasses, RecordedIsExecuted, PassedIsRecorded
<1>5. AloneIsAlone'
  BY DEF TypeOK, AloneIsAlone
<1>6. AloneKnows'
  BY DEF TypeOK, AloneKnows, AloneIsAlone, OfItsFile, RecordedIsExecuted
<1>7. FailsForCause'
  BY DEF TypeOK, FailsForCause, AloneKnows
<1> QED BY <1>1, <1>2, <1>3, <1>4, <1>5, <1>6, <1>7

\* Rollback keeps the invariant.
LEMMA RollbackKeeps ==
  ASSUME IInv, NEW r \in Runners, Rollback(r)
  PROVE  IInv'
<1> USE NAssumption DEF IInv, Rollback, Thrown, Goes, Running, InTx, Files
<1>1. TypeOK'
  BY DEF TypeOK
<1>2. RecordedIsExecuted' /\ InOrder'
  BY DEF TypeOK, RecordedIsExecuted, InOrder, PassedIsRecorded, OfItsFile
<1>3. PassedIsRecorded' /\ OfItsFile'
  BY DEF TypeOK, PassedIsRecorded, OfItsFile
<1>4. NobodyPasses'
  BY DEF TypeOK, NobodyPasses, RecordedIsExecuted, PassedIsRecorded
<1>5. AloneIsAlone'
  BY DEF TypeOK, AloneIsAlone
<1>6. AloneKnows'
  BY DEF TypeOK, AloneKnows, AloneIsAlone, OfItsFile, RecordedIsExecuted
<1>7. FailsForCause'
  BY DEF TypeOK, FailsForCause, AloneKnows
<1> QED BY <1>1, <1>2, <1>3, <1>4, <1>5, <1>6, <1>7

\* Cut keeps the invariant.
LEMMA CutKeeps ==
  ASSUME IInv, NEW r \in Runners, Cut(r)
  PROVE  IInv'
<1> USE NAssumption DEF IInv, Cut, Running, InTx, Files
<1>1. TypeOK'
  BY DEF TypeOK
<1>2. RecordedIsExecuted' /\ InOrder'
  BY DEF TypeOK, RecordedIsExecuted, InOrder, PassedIsRecorded, OfItsFile
<1>3. PassedIsRecorded' /\ OfItsFile'
  BY DEF TypeOK, PassedIsRecorded, OfItsFile
<1>4. NobodyPasses'
  BY DEF TypeOK, NobodyPasses, RecordedIsExecuted, PassedIsRecorded
<1>5. AloneIsAlone'
  BY DEF TypeOK, AloneIsAlone
<1>6. AloneKnows'
  BY DEF TypeOK, AloneKnows, AloneIsAlone, OfItsFile, RecordedIsExecuted
<1>7. FailsForCause'
  BY DEF TypeOK, FailsForCause, AloneKnows
<1> QED BY <1>1, <1>2, <1>3, <1>4, <1>5, <1>6, <1>7

\* Abort keeps the invariant.
LEMMA AbortKeeps ==
  ASSUME IInv, NEW r \in Runners, Abort(r)
  PROVE  IInv'
<1> USE NAssumption DEF IInv, Abort, Running, InTx, Files
<1>1. TypeOK'
  BY DEF TypeOK
<1>2. RecordedIsExecuted' /\ InOrder'
  BY DEF TypeOK, RecordedIsExecuted, InOrder, PassedIsRecorded, OfItsFile
<1>3. PassedIsRecorded' /\ OfItsFile'
  BY DEF TypeOK, PassedIsRecorded, OfItsFile
<1>4. NobodyPasses'
  BY DEF TypeOK, NobodyPasses, RecordedIsExecuted, PassedIsRecorded
<1>5. AloneIsAlone'
  BY DEF TypeOK, AloneIsAlone
<1>6. AloneKnows'
  BY DEF TypeOK, AloneKnows, AloneIsAlone, OfItsFile, RecordedIsExecuted
<1>7. FailsForCause'
  BY DEF TypeOK, FailsForCause, AloneKnows
<1> QED BY <1>1, <1>2, <1>3, <1>4, <1>5, <1>6, <1>7

\* So does every step.
LEMMA NextIInv == IInv /\ [Next]_vars => IInv'
<1> SUFFICES ASSUME IInv, [Next]_vars PROVE IInv'
  OBVIOUS
<1>1. ASSUME NEW r \in Runners, Start(r) PROVE IInv'
  BY <1>1, StartKeeps
<1>2. ASSUME NEW r \in Runners, EnsureTable(r) PROVE IInv'
  BY <1>2, EnsureTableKeeps
<1>3. ASSUME NEW r \in Runners, CreateTable(r) PROVE IInv'
  BY <1>3, CreateTableKeeps
<1>4. ASSUME NEW r \in Runners, ReadApplied(r) PROVE IInv'
  BY <1>4, ReadAppliedKeeps
<1>5. ASSUME NEW r \in Runners, Skip(r) PROVE IInv'
  BY <1>5, SkipKeeps
<1>6. ASSUME NEW r \in Runners, Finish(r) PROVE IInv'
  BY <1>6, FinishKeeps
<1>7. ASSUME NEW r \in Runners, Begin(r) PROVE IInv'
  BY <1>7, BeginKeeps
<1>8. ASSUME NEW r \in Runners, Apply(r) PROVE IInv'
  BY <1>8, ApplyKeeps
<1>9. ASSUME NEW r \in Runners, Record(r) PROVE IInv'
  BY <1>9, RecordKeeps
<1>10. ASSUME NEW r \in Runners, SendCommit(r) PROVE IInv'
  BY <1>10, SendCommitKeeps
<1>11. ASSUME NEW r \in Runners, Commit(r) PROVE IInv'
  BY <1>11, CommitKeeps
<1>12. ASSUME NEW r \in Runners, Rollback(r) PROVE IInv'
  BY <1>12, RollbackKeeps
<1>13. ASSUME NEW r \in Runners, Cut(r) PROVE IInv'
  BY <1>13, CutKeeps
<1>14. ASSUME NEW r \in Runners, Abort(r) PROVE IInv'
  BY <1>14, AbortKeeps
<1>15. CASE UNCHANGED vars
  BY <1>15 DEF IInv, TypeOK, RecordedIsExecuted, InOrder, PassedIsRecorded, OfItsFile, NobodyPasses,
               AloneIsAlone, AloneKnows, FailsForCause, vars
<1> QED BY <1>1, <1>2, <1>3, <1>4, <1>5, <1>6, <1>7, <1>8, <1>9, <1>10, <1>11, <1>12, <1>13, <1>14, <1>15 DEF Next, Step

-----------------------------------------------------------------------------
(* The theorems.                                                           *)

\* Whatever the runs do, the invariant holds.
THEOREM Inductive == Spec => []IInv
<1>1. Init => IInv
  BY InitIInv
<1>2. IInv /\ [Next]_vars => IInv'
  BY NextIInv
<1> QED BY <1>1, <1>2, PTL DEF Spec

\* The variables have their types: TypeOK.
THEOREM TypeCorrect == Spec => []TypeOK
<1>1. IInv => TypeOK
  BY DEF IInv
<1> QED BY <1>1, Inductive, PTL

\* The BEGIN and the COMMIT of the loop keep the files and their names together.
THEOREM ExecutedWithItsName == Spec => []RecordedIsExecuted
<1>1. IInv => RecordedIsExecuted
  BY DEF IInv
<1> QED BY <1>1, Inductive, PTL

\* The loop goes through the sorted files, whatever other runs do.
THEOREM ExecutedInOrder == Spec => []InOrder
<1>1. IInv => InOrder
  BY DEF IInv
<1> QED BY <1>1, Inductive, PTL

\* "All migrations applied successfully" is true when it is printed, and stays true.
THEOREM DoneIsDone == Spec => []DoneMeansAll
<1>1. IInv => DoneMeansAll
  <2> SUFFICES ASSUME IInv, NEW r \in Runners, pc[r] = "done" PROVE recorded = Files
    BY DEF DoneMeansAll
  <2>1. at[r] = N + 1 /\ 1..(at[r] - 1) \subseteq recorded /\ recorded \subseteq Files
    BY DEF IInv, OfItsFile, PassedIsRecorded, TypeOK
  <2>2. (N + 1) - 1 = N
    BY NAssumption
  <2> QED BY <2>1, <2>2 DEF Files
<1> QED BY <1>1, Inductive, PTL

\* A run that exits with 1 was overlapped or cut off.
THEOREM FailureHasACause == Spec => []FailsForCause
<1>1. IInv => FailsForCause
  BY DEF IInv
<1> QED BY <1>1, Inductive, PTL

\* Where the compose files mount the migrations, the documented next step fails.
THEOREM FilledIsStuck == Spec => []FilledStaysUnrecorded
<1>1. IInv => FilledStaysUnrecorded
  <2> SUFFICES ASSUME IInv, prior > 0 PROVE recorded = {} /\ \A r \in Runners : pc[r] # "done"
    BY DEF FilledStaysUnrecorded
  <2>1. \A r \in Runners : pc[r] # "done"
    BY DEF IInv, NobodyPasses
  <2>2. recorded = {}
    BY DEF IInv, NobodyPasses
  <2> QED BY <2>1, <2>2
<1> QED BY <1>1, Inductive, PTL

-----------------------------------------------------------------------------
(* Waiting, and coming to an end.                                          *)

\* Every step keeps one transaction to a file: who would execute it too waits.
LEMMA NextOneExecutes ==
  ASSUME IInv, OneExecutes, [Next]_vars
  PROVE  OneExecutes'
<1> USE NAssumption DEF IInv, TypeOK, OneExecutes, Goes, Running, InTx, Files
<1>1. ASSUME NEW r \in Runners,
             Start(r) \/ EnsureTable(r) \/ CreateTable(r) \/ ReadApplied(r) \/ Finish(r) \/ Begin(r) \/ Cut(r)
      PROVE  OneExecutes'
  BY <1>1 DEF Start, EnsureTable, CreateTable, ReadApplied, Finish, Begin, Cut
<1>2. ASSUME NEW r \in Runners, Skip(r) PROVE OneExecutes'
  BY <1>2 DEF Skip, Following
<1>3. ASSUME NEW r \in Runners, Apply(r) PROVE OneExecutes'
  <2>1. at[r] \in 1..N
    BY <1>3 DEF Apply, OfItsFile
  <2>2. CASE at[r] \in schema
    BY <1>3, <2>2 DEF Apply, Clashes, File
  <2>3. CASE at[r] \notin schema
    <3>1. /\ schema' = schema /\ at' = at
          /\ holds'[r] = at[r] /\ pc'[r] = "applied"
          /\ \A q \in Runners \ {r} : holds'[q] = holds[q] /\ pc'[q] = pc[q] /\ holds[q] # at[r]
      BY <1>3, <2>3 DEF Apply, Clashes, Executed, File
    <3> QED BY <2>1, <2>3, <3>1
  <2> QED BY <2>2, <2>3
<1>4. ASSUME NEW r \in Runners, Record(r) PROVE OneExecutes'
  <2>1. holds[r] = at[r] /\ at[r] \in 1..N
    BY <1>4 DEF Record, OfItsFile
  <2>2. at[r] \notin recorded
    BY <2>1 DEF RecordedIsExecuted
  <2> QED BY <1>4, <2>2 DEF Record, File
<1>5. ASSUME NEW r \in Runners, SendCommit(r) PROVE OneExecutes'
  BY <1>5 DEF SendCommit
<1>6. ASSUME NEW r \in Runners, Commit(r) PROVE OneExecutes'
  BY <1>6 DEF Commit, OfItsFile
<1>7. ASSUME NEW r \in Runners, Rollback(r) \/ Abort(r) PROVE OneExecutes'
  BY <1>7 DEF Rollback, Thrown, Abort
<1>8. CASE UNCHANGED vars
  BY <1>8 DEF vars
<1> QED BY <1>1, <1>2, <1>3, <1>4, <1>5, <1>6, <1>7, <1>8 DEF Next, Step

\* Runs that overlap never both execute a file, and none waits for one that waits:
\* the transaction that Apply waits for goes on to its COMMIT, or is cut off.
THEOREM ExecutedByOne == Spec => []OneExecutes
<1>1. Init => OneExecutes
  BY DEF Init, OneExecutes
<1>2. IInv /\ OneExecutes /\ [Next]_vars => OneExecutes'
  BY NextOneExecutes
<1> QED BY <1>1, <1>2, Inductive, PTL DEF Spec

\* What a run has before it: the files, of five steps each, and the rest of this one.
Turn == [off |-> 9, ensure |-> 8, creating |-> 7, read |-> 6, loop |-> 5, begun |-> 4, applied |-> 3,
         recorded |-> 2, committing |-> 1, rollback |-> 1, done |-> 0, failed |-> 0]
Left(r) == 5 * (N + 1 - at[r]) + Turn[pc[r]]

\* Every step of a run brings it nearer to its end, and no other step takes it back.
StepCounts ==
  \A r \in Runners : /\ Left(r) \in 0..(5 * N + 9)
                     /\ IF Start(r) \/ Step(r) THEN Left(r)' < Left(r) ELSE UNCHANGED Left(r)

\* What is left is a number, at most that of a run that has not started.
LEMMA LeftIsANumber ==
  ASSUME TypeOK, NEW r \in Runners
  PROVE  Turn[pc[r]] \in 0..9 /\ Left(r) \in 0..(5 * N + 9)
<1>1. at[r] \in 1..(N + 1) /\ N \in Nat /\ 5 * (N + 1 - at[r]) \in 0..(5 * N)
  BY NAssumption DEF TypeOK
<1>2. Turn[pc[r]] \in 0..9
  BY DEF TypeOK, Turn, Running, InTx
<1> QED BY <1>1, <1>2 DEF Left

\* A step of a run that stays at its file counts by its turn, one that passes it by five.
LEMMA TurnCounts ==
  ASSUME IInv, NEW r \in Runners, Start(r) \/ Step(r)
  PROVE  Left(r)' < Left(r)
<1> USE NAssumption DEF IInv, TypeOK, Goes, Running, InTx, Turn
<1>1. at[r] \in 1..(N + 1) /\ N \in Nat /\ Turn[pc[r]] \in 0..9
  BY LeftIsANumber
<1>2. CASE Start(r) \/ EnsureTable(r) \/ CreateTable(r) \/ ReadApplied(r) \/ Finish(r) \/ Begin(r)
           \/ Apply(r) \/ Record(r) \/ SendCommit(r) \/ Rollback(r) \/ Abort(r)
  <2>1. at'[r] = at[r]
    BY <1>2 DEF Start, EnsureTable, CreateTable, ReadApplied, Finish, Begin, Apply, Record, SendCommit,
                Rollback, Thrown, Abort
  <2>2. Turn[pc'[r]] \in 0..9 /\ Turn[pc'[r]] < Turn[pc[r]]
    <3>1. CASE Start(r) \/ EnsureTable(r) \/ CreateTable(r) \/ ReadApplied(r) \/ Finish(r) \/ Begin(r)
      BY <3>1 DEF Start, EnsureTable, CreateTable, ReadApplied, Finish, Begin
    <3>2. CASE Apply(r) \/ Record(r) \/ SendCommit(r) \/ Rollback(r) \/ Abort(r)
      BY <3>2 DEF Apply, Record, SendCommit, Rollback, Thrown, Abort
    <3> QED BY <1>2, <3>1, <3>2
  <2> HIDE DEF Turn
  <2> QED BY <1>1, <2>1, <2>2 DEF Left
<1>3. CASE Skip(r)
  <2>1. at'[r] = at[r] + 1 /\ pc'[r] = pc[r]
    BY <1>3 DEF Skip, Following, More, Files
  <2> HIDE DEF Turn
  <2> QED BY <1>1, <2>1 DEF Left
<1>4. CASE Commit(r)
  <2>1. Turn["committing"] = 1 /\ Turn["loop"] = 5 /\ Turn["failed"] = 0
    OBVIOUS
  <2> HIDE DEF Turn
  <2>2. CASE r \in cut
    <3>1. pc[r] = "committing" /\ at'[r] = at[r] /\ pc'[r] = "failed"
      BY <1>4, <2>2 DEF Commit
    <3> QED BY <1>1, <2>1, <3>1 DEF Left
  <2>3. CASE r \notin cut
    <3>1. pc[r] = "committing" /\ at' = [at EXCEPT ![r] = at[r] + 1] /\ pc' = [pc EXCEPT ![r] = "loop"]
      BY <1>4, <2>3 DEF Commit
    <3>2. at'[r] = at[r] + 1 /\ pc'[r] = "loop"
      BY <3>1
    <3> QED BY <1>1, <2>1, <3>1, <3>2 DEF Left
  <2> QED BY <2>2, <2>3
<1> QED BY <1>2, <1>3, <1>4 DEF Step

\* The steps of the others, and being cut off, leave a run where it is.
LEMMA OthersStay ==
  ASSUME IInv, [Next]_vars, NEW r \in Runners, ~(Start(r) \/ Step(r))
  PROVE  UNCHANGED Left(r)
<1> SUFFICES pc'[r] = pc[r] /\ at'[r] = at[r]
  BY DEF Left
<1>1. CASE UNCHANGED vars
  BY <1>1 DEF vars
<1>2. ASSUME NEW q \in Runners \ {r}, Start(q) \/ Step(q) PROVE pc'[r] = pc[r] /\ at'[r] = at[r]
  BY <1>2 DEF IInv, TypeOK, Goes, Start, Step, EnsureTable, CreateTable, ReadApplied, Skip, Finish, Begin,
              Apply, Record, SendCommit, Commit, Rollback, Thrown, Abort
<1>3. ASSUME NEW q \in Runners, Cut(q) PROVE pc'[r] = pc[r] /\ at'[r] = at[r]
  BY <1>3 DEF Cut
<1> QED BY <1>1, <1>2, <1>3 DEF Next

\* A run takes at most 5 * N + 9 steps, however many others there are and wherever it is
\* cut off: only waiting in Apply can keep it from its end (the safety part of EveryRunEnds).
THEOREM RunsRunDown == Spec => [][StepCounts]_vars
<1>1. IInv /\ [Next]_vars => [StepCounts]_vars
  <2> SUFFICES ASSUME IInv, [Next]_vars, NEW r \in Runners
               PROVE  /\ Left(r) \in 0..(5 * N + 9)
                      /\ IF Start(r) \/ Step(r) THEN Left(r)' < Left(r) ELSE UNCHANGED Left(r)
    BY DEF StepCounts
  <2>1. Left(r) \in 0..(5 * N + 9)
    BY LeftIsANumber DEF IInv
  <2> QED BY <2>1, TurnCounts, OthersStay
<1> QED BY <1>1, Inductive, PTL DEF Spec
=============================================================================
