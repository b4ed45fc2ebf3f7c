----------------------------- MODULE JobContract -----------------------------
(***************************************************************************)
(* What the job service promises about each job, with no list, request or  *)
(* task in sight: a job is accepted, or set aside because its agent is     *)
(* offline; an accepted job is begun at most once; it is closed at most    *)
(* once, by the outcome of having been begun; and what is closed or set    *)
(* aside stays so.  A cancelled job may still be begun and closed: the     *)
(* code recalls nothing it has queued, so no stronger promise is true.     *)
(***************************************************************************)
CONSTANTS Jobs, Outcomes

VARIABLES
  stand,   \* where each job stands for its user
  begun,   \* the jobs an agent has begun
  outcome  \* the recorded outcome, "none" before the job is closed

Stands == {"absent", "accepted", "set_aside", "cancelled", "closed"}

ContractTypeOK ==
  /\ stand \in [Jobs -> Stands]
  /\ begun \subseteq Jobs
  /\ outcome \in [Jobs -> Outcomes \union {"none"}]

Init ==
  /\ stand = [j \in Jobs |-> "absent"]
  /\ begun = {}
  /\ outcome = [j \in Jobs |-> "none"]

Accept(j) ==
  /\ stand[j] = "absent"
  /\ \E s \in {"accepted", "set_aside"} : stand' = [stand EXCEPT ![j] = s]
  /\ UNCHANGED <<begun, outcome>>

Withdraw(j) ==
  /\ stand[j] = "accepted"
  /\ stand' = [stand EXCEPT ![j] = "cancelled"]
  /\ UNCHANGED <<begun, outcome>>

Begin(j) ==
  /\ stand[j] \in {"accepted", "cancelled"}
  /\ j \notin begun
  /\ begun' = begun \union {j}
  /\ UNCHANGED <<stand, outcome>>

Close(j) ==
  /\ stand[j] \in {"accepted", "cancelled"}
  /\ j \in begun
  /\ stand' = [stand EXCEPT ![j] = "closed"]
  /\ \E o \in Outcomes : outcome' = [outcome EXCEPT ![j] = o]
  /\ UNCHANGED begun

Next == \E j \in Jobs : Accept(j) \/ Withdraw(j) \/ Begin(j) \/ Close(j)

Spec == Init /\ [][Next]_<<stand, begun, outcome>>
=============================================================================
