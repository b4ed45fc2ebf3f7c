------------------------------ MODULE JobsPage ------------------------------
(***************************************************************************)
(* The list of jobs in the browser of one user: the jobs page with its     *)
(* filters, the Jobs tab of an agent's page, the buttons of that page that *)
(* ask for a job and make the lists ask again, and GET /jobs and POST      *)
(* /jobs behind them.                                                      *)
(*                                                                         *)
(* The cancel button of the jobs page has no action.  Its request declares *)
(* a JSON body and has none, so the parser of the backend answers 400      *)
(* before any route is asked: a toast, and nothing changes.  Cancellations *)
(* come from other clients of the API.                                     *)
(*                                                                         *)
(* A view is what useJobs is called with: the status chosen, "all" for     *)
(* none, or "tab" for the agent of the Jobs tab.  The filter by type is    *)
(* one more that no job enters or leaves; the text of the search field is  *)
(* sent too, and GET /jobs ignores it.  The total above the list, counted  *)
(* by a statement before the one that reads the rows, is left out.         *)
(*                                                                         *)
(* A job that is set aside at once is one more that stays as it was        *)
(* created: it stands as pending.                                          *)
(***************************************************************************)
EXTENDS Integers, FiniteSets

CONSTANTS
  MaxJobs,   \* bound: jobs of the organization
  OfAgent,   \* those of the agent whose tab is opened
  Views,     \* what the user looks at
  PerPage,   \* per_page of GET /jobs (50 in the code)
  MaxPosts   \* bound: jobs asked for at one time

Jobs     == 1..MaxJobs     \* in the order of created_at
Statuses == {"pending", "queued", "cancelled", "success"}
Chosen   == Views \intersect Statuses

ASSUME SizeAssumption ==
  /\ MaxJobs \in Nat \ {0} /\ PerPage \in Nat \ {0} /\ MaxPosts \in Nat
  /\ OfAgent \subseteq Jobs
ASSUME ViewAssumption == Views \subseteq Statuses \union {"all", "tab"}

VARIABLES
  row,      \* jobs.status, "none" before the job is created
  view,     \* what is looked at, "away" for another page
  query,    \* the request for a view, and what it has read
  cache,    \* data of the query of a view
  stale,    \* views whose data are invalidated
  asked,    \* calls of createJob.mutate without their row so far
  made,     \* jobs whose createJob has its row, and not yet its answer
  told      \* history: jobs whose creation made a view with data ask again,
            \* until it has its answer

posts    == <<asked, made>>
listVars == <<row, view, query, cache, stale, posts, told>>

Listed  == [Jobs -> Statuses \union {"none"}]
Nothing == [j \in Jobs |-> "none"]
Idle    == [stage |-> "idle", params |-> "none", got |-> Nothing]
Absent  == [here |-> FALSE, list |-> Nothing]

ListTypeOK ==
  /\ row \in Listed
  /\ view \in Views \union {"away"}
  /\ query \in [Views -> [stage: {"idle", "asked", "read"}, params: Views \union {"none"}, got: Listed]]
  /\ cache \in [Views -> [here: BOOLEAN, list: Listed]]
  /\ stale \subseteq {v \in Views : cache[v].here}
  /\ asked \in 0..MaxPosts /\ made \subseteq Jobs
  /\ told \in [Views -> SUBSET Jobs]

ListInit ==
  /\ row = [j \in Jobs |-> "none"]
  /\ view = "away"
  /\ query = [v \in Views |-> Idle]
  /\ cache = [v \in Views |-> Absent] /\ stale = {}
  /\ asked = 0 /\ made = {}
  /\ told = [v \in Views |-> {}]

-----------------------------------------------------------------------------
(* listJobs: the newest that match.                                        *)

Matches(v, j) ==
  /\ row[j] # "none"
  /\ v \in Chosen => row[j] = v
  /\ v = "tab" => j \in OfAgent

OnPage(v, j) == Matches(v, j) /\ Cardinality({i \in (j + 1)..MaxJobs : Matches(v, i)}) < PerPage
Page(v) == [j \in Jobs |-> IF OnPage(v, j) THEN row[j] ELSE "none"]

List(q) ==
  /\ query[q].stage = "asked"
  /\ query' = [query EXCEPT ![q] =
       [stage |-> "read", params |-> query[q].params, got |-> Page(query[q].params)]]
  /\ UNCHANGED <<row, view, cache, stale, posts, told>>

-----------------------------------------------------------------------------
(* useJobs: one query for each key, asked while it is looked at.           *)

Key(v) == v

Ask(v)   == [query EXCEPT ![Key(v)] = [stage |-> "asked", params |-> v, got |-> Nothing]]
AskOnce(v) == IF query[Key(v)] = Idle THEN Ask(v) ELSE query

\* Variant: the page does not poll.
PollsNever == FALSE
Polls == view # "away"

Poll ==
  /\ Polls /\ query[Key(view)] = Idle
  /\ query' = Ask(view)
  /\ UNCHANGED <<row, view, cache, stale, posts, told>>

\* Data of less than five seconds that nothing has invalidated are not asked for again.
Shows(v) ==
  /\ view # v /\ view' = v
  /\ \/ query' = AskOnce(v)
     \/ cache[Key(v)].here /\ Key(v) \notin stale /\ UNCHANGED query
  /\ UNCHANGED <<row, cache, stale, posts, told>>

\* The jobs page is opened, or another filter chosen in it.
Choose(v) == v # "tab" /\ Shows(v)

OpenTab == "tab" \in Views /\ Shows("tab")

\* The request that is under way goes on.
LookAway ==
  /\ view # "away" /\ view' = "away"
  /\ UNCHANGED <<row, query, cache, stale, posts, told>>

\* A view that nobody looks at any more gets its data too.
Answer(q) ==
  /\ query[q].stage = "read"
  /\ cache' = [cache EXCEPT ![q] = [here |-> TRUE, list |-> query[q].got]]
  /\ stale' = stale \ {q}
  /\ query' = [query EXCEPT ![q] = Idle]
  /\ told' = [told EXCEPT ![q] = {}]
  /\ UNCHANGED <<row, view, posts>>

Read == {v \in Views : cache[v].here}

\* A request under way is cancelled if there are data already.
\* Variant: the request under way will do.
Joined(v) == AskOnce(v)
Refetched(v) == IF cache[Key(v)].here THEN Ask(v) ELSE AskOnce(v)

\* invalidateQueries: what was read is stale, and what is looked at is asked for again.
Invalidate ==
  /\ stale' = Read
  /\ query' = IF view = "away" THEN query ELSE Refetched(view)

\* The button above the list.
Refresh ==
  /\ view \in Views \ {"tab"}
  /\ query' = Refetched(view)
  /\ UNCHANGED <<row, view, cache, stale, posts, told>>

-----------------------------------------------------------------------------
(* createJob.mutate on the agent's page, and POST /jobs.                   *)

\* Reboot, shutdown, a script or a session of the shell: each waits for its own answer
\* at most, so several may be under way.
AskForJob ==
  /\ view \in {"tab", "away"} /\ asked + Cardinality(made) < MaxPosts
  /\ asked' = asked + 1
  /\ UNCHANGED <<row, view, query, cache, stale, made, told>>

IsNext(j) == row[j] = "none" /\ \A i \in 1..(j - 1) : row[i] # "none"

CreateJob(j) ==
  /\ asked > 0 /\ j \in OfAgent /\ IsNext(j)
  /\ row' = [row EXCEPT ![j] = "pending"]
  /\ asked' = asked - 1 /\ made' = made \union {j}
  /\ UNCHANGED <<view, query, cache, stale, told>>

\* Views that a new job of the agent belongs to.
Enters(v, j) == v \notin Chosen /\ (v = "tab" => j \in OfAgent)

\* onSuccess, wherever the user is by then: mutations outlive their page.
CreateAnswered(j) ==
  /\ j \in made /\ made' = made \ {j}
  /\ Invalidate
  /\ told' = [v \in Views |-> IF v = view /\ cache[v].here /\ Enters(v, j)
                                THEN told[v] \union {j} ELSE told[v]]
  /\ UNCHANGED <<row, view, cache, asked>>

-----------------------------------------------------------------------------
(* What others do to the jobs.                                             *)

Created(j) ==
  /\ IsNext(j)
  /\ row' = [row EXCEPT ![j] = "pending"]
  /\ UNCHANGED <<view, query, cache, stale, posts, told>>

HandedOut(j) ==
  /\ row[j] = "pending"
  /\ row' = [row EXCEPT ![j] = "queued"]
  /\ UNCHANGED <<view, query, cache, stale, posts, told>>

\* cancelJob, for another client of the API.
Cancelled(j) ==
  /\ row[j] \in {"pending", "queued"}
  /\ row' = [row EXCEPT ![j] = "cancelled"]
  /\ UNCHANGED <<view, query, cache, stale, posts, told>>

\* A result is written whatever the status: a cancelled job is run all the same.
Reported(j) ==
  /\ row[j] \in {"queued", "cancelled"}
  /\ row' = [row EXCEPT ![j] = "success"]
  /\ UNCHANGED <<view, query, cache, stale, posts, told>>

-----------------------------------------------------------------------------
(* What goes wrong.                                                        *)

\* The three attempts of a query have failed: whether before or after the table was read
\* makes no difference.
QueryFails(q) ==
  /\ query[q].stage = "read" /\ query' = [query EXCEPT ![q] = Idle]
  /\ told' = [told EXCEPT ![q] = {}]
  /\ UNCHANGED <<row, view, cache, stale, posts>>

\* POST /jobs is refused or lost, or its answer is lost: a toast.
AskFails ==
  /\ asked > 0 /\ asked' = asked - 1
  /\ UNCHANGED <<row, view, query, cache, stale, made, told>>

AnswerFails(j) ==
  /\ j \in made /\ made' = made \ {j}
  /\ UNCHANGED <<row, view, query, cache, stale, asked, told>>

-----------------------------------------------------------------------------
ListNext ==
  \/ Poll \/ OpenTab \/ LookAway \/ Refresh \/ AskForJob \/ AskFails
  \/ \E v \in Views : Choose(v) \/ List(v) \/ Answer(v) \/ QueryFails(v)
  \/ \E j \in Jobs : CreateJob(j) \/ CreateAnswered(j) \/ AnswerFails(j)
  \/ \E j \in Jobs : Created(j) \/ HandedOut(j) \/ Cancelled(j) \/ Reported(j)

\* The interval of useJobs, and the answers to its requests: it is not for ever that
\* all of them fail, or that the user asks again before they come.
ListFairness ==
  /\ WF_listVars(Poll)
  /\ WF_listVars(view # "away" /\ List(Key(view)))
  /\ SF_listVars(view # "away" /\ Answer(Key(view)))

ListSpec     == ListInit /\ [][ListNext]_listVars
FairListSpec == ListSpec /\ ListFairness

-----------------------------------------------------------------------------
(* Properties.                                                             *)

\* What the page shows of the job, isLoading being over.
ShownAs(j) == IF view = "away" THEN "none" ELSE cache[Key(view)].list[j]

\* The rows that are shown are of the filter that is chosen, in whichever order the
\* requests of several filters are answered.
ShownIsChosen ==
  \A j \in Jobs : (view \in Chosen /\ ShownAs(j) # "none") => ShownAs(j) = view

\* Once the list that the user looks at was made to ask again for a job that the user has
\* just created, no answer that it takes is from before: it has the job, or newer ones in
\* its place, though an earlier request was under way and others create jobs meanwhile.
NewJobIsListed ==
  \A v \in Views : \A j \in told[v] :
    query[v].stage = "read" => \E i \in j..MaxJobs : query[v].got[i] # "none"

\* While a view is looked at, its rows come to be those of the table.
ListCatchesUp ==
  \A v \in Views :
    <>[](view = v) => <>[](cache[Key(v)].list = Page(v))
=============================================================================
