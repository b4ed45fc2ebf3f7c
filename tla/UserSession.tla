----------------------------- MODULE UserSession -----------------------------
(***************************************************************************)
(* How a user is and stays signed in: the handlers of /auth, which count   *)
(* failed logins and keep one hash of a refresh token per user, and the    *)
(* API client of the browsers, which on a 401 refreshes its token and      *)
(* sends the request again.  Each awaited call is an action.               *)
(*                                                                         *)
(* One user, who is active, signed in from several browsers; the tokens    *)
(* in a browser's localStorage outlive its pages, and so does what its     *)
(* store says.  A query stands for every request that any page makes.      *)
(*                                                                         *)
(* The browsers' own logouts never end a session on the server: their      *)
(* request declares a JSON body and has none, which the parser refuses.    *)
(* POST /auth/logout is reached by other clients of the API only.          *)
(***************************************************************************)
EXTENDS Naturals, FiniteSets

CONSTANTS
  Browsers,
  Calls,      \* bound: requests under way at one time
  LockAt,     \* failed logins that lock the account (5 in the code)
  MaxFaults,  \* bound: failures of any kind in one behaviour
  NoBrowser   \* whose call it is when nobody waits for its answer

ASSUME NumberAssumption  == LockAt \in Nat \ {0} /\ MaxFaults \in Nat
ASSUME BrowserAssumption == NoBrowser \notin Browsers
ASSUME CallAssumption    == IsFiniteSet(Calls)

VARIABLES
  attempts,   \* users.failed_login_attempts, up to LockAt: more make no difference
  locked,     \* users.locked_until is in the future
  hash,       \* users.refresh_token_hash is not NULL
  tokens,     \* the two tokens in each browser's localStorage, issued together
  authed,     \* isAuthenticated of the store, which is persisted too
  call,       \* requests of the API client, and where they are
  faults,     \* failures so far
  wrong,      \* history: how often a wrong password was counted, up to LockAt
  tried,      \* history: passwords compared since the account was locked, up to all calls
  revoked,    \* history: browsers whose session a logout elsewhere has ended
  thrown      \* history: browsers sent to the login page by a failed refresh

user    == <<attempts, locked, hash>>
browser == <<tokens, authed>>
count   == <<wrong, tried>>
history == <<count, revoked, thrown>>
vars    == <<user, browser, call, faults, history>>

\* Both tokens valid, the access token expired, or both.
Tokens == {"none", "valid", "expired", "dead"}
Bearers == {"none", "valid", "expired", "renewed"}
Bearer(t) == IF t = "dead" THEN "expired" ELSE t
Paths == {"login", "logout", "query"}
Stages == {"free", "sent", "compared", "reset", "ok", "refused",
           "refresh", "matched", "renewed", "denied"}
Call(stage, by, path, bearer, right) ==
  [stage |-> stage, by |-> by, path |-> path, bearer |-> bearer, right |-> right, seen |-> 0]
FreeCall == Call("free", NoBrowser, "query", "none", FALSE)

TypeOK ==
  /\ attempts \in 0..LockAt /\ locked \in BOOLEAN /\ hash \in BOOLEAN
  /\ tokens \in [Browsers -> Tokens]
  /\ authed \in [Browsers -> BOOLEAN]
  /\ call \in [Calls -> [stage: Stages, by: Browsers \union {NoBrowser}, path: Paths, bearer: Bearers,
                         right: BOOLEAN, seen: 0..LockAt]]
  /\ faults \in 0..MaxFaults /\ wrong \in 0..LockAt /\ tried \in 0..Cardinality(Calls)
  /\ revoked \subseteq Browsers /\ thrown \subseteq Browsers

Init ==
  /\ attempts = 0 /\ locked = FALSE /\ hash = FALSE
  /\ tokens = [b \in Browsers |-> "none"]
  /\ authed = [b \in Browsers |-> FALSE]
  /\ call = [k \in Calls |-> FreeCall]
  /\ faults = 0 /\ wrong = 0 /\ tried = 0
  /\ revoked = {} /\ thrown = {}

-----------------------------------------------------------------------------
(* ApiClient.request: send what localStorage holds.                        *)

\* A call comes to a stage; to its answer, for which only its path matters.
Goes(k, stage) == call' = [call EXCEPT ![k].stage = stage]
Answered(k, next) ==
  call' = [call EXCEPT ![k] = Call(next, call[k].by, call[k].path, "none", FALSE)]

Request(k, b, path, right) ==
  /\ call[k].stage = "free"
  /\ call' = [call EXCEPT ![k] = Call("sent", b, path, Bearer(tokens[b]), right)]

\* login (the form is disabled while its request is under way), logout, and any
\* other: the login page shows to everybody, the others to those the store calls
\* authenticated.
Submit(b, k) ==
  /\ \A o \in Calls : ~(call[o].by = b /\ call[o].path = "login")
  /\ \E right \in BOOLEAN : Request(k, b, "login", right)
  /\ UNCHANGED <<user, browser, faults, history>>

SignOut(b, k) ==
  /\ authed[b]
  /\ Request(k, b, "logout", FALSE)
  /\ UNCHANGED <<user, browser, faults, history>>

Query(b, k) ==
  /\ authed[b]
  /\ Request(k, b, "query", FALSE)
  /\ UNCHANGED <<user, browser, faults, history>>

-----------------------------------------------------------------------------
(* POST /auth/login.                                                       *)

IsLogin(k) == call[k].stage = "sent" /\ call[k].path = "login"

\* The SELECT; bcrypt then compares, and the row may change meanwhile.
\* Variant: the row is read without its lock.
NeverLocked == FALSE
IsLocked == locked

LoginRead(k) ==
  /\ IsLogin(k)
  /\ IF IsLocked
       THEN Goes(k, "refused")
       ELSE call' = [call EXCEPT ![k].stage = "compared", ![k].seen = attempts]
  /\ UNCHANGED <<user, browser, faults, history>>

\* What a wrong password makes of the row that was read.  Variant: a lock one
\* attempt too early.
LocksEarly(n) == n >= LockAt - 1
Locks(n) == n >= LockAt

OneMore(n, most) == IF n < most THEN n + 1 ELSE most

LoginWrong(k) ==
  LET n == OneMore(call[k].seen, LockAt) IN
  /\ call[k].stage = "compared" /\ ~call[k].right
  /\ attempts' = n
  /\ locked' = Locks(n)
  /\ call' = [call EXCEPT ![k].stage = "refused", ![k].seen = 0]
  /\ wrong' = OneMore(wrong, LockAt)
  /\ tried' = IF locked THEN OneMore(tried, Cardinality(Calls)) ELSE 0
  /\ UNCHANGED <<hash, browser, faults, revoked, thrown>>

LoginRight(k) ==
  /\ call[k].stage = "compared" /\ call[k].right
  /\ attempts' = 0 /\ locked' = FALSE
  /\ call' = [call EXCEPT ![k].stage = "reset", ![k].seen = 0]
  /\ tried' = 0
  /\ UNCHANGED <<hash, browser, faults, wrong, revoked, thrown>>

\* storeRefreshToken: the hash is that of the newest token.  (createAuditLog, after
\* it, can only delay the answer.)
Stored == hash' = TRUE

LoginStore(k) ==
  /\ call[k].stage = "reset"
  /\ Stored
  /\ Answered(k, "ok")
  /\ revoked' = revoked \ {call[k].by}
  /\ UNCHANGED <<attempts, locked, browser, faults, count, thrown>>

-----------------------------------------------------------------------------
(* The requests of the pages.                                              *)

\* requireAuth.
Authorised(k) == call[k].bearer \in {"valid", "renewed"}

Admit(k) ==
  /\ call[k].stage = "sent" /\ call[k].path = "query"
  /\ IF Authorised(k) THEN Answered(k, "ok") ELSE Goes(k, "refused")
  /\ UNCHANGED <<user, browser, faults, history>>

\* POST without a body, which logout and the cancellation of a job are: 400 before
\* requireAuth, whatever the token, so it is not a 401 to refresh for.
RefuseEmpty(k) ==
  /\ call[k].stage = "sent" /\ call[k].path # "login"
  /\ Answered(k, "refused")
  /\ UNCHANGED <<user, browser, faults, history>>

-----------------------------------------------------------------------------
(* A 401: ApiClient.refreshToken, and POST /auth/refresh.                  *)

\* A request without a token is not worth a refresh, and one that was sent
\* again is answered as it is.  Variant: it is treated like the first.
AlwaysWorth(k) == call[k].bearer # "none"
WorthRefresh(k) == call[k].bearer \in {"valid", "expired"}

\* The handler verifies the token before it asks for the hash.
AskRefresh(k) ==
  /\ call[k].stage = "refused" /\ call[k].by # NoBrowser /\ WorthRefresh(k)
  /\ Goes(k, IF tokens[call[k].by] \in {"valid", "expired"} THEN "refresh" ELSE "denied")
  /\ UNCHANGED <<user, browser, faults, history>>

\* bcrypt looks at 72 bytes only, which all refresh tokens of a user share: it is
\* enough that some hash is stored, and the hash stays where it is.
\* Variant: a refresh takes the hash it matches.
TakenBy(h) == FALSE
AfterMatch(h) == h
RefreshRead(k) ==
  /\ call[k].stage = "refresh"
  /\ IF hash THEN Goes(k, "matched") /\ hash' = AfterMatch(hash)
             ELSE Goes(k, "denied") /\ UNCHANGED hash
  /\ UNCHANGED <<attempts, locked, browser, faults, history>>

\* The user is read again, and the new token's hash is stored whatever happened meanwhile.
RefreshStore(k) ==
  /\ call[k].stage = "matched"
  /\ Stored
  /\ Goes(k, "renewed")
  /\ UNCHANGED <<attempts, locked, browser, faults, history>>

\* The browser keeps both tokens and sends its request again.

Again(k) ==
  LET b == call[k].by IN
  /\ call[k].stage = "renewed" /\ b # NoBrowser
  /\ tokens' = [tokens EXCEPT ![b] = "valid"]
  /\ call' = [call EXCEPT ![k].stage = "sent", ![k].bearer = "renewed"]
  /\ UNCHANGED <<user, authed, faults, history>>

-----------------------------------------------------------------------------
(* The answer reaches the page.                                            *)

Removed(b) == tokens' = [tokens EXCEPT ![b] = "none"]

\* handleLogout: api.logout removes the tokens whatever the answer was, and the
\* store is cleared in every case.  Variant: only if the backend agrees.
ClearedIfOk(k) == call[k].stage = "ok"
Cleared(k) == TRUE

\* No refresh: the tokens go, and the browser loads the login page, which ends
\* every other request of this one.  What the store says stays.
Abandoned(k) ==
  IF call[k].stage \in {"ok", "refused", "denied", "renewed"} THEN FreeCall
  ELSE [call[k] EXCEPT !.by = NoBrowser]

ThrowOut(k) ==
  LET b == call[k].by IN
  /\ call[k].stage = "denied" /\ b # NoBrowser
  /\ Removed(b)
  /\ call' = [o \in Calls |-> IF o = k THEN FreeCall
                              ELSE IF call[o].by = b THEN Abandoned(o)
                              ELSE call[o]]
  /\ thrown' = thrown \union {b}
  /\ UNCHANGED <<user, authed, faults, count, revoked>>

\* handleLogin.
SignedIn(k) ==
  LET b == call[k].by IN
  /\ call[k].stage = "ok" /\ call[k].path = "login" /\ b # NoBrowser
  /\ tokens' = [tokens EXCEPT ![b] = "valid"]
  /\ authed' = [authed EXCEPT ![b] = TRUE]
  /\ call' = [call EXCEPT ![k] = FreeCall]
  /\ thrown' = thrown \ {b}
  /\ UNCHANGED <<user, faults, count, revoked>>

SignedOutBy(k) ==
  LET b == call[k].by IN
  /\ Removed(b)
  /\ authed' = [authed EXCEPT ![b] = ~Cleared(k)]

\* Nothing more is to be done about an answer.
Final(k) ==
  \/ call[k].stage = "ok"
  \/ call[k].stage = "refused" /\ ~WorthRefresh(k)

SignedOut(k) ==
  /\ Final(k) /\ call[k].path = "logout" /\ call[k].by # NoBrowser
  /\ SignedOutBy(k)
  /\ call' = [call EXCEPT ![k] = FreeCall]
  /\ UNCHANGED <<user, faults, history>>

\* Any other answer only shows on its page; nobody sees that of an abandoned call.
Shown(k) ==
  /\ \/ Final(k) /\ call[k].path = "query"
     \/ Final(k) /\ call[k].path = "login" /\ call[k].stage = "refused"
     \/ call[k].by = NoBrowser /\ call[k].stage \in {"ok", "refused", "denied", "renewed"}
  /\ call' = [call EXCEPT ![k] = FreeCall]
  /\ UNCHANGED <<user, browser, faults, history>>

-----------------------------------------------------------------------------
(* What else happens.                                                      *)

\* Fifteen minutes pass since the tokens were issued; seven days.
Expire(b) ==
  /\ tokens[b] \in {"valid", "expired"}
  /\ tokens' = [tokens EXCEPT ![b] = IF tokens[b] = "valid" THEN "expired" ELSE "dead"]
  /\ UNCHANGED <<user, authed, call, faults, history>>

Unlock ==
  /\ locked
  /\ locked' = FALSE
  /\ tried' = 0
  /\ UNCHANGED <<attempts, hash, browser, call, faults, wrong, revoked, thrown>>

\* What the user does elsewhere is seen here in the stored hash only: another browser
\* signs in or refreshes, another client of the API logs out.
Elsewhere ==
  /\ hash' = ~hash
  /\ revoked' = IF hash THEN Browsers ELSE revoked
  /\ UNCHANGED <<attempts, locked, browser, call, faults, count, thrown>>

\* A request, a call of its handler or its answer is lost.  A refresh that
\* fails counts as denied; a logout goes on as if it had been answered.
CallFails(k) ==
  /\ faults < MaxFaults /\ faults' = faults + 1
  /\ call[k].stage # "free" /\ call[k].by # NoBrowser
  /\ \/ /\ call[k].stage \in {"refresh", "matched", "renewed"}
        /\ Goes(k, "denied")
        /\ UNCHANGED browser
     \/ /\ call[k].stage \in {"sent", "compared", "reset", "ok", "refused"}
        /\ call' = [call EXCEPT ![k] = FreeCall]
        /\ IF call[k].path = "logout" THEN SignedOutBy(k) ELSE UNCHANGED browser
  /\ UNCHANGED <<user, history>>

-----------------------------------------------------------------------------
HandlerStep(k) ==
  \/ LoginRead(k) \/ LoginWrong(k) \/ LoginRight(k) \/ LoginStore(k)
  \/ Admit(k) \/ RefuseEmpty(k)
  \/ RefreshRead(k) \/ RefreshStore(k)

ClientStep(k) ==
  \/ AskRefresh(k) \/ Again(k) \/ ThrowOut(k)
  \/ SignedIn(k) \/ SignedOut(k) \/ Shown(k)

Next ==
  \/ \E b \in Browsers, k \in Calls : Submit(b, k) \/ SignOut(b, k) \/ Query(b, k)
  \/ \E k \in Calls : HandlerStep(k) \/ ClientStep(k) \/ CallFails(k)
  \/ \E b \in Browsers : Expire(b)
  \/ Unlock \/ Elsewhere

\* The event loops of both sides go on with what is answered.
Fairness == \A k \in Calls : WF_vars(HandlerStep(k) \/ ClientStep(k))

Spec     == Init /\ [][Next]_vars
FairSpec == Spec /\ Fairness

-----------------------------------------------------------------------------
(* Properties.                                                             *)

\* Logins that overlap read and write the same count, so some failures are not
\* counted; but none is counted twice, and no account is locked for fewer than LockAt.
LockedForCause == attempts <= wrong /\ (locked => wrong >= LockAt)

\* Once an account is locked, only handlers that had read the row before can still
\* compare a password: fewer than may be under way at once.
TriedWhileLocked == locked => tried < Cardinality(Calls)

\* A refresh token that a browser holds and that is not too old is refused only
\* after a logout that reached the server since it signed in, or when something failed:
\* never because several browsers, or several requests of one, refresh at once.
NotThrownOut ==
  [][\A k \in Calls :
       (call[k].stage \in {"refresh", "matched"} /\ call'[k].stage = "denied" /\ faults' = faults)
         => call[k].by \in revoked \union {NoBrowser}]_vars

\* A browser whose store says authenticated has tokens, unless a refresh failed.
SignedInWithTokens ==
  \A b \in Browsers : (authed[b] /\ tokens[b] = "none") => b \in thrown

\* Every request is answered in the end: one that is refused is refreshed and
\* sent again once, and not for ever.
CallsEnd == \A k \in Calls : []<>(call[k].stage = "free")
=============================================================================
