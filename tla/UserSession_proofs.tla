-------------------------- MODULE UserSession_proofs --------------------------
(***************************************************************************)
(* Proofs about signing in, for any number of browsers, of requests under  *)
(* way, of failed logins that lock the account and of failures.            *)
(***************************************************************************)
EXTENDS UserSession, FiniteSetTheorems, TLAPS

-----------------------------------------------------------------------------
(* The inductive invariant.                                                *)

CallType == [stage: Stages, by: Browsers \union {NoBrowser}, path: Paths, bearer: Bearers,
             right: BOOLEAN, seen: 0..LockAt]

\* Handlers that compare a password with the row they have read.
Compared == {k \in Calls : call[k].stage = "compared"}

\* No handler has read more failures than there were.
CountSense ==
  /\ LockedForCause
  /\ \A k \in Compared : call[k].seen <= wrong

\* Who compares while the account is locked had read it before: with those who have
\* done so they are fewer than the calls, as the one that locked it is not one of them.
LockSense == locked => tried + Cardinality(Compared) < Cardinality(Calls)

\* A call that holds a refresh token which the store has known.
Signing(c) == c.stage \in {"refresh", "matched", "renewed"} \/ (c.stage = "ok" /\ c.path = "login")

\* Without a hash nobody holds a token, except those whose session a logout has ended.
HashSense ==
  ~hash => \A b \in Browsers \ revoked :
             tokens[b] = "none" /\ \A k \in Calls : call[k].by = b => ~Signing(call[k])

IInv == TypeOK /\ CountSense /\ LockSense /\ HashSense /\ SignedInWithTokens

-----------------------------------------------------------------------------
(* What the steps do to a call.                                            *)

\* A free call is a call.
LEMMA FreeType == FreeCall \in CallType /\ FreeCall.stage = "free" /\ ~Signing(FreeCall)
BY NumberAssumption DEF FreeCall, Call, CallType, Stages, Paths, Bearers, Signing

\* A call comes to its next stage and is otherwise as it was.
LEMMA GoesOn ==
  ASSUME call \in [Calls -> CallType], NEW k \in Calls, NEW stage \in Stages, Goes(k, stage)
  PROVE  /\ call' \in [Calls -> CallType]
         /\ \A o \in Calls \ {k} : call'[o] = call[o]
         /\ call'[k].stage = stage /\ call'[k].by = call[k].by /\ call'[k].path = call[k].path
BY DEF Goes, CallType

\* A call has its answer: only whose it is, and its path, still matter.
LEMMA AnsweredIs ==
  ASSUME call \in [Calls -> CallType], NEW k \in Calls, NEW stage \in Stages, Answered(k, stage)
  PROVE  /\ call' \in [Calls -> CallType]
         /\ \A o \in Calls \ {k} : call'[o] = call[o]
         /\ call'[k].stage = stage /\ call'[k].by = call[k].by /\ call'[k].path = call[k].path
<1> DEFINE c == Call(stage, call[k].by, call[k].path, "none", FALSE)
<1>1. call' = [call EXCEPT ![k] = c]
  BY DEF Answered
<1>2. call[k].by \in Browsers \union {NoBrowser} /\ call[k].path \in Paths
  BY DEF CallType
<1>3. c \in CallType /\ c.stage = stage /\ c.by = call[k].by /\ c.path = call[k].path
  BY <1>2, NumberAssumption DEF Call, CallType, Bearers
<1> HIDE DEF c
<1> QED BY <1>1, <1>3

\* A request is sent.
LEMMA Requested ==
  ASSUME call \in [Calls -> CallType], NEW k \in Calls, NEW b \in Browsers, NEW path \in Paths,
         NEW right \in BOOLEAN, tokens[b] \in Tokens, Request(k, b, path, right)
  PROVE  /\ call' \in [Calls -> CallType]
         /\ \A o \in Calls \ {k} : call'[o] = call[o]
         /\ call'[k].stage = "sent"
<1> DEFINE c == Call("sent", b, path, Bearer(tokens[b]), right)
<1>1. call' = [call EXCEPT ![k] = c]
  BY DEF Request
<1>2. Bearer(tokens[b]) \in Bearers
  BY DEF Bearer, Bearers, Tokens
<1>3. c \in CallType /\ c.stage = "sent"
  BY <1>2, NumberAssumption DEF Call, CallType, Stages
<1> HIDE DEF c
<1> QED BY <1>1, <1>3

\* How many compare, and how many there can be.
LEMMA ComparedCount ==
  /\ IsFiniteSet(Compared) /\ Cardinality(Compared) \in Nat /\ Cardinality(Calls) \in Nat
  /\ Cardinality(Compared) <= Cardinality(Calls)
BY CallAssumption, FS_Subset, FS_CardinalityType DEF Compared

-----------------------------------------------------------------------------
(* What a step leaves alone.                                               *)

\* Nobody but a handler of a login counts, locks or reads the row.
CountsAlone ==
  /\ UNCHANGED <<attempts, locked, wrong, tried>>
  /\ \A k \in Calls : call'[k].stage = "compared" => call[k].stage = "compared" /\ call'[k].seen = call[k].seen

LEMMA CountKeeps ==
  ASSUME IInv, CountsAlone
  PROVE  CountSense' /\ LockSense'
<1> USE DEF IInv, CountsAlone
<1>1. CountSense'
  BY DEF CountSense, LockedForCause, Compared
<1>2. Compared' \subseteq Compared /\ Cardinality(Compared') <= Cardinality(Compared)
      /\ Cardinality(Compared') \in Nat
  <2>1. Compared' \subseteq Compared
    BY DEF Compared
  <2> QED BY <2>1, ComparedCount, FS_Subset, FS_CardinalityType
<1>3. LockSense'
  BY <1>2, ComparedCount DEF LockSense, TypeOK
<1> QED BY <1>1, <1>3

\* Tokens and hash stay as they are, and no call gets hold of a token.
TokensAlone ==
  /\ UNCHANGED <<hash, browser, revoked, thrown>>
  /\ \A k \in Calls : Signing(call'[k]) => Signing(call[k]) /\ call'[k].by = call[k].by

LEMMA TokenKeeps ==
  ASSUME IInv, TokensAlone
  PROVE  HashSense' /\ SignedInWithTokens'
BY DEF IInv, TokensAlone, HashSense, SignedInWithTokens, browser

\* A refresh is denied at its beginning.
DeniedFirst == \A k \in Calls : call'[k].stage = "denied" => call[k].stage \in {"refused", "denied"}
NotThrown ==
  \A k \in Calls :
    (call[k].stage \in {"refresh", "matched"} /\ call'[k].stage = "denied" /\ faults' = faults)
      => call[k].by \in revoked \union {NoBrowser}

-----------------------------------------------------------------------------
(* Initially, and through every step.                                      *)

\* The initial state satisfies the invariant.
LEMMA InitIInv == Init => IInv
<1> SUFFICES ASSUME Init PROVE IInv
  OBVIOUS
<1> USE DEF Init
<1>1. Compared = {} /\ \A k \in Calls : call[k] = FreeCall
  BY FreeType DEF Compared
<1>2. TypeOK
  <2>1. call \in [Calls -> CallType]
    BY FreeType
  <2>2. 0 \in 0..LockAt /\ 0 \in 0..MaxFaults /\ 0 \in 0..Cardinality(Calls)
    BY NumberAssumption, ComparedCount
  <2> QED BY <2>1, <2>2 DEF TypeOK, CallType, Tokens
<1>3. CountSense /\ LockSense
  BY <1>1, NumberAssumption DEF CountSense, LockSense, LockedForCause
<1>4. HashSense
  BY <1>1, FreeType DEF HashSense
<1>5. SignedInWithTokens
  BY DEF SignedInWithTokens
<1> QED BY <1>2, <1>3, <1>4, <1>5 DEF IInv

\* A page sends a request.
LEMMA RequestKeeps ==
  ASSUME IInv, NEW b \in Browsers, NEW k \in Calls, Submit(b, k) \/ SignOut(b, k) \/ Query(b, k)
  PROVE  IInv' /\ NotThrown
<1>1. call \in [Calls -> CallType] /\ tokens[b] \in Tokens
  BY DEF IInv, TypeOK, CallType
<1>2. PICK path \in Paths, right \in BOOLEAN : Request(k, b, path, right)
  BY DEF Submit, SignOut, Query, Paths
<1>3. /\ call' \in [Calls -> CallType]
      /\ \A o \in Calls \ {k} : call'[o] = call[o]
      /\ call'[k].stage = "sent"
  BY <1>1, <1>2, Requested
<1>4. UNCHANGED <<user, browser, faults, history>>
  BY DEF Submit, SignOut, Query
<1>5. TypeOK'
  BY <1>3, <1>4 DEF IInv, TypeOK, CallType, user, browser, history, count
<1>6. CountsAlone /\ TokensAlone /\ NotThrown
  BY <1>3, <1>4 DEF CountsAlone, TokensAlone, NotThrown, Signing, user, history, count
<1> QED BY <1>5, <1>6, CountKeeps, TokenKeeps DEF IInv

\* A handler of a login reads the row, unless it is locked.
LEMMA ReadKeeps ==
  ASSUME IInv, NEW k \in Calls, LoginRead(k)
  PROVE  IInv' /\ NotThrown
<1>1. call \in [Calls -> CallType] /\ attempts \in 0..LockAt /\ call[k].stage = "sent"
  BY DEF IInv, TypeOK, CallType, LoginRead, IsLogin
<1>2. UNCHANGED <<user, browser, faults, history>>
  BY DEF LoginRead
<1>3. /\ call' \in [Calls -> CallType]
      /\ \A o \in Calls \ {k} : call'[o] = call[o]
      /\ \/ call'[k].stage = "refused"
         \/ ~locked /\ call'[k].stage = "compared" /\ call'[k].seen = attempts
  <2>1. CASE locked
    BY <1>1, <2>1, GoesOn DEF LoginRead, IsLocked, Stages
  <2>2. CASE ~locked
    BY <1>1, <2>2 DEF LoginRead, IsLocked, CallType, Stages
  <2> QED BY <2>1, <2>2
<1>4. TypeOK'
  BY <1>2, <1>3 DEF IInv, TypeOK, CallType, user, browser, history, count
<1>5. TokensAlone /\ NotThrown
  BY <1>1, <1>2, <1>3 DEF TokensAlone, NotThrown, Signing, user, history
<1>6. CountSense' /\ LockSense'
  <2>1. CASE call'[k].stage = "refused"
    <3>1. CountsAlone
      BY <1>2, <1>3, <2>1 DEF CountsAlone, user, history, count
    <3> QED BY <3>1, CountKeeps
  <2>2. CASE ~locked /\ call'[k].stage = "compared" /\ call'[k].seen = attempts
    <3>1. UNCHANGED <<attempts, locked, wrong>>
      BY <1>2 DEF user, history, count
    <3> QED BY <1>3, <2>2, <3>1 DEF IInv, CountSense, LockedForCause, LockSense, Compared
  <2> QED BY <1>3, <2>1, <2>2
<1> QED BY <1>4, <1>5, <1>6, TokenKeeps DEF IInv

\* A wrong password.
LEMMA WrongKeeps ==
  ASSUME IInv, NEW k \in Calls, LoginWrong(k)
  PROVE  IInv' /\ NotThrown
<1> DEFINE n == OneMore(call[k].seen, LockAt)
<1> USE NumberAssumption
<1>1. /\ call \in [Calls -> CallType] /\ call[k].stage = "compared" /\ call[k].seen \in 0..LockAt
      /\ call[k].seen <= wrong /\ wrong \in 0..LockAt /\ locked \in BOOLEAN
      /\ tried \in 0..Cardinality(Calls)
  BY DEF IInv, TypeOK, CallType, LoginWrong, CountSense, Compared
<1>2. /\ attempts' = n /\ (locked' <=> n >= LockAt) /\ locked' \in BOOLEAN
      /\ wrong' = OneMore(wrong, LockAt)
      /\ tried' = (IF locked THEN OneMore(tried, Cardinality(Calls)) ELSE 0)
      /\ UNCHANGED <<hash, browser, faults, revoked, thrown>>
  <2>1. /\ attempts' = n /\ locked' = (n >= LockAt)
        /\ wrong' = OneMore(wrong, LockAt)
        /\ tried' = (IF locked THEN OneMore(tried, Cardinality(Calls)) ELSE 0)
        /\ UNCHANGED <<hash, browser, faults, revoked, thrown>>
    BY DEF LoginWrong, Locks
  <2>2. n \in Nat
    BY <1>1 DEF OneMore
  <2> HIDE DEF n
  <2>3. (n >= LockAt) \in BOOLEAN
    BY <2>2
  <2>4. (locked' <=> n >= LockAt) /\ locked' \in BOOLEAN
    BY ONLY <2>1, <2>3
  <2> QED BY <2>1, <2>4
<1>3. /\ call' \in [Calls -> CallType]
      /\ \A o \in Calls \ {k} : call'[o] = call[o]
      /\ call'[k].stage = "refused"
  <2>1. call' = [call EXCEPT ![k].stage = "refused", ![k].seen = 0]
    BY DEF LoginWrong
  <2>2. 0 \in 0..LockAt /\ "refused" \in Stages
    BY DEF Stages
  <2> QED BY <1>1, <2>1, <2>2 DEF CallType
<1>4. /\ n \in 0..LockAt /\ n <= wrong' /\ wrong' \in 0..LockAt /\ wrong <= wrong'
      /\ n >= LockAt => wrong' >= LockAt
  BY <1>1, <1>2 DEF OneMore
<1>5. /\ Compared' = Compared \ {k} /\ k \in Compared
      /\ Cardinality(Compared') = Cardinality(Compared) - 1
  <2>1. Compared' = Compared \ {k} /\ k \in Compared
    BY <1>1, <1>3 DEF Compared
  <2> QED BY <2>1, ComparedCount, FS_RemoveElement
<1>6. tried' \in 0..Cardinality(Calls)
  BY <1>1, <1>2, ComparedCount DEF OneMore
<1>7. TypeOK'
  BY <1>2, <1>3, <1>4, <1>6 DEF IInv, TypeOK, CallType, browser
<1>8. CountSense'
  BY <1>1, <1>2, <1>3, <1>4, <1>5 DEF IInv, CountSense, LockedForCause, Compared, CallType
<1>9. LockSense'
  <2>1. CASE locked
    <3>1. tried + Cardinality(Compared) < Cardinality(Calls)
      BY <2>1 DEF IInv, LockSense
    <3>2. tried' <= tried + 1
      BY <1>1, <1>2, <2>1, ComparedCount DEF OneMore
    <3> QED BY <1>1, <1>5, <1>6, <3>1, <3>2, ComparedCount DEF LockSense
  <2>2. CASE ~locked
    BY <1>2, <1>5, <2>2, ComparedCount DEF LockSense
  <2> QED BY <2>1, <2>2
<1>10. TokensAlone /\ NotThrown
  BY <1>1, <1>2, <1>3 DEF TokensAlone, NotThrown, Signing
<1> QED BY <1>7, <1>8, <1>9, <1>10, TokenKeeps DEF IInv

\* A right one.
LEMMA RightKeeps ==
  ASSUME IInv, NEW k \in Calls, LoginRight(k)
  PROVE  IInv' /\ NotThrown
<1> USE NumberAssumption
<1>1. /\ call \in [Calls -> CallType] /\ call[k].stage = "compared"
  BY DEF IInv, TypeOK, CallType, LoginRight
<1>2. /\ attempts' = 0 /\ locked' = FALSE /\ tried' = 0
      /\ UNCHANGED <<hash, browser, faults, wrong, revoked, thrown>>
  BY DEF LoginRight
<1>3. /\ call' \in [Calls -> CallType]
      /\ \A o \in Calls \ {k} : call'[o] = call[o]
      /\ call'[k].stage = "reset"
  <2>1. call' = [call EXCEPT ![k].stage = "reset", ![k].seen = 0]
    BY DEF LoginRight
  <2>2. 0 \in 0..LockAt /\ "reset" \in Stages
    BY DEF Stages
  <2> QED BY <1>1, <2>1, <2>2 DEF CallType
<1>4. TypeOK'
  <2>1. 0 \in 0..LockAt /\ 0 \in 0..Cardinality(Calls)
    BY ComparedCount
  <2>2. attempts' \in 0..LockAt /\ locked' \in BOOLEAN /\ tried' \in 0..Cardinality(Calls)
    BY <1>2, <2>1
  <2> QED BY <1>2, <1>3, <2>2 DEF IInv, TypeOK, CallType, browser
<1>5. CountSense'
  BY <1>2, <1>3 DEF IInv, TypeOK, CountSense, LockedForCause, Compared
<1>6. LockSense'
  BY <1>2 DEF LockSense
<1>7. TokensAlone /\ NotThrown
  BY <1>1, <1>2, <1>3 DEF TokensAlone, NotThrown, Signing
<1> QED BY <1>4, <1>5, <1>6, <1>7, TokenKeeps DEF IInv

\* A new token's hash is stored.
LEMMA StoreKeeps ==
  ASSUME IInv, NEW k \in Calls, LoginStore(k) \/ RefreshStore(k)
  PROVE  IInv' /\ NotThrown
<1>1. call \in [Calls -> CallType] /\ call[k].stage \in {"reset", "matched"}
  BY DEF IInv, TypeOK, CallType, LoginStore, RefreshStore
<1>2. /\ UNCHANGED <<attempts, locked, browser, faults, count, thrown>>
      /\ hash' = TRUE /\ revoked' \subseteq revoked
  BY DEF LoginStore, RefreshStore, Stored, history
<1>3. /\ call' \in [Calls -> CallType]
      /\ \A o \in Calls \ {k} : call'[o] = call[o]
      /\ call'[k].stage \in {"ok", "renewed"}
  BY <1>1, GoesOn, AnsweredIs DEF LoginStore, RefreshStore, Stages
<1>4. TypeOK'
  BY <1>2, <1>3 DEF IInv, TypeOK, CallType, browser, count
<1>5. CountsAlone /\ NotThrown
  BY <1>2, <1>3 DEF CountsAlone, NotThrown, count
<1>6. HashSense' /\ SignedInWithTokens'
  BY <1>2 DEF IInv, HashSense, SignedInWithTokens, browser
<1> QED BY <1>4, <1>5, <1>6, CountKeeps DEF IInv

\* A request of a page is answered or refused.
LEMMA AdmitKeeps ==
  ASSUME IInv, NEW k \in Calls, Admit(k) \/ RefuseEmpty(k)
  PROVE  IInv' /\ NotThrown
<1>1. call \in [Calls -> CallType] /\ call[k].stage = "sent" /\ call[k].path # "login"
  BY DEF IInv, TypeOK, CallType, Admit, RefuseEmpty
<1>2. UNCHANGED <<user, browser, faults, history>>
  BY DEF Admit, RefuseEmpty
<1>3. /\ call' \in [Calls -> CallType]
      /\ \A o \in Calls \ {k} : call'[o] = call[o]
      /\ call'[k].stage \in {"refused", "ok"} /\ call'[k].path = call[k].path
  BY <1>1, GoesOn, AnsweredIs DEF Admit, RefuseEmpty, Stages
<1>4. TypeOK'
  BY <1>2, <1>3 DEF IInv, TypeOK, CallType, user, browser, history, count
<1>5. CountsAlone /\ TokensAlone /\ NotThrown
  BY <1>1, <1>2, <1>3 DEF CountsAlone, TokensAlone, NotThrown, Signing, user, history, count
<1> QED BY <1>4, <1>5, CountKeeps, TokenKeeps DEF IInv

\* A page that gets a 401 asks for a refresh, if it has a token to ask with.
LEMMA AskKeeps ==
  ASSUME IInv, NEW k \in Calls, AskRefresh(k)
  PROVE  IInv' /\ NotThrown
<1>1. call \in [Calls -> CallType] /\ call[k].stage = "refused" /\ call[k].by # NoBrowser
  BY DEF IInv, TypeOK, CallType, AskRefresh
<1>2. UNCHANGED <<user, browser, faults, history>>
  BY DEF AskRefresh
<1>3. /\ call' \in [Calls -> CallType]
      /\ \A o \in Calls \ {k} : call'[o] = call[o]
      /\ call'[k].by = call[k].by
      /\ \/ call'[k].stage = "refresh" /\ tokens[call[k].by] # "none"
         \/ call'[k].stage = "denied"
  BY <1>1, GoesOn DEF AskRefresh, Stages
<1>4. TypeOK'
  BY <1>2, <1>3 DEF IInv, TypeOK, CallType, user, browser, history, count
<1>5. CountsAlone /\ NotThrown
  BY <1>1, <1>2, <1>3 DEF CountsAlone, NotThrown, user, history, count
<1>6. HashSense' /\ SignedInWithTokens'
  BY <1>2, <1>3 DEF IInv, HashSense, SignedInWithTokens, Signing, user, browser, history
<1> QED BY <1>4, <1>5, <1>6, CountKeeps DEF IInv

\* A token is refused only where there is no hash.
LEMMA MatchKeeps ==
  ASSUME IInv, NEW k \in Calls, RefreshRead(k)
  PROVE  IInv' /\ NotThrown
<1>1. call \in [Calls -> CallType] /\ call[k].stage = "refresh" /\ call[k].by \in Browsers \union {NoBrowser}
  BY DEF IInv, TypeOK, CallType, RefreshRead
<1>2. UNCHANGED <<user, browser, faults, history>>
  BY DEF RefreshRead, AfterMatch, user
<1>3. /\ call' \in [Calls -> CallType]
      /\ \A o \in Calls \ {k} : call'[o] = call[o]
      /\ call'[k].by = call[k].by
      /\ \/ call'[k].stage = "matched"
         \/ call'[k].stage = "denied" /\ ~hash
  BY <1>1, GoesOn DEF RefreshRead, Stages
<1>4. TypeOK'
  BY <1>2, <1>3 DEF IInv, TypeOK, CallType, user, browser, history, count
<1>5. CountsAlone /\ TokensAlone
  BY <1>1, <1>2, <1>3 DEF CountsAlone, TokensAlone, Signing, user, history, count
<1>6. NotThrown
  BY <1>1, <1>3 DEF NotThrown, IInv, HashSense, Signing
<1> QED BY <1>4, <1>5, <1>6, CountKeeps, TokenKeeps DEF IInv

\* The tokens are renewed, and the request is sent again.
LEMMA AgainKeeps ==
  ASSUME IInv, NEW k \in Calls, Again(k)
  PROVE  IInv' /\ NotThrown
<1> DEFINE b == call[k].by
<1>1. call \in [Calls -> CallType] /\ call[k].stage = "renewed" /\ b \in Browsers
  BY DEF IInv, TypeOK, CallType, Again
<1>2. UNCHANGED <<user, authed, faults, history>> /\ tokens' = [tokens EXCEPT ![b] = "valid"]
  BY DEF Again
<1>3. /\ call' \in [Calls -> CallType]
      /\ \A o \in Calls \ {k} : call'[o] = call[o]
      /\ call'[k].stage = "sent"
  <2>1. call' = [call EXCEPT ![k].stage = "sent", ![k].bearer = "renewed"]
    BY DEF Again
  <2>2. "sent" \in Stages /\ "renewed" \in Bearers
    BY DEF Stages, Bearers
  <2> QED BY <1>1, <2>1, <2>2 DEF CallType
<1>4. TypeOK'
  BY <1>1, <1>2, <1>3 DEF IInv, TypeOK, CallType, user, history, count, Tokens
<1>5. CountsAlone /\ NotThrown
  BY <1>2, <1>3 DEF CountsAlone, NotThrown, user, history, count
<1>6. ~hash => b \in revoked
  BY <1>1 DEF IInv, HashSense, Signing
<1>7. HashSense' /\ SignedInWithTokens'
  BY <1>1, <1>2, <1>3, <1>6 DEF IInv, TypeOK, HashSense, SignedInWithTokens, Signing, user, history
<1> QED BY <1>4, <1>5, <1>7, CountKeeps DEF IInv

\* A failed refresh ends whatever the page was waiting for.
LEMMA ThrowOutKeeps ==
  ASSUME IInv, NEW k \in Calls, ThrowOut(k)
  PROVE  IInv' /\ NotThrown
<1> DEFINE b == call[k].by
<1>1. call \in [Calls -> CallType] /\ call[k].stage = "denied" /\ b \in Browsers
  BY DEF IInv, TypeOK, CallType, ThrowOut
<1>2. /\ UNCHANGED <<user, authed, faults, count, revoked>> /\ tokens' = [tokens EXCEPT ![b] = "none"]
      /\ thrown' = thrown \union {b}
  BY DEF ThrowOut, Removed
<1>3. ASSUME NEW o \in Calls
      PROVE  /\ call'[o] \in CallType
             /\ call'[o] = call[o] \/ call'[o] = FreeCall
                  \/ (/\ call'[o].stage = call[o].stage /\ call'[o].seen = call[o].seen
                      /\ call'[o].by = NoBrowser /\ call[o].stage # "denied")
  <2>1. call'[o] = IF o = k THEN FreeCall ELSE IF call[o].by = b THEN Abandoned(o) ELSE call[o]
    BY DEF ThrowOut
  <2>2. Abandoned(o) = FreeCall \/ (Abandoned(o) = [call[o] EXCEPT !.by = NoBrowser] /\ call[o].stage # "denied")
    BY DEF Abandoned
  <2> QED BY <1>1, <2>1, <2>2, FreeType DEF CallType
<1>4. call' \in [Calls -> CallType]
  <2>1. call' = [o \in Calls |-> call'[o]]
    BY DEF ThrowOut
  <2> QED BY <1>3, <2>1
<1>5. TypeOK'
  BY <1>1, <1>2, <1>4 DEF IInv, TypeOK, CallType, user, count, Tokens
<1>6. CountsAlone /\ NotThrown
  BY <1>2, <1>3, FreeType DEF CountsAlone, NotThrown, user, count
<1>7. HashSense'
  BY <1>1, <1>2, <1>3, FreeType, BrowserAssumption DEF IInv, TypeOK, HashSense, Signing, user, FreeCall, Call
<1>8. SignedInWithTokens'
  BY <1>1, <1>2 DEF IInv, TypeOK, SignedInWithTokens
<1> QED BY <1>5, <1>6, <1>7, <1>8, CountKeeps DEF IInv

\* A login succeeds.
LEMMA SignedInKeeps ==
  ASSUME IInv, NEW k \in Calls, SignedIn(k)
  PROVE  IInv' /\ NotThrown
<1> DEFINE b == call[k].by
<1>1. call \in [Calls -> CallType] /\ call[k].stage = "ok" /\ call[k].path = "login" /\ b \in Browsers
  BY DEF IInv, TypeOK, CallType, SignedIn
<1>2. /\ UNCHANGED <<user, faults, count, revoked>> /\ tokens' = [tokens EXCEPT ![b] = "valid"]
      /\ authed' = [authed EXCEPT ![b] = TRUE] /\ thrown' = thrown \ {b}
      /\ call' = [call EXCEPT ![k] = FreeCall]
  BY DEF SignedIn
<1>3. TypeOK'
  BY <1>1, <1>2, FreeType DEF IInv, TypeOK, CallType, user, count, Tokens
<1>4. CountsAlone /\ NotThrown
  BY <1>1, <1>2, FreeType DEF CountsAlone, NotThrown, user, count
<1>5. ~hash => b \in revoked
  BY <1>1 DEF IInv, HashSense, Signing
<1>6. HashSense'
  BY <1>1, <1>2, <1>5, FreeType DEF IInv, TypeOK, HashSense, user
<1>7. SignedInWithTokens'
  BY <1>1, <1>2 DEF IInv, TypeOK, SignedInWithTokens
<1> QED BY <1>3, <1>4, <1>6, <1>7, CountKeeps DEF IInv

\* A logout, answered or not, clears tokens and store.
LEMMA ClearedKeeps ==
  ASSUME IInv, NEW k \in Calls, call[k].by # NoBrowser,
         SignedOutBy(k), call' = [call EXCEPT ![k] = FreeCall],
         UNCHANGED <<user, history>>, faults' \in 0..MaxFaults
  PROVE  IInv' /\ NotThrown
<1> DEFINE b == call[k].by
<1>1. call \in [Calls -> CallType] /\ b \in Browsers
  BY DEF IInv, TypeOK, CallType
<1>2. tokens' = [tokens EXCEPT ![b] = "none"] /\ authed' = [authed EXCEPT ![b] = FALSE]
  BY DEF SignedOutBy, Removed, Cleared
<1>3. TypeOK'
  BY <1>1, <1>2, FreeType DEF IInv, TypeOK, CallType, user, history, count, Tokens
<1>4. CountsAlone /\ NotThrown
  BY <1>1, FreeType DEF CountsAlone, NotThrown, user, history, count
<1>5. HashSense'
  BY <1>1, <1>2, FreeType DEF IInv, TypeOK, HashSense, user, history
<1>6. SignedInWithTokens'
  BY <1>1, <1>2 DEF IInv, TypeOK, SignedInWithTokens, history
<1> QED BY <1>3, <1>4, <1>5, <1>6, CountKeeps DEF IInv

\* An answer that changes nothing, or nobody waits for; a call that is lost.
LEMMA FreedKeeps ==
  ASSUME IInv, NEW k \in Calls, NEW c \in {FreeCall, [call[k] EXCEPT !.stage = "denied"]},
         call' = [call EXCEPT ![k] = c],
         c # FreeCall => faults' # faults,
         UNCHANGED <<user, browser, history>>, faults' \in 0..MaxFaults
  PROVE  IInv' /\ NotThrown
<1>1. call \in [Calls -> CallType]
  BY DEF IInv, TypeOK, CallType
<1>2. c \in CallType /\ c.stage \in {"free", "denied"} /\ (c.stage = "denied" => faults' # faults)
  BY <1>1, FreeType DEF CallType, Stages
<1>3. TypeOK'
  BY <1>1, <1>2 DEF IInv, TypeOK, CallType, user, browser, history, count
<1>4. CountsAlone /\ TokensAlone /\ NotThrown
  BY <1>1, <1>2 DEF CountsAlone, TokensAlone, NotThrown, Signing, user, history, count
<1> QED BY <1>3, <1>4, CountKeeps, TokenKeeps DEF IInv

LEMMA FailsKeeps ==
  ASSUME IInv, NEW k \in Calls, CallFails(k)
  PROVE  IInv' /\ NotThrown
<1>1. faults' \in 0..MaxFaults /\ faults' # faults /\ UNCHANGED <<user, history>> /\ call[k].by # NoBrowser
  BY NumberAssumption DEF CallFails, IInv, TypeOK
<1>2. CASE Goes(k, "denied") /\ UNCHANGED browser
  <2>1. call' = [call EXCEPT ![k] = [call[k] EXCEPT !.stage = "denied"]]
    BY <1>2 DEF Goes
  <2> QED BY <1>1, <1>2, <2>1, FreedKeeps
<1>3. CASE call' = [call EXCEPT ![k] = FreeCall] /\ UNCHANGED browser
  BY <1>1, <1>3, FreedKeeps
<1>4. CASE call' = [call EXCEPT ![k] = FreeCall] /\ SignedOutBy(k)
  BY <1>1, <1>4, ClearedKeeps
<1> QED BY <1>2, <1>3, <1>4 DEF CallFails

\* Time passes, and other browsers sign in and out.
LEMMA WorldKeeps ==
  ASSUME IInv, Unlock \/ Elsewhere \/ \E b \in Browsers : Expire(b)
  PROVE  IInv' /\ NotThrown
<1> USE DEF IInv
<1>1. UNCHANGED <<attempts, authed, call, faults, wrong, thrown>>
  BY DEF Unlock, Elsewhere, Expire, user, browser, history, count
<1>2. NotThrown
  BY <1>1 DEF NotThrown
<1>3. CASE Unlock
  <2>1. locked' = FALSE /\ tried' = 0 /\ UNCHANGED <<hash, browser, revoked, thrown>>
    BY <1>3 DEF Unlock
  <2>2. TypeOK'
    <3>1. 0 \in 0..Cardinality(Calls)
      BY ComparedCount
    <3> QED BY <1>1, <2>1, <3>1 DEF TypeOK, browser
  <2>3. CountSense' /\ LockSense'
    BY <1>1, <2>1 DEF CountSense, LockedForCause, LockSense, Compared
  <2>4. TokensAlone
    BY <1>1, <2>1 DEF TokensAlone
  <2> QED BY <1>2, <2>2, <2>3, <2>4, TokenKeeps
<1>4. CASE Elsewhere
  <2>1. /\ UNCHANGED <<locked, tried, tokens>> /\ hash' = ~hash
        /\ revoked' = IF hash THEN Browsers ELSE revoked
    BY <1>4 DEF Elsewhere, browser, count
  <2>2. TypeOK'
    BY <1>1, <2>1 DEF TypeOK
  <2>3. CountsAlone
    BY <1>1, <2>1 DEF CountsAlone
  <2>4. HashSense' /\ SignedInWithTokens'
    BY <1>1, <2>1 DEF HashSense, SignedInWithTokens
  <2> QED BY <1>2, <2>2, <2>3, <2>4, CountKeeps
<1>5. ASSUME NEW b \in Browsers, Expire(b) PROVE IInv' /\ NotThrown
  <2>1. /\ UNCHANGED <<locked, tried, hash, revoked>> /\ tokens' \in [Browsers -> Tokens]
        /\ \A o \in Browsers : tokens'[o] = "none" <=> tokens[o] = "none"
    BY <1>5 DEF Expire, user, history, count, TypeOK, Tokens
  <2>2. TypeOK'
    BY <1>1, <2>1 DEF TypeOK
  <2>3. CountsAlone
    BY <1>1, <2>1 DEF CountsAlone
  <2>4. HashSense' /\ SignedInWithTokens'
    BY <1>1, <2>1 DEF HashSense, SignedInWithTokens
  <2> QED BY <1>2, <2>2, <2>3, <2>4, CountKeeps
<1> QED BY <1>3, <1>4, <1>5

-----------------------------------------------------------------------------
(* Theorems.                                                               *)

\* Every step keeps the invariant, and no step throws a browser out for nothing.
LEMMA StepKeeps ==
  ASSUME IInv, Next
  PROVE  IInv' /\ NotThrown
<1>1. CASE \E b \in Browsers, k \in Calls : Submit(b, k) \/ SignOut(b, k) \/ Query(b, k)
  BY <1>1, RequestKeeps
<1>2. ASSUME NEW k \in Calls, HandlerStep(k) PROVE IInv' /\ NotThrown
  BY <1>2, ReadKeeps, WrongKeeps, RightKeeps, StoreKeeps, AdmitKeeps, MatchKeeps DEF HandlerStep
<1>3. ASSUME NEW k \in Calls, ClientStep(k) PROVE IInv' /\ NotThrown
  <2>1. faults \in 0..MaxFaults
    BY DEF IInv, TypeOK
  <2>2. CASE SignedOut(k)
    BY <2>1, <2>2, ClearedKeeps DEF SignedOut
  <2>3. CASE Shown(k)
    BY <2>1, <2>3, FreedKeeps DEF Shown
  <2> QED BY <1>3, <2>2, <2>3, AskKeeps, AgainKeeps, ThrowOutKeeps, SignedInKeeps DEF ClientStep
<1>4. CASE \E k \in Calls : CallFails(k)
  BY <1>4, FailsKeeps
<1>5. CASE Unlock \/ Elsewhere \/ \E b \in Browsers : Expire(b)
  BY <1>5, WorldKeeps
<1> QED BY <1>1, <1>2, <1>3, <1>4, <1>5 DEF Next

LEMMA StutterKeeps ==
  ASSUME IInv, UNCHANGED vars
  PROVE  IInv' /\ NotThrown
<1>1. UNCHANGED <<user, browser, call, faults, history, attempts, locked, hash, tokens, authed,
                  wrong, tried, revoked, thrown>>
  BY DEF vars, user, browser, history, count
<1>2. TypeOK'
  BY <1>1 DEF IInv, TypeOK
<1>3. CountsAlone /\ TokensAlone /\ NotThrown
  BY <1>1 DEF CountsAlone, TokensAlone, NotThrown
<1> QED BY <1>2, <1>3, CountKeeps, TokenKeeps DEF IInv

\* The invariant holds throughout.
THEOREM Inductive == Spec => []IInv
<1>1. IInv /\ [Next]_vars => IInv'
  BY StepKeeps, StutterKeeps
<1> QED BY <1>1, InitIInv, PTL DEF Spec

\* Every variable keeps its type.
THEOREM TypeCorrect == Spec => []TypeOK
BY Inductive, PTL DEF IInv

\* No failed login is counted twice, and none is missing when an account is locked.
THEOREM LocksHaveACause == Spec => []LockedForCause
<1>1. IInv => LockedForCause
  BY DEF IInv, CountSense
<1> QED BY <1>1, Inductive, PTL

\* While an account is locked fewer passwords are compared than calls can be under way.
THEOREM TriesAreFew == Spec => []TriedWhileLocked
<1>1. IInv => TriedWhileLocked
  BY ComparedCount DEF IInv, TypeOK, LockSense, TriedWhileLocked
<1> QED BY <1>1, Inductive, PTL

\* Who is signed in has tokens, or was thrown out.
THEOREM SignedInHasTokens == Spec => []SignedInWithTokens
BY Inductive, PTL DEF IInv

\* However refreshes overlap, only a logout or a failure ends a session.
THEOREM OnlyLogoutThrowsOut == Spec => NotThrownOut
<1>1. IInv /\ [Next]_vars => [NotThrown]_vars
  BY StepKeeps
<1> QED BY <1>1, Inductive, PTL DEF Spec, NotThrownOut, NotThrown

-----------------------------------------------------------------------------
(* A request comes to its end.                                             *)

\* What a request has before it: its stages in this turn, and most of them once more if
\* it may still be refreshed and sent again.
StageRank == [free |-> 0, ok |-> 1, denied |-> 1, renewed |-> 2, matched |-> 3,
              refresh |-> 4, refused |-> 5, reset |-> 6, compared |-> 7, sent |-> 8]
Worth(c) == c.bearer \in {"valid", "expired"}
Rank(c) == StageRank[c.stage] + (IF Worth(c) THEN 7 ELSE 0)

\* Only what was sent with a token from localStorage is refreshed.
Refreshing(c) == c.stage \in {"refresh", "matched", "renewed"}
RefreshSense == \A k \in Calls : Refreshing(call[k]) => Worth(call[k])

\* Every step of a request brings it nearer to its end, and nothing takes it back: what a
\* free call becomes is another request.
RanksFall ==
  \A k \in Calls :
    /\ Rank(call[k]) \in 0..15
    /\ IF HandlerStep(k) \/ ClientStep(k) THEN Rank(call'[k]) < Rank(call[k])
       ELSE call[k].stage # "free" => Rank(call'[k]) <= Rank(call[k])

\* The rank is a number, and only that of a free call is none.
LEMMA RankIsANumber ==
  ASSUME NEW c \in CallType
  PROVE  Rank(c) \in 0..15 /\ Rank(FreeCall) = 0 /\ (c.stage # "free" => Rank(c) > 0)
<1>1. StageRank[c.stage] \in 0..8 /\ (c.stage # "free" => StageRank[c.stage] > 0)
  BY DEF CallType, Stages, StageRank
<1>2. FreeCall.stage = "free" /\ ~Worth(FreeCall) /\ StageRank["free"] = 0
  BY DEF FreeCall, Call, Worth, StageRank
<1> HIDE DEF StageRank
<1> QED BY <1>1, <1>2 DEF Rank

\* One call goes on, to a stage of a lower rank or to be sent again, and the others are
\* as they were, given up, or nobody's.
Moves(k) ==
  /\ Rank(call'[k]) < Rank(call[k])
  /\ \A o \in Calls \ {k} : call'[o] \in {call[o], FreeCall, [call[o] EXCEPT !.by = NoBrowser]}
  /\ Refreshing(call'[k]) => Worth(call'[k])

LEMMA MovesDown ==
  ASSUME TypeOK, TypeOK', NEW k \in Calls,
         \A o \in Calls \ {k} : call'[o] = call[o],
         StageRank[call'[k].stage] < StageRank[call[k].stage],
         call'[k].bearer \in {call[k].bearer, "none"},
         Refreshing(call'[k]) => Worth(call'[k])
  PROVE  Moves(k)
<1>1. StageRank[call[k].stage] \in 0..8 /\ StageRank[call'[k].stage] \in 0..8
  BY DEF TypeOK, Stages, StageRank
<1> QED BY <1>1 DEF Moves, Rank, Worth

\* A call that is given up is free.
LEMMA MovesFree ==
  ASSUME TypeOK, NEW k \in Calls, call[k].stage # "free", call' = [call EXCEPT ![k] = FreeCall]
  PROVE  Moves(k)
<1>1. call[k] \in CallType /\ call'[k] = FreeCall /\ \A o \in Calls \ {k} : call'[o] = call[o]
  BY DEF TypeOK, CallType
<1>2. ~Refreshing(FreeCall)
  BY DEF FreeCall, Call, Refreshing
<1> QED BY <1>1, <1>2, RankIsANumber DEF Moves

\* The handlers bring a request on.
LEMMA HandlerMoves ==
  ASSUME TypeOK, TypeOK', RefreshSense, NEW k \in Calls, HandlerStep(k)
  PROVE  Moves(k)
<1> USE DEF TypeOK, StageRank, Refreshing
<1>1. CASE LoginRead(k)
  BY <1>1, MovesDown DEF LoginRead, IsLogin, Goes
<1>2. CASE LoginWrong(k)
  BY <1>2, MovesDown DEF LoginWrong
<1>3. CASE LoginRight(k)
  BY <1>3, MovesDown DEF LoginRight
<1>4. CASE LoginStore(k)
  BY <1>4, MovesDown DEF LoginStore, Answered, Call
<1>5. CASE Admit(k)
  BY <1>5, MovesDown DEF Admit, Goes, Answered, Call
<1>6. CASE RefuseEmpty(k)
  BY <1>6, MovesDown DEF RefuseEmpty, Answered, Call
<1>7. CASE RefreshRead(k)
  BY <1>7, MovesDown DEF RefreshRead, Goes, RefreshSense, Worth
<1>8. CASE RefreshStore(k)
  BY <1>8, MovesDown DEF RefreshStore, Goes, RefreshSense, Worth
<1> QED BY <1>1, <1>2, <1>3, <1>4, <1>5, <1>6, <1>7, <1>8 DEF HandlerStep

\* A browser that gives up the session gives up its other requests too.
LEMMA ThrowOutMoves ==
  ASSUME TypeOK, NEW k \in Calls, ThrowOut(k)
  PROVE  Moves(k)
<1>1. call'[k] = FreeCall /\ call[k].stage = "denied" /\ call[k] \in CallType
  BY DEF ThrowOut, TypeOK, CallType
<1>2. \A o \in Calls \ {k} : call'[o] \in {call[o], FreeCall, [call[o] EXCEPT !.by = NoBrowser]}
  BY DEF ThrowOut, Abandoned
<1>3. ~Refreshing(FreeCall)
  BY DEF FreeCall, Call, Refreshing
<1> QED BY <1>1, <1>2, <1>3, RankIsANumber DEF Moves

\* The client brings a request on: it is sent again without being worth another refresh.
LEMMA ClientMoves ==
  ASSUME TypeOK, TypeOK', RefreshSense, NEW k \in Calls, ClientStep(k)
  PROVE  Moves(k)
<1>1. CASE AskRefresh(k)
  BY <1>1, MovesDown DEF AskRefresh, Goes, WorthRefresh, Worth, TypeOK, StageRank, Refreshing
<1>2. CASE Again(k)
  <2>1. /\ call[k].stage = "renewed" /\ call'[k].stage = "sent" /\ call'[k].bearer = "renewed"
        /\ \A o \in Calls \ {k} : call'[o] = call[o]
    BY <1>2 DEF Again, TypeOK
  <2>2. Worth(call[k]) /\ ~Worth(call'[k])
    BY <2>1 DEF RefreshSense, Refreshing, Worth
  <2> QED BY <2>1, <2>2 DEF Moves, Rank, StageRank, Refreshing
<1>3. CASE SignedIn(k) \/ SignedOut(k) \/ Shown(k)
  BY <1>3, MovesFree DEF SignedIn, SignedOut, Shown, Final
<1> QED BY <1>1, <1>2, <1>3, ThrowOutMoves DEF ClientStep

\* What is not free ranks no higher after a step, and what is refreshed is worth it.
Kept(k) ==
  /\ call[k].stage # "free" => Rank(call'[k]) <= Rank(call[k])
  /\ Refreshing(call'[k]) => Worth(call'[k])

LEMMA MovesKeep ==
  ASSUME TypeOK, TypeOK', RefreshSense, NEW k \in Calls, NEW o \in Calls, Moves(o)
  PROVE  Kept(k)
<1>1. call[k] \in CallType /\ call'[k] \in CallType
  BY DEF TypeOK, CallType
<1>2. Rank(call[k]) \in 0..15 /\ Rank(call'[k]) \in 0..15 /\ Rank(FreeCall) = 0
  BY <1>1, RankIsANumber
<1>3. CASE k = o
  BY <1>2, <1>3 DEF Moves, Kept
<1>4. CASE call'[k] = call[k]
  BY <1>2, <1>4 DEF Kept, RefreshSense
<1>5. CASE call'[k] = FreeCall
  BY <1>2, <1>5 DEF Kept, Refreshing, FreeCall, Call
<1>6. CASE call'[k] = [call[k] EXCEPT !.by = NoBrowser]
  <2>1. call'[k].stage = call[k].stage /\ call'[k].bearer = call[k].bearer
    BY <1>1, <1>6 DEF CallType
  <2>2. Rank(call'[k]) = Rank(call[k]) /\ Worth(call'[k]) = Worth(call[k])
    BY <2>1 DEF Rank, Worth
  <2> QED BY <1>2, <2>1, <2>2 DEF Kept, RefreshSense, Refreshing
<1> QED BY <1>3, <1>4, <1>5, <1>6 DEF Moves

\* A new request is one of a free call; all the others are as they were.
LEMMA RequestRanks ==
  ASSUME TypeOK, TypeOK', RefreshSense, NEW k \in Calls, NEW o \in Calls, NEW b \in Browsers,
         Submit(b, o) \/ SignOut(b, o) \/ Query(b, o)
  PROVE  Kept(k)
<1>1. call[o].stage = "free" /\ call'[o].stage = "sent" /\ \A q \in Calls \ {o} : call'[q] = call[q]
  BY DEF Submit, SignOut, Query, Request, Call, TypeOK
<1>2. Rank(call[k]) \in 0..15
  BY RankIsANumber DEF TypeOK, CallType
<1>3. CASE k = o
  BY <1>1, <1>3 DEF Kept, Refreshing
<1>4. CASE k # o
  <2>1. call'[k] = call[k]
    BY <1>1, <1>4
  <2> QED BY <1>2, <2>1 DEF Kept, RefreshSense
<1> QED BY <1>3, <1>4

\* A failure denies or ends a request.
LEMMA FailureMoves ==
  ASSUME TypeOK, TypeOK', NEW k \in Calls, CallFails(k)
  PROVE  Moves(k)
<1>1. CASE call[k].stage \in {"refresh", "matched", "renewed"} /\ Goes(k, "denied")
  BY <1>1, MovesDown DEF Goes, TypeOK, StageRank, Refreshing
<1>2. CASE call' = [call EXCEPT ![k] = FreeCall]
  BY <1>2, MovesFree DEF CallFails
<1> QED BY <1>1, <1>2 DEF CallFails

LEMMA StepRanks ==
  ASSUME IInv, RefreshSense, [Next]_vars
  PROVE  RefreshSense' /\ RanksFall
<1>1. TypeOK /\ TypeOK'
  BY StepKeeps, StutterKeeps DEF IInv
<1>2. \A k \in Calls : Rank(call[k]) \in 0..15
  BY <1>1, RankIsANumber DEF TypeOK, CallType
<1>3. ASSUME NEW k \in Calls PROVE Kept(k)
  <2>1. ASSUME NEW o \in Calls, HandlerStep(o) \/ ClientStep(o) \/ CallFails(o) PROVE Kept(k)
    BY <1>1, <2>1, HandlerMoves, ClientMoves, FailureMoves, MovesKeep
  <2>2. ASSUME NEW o \in Calls, NEW b \in Browsers, Submit(b, o) \/ SignOut(b, o) \/ Query(b, o) PROVE Kept(k)
    BY <1>1, <2>2, RequestRanks
  <2>3. CASE UNCHANGED call
    BY <1>2, <2>3 DEF Kept, RefreshSense
  <2>4. CASE Unlock \/ Elsewhere \/ (\E b \in Browsers : Expire(b)) \/ UNCHANGED vars
    BY <2>3, <2>4 DEF Unlock, Elsewhere, Expire, vars
  <2> QED BY <2>1, <2>2, <2>4 DEF Next
<1>4. RefreshSense'
  BY <1>3 DEF Kept, RefreshSense
<1>5. RanksFall
  BY <1>1, <1>2, <1>3, HandlerMoves, ClientMoves DEF Kept, Moves, RanksFall
<1> QED BY <1>4, <1>5

\* A request takes at most 15 steps of its handlers and of the client, with its refresh and
\* its second sending, whatever else happens: the safety part of CallsEnd.
THEOREM RequestsRunDown == Spec => [][RanksFall]_vars
<1>1. Init => RefreshSense
  BY FreeType DEF Init, RefreshSense, Refreshing
<1>2. IInv /\ RefreshSense /\ [Next]_vars => RefreshSense' /\ [RanksFall]_vars
  BY StepRanks
<1> QED BY <1>1, <1>2, Inductive, PTL DEF Spec
=============================================================================
