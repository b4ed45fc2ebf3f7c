------------------------ MODULE EnvelopeGuard_proofs ------------------------
(***************************************************************************)
(* Proofs about EnvelopeGuard: an envelope is accepted once whatever its   *)
(* time stamp and however it is delivered, and repetitions do no harm.     *)
(***************************************************************************)
EXTENDS EnvelopeGuard, TLAPS

Past(c) == copy[c].stage \in {"fresh", "accepted", "unknown", "unsigned"}

\* What has been delivered was built, by a clock that is Lead ahead at most.
Built ==
  /\ \A c \in Copies : copy[c].stage # "none" => copy[c].of \in Envelopes /\ stamp[copy[c].of] # NotBuilt
  /\ \A e \in Envelopes : stamp[e] # NotBuilt => 2 * stamp[e] - Lead <= now

\* A handler that waits for Redis has not waited long since its check.
Stalled ==
  \A c \in Copies : copy[c].stage = "timely" =>
    /\ now <= copy[c].since + MaxStall
    /\ copy[c].since <= 2 * stamp[copy[c].of] + 2 * Window + 1

\* The nonce of what got past it outlives the window.
Outlives ==
  \A c \in Copies : (Past(c) /\ copy[c].of \notin evicted) =>
    nonces[copy[c].of] >= 2 * stamp[copy[c].of] - Lead + 4 * Window

\* Two copies get past the nonce only if it was evicted.
OnePast ==
  \A c, d \in Copies : (c # d /\ Past(c) /\ Past(d) /\ copy[c].of = copy[d].of) => copy[c].of \in evicted

IInv == TypeOK /\ Built /\ Stalled /\ Outlives /\ OnePast

\* Seconds cuts a time down to whole seconds.
LEMMA SecondsFact ==
  ASSUME NEW t \in Int
  PROVE  Seconds(t) \in Int /\ 2 * Seconds(t) <= t /\ t <= 2 * Seconds(t) + 1
BY SMT DEF Seconds

\* The bounds in the shape the provers use.
LEMMA Numbers ==
  /\ Window \in Nat /\ Lag \in Nat /\ Lead \in Nat /\ MaxStall \in Nat /\ MaxTime \in Nat
  /\ MaxFaults \in Nat /\ Lead + MaxStall + 1 < 2 * Window
  /\ NotBuilt \in Int /\ NotBuilt = -(Lag + 1)
BY WindowAssumption, NumberAssumption, ClockAssumption DEF NotBuilt

\* The initial state satisfies the invariant.
LEMMA InitIInv == Init => IInv
<1> SUFFICES ASSUME Init PROVE IInv
  OBVIOUS
<1> USE DEF Init, NoCopy
<1>1. TypeOK
  <2>1. \A c \in Copies : NoCopy \in [stage: Stages, of: Envelopes \union {NoEnvelope}, since: 0..MaxTime, resent: BOOLEAN]
    BY Numbers DEF Stages, Verdicts
  <2> QED BY <2>1, Numbers DEF TypeOK
<1>2. Built /\ Stalled /\ Outlives /\ OnePast
  BY Numbers DEF Built, Stalled, Outlives, OnePast, Past
<1> QED BY <1>1, <1>2 DEF IInv

\* The record of a copy that has come to a stage.
LEMMA AtFact ==
  ASSUME TypeOK, NEW c \in Copies, NEW s \in Stages
  PROVE  /\ At(c, s) \in [stage: Stages, of: Envelopes \union {NoEnvelope}, since: 0..MaxTime, resent: BOOLEAN]
         /\ At(c, s).stage = s /\ At(c, s).of = copy[c].of
BY Numbers DEF At, TypeOK

\* A copy leaves the network: Send and Duplicate.
LEMMA TravelFact ==
  ASSUME NEW e \in Envelopes
  PROVE  /\ Travelling(e) \in [stage: Stages, of: Envelopes \union {NoEnvelope}, since: 0..MaxTime, resent: BOOLEAN]
         /\ Travelling(e).stage = "travels" /\ Travelling(e).of = e
BY Numbers DEF Travelling, Stages, Verdicts

\* Send builds an envelope whose time is near.
LEMMA SendIInv == ASSUME IInv, NEW e \in Envelopes, NEW c \in Copies, Send(e, c) PROVE IInv'
<1> USE DEF IInv
<1>1. PICK skew \in (-Lag)..Lead : stamp' = [stamp EXCEPT ![e] = Seconds(now + skew)]
  BY DEF Send
<1>2. /\ now \in Int /\ skew \in Int /\ -Lag <= skew /\ skew <= Lead /\ 0 <= now /\ now <= MaxTime
  BY Numbers DEF TypeOK
<1> DEFINE s == Seconds(now + skew)
<1>3. s \in Int /\ 2 * s <= now + skew /\ now + skew <= 2 * s + 1
  <2>1. now + skew \in Int
    BY <1>2
  <2> QED BY <2>1, SecondsFact
<1>4. s \in NotBuilt..(MaxTime + Lead) /\ s # NotBuilt /\ 2 * s - Lead <= now
  BY <1>2, <1>3, Numbers
<1> HIDE DEF s
<1>5. /\ copy' = [copy EXCEPT ![c] = Travelling(e)] /\ stamp' = [stamp EXCEPT ![e] = s]
      /\ stamp[e] = NotBuilt /\ copy[c].stage = "none"
      /\ UNCHANGED <<now, nonces, evicted, faults>>
  BY <1>1 DEF Send, s
<1>6. TypeOK'
  BY <1>4, <1>5, TravelFact DEF TypeOK
<1>7. \A d \in Copies : copy'[d] = IF d = c THEN Travelling(e) ELSE copy[d]
  BY <1>5 DEF TypeOK
<1>8. \A f \in Envelopes : stamp'[f] = IF f = e THEN s ELSE stamp[f]
  BY <1>5 DEF TypeOK
<1>9. \A d \in Copies : d # c /\ copy[d].stage # "none" => stamp'[copy[d].of] = stamp[copy[d].of]
  BY <1>5, <1>8 DEF Built
<1>10. Built'
  BY <1>4, <1>5, <1>7, <1>8, <1>9, TravelFact DEF Built
<1>11. Stalled' /\ Outlives' /\ OnePast'
  BY <1>5, <1>7, <1>9, TravelFact DEF Stalled, Outlives, OnePast, Past
<1> QED BY <1>6, <1>10, <1>11

\* Duplicate delivers an envelope that was built.
LEMMA DuplicateIInv == ASSUME IInv, NEW e \in Envelopes, NEW c \in Copies, Duplicate(e, c) PROVE IInv'
<1> USE DEF IInv
<1>1. /\ copy' = [copy EXCEPT ![c] = Travelling(e)] /\ stamp[e] # NotBuilt /\ copy[c].stage = "none"
      /\ UNCHANGED <<now, stamp, nonces, evicted, faults>>
  BY DEF Duplicate
<1>2. TypeOK'
  BY <1>1, TravelFact DEF TypeOK
<1>3. \A d \in Copies : copy'[d] = IF d = c THEN Travelling(e) ELSE copy[d]
  BY <1>1 DEF TypeOK
<1>4. Built' /\ Stalled' /\ Outlives' /\ OnePast'
  BY <1>1, <1>3, TravelFact DEF Built, Stalled, Outlives, OnePast, Past
<1> QED BY <1>2, <1>4

\* A copy that comes to a stage at which nothing more is claimed of it, or at
\* which no less was claimed before, changes nothing else.
LEMMA MoveIInv ==
  ASSUME IInv, NEW c \in Copies, NEW s \in Stages \ {"none", "timely"},
         copy' = [copy EXCEPT ![c] = At(c, s)], copy[c].stage # "none",
         s \in {"fresh", "accepted", "unknown", "unsigned"} => Past(c),
         UNCHANGED <<now, stamp, nonces, evicted>>, faults' \in 0..MaxFaults
  PROVE  IInv'
<1> USE DEF IInv
<1>1. TypeOK'
  BY AtFact DEF TypeOK
<1>2. \A d \in Copies : copy'[d] = IF d = c THEN At(c, s) ELSE copy[d]
  BY DEF TypeOK
<1>3. At(c, s).stage = s /\ At(c, s).of = copy[c].of
  BY AtFact
<1>4. Built' /\ Stalled' /\ Outlives' /\ OnePast'
  BY <1>2, <1>3 DEF Built, Stalled, Outlives, OnePast, Past
<1> QED BY <1>1, <1>4

\* The window check: what passes is not older than the window.
LEMMA CheckTimestampIInv == ASSUME IInv, NEW c \in Copies, CheckTimestamp(c) PROVE IInv'
<1> USE DEF IInv
<1> DEFINE e == copy[c].of
<1>0. /\ copy[c].stage = "travels" /\ e \in Envelopes /\ stamp[e] # NotBuilt
      /\ UNCHANGED <<now, stamp, nonces, evicted, faults>>
  BY DEF CheckTimestamp, Built
<1>1. CASE ~InWindow(e)
  <2>1. copy' = [copy EXCEPT ![c] = At(c, "late")] /\ "late" \in Stages \ {"none", "timely"}
    BY <1>1 DEF CheckTimestamp, Stages, Verdicts
  <2>2. faults' \in 0..MaxFaults
    BY <1>0 DEF TypeOK
  <2> QED BY <2>1, <2>2, <1>0, MoveIInv
<1>2. CASE InWindow(e)
  <2> DEFINE t == [stage |-> "timely", of |-> e, since |-> now, resent |-> FALSE]
  <2>1. copy' = [copy EXCEPT ![c] = t]
    BY <1>2 DEF CheckTimestamp
  <2>2. /\ t \in [stage: Stages, of: Envelopes \union {NoEnvelope}, since: 0..MaxTime, resent: BOOLEAN]
        /\ t.stage = "timely" /\ t.of = e /\ t.since = now
    BY <1>0 DEF TypeOK, Stages, Verdicts
  <2> HIDE DEF t
  <2>3. TypeOK'
    BY <1>0, <2>1, <2>2 DEF TypeOK
  <2>4. \A d \in Copies : copy'[d] = IF d = c THEN t ELSE copy[d]
    BY <2>1 DEF TypeOK
  <2>5. now <= 2 * stamp[e] + 2 * Window + 1
    <3>1. now \in Int /\ stamp[e] \in Int
      BY <1>0, Numbers DEF TypeOK
    <3>2. Seconds(now) \in Int /\ now <= 2 * Seconds(now) + 1
      BY <3>1, SecondsFact
    <3>3. Seconds(now) <= stamp[e] + Window
      BY <1>2, <3>1, <3>2, Numbers DEF InWindow, Apart
    <3> QED BY <3>1, <3>2, <3>3, Numbers
  <2>6. now <= now + MaxStall
    BY Numbers DEF TypeOK
  <2>7. Stalled'
    BY <1>0, <2>2, <2>4, <2>5, <2>6 DEF Stalled
  <2>8. Built' /\ Outlives' /\ OnePast'
    BY <1>0, <2>2, <2>4 DEF Built, Outlives, OnePast, Past
  <2> QED BY <2>3, <2>7, <2>8
<1> QED BY <1>1, <1>2

\* What a nonce that is stored now outlives.
LEMMA StoredFact ==
  ASSUME IInv, NEW e \in Envelopes, stamp[e] # NotBuilt
  PROVE  /\ now + Lifetime \in 0..(MaxTime + 4 * Window)
         /\ now + Lifetime >= 2 * stamp[e] - Lead + 4 * Window
<1>1. 2 * stamp[e] - Lead <= now /\ now \in 0..MaxTime /\ stamp[e] \in Int
  BY Numbers DEF IInv, Built, TypeOK
<1> QED BY <1>1, Numbers DEF Lifetime

\* When a copy that came in time finds no nonce, no other copy is past it.
LEMMA NoneBefore ==
  ASSUME IInv, NEW c \in Copies, copy[c].stage = "timely", ~IsThere(copy[c].of),
         NEW d \in Copies, Past(d), copy[d].of = copy[c].of
  PROVE  copy[c].of \in evicted
<1> DEFINE e == copy[c].of
<1> SUFFICES ASSUME e \notin evicted PROVE FALSE
  OBVIOUS
<1>1. e \in Envelopes /\ nonces[e] >= 2 * stamp[e] - Lead + 4 * Window
  BY DEF IInv, Built, Outlives, Past
<1>2. now <= copy[c].since + MaxStall /\ copy[c].since <= 2 * stamp[e] + 2 * Window + 1
  BY DEF IInv, Stalled
<1>3. ~(nonces[e] > now)
  BY DEF IsThere, Key
<1>4. now \in Int /\ copy[c].since \in Int /\ stamp[e] \in Int /\ nonces[e] \in Int
  BY <1>1, Numbers DEF IInv, TypeOK
<1> HIDE DEF e
<1> QED BY <1>1, <1>2, <1>3, <1>4, Numbers

\* A nonce is stored, by VerifyNonce or by a command that is sent twice.
LEMMA StoreFrame ==
  ASSUME IInv, NEW c \in Copies, copy[c].stage = "timely", ~IsThere(copy[c].of),
         NEW r \in [stage: {"fresh", "timely"}, of: {copy[c].of}, since: {0, copy[c].since}, resent: BOOLEAN],
         r.stage = "timely" => r.since = copy[c].since,
         copy' = [copy EXCEPT ![c] = r],
         nonces' = [nonces EXCEPT ![copy[c].of] = now + Lifetime],
         UNCHANGED <<now, stamp, evicted>>, faults' \in 0..MaxFaults
  PROVE  IInv'
<1> USE DEF IInv
<1> DEFINE e == copy[c].of
<1>1. e \in Envelopes /\ stamp[e] # NotBuilt
  BY DEF Built
<1>2. /\ now + Lifetime \in 0..(MaxTime + 4 * Window)
      /\ now + Lifetime >= 2 * stamp[e] - Lead + 4 * Window
  BY <1>1, StoredFact
<1>3. r \in [stage: Stages, of: Envelopes \union {NoEnvelope}, since: 0..MaxTime, resent: BOOLEAN]
  BY <1>1, Numbers DEF TypeOK, Stages, Verdicts
<1>4. TypeOK'
  BY <1>1, <1>2, <1>3 DEF TypeOK
<1>5. \A d \in Copies : copy'[d] = IF d = c THEN r ELSE copy[d]
  BY DEF TypeOK
<1>6. \A f \in Envelopes : nonces'[f] = IF f = e THEN now + Lifetime ELSE nonces[f]
  BY DEF TypeOK
<1>7. Built' /\ Stalled'
  BY <1>1, <1>5 DEF Built, Stalled
<1>8. Outlives'
  BY <1>1, <1>2, <1>5, <1>6 DEF Outlives, Past, Built
<1>9. \A d \in Copies : (Past(d) /\ copy[d].of = e) => e \in evicted
  BY NoneBefore
<1>10. OnePast'
  <2> SUFFICES ASSUME NEW d \in Copies, NEW f \in Copies, d # f, Past(d)', Past(f)', copy'[d].of = copy'[f].of
               PROVE  copy'[d].of \in evicted
    BY DEF OnePast
  <2>1. CASE d # c /\ f # c
    BY <2>1, <1>5 DEF OnePast, Past
  <2>2. CASE d = c
    BY <2>2, <1>5, <1>9 DEF Past
  <2>3. CASE f = c
    BY <2>3, <1>5, <1>9 DEF Past
  <2> QED BY <2>1, <2>2, <2>3
<1> QED BY <1>4, <1>7, <1>8, <1>10

\* SET NX EX.
LEMMA VerifyNonceIInv == ASSUME IInv, NEW c \in Copies, VerifyNonce(c) PROVE IInv'
<1>1. faults' \in 0..MaxFaults
  BY DEF IInv, TypeOK, VerifyNonce
<1>2. CASE IsThere(copy[c].of)
  <2>1. "seen" \in Stages \ {"none", "timely"}
    BY DEF Stages, Verdicts
  <2> QED BY <1>1, <1>2, <2>1, MoveIInv DEF VerifyNonce
<1>3. CASE ~IsThere(copy[c].of)
  <2>1. At(c, "fresh") \in [stage: {"fresh", "timely"}, of: {copy[c].of}, since: {0, copy[c].since}, resent: BOOLEAN]
    BY DEF At, IInv, TypeOK
  <2>2. At(c, "fresh").stage = "fresh"
    BY DEF At
  <2> QED BY <1>1, <1>3, <2>1, <2>2, StoreFrame DEF VerifyNonce, Key
<1> QED BY <1>2, <1>3

\* The command was sent twice: the nonce is stored, and its handler waits.
LEMMA ResendIInv == ASSUME IInv, NEW c \in Copies, Resend(c) PROVE IInv'
<1> DEFINE r == [stage |-> "timely", of |-> copy[c].of, since |-> copy[c].since, resent |-> TRUE]
<1>1. faults' \in 0..MaxFaults
  BY Numbers DEF IInv, TypeOK, Resend, Fault
<1>2. /\ r \in [stage: {"fresh", "timely"}, of: {copy[c].of}, since: {0, copy[c].since}, resent: BOOLEAN]
      /\ r.since = copy[c].since
  OBVIOUS
<1>3. /\ copy' = [copy EXCEPT ![c] = r] /\ copy[c].stage = "timely" /\ ~IsThere(copy[c].of)
      /\ nonces' = [nonces EXCEPT ![copy[c].of] = now + Lifetime] /\ UNCHANGED <<now, stamp, evicted>>
  BY DEF Resend, Key
<1> HIDE DEF r
<1> QED BY <1>1, <1>2, <1>3, StoreFrame

\* The last check, and the failures that end a copy.
LEMMA EndIInv == ASSUME IInv, NEW c \in Copies, Judge(c) \/ Fails(c) PROVE IInv'
<1>1. faults' \in 0..MaxFaults
  BY Numbers DEF IInv, TypeOK, Judge, Fails, Fault
<1>2. CASE Judge(c)
  <2>1. Judged(copy[c].of) \in Stages \ {"none", "timely"}
    BY DEF Judged, Stages, Verdicts
  <2> QED BY <1>1, <1>2, <2>1, MoveIInv DEF Judge, Past
<1>3. CASE Fails(c)
  <2>1. "failed" \in Stages \ {"none", "timely"}
    BY DEF Stages, Verdicts
  <2> QED BY <1>1, <1>3, <2>1, MoveIInv DEF Fails
<1> QED BY <1>2, <1>3

\* Eviction takes the nonce, and the promise with it.
LEMMA EvictIInv == ASSUME IInv, NEW e \in Envelopes, Evict(e) PROVE IInv'
<1> USE DEF IInv, Evict
<1>1. TypeOK'
  BY Numbers DEF TypeOK, Fault
<1>2. \A f \in Envelopes : f # e => nonces'[f] = nonces[f]
  BY DEF TypeOK
<1>3. Built' /\ Stalled' /\ OnePast'
  BY DEF Built, Stalled, OnePast, Past
<1>4. Outlives'
  BY <1>2 DEF Outlives, Past, Built
<1> QED BY <1>1, <1>3, <1>4

\* Time passes, while no handler waits too long.
LEMMA TickIInv == ASSUME IInv, Tick PROVE IInv'
<1> USE DEF IInv, Tick
<1>1. TypeOK'
  BY Numbers DEF TypeOK
<1>2. Built'
  BY Numbers DEF TypeOK, Built
<1>3. Stalled'
  <2> SUFFICES ASSUME NEW c \in Copies, copy[c].stage = "timely" PROVE now' <= copy[c].since + MaxStall
    BY DEF Stalled
  <2>1. now < copy[c].since + MaxStall /\ now' = now + 1
    OBVIOUS
  <2>2. now \in Int /\ copy[c].since \in Int
    BY DEF TypeOK
  <2> QED BY <2>1, <2>2, Numbers
<1>4. Outlives' /\ OnePast'
  BY DEF Outlives, OnePast, Past
<1> QED BY <1>1, <1>2, <1>3, <1>4

\* Every step preserves the invariant.
LEMMA NextIInv == ASSUME IInv, [Next]_vars PROVE IInv'
<1>1. CASE UNCHANGED vars
  BY <1>1 DEF vars, IInv, TypeOK, Built, Stalled, Outlives, OnePast, Past
<1>2. ASSUME NEW c \in Copies, NEW e \in Envelopes, Send(e, c) \/ Duplicate(e, c) PROVE IInv'
  BY <1>2, SendIInv, DuplicateIInv
<1>3. ASSUME NEW c \in Copies, Handle(c) PROVE IInv'
  BY <1>3, CheckTimestampIInv, VerifyNonceIInv, EndIInv DEF Handle
<1>4. ASSUME NEW c \in Copies, Fails(c) \/ Resend(c) PROVE IInv'
  BY <1>4, EndIInv, ResendIInv
<1>5. ASSUME NEW e \in Envelopes, Evict(e) PROVE IInv'
  BY <1>5, EvictIInv
<1> QED BY <1>1, <1>2, <1>3, <1>4, <1>5, TickIInv DEF Next

\* The invariant holds in every behaviour of the guard.
THEOREM Inductive == Spec => []IInv
<1>1. Init => IInv
  BY InitIInv
<1>2. IInv /\ [Next]_vars => IInv'
  BY NextIInv
<1> QED BY <1>1, <1>2, PTL DEF Spec

\* Type correctness of the guard (hmac.service.ts).
THEOREM TypeCorrect == Spec => []TypeOK
<1>1. IInv => TypeOK
  BY DEF IInv
<1> QED BY <1>1, Inductive, PTL

\* validateEnvelope takes a message once, for every window, any clocks that are
\* not too far apart and any number of deliveries.
THEOREM TakenOnce == Spec => []AcceptedOnce
<1>1. IInv => AcceptedOnce
  BY DEF IInv, OnePast, AcceptedOnce, Past
<1> QED BY <1>1, Inductive, PTL

-----------------------------------------------------------------------------
(* Repetitions do no harm.                                                 *)

\* Until something fails, a nonce in Redis and a refusal as seen both have a copy
\* behind them that got past, and was judged by what it is.
Heard ==
  faults = 0 =>
    /\ \A e \in Envelopes : nonces[e] > 0 => \E d \in Copies : copy[d].of = e /\ Past(d)
    /\ \A c \in Copies : copy[c].stage = "seen" => \E d \in Copies : copy[d].of = copy[c].of /\ Past(d)
    /\ \A c \in Copies : copy[c].stage \in {"accepted", "unknown", "unsigned"} =>
         copy[c].stage = Judged(copy[c].of)

\* A step in which no failure happens and each copy that is past stays so.
LEMMA HeardFrame ==
  ASSUME IInv, Heard, faults' = faults,
         \A e \in Envelopes : nonces'[e] > 0 => nonces[e] > 0 \/ \E d \in Copies : copy'[d].of = e /\ Past(d)',
         \A d \in Copies : Past(d) => Past(d)' /\ copy'[d].of = copy[d].of,
         \A c \in Copies : copy'[c].stage = "seen" =>
           \/ copy[c].stage = "seen" /\ copy'[c].of = copy[c].of
           \/ \E d \in Copies : copy[d].of = copy'[c].of /\ Past(d),
         \A c \in Copies : copy'[c].stage \in {"accepted", "unknown", "unsigned"} =>
           \/ copy[c].stage = copy'[c].stage /\ copy'[c].of = copy[c].of
           \/ copy'[c].stage = Judged(copy'[c].of)
  PROVE  Heard'
<1> SUFFICES ASSUME faults = 0
             PROVE  /\ \A e \in Envelopes : nonces'[e] > 0 => \E d \in Copies : copy'[d].of = e /\ Past(d)'
                    /\ \A c \in Copies : copy'[c].stage = "seen" => \E d \in Copies : copy'[d].of = copy'[c].of /\ Past(d)'
                    /\ \A c \in Copies : copy'[c].stage \in {"accepted", "unknown", "unsigned"} =>
                         copy'[c].stage = Judged(copy'[c].of)
  BY DEF Heard
<1> QED BY DEF Heard

\* Every step preserves it.
LEMMA NextHeard == ASSUME IInv, Heard, [Next]_vars PROVE Heard'
<1> USE DEF IInv
<1>1. CASE UNCHANGED vars
  BY <1>1 DEF vars, Heard, Past
<1>2. ASSUME NEW c \in Copies, NEW e \in Envelopes, Send(e, c) \/ Duplicate(e, c) PROVE Heard'
  <2>1. /\ copy' = [copy EXCEPT ![c] = Travelling(e)] /\ copy[c].stage = "none"
        /\ UNCHANGED <<nonces, faults>>
    BY <1>2 DEF Send, Duplicate
  <2>2. \A d \in Copies : copy'[d] = IF d = c THEN Travelling(e) ELSE copy[d]
    BY <2>1 DEF TypeOK
  <2> QED BY <2>1, <2>2, TravelFact, HeardFrame DEF Past
<1>3. ASSUME NEW c \in Copies, CheckTimestamp(c) PROVE Heard'
  <2>1. copy[c].stage = "travels" /\ UNCHANGED <<nonces, faults>>
    BY <1>3 DEF CheckTimestamp
  <2>2. copy'[c].stage \in {"timely", "late"} /\ \A d \in Copies : d # c => copy'[d] = copy[d]
    BY <1>3 DEF CheckTimestamp, At, TypeOK
  <2> QED BY <2>1, <2>2, HeardFrame DEF Past
<1>4. ASSUME NEW c \in Copies, VerifyNonce(c) PROVE Heard'
  <2>1. copy[c].stage = "timely" /\ copy[c].of \in Envelopes /\ UNCHANGED faults
    BY <1>4 DEF VerifyNonce, Built
  <2>2. CASE IsThere(copy[c].of)
    <3>1. copy' = [copy EXCEPT ![c] = At(c, "seen")] /\ UNCHANGED nonces
      BY <1>4, <2>2 DEF VerifyNonce
    <3>2. /\ \A d \in Copies : d # c => copy'[d] = copy[d]
          /\ copy'[c].stage = "seen" /\ copy'[c].of = copy[c].of
      BY <3>1 DEF At, TypeOK
    <3>3. nonces[copy[c].of] > 0
      BY <2>1, <2>2, Numbers DEF IsThere, Key, TypeOK
    <3>4. faults = 0 => \E d \in Copies : copy[d].of = copy[c].of /\ Past(d)
      BY <2>1, <3>3 DEF Heard
    <3>5. CASE faults = 0
      BY <2>1, <3>1, <3>2, <3>4, <3>5, HeardFrame DEF Past
    <3>6. CASE faults # 0
      BY <2>1, <3>6 DEF Heard
    <3> QED BY <3>5, <3>6
  <2>3. CASE ~IsThere(copy[c].of)
    <3>1. copy' = [copy EXCEPT ![c] = At(c, "fresh")] /\ nonces' = [nonces EXCEPT ![copy[c].of] = now + Lifetime]
      BY <1>4, <2>3 DEF VerifyNonce, Key
    <3>2. /\ \A d \in Copies : d # c => copy'[d] = copy[d]
          /\ copy'[c].stage = "fresh" /\ copy'[c].of = copy[c].of
      BY <3>1 DEF At, TypeOK
    <3>3. \A e \in Envelopes : e # copy[c].of => nonces'[e] = nonces[e]
      BY <3>1 DEF TypeOK
    <3>4. Past(c)'
      BY <3>2 DEF Past
    <3> QED BY <2>1, <3>2, <3>3, <3>4, HeardFrame DEF Past
  <2> QED BY <2>2, <2>3
<1>5. ASSUME NEW c \in Copies, Judge(c) PROVE Heard'
  <2>1. copy[c].stage = "fresh" /\ UNCHANGED <<nonces, faults>>
    BY <1>5 DEF Judge
  <2>2. /\ \A d \in Copies : d # c => copy'[d] = copy[d]
        /\ copy'[c].stage = Judged(copy[c].of) /\ copy'[c].of = copy[c].of
    BY <1>5 DEF Judge, At, TypeOK
  <2>3. Past(c)' /\ copy'[c].stage # "seen"
    BY <2>2 DEF Past, Judged
  <2> QED BY <2>1, <2>2, <2>3, HeardFrame DEF Past
<1>6. ASSUME \/ \E c \in Copies : Fails(c) \/ Resend(c)
             \/ \E e \in Envelopes : Evict(e)
      PROVE Heard'
  <2>1. faults' = faults + 1 /\ faults \in Nat
    BY <1>6, Numbers DEF Fails, Resend, Evict, Fault, TypeOK
  <2>2. faults' # 0
    BY <2>1
  <2> QED BY <2>2 DEF Heard
<1>7. CASE Tick
  BY <1>7, HeardFrame DEF Tick, Past
<1> QED BY <1>1, <1>2, <1>3, <1>4, <1>5, <1>6, <1>7 DEF Next, Handle

\* Until something fails, only what was taken, or can never be, is refused as
\* already seen (verifyNonce runs before the look-up and the signature).
THEOREM NothingTakenAway == Spec => []HeardAtLeastOnce
<1>1. Init => Heard
  BY DEF Init, Heard, NoCopy
<1>2. IInv /\ Heard /\ [Next]_vars => Heard'
  BY NextHeard
<1>3. Heard => HeardAtLeastOnce
  <2> SUFFICES ASSUME Heard, faults = 0, NEW c \in Copies, copy[c].stage = "seen"
               PROVE  \E d \in Copies :
                        /\ copy[d].of = copy[c].of
                        /\ \/ copy[d].stage \in {"fresh", "accepted"}
                           \/ ~Known(copy[d].of) /\ copy[d].stage \in {"unknown", "unsigned"}
    BY DEF HeardAtLeastOnce
  <2>1. PICK d \in Copies : copy[d].of = copy[c].of /\ Past(d)
    BY DEF Heard
  <2>2. copy[d].stage \in {"accepted", "unknown", "unsigned"} => copy[d].stage = Judged(copy[d].of)
    BY DEF Heard
  <2>3. copy[d].stage \in {"unknown", "unsigned"} => ~Known(copy[d].of)
    BY <2>2 DEF Judged, Signed, Known
  <2> QED BY <2>1, <2>3 DEF Past
<1> QED BY <1>1, <1>2, <1>3, Inductive, PTL DEF Spec

=============================================================================
