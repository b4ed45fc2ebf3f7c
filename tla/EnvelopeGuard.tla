---------------------------- MODULE EnvelopeGuard ----------------------------
(***************************************************************************)
(* What stands before every handler of the agent protocol: validateEnvelope*)
(* lets an envelope in if its time stamp is within the window, its nonce   *)
(* is not in Redis, its agent has a row and its signature is right.  The   *)
(* network may deliver an envelope late, and more than once.               *)
(*                                                                         *)
(* Time runs in half seconds, since both sides cut theirs down to seconds. *)
(* Envelopes are those that agents build; each is signed with the right    *)
(* key, so what the backend makes of a payload is all that can differ.     *)
(***************************************************************************)
EXTENDS Integers

CONSTANTS
  Envelopes,  \* what agents send: each has a nonce of its own
  Whole,      \* those whose payload has a number such as 12.0
  Orphans,    \* those of an agent whose row the database does not have
  Copies,     \* bound: what the network delivers
  Window,     \* AGENT_NONCE_WINDOW_SEC
  Lag, Lead,  \* how far an agent's clock may be behind and ahead, in half seconds
  MaxStall,   \* the longest a handler waits for Redis, in half seconds
  MaxTime,    \* bound: the time, in half seconds
  MaxFaults,  \* bound: failures of any kind in one behaviour
  NoEnvelope

ASSUME WindowAssumption == Window \in Nat
ASSUME NumberAssumption ==
  /\ Lag \in Nat /\ Lead \in Nat /\ MaxStall \in Nat /\ MaxTime \in Nat /\ MaxFaults \in Nat
ASSUME EnvelopeAssumption == Whole \subseteq Envelopes /\ NoEnvelope \notin Envelopes

\* The clocks are right, and Redis quick, by comparison with the window.
ASSUME ClockAssumption == Lead + MaxStall + 1 < 2 * Window

VARIABLES
  now,      \* the backend's clock
  stamp,    \* ts of each envelope that was built, in seconds
  nonces,   \* when the nonce of each envelope expires in Redis (0: not there)
  evicted,  \* history: envelopes whose nonce Redis has evicted
  copy,     \* what was delivered, and what has become of it
  faults    \* failures so far

vars == <<now, stamp, nonces, evicted, copy, faults>>

NotBuilt == -(Lag + 1)
Verdicts == {"accepted", "late", "seen", "unknown", "unsigned", "failed"}
Stages == {"none", "travels", "timely", "fresh"} \union Verdicts
NoCopy == [stage |-> "none", of |-> NoEnvelope, since |-> 0, resent |-> FALSE]

\* A copy that has come to a stage.  Only a handler that waits for Redis has a
\* time it has waited since.
At(c, stage) == [stage |-> stage, of |-> copy[c].of, since |-> 0, resent |-> copy[c].resent]
Travelling(e) == [stage |-> "travels", of |-> e, since |-> 0, resent |-> FALSE]

\* Variant: the nonce lives as long as the window.
LifetimeOfWindow == 2 * Window
Lifetime == 2 * (2 * Window)

TypeOK ==
  /\ now \in 0..MaxTime
  /\ stamp \in [Envelopes -> NotBuilt..(MaxTime + Lead)]
  /\ nonces \in [Envelopes -> 0..(MaxTime + 4 * Window)]
  /\ evicted \subseteq Envelopes
  /\ copy \in [Copies -> [stage: Stages, of: Envelopes \union {NoEnvelope},
                          since: 0..MaxTime, resent: BOOLEAN]]
  /\ faults \in 0..MaxFaults

Init ==
  /\ now = 0
  /\ stamp = [e \in Envelopes |-> NotBuilt]
  /\ nonces = [e \in Envelopes |-> 0]
  /\ evicted = {}
  /\ copy = [c \in Copies |-> NoCopy]
  /\ faults = 0

-----------------------------------------------------------------------------
(* The agent and the network.                                              *)

Seconds(t) == t \div 2

\* build_envelope: the agent's own time in whole seconds, and a fresh nonce.
\* A message whose request fails is not sent again.
Send(e, c) ==
  /\ stamp[e] = NotBuilt /\ copy[c].stage = "none"
  /\ \E skew \in (-Lag)..Lead : stamp' = [stamp EXCEPT ![e] = Seconds(now + skew)]
  /\ copy' = [copy EXCEPT ![c] = Travelling(e)]
  /\ UNCHANGED <<now, nonces, evicted, faults>>

Duplicate(e, c) ==
  /\ stamp[e] # NotBuilt /\ copy[c].stage = "none"
  /\ copy' = [copy EXCEPT ![c] = Travelling(e)]
  /\ UNCHANGED <<now, stamp, nonces, evicted, faults>>

-----------------------------------------------------------------------------
(* validateEnvelope: each awaited call is an action.                       *)

Apart(s, t) == IF s < t THEN t - s ELSE s - t
InWindow(e) == Apart(Seconds(now), stamp[e]) <= Window

CheckTimestamp(c) ==
  /\ copy[c].stage = "travels"
  /\ copy' = [copy EXCEPT ![c] =
       IF InWindow(copy[c].of)
         THEN [stage |-> "timely", of |-> copy[c].of, since |-> now, resent |-> FALSE]
         ELSE At(c, "late")]
  /\ UNCHANGED <<now, stamp, nonces, evicted, faults>>

\* The key in Redis.  Variant: one that all envelopes of an agent share.
KeyOfAgent(e) == CHOOSE any \in Envelopes : TRUE
Key(e) == e

\* Variant: a GET, and the SET without NX.
NeverThere(e) == FALSE
IsThere(e) == nonces[Key(e)] > now

\* SET NX EX, one command: look and store.
VerifyNonce(c) ==
  LET e == copy[c].of IN
  /\ copy[c].stage = "timely"
  /\ IF IsThere(e)
       THEN /\ copy' = [copy EXCEPT ![c] = At(c, "seen")]
            /\ UNCHANGED nonces
       ELSE /\ copy' = [copy EXCEPT ![c] = At(c, "fresh")]
            /\ nonces' = [nonces EXCEPT ![Key(e)] = now + Lifetime]
  /\ UNCHANGED <<now, stamp, evicted, faults>>

\* The backend signs what it has parsed and printed again: 12.0 is 12 by then.
Signed(e) == e \notin Whole

Judged(e) == IF e \in Orphans THEN "unknown" ELSE IF Signed(e) THEN "accepted" ELSE "unsigned"

\* The SELECT has answered; the signature is compared at once.
Judge(c) ==
  /\ copy[c].stage = "fresh"
  /\ copy' = [copy EXCEPT ![c] = At(c, Judged(copy[c].of))]
  /\ UNCHANGED <<now, stamp, nonces, evicted, faults>>

\* Time passes, but no handler waits for Redis longer than MaxStall.
Tick ==
  /\ now < MaxTime
  /\ \A c \in Copies : copy[c].stage = "timely" => now < copy[c].since + MaxStall
  /\ now' = now + 1
  /\ UNCHANGED <<stamp, nonces, evicted, copy, faults>>

-----------------------------------------------------------------------------
(* What goes wrong.                                                        *)

Fault == faults < MaxFaults /\ faults' = faults + 1

\* A copy is lost, a call of its handler throws, or the backend ends under it.
Fails(c) ==
  /\ Fault
  /\ copy[c].stage \in {"travels", "timely", "fresh"}
  /\ copy' = [copy EXCEPT ![c] = At(c, "failed")]
  /\ UNCHANGED <<now, stamp, nonces, evicted>>

\* The connection to Redis breaks after the SET and before its answer; the
\* client connects again and sends the command once more.
Resend(c) ==
  LET e == copy[c].of IN
  /\ Fault
  /\ copy[c].stage = "timely" /\ ~IsThere(e)
  /\ nonces' = [nonces EXCEPT ![Key(e)] = now + Lifetime]
  /\ copy' = [copy EXCEPT ![c] = [stage |-> "timely", of |-> e, since |-> copy[c].since, resent |-> TRUE]]
  /\ UNCHANGED <<now, stamp, evicted>>

\* Redis is full, and gives up the nonce.
Evict(e) ==
  /\ Fault
  /\ nonces[e] > now
  /\ nonces' = [nonces EXCEPT ![e] = 0]
  /\ evicted' = evicted \union {e}
  /\ UNCHANGED <<now, stamp, copy>>

-----------------------------------------------------------------------------
Handle(c) ==
  \/ CheckTimestamp(c)
  \/ VerifyNonce(c)
  \/ Judge(c)

Next ==
  \/ \E c \in Copies, e \in Envelopes : Send(e, c) \/ Duplicate(e, c)
  \/ \E c \in Copies : Handle(c) \/ Fails(c) \/ Resend(c)
  \/ \E e \in Envelopes : Evict(e)
  \/ Tick

Spec == Init /\ [][Next]_vars

-----------------------------------------------------------------------------
(* Properties.                                                             *)

\* However late and however often an envelope is delivered, its message is
\* taken once, unless Redis has evicted its nonce: a nonce lives until its
\* envelope is too old.
AcceptedOnce ==
  \A c, d \in Copies :
    (c # d /\ copy[c].stage = "accepted" /\ copy[d].stage = "accepted" /\ copy[c].of = copy[d].of)
      => copy[c].of \in evicted

\* Until something fails, repetitions take nothing away from a message: a copy is
\* refused as already seen only when another one of the same envelope is past the
\* nonce, and if agent and payload are in order that one is taken.
Known(e) == e \notin Orphans \union Whole
HeardAtLeastOnce ==
  faults = 0 =>
    \A c \in Copies : copy[c].stage = "seen" =>
      \E d \in Copies :
        /\ copy[d].of = copy[c].of
        /\ copy[d].stage \in {"fresh", "accepted"} \/ (~Known(copy[d].of) /\ copy[d].stage \in {"unknown", "unsigned"})
=============================================================================
