--------------------------- MODULE Browser_proofs ---------------------------
(***************************************************************************)
(* Proofs about two parts of the browser that share nothing.  The realtime *)
(* channel: for any number of sockets, sessions, attempts, messages under  *)
(* way and failures.  The list of jobs: for any number of jobs, any        *)
(* filters and any length of a page; the names of JobsPage that every      *)
(* specification has begin with List.                                      *)
(***************************************************************************)
EXTENDS Realtime, JobsPage, FiniteSetTheorems, SequenceTheorems, WellFoundedInduction, TLAPS

-----------------------------------------------------------------------------
(* The realtime channel: the inductive invariant.                          *)

Live(s) == State(s) # "free"

\* The handler has in its map whom it has accepted, until it cleans up after them, and
\* knows nothing of the others.
ServerSense ==
  /\ IsFiniteSet(clients) /\ GaugeExact
  /\ \A s \in Sockets :
       /\ State(s) \in {"accepted", "open"} => s \in clients
       /\ State(s) \in {"connecting", "refused"} => s \notin clients
       /\ s \in ending => s \notin clients /\ State(s) \in {"closing", "broken", "free"}
       /\ (s \notin clients \/ State(s) = "accepted") => subs[s] = {} /\ wire[s] = <<>>

\* There is one socket at a time, or a timer that is to open the next.
OneSocket ==
  /\ strays = {}
  /\ \A s, t \in Sockets : Live(s) /\ Live(t) => s = t
  /\ timer # NoOrg => timer = user /\ \A s \in Sockets : ~Live(s)
  /\ connecting => \E s \in Sockets : Live(s)
  /\ \A s \in Sockets : State(s) = "refused" => expired

\* A user who has signed out leaves at most a socket that closes, and no attempts.
SignedOut ==
  user = NoOrg =>
    /\ current = NoSocket /\ page = NoAgent
    /\ \A s \in Sockets : State(s) \in {"free", "closing", "broken"}
    /\ attempts = MaxAttempts \/ \A s \in Sockets : ~Live(s)

\* The socket of a user who has signed in is the client's, and of this session.
SignedIn ==
  user # NoOrg => \A s \in Sockets : Live(s) => sock[s].org = user /\ current = s /\ State(s) # "closing"

\* A subscription other than the page's is about to be taken back.
Unsubscribe(a) == [action |-> "unsubscribe", agent |-> a]

Follows(s) ==
  /\ \A a \in subs[s] : page = a \/ \E i \in DOMAIN wire[s] : wire[s][i] = Unsubscribe(a)
  /\ \A i \in DOMAIN wire[s] : wire[s][i].action = "subscribe" =>
       \/ page = wire[s][i].agent
       \/ \E k \in DOMAIN wire[s] : k > i /\ wire[s][k] = Unsubscribe(wire[s][i].agent)

PageSense == \A s \in Sockets : State(s) = "open" => Follows(s)

\* Who is signed in has a socket or a timer that opens one, unless the attempts are
\* used up or the token has expired: the client never just stops.
NeverIdle ==
  (user # NoOrg /\ ~late) =>
    (\E s \in Sockets : Live(s)) \/ timer # NoOrg \/ attempts = MaxAttempts \/ expired

TabSense == ~late => OneSocket /\ SignedOut /\ SignedIn /\ PageSense

IInv == TypeOK /\ ServerSense /\ TabSense /\ NeverIdle

-----------------------------------------------------------------------------
(* Sockets and messages.                                                   *)

SocketType == [state: States, org: Orgs \union {NoOrg}]

\* One socket comes to its next state, the others stay as they are.
LEMMA Moved ==
  ASSUME TypeOK, NEW s \in Sockets, NEW st \in States, sock' = [sock EXCEPT ![s].state = st]
  PROVE  /\ sock' \in [Sockets -> SocketType]
         /\ sock'[s] = [state |-> st, org |-> sock[s].org] /\ State(s)' = st
         /\ \A t \in Sockets \ {s} : sock'[t] = sock[t]
<1>1. sock \in [Sockets -> SocketType]
  BY DEF TypeOK, SocketType
<1>2. [sock[s] EXCEPT !.state = st] = [state |-> st, org |-> sock[s].org]
  BY <1>1 DEF SocketType
<1>3. sock' = [sock EXCEPT ![s] = [state |-> st, org |-> sock[s].org]]
  BY <1>2
<1> QED BY <1>1, <1>3 DEF SocketType, State

\* connect opens one socket that both sides have forgotten, if it opens any.
LEMMA Connected ==
  ASSUME TypeOK, NEW o \in Orgs, Connect(o)
  PROVE  \/ UNCHANGED <<sock, current, connecting>> /\ (IsOpen \/ connecting)
         \/ /\ ~IsOpen /\ ~connecting /\ connecting'
            /\ \E s \in Sockets :
                 /\ Forgotten(s) /\ current' = s
                 /\ sock'[s] = [state |-> "connecting", org |-> o]
                 /\ \A t \in Sockets \ {s} : sock'[t] = sock[t]
                 /\ sock' \in [Sockets -> SocketType]
<1>1. CASE IsOpen \/ connecting
  BY <1>1 DEF Connect
<1>2. CASE ~(IsOpen \/ connecting)
  <2>1. PICK s \in Sockets :
          /\ Forgotten(s) /\ current' = s /\ connecting' = TRUE
          /\ sock' = [sock EXCEPT ![s] = [state |-> "connecting", org |-> o]]
    BY <1>2 DEF Connect
  <2>2. [state |-> "connecting", org |-> o] \in SocketType
    BY DEF SocketType, States
  <2> QED BY <1>2, <2>1, <2>2 DEF TypeOK, SocketType
<1> QED BY <1>1, <1>2

\* What the effect of a page sends.
LEMMA EffectType ==
  ASSUME TypeOK, NEW a \in Agents \union {NoAgent}
  PROVE  /\ Cleanup \in Seq(Messages)
         /\ (IF a = NoAgent THEN <<>> ELSE <<Subscribe(a)>>) \in Seq(Messages)
         /\ Cleanup \o (IF a = NoAgent THEN <<>> ELSE <<Subscribe(a)>>) \in Seq(Messages)
<1>1. Cleanup \in Seq(Messages)
  <2>1. page # NoAgent => Unsubscribe(page) \in Messages
    BY DEF TypeOK, Unsubscribe, Messages
  <2> QED BY <2>1 DEF Cleanup, Unsubscribe
<1>2. (IF a = NoAgent THEN <<>> ELSE <<Subscribe(a)>>) \in Seq(Messages)
  <2>1. a # NoAgent => Subscribe(a) \in Messages
    BY DEF Subscribe, Messages
  <2> QED BY <2>1
<1> QED BY <1>1, <1>2, ConcatProperties

-----------------------------------------------------------------------------
(* Initially, and through every step.                                      *)

\* The initial state satisfies the invariant.
LEMMA InitIInv == Init => IInv
<1> SUFFICES ASSUME Init PROVE IInv
  OBVIOUS
<1> USE NumberAssumption, NullAssumption DEF Init
<1>1. \A s \in Sockets : sock[s] = Unused /\ ~Live(s)
  BY DEF Live, State, Unused
<1>2. TypeOK
  <2>1. Unused \in [state: States, org: Orgs \union {NoOrg}]
    BY DEF Unused, States
  <2>2. wire \in [Sockets -> Seq(Messages)]
    BY EmptySeq
  <2>3. sock \in [Sockets -> [state: States, org: Orgs \union {NoOrg}]]
    BY <2>1
  <2>4. subs \in [Sockets -> SUBSET Agents]
    OBVIOUS
  <2>5. attempts \in 0..MaxAttempts /\ faults \in 0..MaxFaults
    OBVIOUS
  <2> QED BY <2>2, <2>3, <2>4, <2>5 DEF TypeOK
<1>3. ServerSense
  BY <1>1, FS_EmptySet DEF ServerSense, GaugeExact, State, Unused
<1>4. TabSense
  BY <1>1 DEF TabSense, OneSocket, SignedOut, SignedIn, PageSense, Live, State
<1>5. NeverIdle
  BY DEF NeverIdle
<1> QED BY <1>2, <1>3, <1>4, <1>5 DEF IInv

-----------------------------------------------------------------------------
(* What a step leaves alone.                                               *)

\* The handler does nothing, and sees sockets open or close.
ServerAlone ==
  /\ UNCHANGED <<server, wire>>
  /\ \A s \in Sockets :
       \/ State(s)' = State(s)
       \/ State(s)' = "connecting" /\ Forgotten(s)
       \/ State(s)' = "open" /\ State(s) = "accepted"
       \/ State(s)' = "refused" /\ State(s) = "connecting"
       \/ State(s)' \in {"closing", "broken", "free"}

LEMMA ServerKeeps ==
  ASSUME IInv, ServerAlone
  PROVE  ServerSense'
<1> USE DEF IInv, ServerSense, ServerAlone, server
<1>1. IsFiniteSet(clients') /\ GaugeExact'
  BY DEF GaugeExact
<1>2. ASSUME NEW s \in Sockets
      PROVE  /\ State(s)' \in {"accepted", "open"} => s \in clients'
             /\ State(s)' \in {"connecting", "refused"} => s \notin clients'
             /\ s \in ending' => s \notin clients' /\ State(s)' \in {"closing", "broken", "free"}
             /\ (s \notin clients' \/ State(s)' = "accepted") => subs'[s] = {} /\ wire'[s] = <<>>
  BY DEF Forgotten
<1> QED BY <1>1, <1>2

\* A socket that is open was open, with the same subscriptions and messages, or is new.
PageAlone ==
  /\ UNCHANGED page
  /\ \A s \in Sockets : State(s)' = "open" =>
       \/ State(s) = "open" /\ subs'[s] = subs[s] /\ wire'[s] = wire[s]
       \/ subs'[s] = {} /\ wire'[s] = <<>>

LEMMA PageKeeps ==
  ASSUME PageSense, PageAlone
  PROVE  PageSense'
<1> SUFFICES ASSUME NEW s \in Sockets, State(s)' = "open"
             PROVE  Follows(s)'
  BY DEF PageSense
<1>1. CASE State(s) = "open" /\ subs'[s] = subs[s] /\ wire'[s] = wire[s]
  BY <1>1 DEF PageSense, PageAlone, Follows
<1>2. CASE subs'[s] = {} /\ wire'[s] = <<>>
  BY <1>2 DEF Follows
<1> QED BY <1>1, <1>2 DEF PageAlone

-----------------------------------------------------------------------------
(* The client's steps.                                                     *)

LEMMA SignInKeeps ==
  ASSUME IInv, NEW o \in Orgs, SignIn(o)
  PROVE  IInv'
<1> USE DEF IInv, SignIn
<1>1. \/ UNCHANGED <<sock, current, connecting>> /\ (IsOpen \/ connecting)
      \/ /\ ~IsOpen /\ ~connecting /\ connecting'
         /\ \E s \in Sockets :
              /\ Forgotten(s) /\ current' = s
              /\ sock'[s] = [state |-> "connecting", org |-> o]
              /\ \A t \in Sockets \ {s} : sock'[t] = sock[t]
              /\ sock' \in [Sockets -> SocketType]
  BY Connected
<1>2. TypeOK'
  BY <1>1, NullAssumption DEF TypeOK, SocketType, server
<1>3. ServerAlone
  BY <1>1 DEF ServerAlone, State
<1>4. ASSUME ~late'
      PROVE  TabSense' /\ \E s \in Sockets : Live(s)'
  <2>1. ~late /\ \A s \in Sockets : ~Live(s)
    BY <1>4 DEF Live, TypeOK
  <2>2. ~connecting
    BY <2>1 DEF TabSense, OneSocket
  <2>3. ~IsOpen
    BY <2>1, NullAssumption DEF IsOpen, Live, TypeOK
  <2>4. PICK s \in Sockets :
          /\ current' = s
          /\ sock'[s] = [state |-> "connecting", org |-> o]
          /\ \A t \in Sockets \ {s} : sock'[t] = sock[t]
    BY <1>1, <2>2, <2>3
  <2>5. \A t \in Sockets : Live(t)' <=> t = s
    BY <2>1, <2>4 DEF Live, State
  <2>6. OneSocket'
    BY <2>1, <2>4, <2>5, NullAssumption DEF OneSocket, TabSense, SignedOut, Live, State
  <2>7. SignedOut' /\ SignedIn'
    BY <2>4, <2>5, NullAssumption DEF SignedOut, SignedIn, Live, State
  <2>8. PageSense'
    BY <2>4, <2>5 DEF PageSense, Live, State
  <2> QED BY <2>5, <2>6, <2>7, <2>8 DEF TabSense
<1> QED BY <1>2, <1>3, <1>4, ServerKeeps DEF TabSense, NeverIdle

LEMMA SignOutKeeps ==
  ASSUME IInv, SignOut
  PROVE  IInv'
<1> USE DEF IInv, SignOut, Disconnect
<1> DEFINE closes == current # NoSocket /\ State(current) \in {"connecting", "accepted", "refused", "open"}
<1>1. /\ sock' \in [Sockets -> SocketType]
      /\ closes => sock'[current].state = "closing" /\ \A t \in Sockets \ {current} : sock'[t] = sock[t]
      /\ ~closes => sock' = sock
  <2>1. CASE closes
    <3>1. current \in Sockets /\ "closing" \in States
      BY <2>1 DEF TypeOK, States
    <3>2. sock' = [sock EXCEPT ![current].state = "closing"]
      BY <2>1
    <3> QED BY <2>1, <3>1, <3>2, Moved
  <2>2. CASE ~closes
    BY <2>2 DEF TypeOK, SocketType
  <2> QED BY <2>1, <2>2
<1> HIDE DEF closes
<1>2. TypeOK'
  BY <1>1, NumberAssumption DEF TypeOK, SocketType, server, NoTimer, NoMoreAttempts
<1>3. ServerAlone
  BY <1>1 DEF ServerAlone, State, TypeOK
<1>4. ASSUME ~late'
      PROVE  TabSense'
  <2>1. \A s \in Sockets : State(s)' \in {"free", "closing", "broken"} /\ (Live(s)' => Live(s))
    <3> SUFFICES ASSUME NEW s \in Sockets, Live(s)
                 PROVE  State(s)' \in {"closing", "broken"}
      BY <1>1 DEF Live, State
    <3>1. current = s /\ State(s) \in {"connecting", "accepted", "refused", "open", "broken"}
      BY <1>4 DEF TabSense, SignedIn, Live, State, TypeOK, States
    <3>2. s # NoSocket
      BY NullAssumption
    <3> QED BY <1>1, <3>1, <3>2 DEF closes, State
  <2>2. OneSocket'
    BY <1>1, <1>4, <2>1 DEF TabSense, OneSocket, SignedIn, Live, State, TypeOK, NoTimer
  <2>3. SignedOut' /\ SignedIn'
    BY <2>1 DEF SignedOut, SignedIn, NoMoreAttempts
  <2>4. PageSense'
    BY <2>1 DEF PageSense
  <2> QED BY <2>2, <2>3, <2>4 DEF TabSense
<1> QED BY <1>2, <1>3, <1>4, ServerKeeps DEF TabSense, NeverIdle

LEMMA ReloadKeeps ==
  ASSUME IInv, Reload
  PROVE  IInv'
<1> USE DEF IInv, Reload
<1>1. PICK s \in Sockets :
        /\ Forgotten(s) /\ current' = s
        /\ sock' = [t \in Sockets |-> IF t = s THEN [state |-> "connecting", org |-> user] ELSE Unused]
  OBVIOUS
<1>2. user \in Orgs
  BY DEF TypeOK
<1>3. TypeOK'
  <2>1. [state |-> "connecting", org |-> user] \in SocketType /\ Unused \in SocketType
    BY <1>2 DEF SocketType, Unused, States
  <2>2. sock' \in [Sockets -> SocketType]
    BY <1>1, <2>1
  <2>3. current' \in Sockets /\ attempts' \in 0..MaxAttempts
    BY <1>1, NumberAssumption
  <2>4. expired' \in BOOLEAN
    BY Zenon DEF TypeOK
  <2> QED BY <2>2, <2>3, <2>4 DEF TypeOK, SocketType, server
<1>4. \A t \in Sockets : (Live(t)' <=> t = s) /\ State(t)' \in {"connecting", "free"}
  BY <1>1 DEF Live, State, Unused
<1>5. ServerAlone
  BY <1>1, <1>4 DEF ServerAlone, State, Unused
<1>6. OneSocket'
  BY <1>4 DEF OneSocket
<1>7. SignedOut' /\ SignedIn'
  BY <1>1, <1>2, <1>4, NullAssumption DEF SignedOut, SignedIn, Live, State
<1>8. PageSense'
  BY <1>4 DEF PageSense
<1> QED BY <1>3, <1>4, <1>5, <1>6, <1>7, <1>8, ServerKeeps DEF TabSense, NeverIdle

\* A timer fires: what the client's state and the server's view of it become.
LEMMA Fired ==
  ASSUME IInv, NEW o \in Orgs, Fire(o), timer' \in {NoOrg, timer}, strays' \subseteq strays
  PROVE  TypeOK' /\ ServerSense'
<1> USE DEF IInv, Fire
<1>1. /\ sock' \in [Sockets -> SocketType] /\ current' \in Sockets \union {NoSocket} /\ connecting' \in BOOLEAN
      /\ \A s \in Sockets : sock'[s] = sock[s] \/ (sock'[s].state = "connecting" /\ Forgotten(s))
  <2>1. CASE UNCHANGED <<sock, current, connecting>>
    BY <2>1 DEF TypeOK, SocketType
  <2>2. CASE ~ UNCHANGED <<sock, current, connecting>>
    <3>1. PICK s \in Sockets :
            /\ Forgotten(s) /\ current' = s
            /\ sock'[s] = [state |-> "connecting", org |-> o]
            /\ \A t \in Sockets \ {s} : sock'[t] = sock[t]
            /\ sock' \in [Sockets -> SocketType]
      BY <2>2, Connected
    <3>2. connecting' = TRUE
      BY <2>2 DEF Connect
    <3> QED BY <3>1, <3>2
  <2> QED BY <2>1, <2>2
<1>2. attempts' \in 0..MaxAttempts
  BY NumberAssumption DEF TypeOK
<1>3. TypeOK'
  BY <1>1, <1>2 DEF TypeOK, SocketType, server
<1>4. ServerAlone
  BY <1>1 DEF ServerAlone, State
<1> QED BY <1>3, <1>4, ServerKeeps

LEMMA TimerKeeps ==
  ASSUME IInv, TimerFires
  PROVE  IInv'
<1> USE DEF IInv, TimerFires
<1>1. timer \in Orgs /\ TypeOK' /\ ServerSense'
  BY Fired DEF TypeOK
<1>2. ASSUME ~late'
      PROVE  TabSense' /\ \E s \in Sockets : Live(s)'
  <2>1. ~late /\ timer = user /\ \A s \in Sockets : ~Live(s)
    BY <1>2 DEF TabSense, OneSocket, Fire
  <2>2. ~IsOpen /\ ~connecting
    BY <2>1, NullAssumption DEF IsOpen, Live, TypeOK, TabSense, OneSocket
  <2>3. PICK s \in Sockets :
          /\ current' = s
          /\ sock'[s] = [state |-> "connecting", org |-> timer]
          /\ \A t \in Sockets \ {s} : sock'[t] = sock[t]
    BY <1>1, <2>2, Connected DEF Fire
  <2>4. \A t \in Sockets : Live(t)' <=> t = s
    BY <2>1, <2>3 DEF Live, State
  <2>5. OneSocket'
    BY <2>1, <2>3, <2>4 DEF OneSocket, TabSense, Live, State, Fire
  <2>6. SignedOut' /\ SignedIn'
    BY <2>1, <2>3, <2>4 DEF SignedOut, SignedIn, Live, State, Fire
  <2>7. PageSense'
    BY <2>3, <2>4 DEF PageSense, Live, State
  <2> QED BY <2>4, <2>5, <2>6, <2>7 DEF TabSense
<1> QED BY <1>1, <1>2 DEF TabSense, NeverIdle

\* A timer that disconnect cannot clear is never left, unless the session began late.
LEMMA StrayKeeps ==
  ASSUME IInv, NEW o \in Orgs, StrayFires(o)
  PROVE  IInv'
<1> USE DEF IInv, StrayFires
<1>1. TypeOK' /\ ServerSense'
  BY Fired
<1>2. late'
  BY DEF Fire, TabSense, OneSocket
<1> QED BY <1>1, <1>2 DEF TabSense, NeverIdle

\* A socket that the server has not yet closed moves on: it was the client's, and still is.
LEMMA StaysLive ==
  ASSUME IInv, NEW s \in Sockets, NEW st \in {"accepted", "refused", "open", "broken"}, Broken(s),
         sock' = [sock EXCEPT ![s].state = st], st = "refused" => expired \/ late,
         connecting' \in {FALSE, connecting},
         UNCHANGED <<user, page, current, strays, timer, expired, late>>
  PROVE  /\ ~late' => OneSocket' /\ SignedOut' /\ SignedIn'
         /\ NeverIdle'
<1> USE DEF IInv
<1>1. /\ sock'[s] = [state |-> st, org |-> sock[s].org]
      /\ \A t \in Sockets \ {s} : sock'[t] = sock[t]
  BY Moved DEF States
<1>2. Live(s) /\ \A t \in Sockets : Live(t)' <=> Live(t)
  BY <1>1 DEF Live, State, Broken
<1>3. ASSUME ~late'
      PROVE  OneSocket' /\ SignedOut' /\ SignedIn'
  <2>1. user # NoOrg
    BY <1>3 DEF TabSense, SignedOut, Broken
  <2>2. OneSocket'
    BY <1>1, <1>2, <1>3 DEF TabSense, OneSocket, State
  <2>3. SignedOut' /\ SignedIn'
    BY <1>1, <1>2, <1>3, <2>1 DEF TabSense, SignedOut, SignedIn, State
  <2> QED BY <2>2, <2>3
<1>4. NeverIdle'
  BY <1>2 DEF NeverIdle
<1> QED BY <1>3, <1>4

LEMMA OnOpenKeeps ==
  ASSUME IInv, NEW s \in Sockets, OnOpen(s)
  PROVE  IInv'
<1> USE DEF IInv, OnOpen
<1>1. /\ sock' \in [Sockets -> SocketType] /\ State(s)' = "open"
      /\ \A t \in Sockets \ {s} : sock'[t] = sock[t]
  <2>1. "open" \in States
    BY DEF States
  <2> QED BY <2>1, Moved
<1>2. TypeOK'
  <2>1. attempts' \in 0..MaxAttempts
    BY NumberAssumption
  <2>2. connecting' \in BOOLEAN
    OBVIOUS
  <2> QED BY <1>1, <2>1, <2>2 DEF TypeOK, SocketType, server
<1>3. ServerAlone
  BY <1>1 DEF ServerAlone, State
<1>4. PageAlone
  BY <1>1 DEF PageAlone, ServerSense, State, server
<1>5. ~late' => OneSocket' /\ SignedOut' /\ SignedIn'
  BY StaysLive DEF Broken
<1>6. NeverIdle'
  BY StaysLive DEF Broken
<1> QED BY <1>2, <1>3, <1>4, <1>5, <1>6, ServerKeeps, PageKeeps DEF TabSense

LEMMA RefuseKeeps ==
  ASSUME IInv, NEW s \in Sockets, Refuse(s)
  PROVE  IInv'
<1> USE DEF IInv, Refuse, client
<1>1. /\ sock' \in [Sockets -> SocketType] /\ State(s)' = "refused"
      /\ \A t \in Sockets \ {s} : sock'[t] = sock[t]
  <2>1. "refused" \in States
    BY DEF States
  <2> QED BY <2>1, Moved
<1>2. TypeOK'
  BY <1>1 DEF TypeOK, SocketType, server
<1>3. ServerAlone
  BY <1>1 DEF ServerAlone, State
<1>4. PageAlone
  BY <1>1 DEF PageAlone, State, server
<1>5. ~late' => OneSocket' /\ SignedOut' /\ SignedIn'
  BY StaysLive DEF Broken
<1>6. NeverIdle'
  BY StaysLive DEF Broken
<1> QED BY <1>2, <1>3, <1>4, <1>5, <1>6, ServerKeeps, PageKeeps DEF TabSense

LEMMA BreakKeeps ==
  ASSUME IInv, NEW s \in Sockets, Break(s)
  PROVE  IInv'
<1> USE DEF IInv, Break, client
<1>1. /\ sock' \in [Sockets -> SocketType] /\ State(s)' = "broken"
      /\ \A t \in Sockets \ {s} : sock'[t] = sock[t]
  <2>1. "broken" \in States
    BY DEF States
  <2> QED BY <2>1, Moved
<1>2. TypeOK'
  BY <1>1, NumberAssumption DEF TypeOK, SocketType, server
<1>3. ServerAlone
  BY <1>1 DEF ServerAlone, State
<1>4. PageAlone
  BY <1>1 DEF PageAlone, State, server
<1>5. ~late' => OneSocket' /\ SignedOut' /\ SignedIn'
  BY StaysLive
<1>6. NeverIdle'
  BY StaysLive
<1> QED BY <1>2, <1>3, <1>4, <1>5, <1>6, ServerKeeps, PageKeeps DEF TabSense

\* A socket is gone.
LEMMA ClosedIs ==
  ASSUME IInv, NEW s \in Sockets, Closed(s)
  PROVE  /\ sock' \in [Sockets -> SocketType] /\ sock'[s] = Unused /\ ~Live(s)'
         /\ \A t \in Sockets \ {s} : sock'[t] = sock[t]
         /\ current' \in Sockets \union {NoSocket} /\ connecting' \in BOOLEAN /\ ~connecting'
<1>1. Unused \in SocketType /\ Unused.state = "free"
  BY DEF Unused, SocketType, States
<1>2. sock' = [sock EXCEPT ![s] = Unused] /\ sock \in [Sockets -> SocketType]
  BY DEF IInv, TypeOK, SocketType, Closed
<1>3. current' \in Sockets \union {NoSocket}
  BY DEF IInv, TypeOK, Closed
<1>4. connecting' \in BOOLEAN /\ ~connecting'
  BY DEF Closed, NotConnecting
<1> QED BY <1>1, <1>2, <1>3, <1>4 DEF Live, State

\* If it was the only one, the tab has none.
LEMMA NoneLeft ==
  ASSUME IInv, ~late, NEW s \in Sockets, Live(s), Closed(s)
  PROVE  timer = NoOrg /\ \A t \in Sockets : ~Live(t)'
BY ClosedIs DEF IInv, TabSense, OneSocket, Live, State

LEMMA OnCloseKeeps ==
  ASSUME IInv, NEW s \in Sockets, OnClose(s)
  PROVE  IInv'
<1> USE DEF IInv, OnClose
<1>1. /\ sock' \in [Sockets -> SocketType] /\ sock'[s] = Unused /\ ~Live(s)'
      /\ \A t \in Sockets \ {s} : sock'[t] = sock[t]
      /\ current' \in Sockets \union {NoSocket} /\ connecting' \in BOOLEAN /\ ~connecting'
  BY ClosedIs
<1>2. timer' \in Orgs \union {NoOrg} /\ strays' \subseteq Orgs
  BY DEF TypeOK
<1>3. TypeOK'
  BY <1>1, <1>2 DEF TypeOK, SocketType, server
<1>4. ServerAlone
  BY <1>1 DEF ServerAlone, State, Live
<1>5. ASSUME ~late'
      PROVE  TabSense' /\ (user # NoOrg => timer' # NoOrg \/ attempts' = MaxAttempts)
  <2>1. timer = NoOrg /\ \A t \in Sockets : ~Live(t)'
    BY <1>5, NoneLeft DEF Live
  <2>2. user # NoOrg => sock[s].org = user /\ current = s
    BY <1>5 DEF TabSense, SignedIn, Live
  <2>3. user = NoOrg => attempts = MaxAttempts /\ current = NoSocket /\ page = NoAgent
    BY <1>5 DEF TabSense, SignedOut, Live
  <2>4. user = NoOrg => timer' = NoOrg
    BY <2>1, <2>3, NumberAssumption
  <2>5. user # NoOrg => timer' = user \/ (timer' = NoOrg /\ attempts = MaxAttempts)
    BY <2>1, <2>2, NumberAssumption DEF TypeOK
  <2>6. strays' = {}
    BY <1>5, <2>1 DEF TabSense, OneSocket
  <2>7. OneSocket'
    <3>1. timer' # NoOrg => timer' = user'
      BY <2>4, <2>5
    <3>2. \A t \in Sockets : State(t)' = "free"
      BY <2>1 DEF Live
    <3> QED BY <1>1, <2>1, <2>6, <3>1, <3>2 DEF OneSocket
  <2>8. SignedOut'
    <3>1. current' = NoSocket \/ user # NoOrg
      BY <2>3 DEF Closed
    <3> QED BY <2>1, <2>3, <3>1 DEF SignedOut, Live
  <2>9. SignedIn' /\ PageSense'
    BY <2>1 DEF SignedIn, PageSense, Live
  <2> QED BY <2>5, <2>7, <2>8, <2>9 DEF TabSense
<1> QED BY <1>3, <1>4, <1>5, ServerKeeps DEF TabSense, NeverIdle

LEMMA OnRefusedKeeps ==
  ASSUME IInv, NEW s \in Sockets, OnRefused(s)
  PROVE  IInv'
<1> USE DEF IInv, OnRefused
<1>1. /\ sock' \in [Sockets -> SocketType] /\ sock'[s] = Unused /\ ~Live(s)'
      /\ \A t \in Sockets \ {s} : sock'[t] = sock[t]
      /\ current' \in Sockets \union {NoSocket} /\ connecting' \in BOOLEAN /\ ~connecting'
  BY ClosedIs
<1>2. attempts' \in 0..MaxAttempts
  BY NumberAssumption
<1>3. TypeOK'
  BY <1>1, <1>2 DEF TypeOK, SocketType, server
<1>4. ServerAlone
  BY <1>1 DEF ServerAlone, State, Live
<1>5. ASSUME ~late'
      PROVE  TabSense' /\ expired'
  <2>1. timer = NoOrg /\ \A t \in Sockets : ~Live(t)'
    BY <1>5, NoneLeft DEF Live
  <2>2. user # NoOrg /\ expired
    BY <1>5 DEF TabSense, SignedOut, OneSocket
  <2>3. OneSocket'
    <3>1. \A t \in Sockets : State(t)' = "free"
      BY <2>1 DEF Live
    <3> QED BY <1>1, <1>5, <2>1, <3>1 DEF TabSense, OneSocket
  <2>4. SignedOut' /\ SignedIn' /\ PageSense'
    BY <2>1, <2>2 DEF SignedOut, SignedIn, PageSense, Live
  <2> QED BY <2>2, <2>3, <2>4 DEF TabSense
<1> QED BY <1>3, <1>4, <1>5, ServerKeeps DEF TabSense, NeverIdle

LEMMA ExpireKeeps ==
  ASSUME IInv, Expire
  PROVE  IInv'
<1> USE DEF IInv, Expire
<1>1. expired' \in BOOLEAN /\ expired'
  OBVIOUS
<1>2. TypeOK'
  BY <1>1 DEF TypeOK, server
<1>3. ServerAlone
  BY DEF ServerAlone, State
<1>4. PageAlone
  BY DEF PageAlone, State, server
<1>5. ~late' => OneSocket' /\ SignedOut' /\ SignedIn'
  BY DEF TabSense, OneSocket, SignedOut, SignedIn, Live, State
<1> QED BY <1>1, <1>2, <1>3, <1>4, <1>5, ServerKeeps, PageKeeps DEF TabSense, NeverIdle

-----------------------------------------------------------------------------
(* The handler's steps.                                                    *)

LEMMA AcceptKeeps ==
  ASSUME IInv, NEW s \in Sockets, Accept(s)
  PROVE  IInv'
<1> USE DEF IInv, Accept, client
<1>1. /\ sock' \in [Sockets -> SocketType] /\ State(s)' = "accepted"
      /\ \A t \in Sockets \ {s} : sock'[t] = sock[t]
  <2>1. "accepted" \in States
    BY DEF States
  <2> QED BY <2>1, Moved
<1>2. s \notin clients /\ subs[s] = {} /\ wire[s] = <<>> /\ s \notin ending
  BY DEF ServerSense
<1>3. IsFiniteSet(clients') /\ GaugeExact' /\ gauge' \in Nat
  BY <1>2, FS_AddElement, FS_CardinalityType DEF ServerSense, GaugeExact
<1>4. TypeOK'
  BY <1>1, <1>3 DEF TypeOK, SocketType
<1>5. ServerSense'
  <2> SUFFICES ASSUME NEW t \in Sockets
               PROVE  /\ State(t)' \in {"accepted", "open"} => t \in clients'
                      /\ State(t)' \in {"connecting", "refused"} => t \notin clients'
                      /\ t \in ending' => t \notin clients' /\ State(t)' \in {"closing", "broken", "free"}
                      /\ (t \notin clients' \/ State(t)' = "accepted") => subs'[t] = {} /\ wire'[t] = <<>>
    BY <1>3 DEF ServerSense
  <2>1. CASE t = s
    BY <1>1, <1>2, <2>1
  <2>2. CASE t # s
    BY <1>1, <2>2 DEF ServerSense, State
  <2> QED BY <2>1, <2>2
<1>6. PageAlone
  BY <1>1 DEF PageAlone, State
<1>7. ~late' => OneSocket' /\ SignedOut' /\ SignedIn'
  BY StaysLive DEF Broken
<1>8. NeverIdle'
  BY StaysLive DEF Broken
<1> QED BY <1>4, <1>5, <1>6, <1>7, <1>8, PageKeeps DEF TabSense

\* The handler cleans up after a connection that has ended, the first time or again.
LEMMA CleanedUp ==
  ASSUME IInv, NEW s \in Sockets, State(s) \in {"closing", "broken", "free"}, CleanUp(s),
         ending' \in {ending \union {s}, ending \ {s}},
         UNCHANGED <<user, page, sock, client, late, faults>>
  PROVE  IInv'
<1> USE DEF IInv, CleanUp, client
<1>1. IsFiniteSet(clients') /\ GaugeExact' /\ gauge' \in Nat
  <2>1. IsFiniteSet(clients) /\ gauge = Cardinality(clients) /\ gauge \in Nat
    BY FS_CardinalityType DEF ServerSense, GaugeExact
  <2>2. /\ IsFiniteSet(clients \ {s}) /\ Cardinality(clients \ {s}) \in Nat
        /\ Cardinality(clients \ {s}) = gauge - Counts(s)
    BY <2>1, FS_RemoveElement, FS_CardinalityType DEF Counts
  <2> QED BY <2>1, <2>2 DEF GaugeExact
<1>2. subs' \in [Sockets -> SUBSET Agents] /\ wire' \in [Sockets -> Seq(Messages)]
  BY EmptySeq DEF TypeOK
<1>3. TypeOK'
  BY <1>1, <1>2 DEF TypeOK
<1>4. ServerSense'
  <2> SUFFICES ASSUME NEW t \in Sockets
               PROVE  /\ State(t)' \in {"accepted", "open"} => t \in clients'
                      /\ State(t)' \in {"connecting", "refused"} => t \notin clients'
                      /\ t \in ending' => t \notin clients' /\ State(t)' \in {"closing", "broken", "free"}
                      /\ (t \notin clients' \/ State(t)' = "accepted") => subs'[t] = {} /\ wire'[t] = <<>>
    BY <1>1 DEF ServerSense
  <2>1. State(t)' = State(t)
    BY DEF State
  <2>2. CASE t = s
    BY <2>1, <2>2 DEF TypeOK
  <2>3. CASE t # s
    BY <2>1, <2>3 DEF ServerSense, TypeOK
  <2> QED BY <2>2, <2>3
<1>5. PageAlone
  BY DEF PageAlone, State, TypeOK
<1>6. ~late' => OneSocket' /\ SignedOut' /\ SignedIn'
  BY DEF TabSense, OneSocket, SignedOut, SignedIn, Live, State
<1>7. NeverIdle'
  BY DEF NeverIdle, Live, State
<1> QED BY <1>3, <1>4, <1>5, <1>6, <1>7, PageKeeps DEF TabSense

LEMMA EndKeeps ==
  ASSUME IInv, NEW s \in Sockets, OnError(s) \/ OnEnd(s)
  PROVE  IInv'
<1>1. State(s) \in {"closing", "broken", "free"}
  BY DEF OnError, OnEnd, IInv, ServerSense
<1> QED BY <1>1, CleanedUp DEF OnError, OnEnd

LEMMA RestartKeeps ==
  ASSUME IInv, Restart
  PROVE  IInv'
<1> USE DEF IInv, Restart, client
<1>1. \A s \in Sockets :
        /\ sock'[s] \in SocketType /\ sock'[s].org = sock[s].org
        /\ State(s)' = IF Broken(s) THEN "broken" ELSE State(s)
  <2> SUFFICES ASSUME NEW s \in Sockets
               PROVE  /\ sock'[s] \in SocketType /\ sock'[s].org = sock[s].org
                      /\ State(s)' = IF Broken(s) THEN "broken" ELSE State(s)
    OBVIOUS
  <2>1. sock[s] \in SocketType
    BY DEF TypeOK, SocketType
  <2>2. CASE Broken(s)
    BY <2>1, <2>2 DEF State, SocketType, States
  <2>3. CASE ~Broken(s)
    BY <2>1, <2>3 DEF State
  <2> QED BY <2>2, <2>3
<1>2. sock' \in [Sockets -> SocketType]
  BY <1>1
<1>3. subs' \in [Sockets -> SUBSET Agents] /\ wire' \in [Sockets -> Seq(Messages)]
  BY EmptySeq
<1>4. TypeOK'
  BY <1>2, <1>3, NumberAssumption DEF TypeOK, SocketType
<1>5. \A s \in Sockets :
        /\ Live(s)' <=> Live(s)
        /\ State(s)' \in {"free", "closing", "broken"}
  BY <1>1 DEF Live, Broken, State, TypeOK, States
<1>6. ServerSense'
  BY <1>5, FS_EmptySet DEF ServerSense, GaugeExact
<1>7. ASSUME ~late'
      PROVE  OneSocket' /\ SignedOut' /\ SignedIn' /\ PageSense'
  <2>1. OneSocket'
    BY <1>5, <1>7 DEF TabSense, OneSocket
  <2>2. SignedOut'
    BY <1>5, <1>7 DEF TabSense, SignedOut
  <2>3. SignedIn'
    BY <1>1, <1>5, <1>7 DEF TabSense, SignedIn
  <2>4. PageSense'
    BY <1>5 DEF PageSense
  <2> QED BY <2>1, <2>2, <2>3, <2>4
<1>8. NeverIdle'
  BY <1>5 DEF NeverIdle
<1> QED BY <1>4, <1>6, <1>7, <1>8 DEF TabSense

\* The handler takes a message: what it subscribed to is the page's, or is taken back by
\* a message behind it.
LEMMA TakenFollows ==
  ASSUME TypeOK, NEW s \in Sockets, OnMessage(s), Follows(s)
  PROVE  Follows(s)'
<1> DEFINE w == wire[s]
           m == Head(w)
<1>1. w \in Seq(Messages) /\ w # <<>> /\ wire'[s] = Tail(w)
  BY DEF OnMessage, TypeOK
<1>2. /\ Len(w) \in Nat /\ Len(w) >= 1 /\ m = w[1] /\ m \in Messages
      /\ Tail(w) \in Seq(Messages) /\ Len(Tail(w)) = Len(w) - 1
      /\ DOMAIN w = 1..Len(w) /\ DOMAIN Tail(w) = 1..(Len(w) - 1)
      /\ \A i \in 1..(Len(w) - 1) : Tail(w)[i] = w[i + 1]
  BY <1>1, HeadTailProperties, LenProperties, EmptySeq
<1>3. subs'[s] = IF m.action = "subscribe" THEN subs[s] \union {m.agent} ELSE subs[s] \ {m.agent}
  BY DEF OnMessage, TypeOK
<1> HIDE DEF w
<1>4. \A i \in DOMAIN w : i # 1 => i - 1 \in DOMAIN Tail(w) /\ Tail(w)[i - 1] = w[i]
  BY <1>2
<1>5. ASSUME NEW a \in subs'[s]
      PROVE  page = a \/ \E i \in DOMAIN Tail(w) : Tail(w)[i] = Unsubscribe(a)
  <2>1. CASE m.action = "subscribe" /\ a = m.agent
    <3>1. page = a \/ \E k \in DOMAIN w : k > 1 /\ w[k] = Unsubscribe(a)
      BY <1>2, <2>1 DEF Follows, w
    <3> QED BY <1>4, <3>1
  <2>2. CASE ~(m.action = "subscribe" /\ a = m.agent)
    <3>1. a \in subs[s] /\ ~(m.action = "unsubscribe" /\ a = m.agent)
      BY <1>3, <2>2
    <3>2. m # Unsubscribe(a)
      BY <3>1 DEF Unsubscribe
    <3>3. page = a \/ \E i \in DOMAIN w : w[i] = Unsubscribe(a)
      BY <3>1 DEF Follows, w
    <3> QED BY <1>2, <1>4, <3>2, <3>3
  <2> QED BY <2>1, <2>2
<1>6. ASSUME NEW i \in DOMAIN Tail(w), Tail(w)[i].action = "subscribe"
      PROVE  \/ page = Tail(w)[i].agent
             \/ \E k \in DOMAIN Tail(w) : k > i /\ Tail(w)[k] = Unsubscribe(Tail(w)[i].agent)
  <2>1. i + 1 \in DOMAIN w /\ w[i + 1] = Tail(w)[i] /\ i \in Nat
    BY <1>2
  <2>2. \/ page = w[i + 1].agent
        \/ \E k \in DOMAIN w : k > i + 1 /\ w[k] = Unsubscribe(w[i + 1].agent)
    BY <1>6, <2>1 DEF Follows, w
  <2>3. CASE page = w[i + 1].agent
    BY <2>1, <2>3
  <2>4. CASE \E k \in DOMAIN w : k > i + 1 /\ w[k] = Unsubscribe(w[i + 1].agent)
    <3>1. PICK k \in DOMAIN w : k > i + 1 /\ w[k] = Unsubscribe(w[i + 1].agent)
      BY <2>4
    <3>2. k - 1 \in DOMAIN Tail(w) /\ Tail(w)[k - 1] = w[k] /\ k - 1 > i
      BY <1>2, <1>4, <2>1, <3>1
    <3> QED BY <2>1, <3>1, <3>2
  <2> QED BY <2>2, <2>3, <2>4
<1>7. page' = page
  BY DEF OnMessage
<1> QED BY <1>1, <1>5, <1>6, <1>7 DEF Follows, w

\* A page is shown, and the effect's messages sent: the page before it is taken back.
LEMMA ShownFollows ==
  ASSUME TypeOK, NEW a \in Agents \union {NoAgent}, Show(a),
         NEW s \in Sockets, current = s, IsOpen, Follows(s)
  PROVE  Follows(s)'
<1> DEFINE w == wire[s]
           asks == IF a = NoAgent THEN <<>> ELSE <<Subscribe(a)>>
           sent == Cleanup \o asks
<1>1. page' = a /\ subs' = subs
  BY DEF Show, server
<1>2. w \in Seq(Messages) /\ wire'[s] = w \o sent
  BY DEF TypeOK, Show, Send
<1>3. Cleanup \in Seq(Messages) /\ asks \in Seq(Messages) /\ sent \in Seq(Messages)
  BY EffectType
<1>4. /\ Len(w) \in Nat /\ DOMAIN w = 1..Len(w)
      /\ w \o sent \in Seq(Messages) /\ Len(sent) \in Nat
      /\ DOMAIN (w \o sent) = 1..(Len(w) + Len(sent))
      /\ \A i \in 1..(Len(w) + Len(sent)) : (w \o sent)[i] = IF i <= Len(w) THEN w[i] ELSE sent[i - Len(w)]
  <2> HIDE DEF w, sent
  <2> QED BY <1>2, <1>3, ConcatProperties, LenProperties
<1>5. page # NoAgent => Len(sent) >= 1 /\ sent[1] = Unsubscribe(page)
  <2> SUFFICES ASSUME page # NoAgent
               PROVE  Len(sent) >= 1 /\ sent[1] = Unsubscribe(page)
    OBVIOUS
  <2>1. Cleanup = <<Unsubscribe(page)>>
    BY DEF Cleanup, Unsubscribe
  <2>2. Len(Cleanup) = 1 /\ Cleanup[1] = Unsubscribe(page)
    BY <2>1
  <2> QED BY <1>3, <2>2, ConcatProperties, LenProperties
<1>6. \A i \in 1..Len(sent) : sent[i].action = "subscribe" => sent[i].agent = a
  <2>1. \A i \in 1..Len(Cleanup) : Cleanup[i].action = "unsubscribe"
    BY DEF Cleanup
  <2>2. \A i \in 1..Len(asks) : asks[i].agent = a
    BY DEF Subscribe
  <2>3. /\ Len(Cleanup) \in Nat /\ Len(asks) \in Nat /\ Len(sent) = Len(Cleanup) + Len(asks)
        /\ \A i \in 1..Len(sent) :
             sent[i] = IF i <= Len(Cleanup) THEN Cleanup[i] ELSE asks[i - Len(Cleanup)]
    BY <1>3, ConcatProperties, LenProperties
  <2> HIDE DEF sent, asks
  <2> QED BY <2>1, <2>2, <2>3
<1> HIDE DEF w, sent
<1>7. \A i \in DOMAIN w : i \in DOMAIN (w \o sent) /\ (w \o sent)[i] = w[i]
  BY <1>4
<1>8. page # NoAgent => \E k \in DOMAIN (w \o sent) : k > Len(w) /\ (w \o sent)[k] = Unsubscribe(page)
  <2>1. page # NoAgent => Len(w) + 1 \in DOMAIN (w \o sent) /\ (w \o sent)[Len(w) + 1] = Unsubscribe(page)
    BY <1>4, <1>5
  <2> QED BY <1>4, <2>1
<1>9. ASSUME NEW b \in subs[s]
      PROVE  \E i \in DOMAIN (w \o sent) : (w \o sent)[i] = Unsubscribe(b)
  <2>1. page = b \/ \E i \in DOMAIN w : w[i] = Unsubscribe(b)
    BY DEF Follows, w
  <2>2. b # NoAgent
    BY NullAssumption DEF TypeOK
  <2> QED BY <1>7, <1>8, <2>1, <2>2
<1>10. ASSUME NEW i \in DOMAIN (w \o sent), (w \o sent)[i].action = "subscribe"
       PROVE  \/ a = (w \o sent)[i].agent
              \/ \E k \in DOMAIN (w \o sent) : k > i /\ (w \o sent)[k] = Unsubscribe((w \o sent)[i].agent)
  <2>1. CASE i \in DOMAIN w
    <3>1. w[i].action = "subscribe" /\ w[i].agent # NoAgent /\ i <= Len(w)
      <4>1. w[i].action = "subscribe" /\ w[i] \in Messages /\ i <= Len(w)
        BY <1>2, <1>4, <1>7, <1>10, <2>1, ElementOfSeq
      <4> QED BY <4>1, NullAssumption DEF Messages
    <3>2. \/ page = w[i].agent
          \/ \E k \in DOMAIN w : k > i /\ w[k] = Unsubscribe(w[i].agent)
      BY <2>1, <3>1 DEF Follows, w
    <3>3. CASE page = w[i].agent
      <4>1. PICK k \in DOMAIN (w \o sent) : k > Len(w) /\ (w \o sent)[k] = Unsubscribe(page)
        BY <1>8, <3>1, <3>3
      <4>2. k > i
        BY <1>4, <3>1, <4>1
      <4> QED BY <1>7, <2>1, <3>3, <4>1, <4>2
    <3>4. CASE \E k \in DOMAIN w : k > i /\ w[k] = Unsubscribe(w[i].agent)
      BY <1>7, <2>1, <3>4
    <3> QED BY <3>2, <3>3, <3>4
  <2>2. CASE i \notin DOMAIN w
    BY <1>4, <1>6, <1>10, <2>2
  <2> QED BY <2>1, <2>2
<1> QED BY <1>1, <1>2, <1>9, <1>10 DEF Follows, w

LEMMA MessageKeeps ==
  ASSUME IInv, NEW s \in Sockets, OnMessage(s)
  PROVE  IInv'
<1> USE DEF IInv, OnMessage, client
<1>1. /\ subs' \in [Sockets -> SUBSET Agents] /\ wire' \in [Sockets -> Seq(Messages)]
      /\ \A t \in Sockets \ {s} : subs'[t] = subs[t] /\ wire'[t] = wire[t]
  <2>1. wire[s] \in Seq(Messages) /\ Head(wire[s]) \in Messages /\ Tail(wire[s]) \in Seq(Messages)
    BY HeadTailProperties DEF TypeOK
  <2>2. Head(wire[s]).agent \in Agents
    BY <2>1 DEF Messages
  <2> QED BY <2>1, <2>2 DEF TypeOK
<1>2. TypeOK'
  BY <1>1 DEF TypeOK
<1>3. ServerSense'
  BY <1>1 DEF ServerSense, GaugeExact, State
<1>4. ~late' => OneSocket' /\ SignedOut' /\ SignedIn'
  BY DEF TabSense, OneSocket, SignedOut, SignedIn, Live, State
<1>5. ASSUME ~late'
      PROVE  PageSense'
  <2> SUFFICES ASSUME NEW t \in Sockets, State(t)' = "open"
               PROVE  Follows(t)'
    BY DEF PageSense
  <2>1. Follows(t)
    BY <1>5 DEF TabSense, PageSense, State
  <2>2. CASE t = s
    BY <2>1, <2>2, TakenFollows
  <2>3. CASE t # s
    BY <1>1, <2>1, <2>3 DEF Follows
  <2> QED BY <2>2, <2>3
<1>6. NeverIdle'
  BY DEF NeverIdle, Live, State
<1> QED BY <1>2, <1>3, <1>4, <1>5, <1>6 DEF TabSense

LEMMA ShowKeeps ==
  ASSUME IInv, NEW a \in Agents \union {NoAgent}, Show(a)
  PROVE  IInv'
<1> USE DEF IInv, Show, client, server
<1>1. /\ wire' \in [Sockets -> Seq(Messages)]
      /\ \A t \in Sockets : wire'[t] = wire[t] \/ (t = current /\ IsOpen)
  <2>1. CASE IsOpen
    <3>1. current \in Sockets /\ wire[current] \in Seq(Messages)
      BY <2>1 DEF IsOpen, TypeOK
    <3>2. wire[current] \o (Cleanup \o (IF a = NoAgent THEN <<>> ELSE <<Subscribe(a)>>)) \in Seq(Messages)
      BY <3>1, EffectType, ConcatProperties
    <3> QED BY <2>1, <3>1, <3>2 DEF Send, TypeOK
  <2>2. CASE ~IsOpen
    BY <2>2 DEF Send, TypeOK
  <2> QED BY <2>1, <2>2
<1>2. TypeOK'
  BY <1>1 DEF TypeOK
<1>3. ServerSense'
  BY <1>1 DEF ServerSense, GaugeExact, State, IsOpen
<1>4. ~late' => OneSocket' /\ SignedOut' /\ SignedIn'
  BY DEF TabSense, OneSocket, SignedOut, SignedIn, Live, State
<1>5. ASSUME ~late'
      PROVE  PageSense'
  <2> SUFFICES ASSUME NEW t \in Sockets, State(t)' = "open"
               PROVE  Follows(t)'
    BY DEF PageSense
  <2>1. Follows(t) /\ State(t) = "open"
    BY <1>5 DEF TabSense, PageSense, State
  <2>2. current = t /\ IsOpen
    BY <1>5, <2>1, NullAssumption DEF TabSense, SignedIn, Live, IsOpen
  <2> QED BY <2>1, <2>2, ShownFollows
<1>6. NeverIdle'
  BY DEF NeverIdle, Live, State
<1> QED BY <1>2, <1>3, <1>4, <1>5, <1>6 DEF TabSense

-----------------------------------------------------------------------------
(* The specification.                                                      *)

\* Every step keeps the invariant.
LEMMA StepKeeps == IInv /\ [Next]_vars => IInv'
<1> SUFFICES ASSUME IInv, [Next]_vars PROVE IInv'
  OBVIOUS
<1>1. CASE \E o \in Orgs : SignIn(o) \/ StrayFires(o)
  BY <1>1, SignInKeeps, StrayKeeps
<1>2. CASE SignOut
  BY <1>2, SignOutKeeps
<1>3. CASE Reload
  BY <1>3, ReloadKeeps
<1>4. CASE TimerFires
  BY <1>4, TimerKeeps
<1>5. CASE Expire
  BY <1>5, ExpireKeeps
<1>6. CASE Restart
  BY <1>6, RestartKeeps
<1>7. CASE \E a \in Agents \union {NoAgent} : Show(a)
  BY <1>7, ShowKeeps
<1>8. CASE \E s \in Sockets : SocketStep(s)
  BY <1>8, AcceptKeeps, RefuseKeeps, OnOpenKeeps, OnRefusedKeeps, OnCloseKeeps, EndKeeps DEF SocketStep
<1>9. CASE \E s \in Sockets : OnMessage(s) \/ Break(s)
  BY <1>9, MessageKeeps, BreakKeeps
<1>10. CASE UNCHANGED vars
  <2> USE <1>10 DEF vars, client, server, IInv
  <2>1. TypeOK'
    BY DEF TypeOK
  <2>2. ServerAlone /\ PageAlone
    BY DEF ServerAlone, PageAlone, State
  <2>3. ~late' => OneSocket' /\ SignedOut' /\ SignedIn'
    BY DEF TabSense, OneSocket, SignedOut, SignedIn, Live, State
  <2>4. NeverIdle'
    BY DEF NeverIdle, Live, State
  <2> QED BY <2>1, <2>2, <2>3, <2>4, ServerKeeps, PageKeeps DEF TabSense
<1> QED BY <1>1, <1>2, <1>3, <1>4, <1>5, <1>6, <1>7, <1>8, <1>9, <1>10 DEF Next

\* The invariant is inductive.
THEOREM Inductive == Spec => []IInv
<1>1. Init => IInv
  BY InitIInv
<1>2. IInv /\ [Next]_vars => IInv'
  BY StepKeeps
<1> QED BY <1>1, <1>2, PTL DEF Spec

\* Every variable keeps its type: the gauge is never negative, and the timers, sockets
\* and subscriptions stay those of known sessions and agents.
THEOREM TypeCorrect == Spec => []TypeOK
BY Inductive, PTL DEF IInv

\* NoOtherSession: unless a session began before the socket of the last had closed, a tab
\* in which nobody is signed in hears nothing on any channel, and one whose user is signed
\* in hears no event that names another organization, through reconnections, expired
\* tokens, reloads and restarts of the server.  (Events of jobs and metrics name none, and
\* are not told apart by the handler.)
THEOREM HearsNoOtherSession == Spec => []NoOtherSession
<1>1. IInv => NoOtherSession
  <2> SUFFICES ASSUME IInv, ~late, NEW e \in Events, NEW s \in Hears(e)
               PROVE  user # NoOrg /\ (Named(e) => e.of = user)
    BY DEF NoOtherSession
  <2>1. s \in Sockets /\ State(s) = "open" /\ Passes(s, e)
    BY DEF Hears, IInv, TypeOK
  <2>2. user # NoOrg
    BY <2>1 DEF IInv, TabSense, SignedOut
  <2>3. sock[s].org = user
    BY <2>1, <2>2 DEF IInv, TabSense, SignedIn, Live
  <2>4. e.of # NoOrg
    BY NullAssumption DEF Events
  <2> QED BY <2>1, <2>2, <2>3, <2>4 DEF Passes, OrganizationId
<1> QED BY <1>1, Inductive, PTL

\* NoGhostSubscription: likewise, metrics come only for the agent that the component
\* shows, or until the message that unsubscribes arrives, whatever the order of agents.
THEOREM SubscriptionsFollowThePage == Spec => []NoGhostSubscription
<1>1. IInv => NoGhostSubscription
  <2> SUFFICES ASSUME IInv, ~late, NEW e \in Events, NEW s \in Hears(e), e.channel = "agent:metrics"
               PROVE  \/ page = e.agent
                      \/ \E i \in DOMAIN wire[s] : wire[s][i] = Unsubscribe(e.agent)
    BY DEF NoGhostSubscription, Unsubscribe
  <2>1. s \in Sockets /\ State(s) = "open" /\ e.agent \in subs[s]
    BY DEF Hears, Passes, IInv, TypeOK
  <2>2. Follows(s)
    BY <2>1 DEF IInv, TabSense, PageSense
  <2> QED BY <2>1, <2>2 DEF Follows
<1> QED BY <1>1, Inductive, PTL

\* GaugeExact: the gauge is the number of the handler's clients, though a connection may
\* end with an error and a close, and though clients come back after a restart.
THEOREM GaugeCounts == Spec => []GaugeExact
BY Inductive, PTL DEF IInv, ServerSense

\* While its user is signed in, a tab that has neither used up its attempts nor an expired
\* token has a socket, or a timer that opens one: what ConnectsUnlessGivenUp rests on.
THEOREM NeverJustStops == Spec => []NeverIdle
BY Inductive, PTL DEF IInv

\* Unless somebody signed in before the socket of the session before had closed (in that
\* case a timer or a socket may well be left): once the user has signed out nothing is
\* left that could connect again, no timer and no socket but one that closes or is broken.
Quiet ==
  (user = NoOrg /\ ~late) =>
    /\ timer = NoOrg /\ strays = {} /\ current = NoSocket
    /\ \A s \in Sockets : State(s) \in {"free", "closing", "broken"}
THEOREM SignedOutIsQuiet == Spec => []Quiet
<1>1. IInv => Quiet
  BY DEF IInv, TabSense, OneSocket, SignedOut, Quiet
<1> QED BY <1>1, Inductive, PTL

-----------------------------------------------------------------------------
(* The list of jobs: the inductive invariant.                              *)

\* A list that a view may have read: of jobs that exist, as its filter has them.
ReadFor(v, list) ==
  \A j \in Jobs : list[j] # "none" => row[j] # "none" /\ (v \in Chosen => list[j] = v)

ReadByQuery ==
  \A v \in Views :
    /\ query[v].stage # "idle" => query[v].params = v
    /\ query[v].stage = "read" => ReadFor(v, query[v].got)

ReadIntoCache == \A v \in Views : ReadFor(v, cache[v].list)

\* A view is told of jobs that it is to list, and jobs that are made are the agent's.
ToldToList == \A v \in Views : \A j \in told[v] : Enters(v, j) /\ row[j] # "none"
MadeExist  == \A j \in made : row[j] # "none" /\ j \in OfAgent

ListInv ==
  /\ ListTypeOK
  /\ ReadByQuery /\ ReadIntoCache
  /\ ToldToList /\ MadeExist /\ NewJobIsListed

-----------------------------------------------------------------------------
(* Initially, and through every step.                                      *)

\* Markers are what the types say.
LEMMA MarkerTypes ==
  /\ Nothing \in Listed
  /\ Idle \in [stage: {"idle", "asked", "read"}, params: Views \union {"none"}, got: Listed]
  /\ Absent \in [here: BOOLEAN, list: Listed]
  /\ "away" \notin Views /\ "none" \notin Views
<1>1. Nothing \in Listed
  BY DEF Nothing, Listed
<1>2. "away" \notin Views /\ "none" \notin Views
  BY ViewAssumption DEF Statuses
<1> QED BY <1>1, <1>2 DEF Idle, Absent

\* The initial state satisfies the invariant.
LEMMA InitListInv == ListInit => ListInv
<1> SUFFICES ASSUME ListInit PROVE ListInv
  OBVIOUS
<1> USE SizeAssumption DEF ListInit
<1>1. ListTypeOK
  <2>1. row \in Listed
    BY DEF Listed
  <2>2. query \in [Views -> [stage: {"idle", "asked", "read"}, params: Views \union {"none"}, got: Listed]]
    BY MarkerTypes
  <2>3. cache \in [Views -> [here: BOOLEAN, list: Listed]]
    BY MarkerTypes
  <2> QED BY <2>1, <2>2, <2>3 DEF ListTypeOK
<1>2. ReadByQuery /\ ReadIntoCache
  BY DEF ReadByQuery, ReadIntoCache, ReadFor, Idle, Absent, Nothing
<1>3. ToldToList /\ MadeExist /\ NewJobIsListed
  BY DEF ToldToList, MadeExist, NewJobIsListed
<1> QED BY <1>1, <1>2, <1>3 DEF ListInv

\* What a query may become when a view is asked for: it stays as it is or is asked anew.
AskedFor(q) ==
  /\ q \in [Views -> [stage: {"idle", "asked", "read"}, params: Views \union {"none"}, got: Listed]]
  /\ \A w \in Views : q[w] = query[w] \/ (q[w].stage = "asked" /\ q[w].params = w)

LEMMA Asking ==
  ASSUME ListTypeOK, NEW v \in Views
  PROVE  AskedFor(Ask(v)) /\ AskedFor(AskOnce(v)) /\ AskedFor(Refetched(v))
<1>1. AskedFor(Ask(v))
  BY MarkerTypes DEF AskedFor, Ask, Key, ListTypeOK
<1>2. AskedFor(query)
  BY DEF AskedFor, ListTypeOK
<1> QED BY <1>1, <1>2 DEF AskOnce, Refetched

\* Asking leaves the invariant alone, whatever view is looked at and whatever is stale.
LEMMA AskKeeps ==
  ASSUME ListInv, AskedFor(query'),
         view' \in Views \union {"away"}, stale' \subseteq {v \in Views : cache[v].here},
         UNCHANGED <<row, cache, asked, made, told>>
  PROVE  ListInv'
<1> USE DEF ListInv, AskedFor
<1>1. ListTypeOK'
  BY DEF ListTypeOK
<1>2. ReadIntoCache' /\ ToldToList' /\ MadeExist'
  BY DEF ReadIntoCache, ReadFor, ToldToList, Enters, MadeExist
<1>3. ReadByQuery'
  BY DEF ReadByQuery, ReadFor
<1>4. NewJobIsListed'
  BY DEF NewJobIsListed
<1> QED BY <1>1, <1>2, <1>3, <1>4

\* Poll and refresh ask for what is looked at.
LEMMA PollKeeps ==
  ASSUME ListInv, Poll \/ Refresh
  PROVE  ListInv'
<1>1. view \in Views
  BY DEF Poll, Polls, Refresh, ListInv, ListTypeOK
<1>2. AskedFor(query')
  BY <1>1, Asking DEF Poll, Refresh, ListInv
<1> QED BY <1>1, <1>2, AskKeeps DEF Poll, Refresh, posts, ListInv, ListTypeOK

\* So does looking at another view; looking away asks for nothing.
LEMMA ShowsKeeps ==
  ASSUME ListInv, LookAway \/ \E v \in Views : Shows(v)
  PROVE  ListInv'
<1>1. CASE LookAway
  <2>1. AskedFor(query')
    BY <1>1 DEF LookAway, AskedFor, ListInv, ListTypeOK
  <2> QED BY <1>1, <2>1, AskKeeps DEF LookAway, posts, ListInv, ListTypeOK
<1>2. ASSUME NEW v \in Views, Shows(v) PROVE ListInv'
  <2>1. AskedFor(query)
    BY DEF AskedFor, ListInv, ListTypeOK
  <2>2. AskedFor(query')
    BY <1>2, <2>1, Asking DEF Shows, ListInv
  <2> QED BY <1>2, <2>2, AskKeeps DEF Shows, posts, ListInv, ListTypeOK
<1> QED BY <1>1, <1>2

\* What the statement of listJobs returns is a list for its view.
LEMMA PageIsRead ==
  ASSUME ListTypeOK, NEW v \in Views
  PROVE  Page(v) \in Listed /\ ReadFor(v, Page(v))
<1>1. \A j \in Jobs : row[j] \in Statuses \union {"none"}
  BY DEF ListTypeOK, Listed
<1>2. \A j \in Jobs : OnPage(v, j) => row[j] # "none" /\ (v \in Chosen => row[j] = v)
  BY DEF OnPage, Matches
<1> QED BY <1>1, <1>2 DEF Page, Listed, ReadFor

\* In a set of jobs that has one there is a newest.
LEMMA Newest ==
  ASSUME NEW S \in SUBSET Jobs, S # {}
  PROVE  \E j \in S : \A i \in S : i <= j
<1> DEFINE Ages == {MaxJobs - j : j \in S}
<1>1. MaxJobs \in Nat /\ Ages \subseteq Nat /\ Ages # {}
  <2>1. \A j \in S : MaxJobs - j \in Nat
    BY SizeAssumption DEF Jobs
  <2>2. PICK j : j \in S
    OBVIOUS
  <2>3. MaxJobs - j \in Ages
    BY <2>2
  <2> QED BY <2>1, <2>3, SizeAssumption
<1>2. PICK a \in Ages : \A b \in Ages : ~(<<b, a>> \in OpToRel(<, Nat))
  BY <1>1, WFMin, NatLessThanWellFounded
<1>3. \A b \in Ages : ~(b < a)
  BY <1>1, <1>2 DEF OpToRel
<1>4. PICK j \in S : a = MaxJobs - j
  OBVIOUS
<1>5. \A i \in S : ~(MaxJobs - i < MaxJobs - j)
  BY <1>3, <1>4
<1> QED BY <1>1, <1>5 DEF Jobs

\* A job that matches is on the page, or a newer one is.
LEMMA NewerOnPage ==
  ASSUME ListTypeOK, NEW v \in Views, NEW j \in Jobs, Matches(v, j)
  PROVE  \E i \in j..MaxJobs : Page(v)[i] # "none"
<1> DEFINE S == {i \in j..MaxJobs : Matches(v, i)}
<1>1. MaxJobs \in Nat /\ PerPage \in Nat \ {0} /\ S \subseteq Jobs /\ j \in S
  BY SizeAssumption DEF Jobs
<1>2. PICK i \in S : \A k \in S : k <= i
  BY <1>1, Newest
<1>3. {k \in (i + 1)..MaxJobs : Matches(v, k)} = {}
  BY <1>1, <1>2 DEF Jobs
<1>4. OnPage(v, i)
  BY <1>1, <1>2, <1>3, FS_EmptySet DEF OnPage
<1>5. Page(v)[i] = row[i] /\ row[i] # "none"
  BY <1>1, <1>2, <1>4 DEF Page, Matches
<1> QED BY <1>2, <1>5

\* The read keeps the invariant: a job that a view was told of is in the table by then.
LEMMA ListKeeps ==
  ASSUME ListInv, NEW q \in Views, List(q)
  PROVE  ListInv'
<1> DEFINE v == query[q].params
<1>1. v = q
  BY DEF List, ListInv, ReadByQuery
<1>2. Page(q) \in Listed /\ ReadFor(q, Page(q))
  BY PageIsRead DEF ListInv
<1> HIDE DEF v
<1>3. /\ \A w \in Views \ {q} : query'[w] = query[w]
      /\ query'[q] = [stage |-> "read", params |-> q, got |-> Page(q)]
      /\ query' \in [Views -> [stage: {"idle", "asked", "read"}, params: Views \union {"none"}, got: Listed]]
  <2>1. query' = [query EXCEPT ![q] = [stage |-> "read", params |-> q, got |-> Page(q)]]
    BY <1>1 DEF List, v
  <2> QED BY <1>2, <2>1 DEF ListInv, ListTypeOK
<1>4. ListTypeOK'
  BY <1>2, <1>3 DEF List, posts, ListInv, ListTypeOK
<1>5. ReadIntoCache' /\ ToldToList' /\ MadeExist'
  BY DEF List, posts, ListInv, ReadIntoCache, ReadFor, ToldToList, Enters, MadeExist
<1>6. ReadByQuery'
  <2>1. ReadFor(q, query[q].got)'
    BY <1>2, <1>3 DEF List, ReadFor
  <2>2. \A w \in Views \ {q} : ReadFor(w, query[w].got) => ReadFor(w, query[w].got)'
    BY <1>3 DEF List, ReadFor
  <2> QED BY <1>3, <2>1, <2>2 DEF ListInv, ReadByQuery
<1>7. NewJobIsListed'
  <2>1. ASSUME NEW j \in told[q] PROVE \E i \in j..MaxJobs : Page(q)[i] # "none"
    <3>1. j \in Jobs /\ Matches(q, j)
      BY DEF ListInv, ListTypeOK, ToldToList, Enters, Matches
    <3> QED BY <3>1, NewerOnPage DEF ListInv
  <2>2. query'[q].got = Page(q) /\ told' = told
    BY <1>3 DEF List
  <2> QED BY <1>3, <2>1, <2>2 DEF ListInv, NewJobIsListed
<1> QED BY <1>4, <1>5, <1>6, <1>7 DEF ListInv

\* The answer, or its failure, ends a query.
LEMMA AnswerKeeps ==
  ASSUME ListInv, NEW q \in Views, Answer(q) \/ QueryFails(q)
  PROVE  ListInv'
<1>1. /\ query[q].stage = "read" /\ query' = [query EXCEPT ![q] = Idle]
      /\ told' = [told EXCEPT ![q] = {}]
      /\ UNCHANGED <<row, view, asked, made>>
  BY DEF Answer, QueryFails, posts
<1>2. /\ cache' \in [Views -> [here: BOOLEAN, list: Listed]]
      /\ \A w \in Views : cache'[w] = cache[w] \/ (cache'[w].here /\ w = q /\ cache'[w].list = query[q].got)
      /\ stale' \subseteq {w \in Views : cache'[w].here}
  <2>1. query[q].got \in Listed
    BY DEF ListInv, ListTypeOK
  <2>2. CASE Answer(q)
    <3>1. cache' = [cache EXCEPT ![q] = [here |-> TRUE, list |-> query[q].got]] /\ stale' = stale \ {q}
      BY <2>2 DEF Answer
    <3>2. cache \in [Views -> [here: BOOLEAN, list: Listed]] /\ stale \subseteq {w \in Views : cache[w].here}
      BY DEF ListInv, ListTypeOK
    <3>3. [here |-> TRUE, list |-> query[q].got] \in [here: BOOLEAN, list: Listed]
      BY <2>1
    <3>4. /\ cache'[q] = [here |-> TRUE, list |-> query[q].got]
          /\ \A w \in Views \ {q} : cache'[w] = cache[w]
      BY <3>1, <3>2
    <3> QED BY <3>1, <3>2, <3>3, <3>4
  <2>3. CASE QueryFails(q)
    BY <2>3 DEF QueryFails, ListInv, ListTypeOK
  <2> QED BY <2>2, <2>3
<1>3. ListTypeOK'
  BY <1>1, <1>2, MarkerTypes DEF ListInv, ListTypeOK
<1>4. ToldToList' /\ MadeExist'
  BY <1>1 DEF ListInv, ListTypeOK, ToldToList, Enters, MadeExist
<1>5. ReadByQuery'
  BY <1>1 DEF ListInv, ListTypeOK, ReadByQuery, ReadFor, Idle
<1>6. ReadIntoCache'
  BY <1>1, <1>2 DEF ListInv, ReadByQuery, ReadIntoCache, ReadFor
<1>7. NewJobIsListed'
  BY <1>1 DEF ListInv, ListTypeOK, NewJobIsListed, Idle
<1> QED BY <1>3, <1>4, <1>5, <1>6, <1>7 DEF ListInv

\* What any step that changes a row keeps: a job that exists exists.
LEMMA RowKeeps ==
  ASSUME ListInv, NEW j \in Jobs, NEW s \in Statuses,
         row' = [row EXCEPT ![j] = s], UNCHANGED <<query, cache, told>>
  PROVE  /\ row' \in Listed /\ row'[j] # "none"
         /\ \A i \in Jobs : row[i] # "none" => row'[i] # "none"
         /\ ReadByQuery' /\ ReadIntoCache' /\ ToldToList' /\ NewJobIsListed'
<1>1. row \in Listed /\ s # "none"
  BY DEF ListInv, ListTypeOK, Statuses
<1>2. row' \in Listed /\ row'[j] # "none" /\ \A i \in Jobs : row[i] # "none" => row'[i] # "none"
  BY <1>1 DEF Listed
<1>3. ReadByQuery' /\ ReadIntoCache'
  BY <1>2 DEF ListInv, ReadByQuery, ReadIntoCache, ReadFor
<1>4. ToldToList' /\ NewJobIsListed'
  BY <1>2 DEF ListInv, ListTypeOK, ToldToList, Enters, NewJobIsListed
<1> QED BY <1>2, <1>3, <1>4

\* What others do to a job.
LEMMA OthersKeep ==
  ASSUME ListInv, NEW j \in Jobs, Created(j) \/ HandedOut(j) \/ Cancelled(j) \/ Reported(j)
  PROVE  ListInv'
<1>1. PICK s \in Statuses : row' = [row EXCEPT ![j] = s]
  BY DEF Created, HandedOut, Cancelled, Reported, Statuses
<1>2. UNCHANGED <<view, query, cache, stale, asked, made, told>>
  BY DEF Created, HandedOut, Cancelled, Reported, posts
<1>3. /\ row' \in Listed /\ \A i \in Jobs : row[i] # "none" => row'[i] # "none"
      /\ ReadByQuery' /\ ReadIntoCache' /\ ToldToList' /\ NewJobIsListed'
  BY <1>1, <1>2, RowKeeps
<1>4. ListTypeOK'
  BY <1>2, <1>3 DEF ListInv, ListTypeOK
<1>5. MadeExist'
  BY <1>2, <1>3 DEF ListInv, ListTypeOK, MadeExist
<1> QED BY <1>3, <1>4, <1>5 DEF ListInv

\* A job that the user asks for, and its row.
LEMMA CreateKeeps ==
  ASSUME ListInv, NEW j \in Jobs, CreateJob(j)
  PROVE  ListInv'
<1>1. /\ row' = [row EXCEPT ![j] = "pending"] /\ "pending" \in Statuses
      /\ asked' = asked - 1 /\ asked > 0 /\ made' = made \union {j} /\ j \in OfAgent
      /\ UNCHANGED <<view, query, cache, stale, told>>
  BY DEF CreateJob, Statuses
<1>2. /\ row' \in Listed /\ row'[j] # "none"
      /\ \A i \in Jobs : row[i] # "none" => row'[i] # "none"
      /\ ReadByQuery' /\ ReadIntoCache' /\ ToldToList' /\ NewJobIsListed'
  BY <1>1, RowKeeps
<1>3. ListTypeOK'
  <2>1. asked' \in 0..MaxPosts
    BY <1>1, SizeAssumption DEF ListInv, ListTypeOK
  <2> QED BY <1>1, <1>2, <2>1 DEF ListInv, ListTypeOK
<1>4. MadeExist'
  BY <1>1, <1>2 DEF ListInv, ListTypeOK, MadeExist
<1> QED BY <1>2, <1>3, <1>4 DEF ListInv

\* Requests of the buttons that come and go without changing a list.
LEMMA PostsKeep ==
  ASSUME ListInv, AskForJob \/ AskFails \/ \E j \in Jobs : AnswerFails(j)
  PROVE  ListInv'
<1>1. /\ UNCHANGED <<row, view, query, cache, stale, told>>
      /\ asked' \in 0..MaxPosts /\ made' \subseteq made
  <2>1. MaxPosts \in Nat /\ asked \in 0..MaxPosts /\ made \subseteq Jobs
    BY SizeAssumption DEF ListInv, ListTypeOK
  <2>2. CASE AskForJob
    <3>1. Cardinality(made) \in Nat
      <4>1. IsFiniteSet(Jobs)
        BY SizeAssumption, FS_Interval DEF Jobs
      <4> QED BY <2>1, <4>1, FS_Subset, FS_CardinalityType
    <3> QED BY <2>1, <2>2, <3>1 DEF AskForJob
  <2>3. CASE AskFails \/ \E j \in Jobs : AnswerFails(j)
    BY <2>1, <2>3 DEF AskFails, AnswerFails
  <2> QED BY <2>2, <2>3
<1>2. ListTypeOK'
  BY <1>1 DEF ListInv, ListTypeOK
<1>3. ReadByQuery' /\ ReadIntoCache'
  BY <1>1 DEF ListInv, ReadByQuery, ReadIntoCache, ReadFor
<1>4. ToldToList' /\ MadeExist' /\ NewJobIsListed'
  BY <1>1 DEF ListInv, ToldToList, Enters, MadeExist, NewJobIsListed
<1> QED BY <1>2, <1>3, <1>4 DEF ListInv

\* The answer tells the view that is looked at, which asks anew.
LEMMA CreateAnsweredKeeps ==
  ASSUME ListInv, NEW j \in Jobs, CreateAnswered(j)
  PROVE  ListInv'
<1>1. /\ j \in made /\ made' = made \ {j}
      /\ UNCHANGED <<row, view, cache, asked>>
      /\ stale' = Read
      /\ query' = IF view = "away" THEN query ELSE Refetched(view)
      /\ told' = [v \in Views |-> IF v = view /\ cache[v].here /\ Enters(v, j)
                                    THEN told[v] \union {j} ELSE told[v]]
  BY DEF CreateAnswered, Invalidate
<1>2. row[j] # "none"
  BY <1>1 DEF ListInv, MadeExist
<1>3. AskedFor(query')
  <2>1. AskedFor(query)
    BY DEF AskedFor, ListInv, ListTypeOK
  <2>2. view # "away" => view \in Views
    BY DEF ListInv, ListTypeOK
  <2> QED BY <1>1, <2>1, <2>2, Asking DEF ListInv
<1>4. ListTypeOK'
  BY <1>1, <1>3 DEF ListInv, ListTypeOK, AskedFor, Read
<1>5. ReadIntoCache' /\ MadeExist'
  BY <1>1 DEF ListInv, ReadIntoCache, ReadFor, MadeExist
<1>6. ReadByQuery'
  BY <1>1, <1>3 DEF ListInv, ReadByQuery, ReadFor, AskedFor
<1>7. ToldToList'
  BY <1>1, <1>2 DEF ListInv, ListTypeOK, ToldToList, Enters
<1>8. NewJobIsListed'
  <2>1. \A v \in Views : told'[v] = told[v] \/ query'[v].stage = "asked"
    BY <1>1, MarkerTypes DEF ListInv, ListTypeOK, Refetched, Ask, Key
  <2> QED BY <1>3, <2>1 DEF ListInv, NewJobIsListed, AskedFor
<1> QED BY <1>4, <1>5, <1>6, <1>7, <1>8 DEF ListInv

-----------------------------------------------------------------------------
(* The theorems.                                                           *)

\* Lists are those their views asked for, and have the jobs their views were told of.
THEOREM ListInductive == ListSpec => []ListInv
<1>1. ListInv /\ [ListNext]_listVars => ListInv'
  <2> SUFFICES ASSUME ListInv, [ListNext]_listVars PROVE ListInv'
    OBVIOUS
  <2>1. CASE UNCHANGED listVars
    <3>1. AskedFor(query')
      BY <2>1 DEF listVars, AskedFor, ListInv, ListTypeOK
    <3> QED BY <2>1, <3>1, AskKeeps DEF listVars, posts, ListInv, ListTypeOK
  <2>2. CASE Poll \/ Refresh
    BY <2>2, PollKeeps
  <2>3. CASE OpenTab \/ LookAway \/ \E v \in Views : Choose(v)
    <3>1. LookAway \/ \E v \in Views : Shows(v)
      BY <2>3 DEF OpenTab, Choose
    <3> QED BY <3>1, ShowsKeeps
  <2>4. CASE \E v \in Views : List(v) \/ Answer(v) \/ QueryFails(v)
    BY <2>4, ListKeeps, AnswerKeeps
  <2>5. CASE AskForJob \/ AskFails \/ \E j \in Jobs : AnswerFails(j)
    BY <2>5, PostsKeep
  <2>6. CASE \E j \in Jobs : CreateJob(j) \/ CreateAnswered(j)
    BY <2>6, CreateKeeps, CreateAnsweredKeeps
  <2>7. CASE \E j \in Jobs : Created(j) \/ HandedOut(j) \/ Cancelled(j) \/ Reported(j)
    BY <2>7, OthersKeep
  <2> QED BY <2>1, <2>2, <2>3, <2>4, <2>5, <2>6, <2>7 DEF ListNext
<1> QED BY <1>1, InitListInv, PTL DEF ListSpec

\* The page and its requests are well typed.
THEOREM ListTypeCorrect == ListSpec => []ListTypeOK
<1>1. ListInv => ListTypeOK
  BY DEF ListInv
<1> QED BY <1>1, ListInductive, PTL

\* A list that was made to ask again for a job just created is not answered with one from
\* before, whatever was under way and however long a page is.
THEOREM AnswersHaveTheNewJob == ListSpec => []NewJobIsListed
<1>1. ListInv => NewJobIsListed
  BY DEF ListInv
<1> QED BY <1>1, ListInductive, PTL

\* The rows of a filter are shown under that filter.
THEOREM FilterHolds == ListSpec => []ShownIsChosen
<1>1. ListInv => ShownIsChosen
  BY DEF ListInv, ListTypeOK, ReadIntoCache, ReadFor, ShownIsChosen, ShownAs, Key, Chosen
<1> QED BY <1>1, ListInductive, PTL
=============================================================================
