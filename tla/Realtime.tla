------------------------------ MODULE Realtime ------------------------------
(***************************************************************************)
(* The realtime channel: the one WebSocketClient of a browser tab, which   *)
(* Providers connects when its user is signed in and which reconnects by   *)
(* itself, and the handler of /realtime, which keeps a map of its clients, *)
(* their subscriptions and a gauge, and fans out the events that the       *)
(* services publish through Redis.                                         *)
(*                                                                         *)
(* All sockets of a tab share the handlers its pages have registered.      *)
(* Both ends learn of a closed connection each in its own time: the client *)
(* even of one that it closed itself, after it may have opened another.    *)
(***************************************************************************)
EXTENDS Integers, FiniteSets, Sequences

CONSTANTS
  Sockets,      \* bound: sockets that either side still knows
  Orgs,         \* organizations; a session is known by that of its user
  Agents,
  MaxAttempts,  \* maxReconnectAttempts (10 in the code)
  MaxWire,      \* bound: messages on their way to the server
  MaxFaults,    \* bound: broken connections and restarts
  NoSocket, NoOrg, NoAgent

ASSUME NumberAssumption == MaxAttempts \in Nat \ {0} /\ MaxWire \in Nat /\ MaxFaults \in Nat
ASSUME NullAssumption   == NoSocket \notin Sockets /\ NoOrg \notin Orgs /\ NoAgent \notin Agents

VARIABLES
  user,        \* the organization of the signed-in user: isAuthenticated of Providers
  page,        \* the agent whose page is shown
  sock,        \* every socket: its state, and the session whose token it carries
  current,     \* the client's ws
  connecting,  \* isConnecting
  attempts,    \* reconnectAttempts; beyond MaxAttempts more make no difference
  timer,       \* the pending timer that reconnectTimeout names: the session of its token
  strays,      \* pending timers that it no longer names
  expired,     \* the token Providers handed to connect has expired
  clients,     \* the handler's clients
  subs,        \* their subscriptions
  wire,        \* messages of each socket on their way to the handler
  ending,      \* sockets whose error the handler has seen and whose close is to come
  gauge,       \* wsConnectionsGauge
  late,        \* history: a user of this tab signed in before an old socket had closed
  faults

client == <<current, connecting, attempts, timer, strays, expired>>
server == <<clients, subs, ending, gauge>>
vars   == <<user, page, sock, client, server, wire, late, faults>>

States == {"free", "connecting", "accepted", "refused", "open", "closing", "broken"}
Unused == [state |-> "free", org |-> NoOrg]
Messages == [action: {"subscribe", "unsubscribe"}, agent: Agents]

TypeOK ==
  /\ user \in Orgs \union {NoOrg} /\ page \in Agents \union {NoAgent}
  /\ sock \in [Sockets -> [state: States, org: Orgs \union {NoOrg}]]
  /\ current \in Sockets \union {NoSocket}
  /\ connecting \in BOOLEAN /\ attempts \in 0..MaxAttempts
  /\ timer \in Orgs \union {NoOrg} /\ strays \subseteq Orgs
  /\ expired \in BOOLEAN /\ late \in BOOLEAN
  /\ clients \subseteq Sockets /\ ending \subseteq Sockets
  /\ subs \in [Sockets -> SUBSET Agents]
  /\ wire \in [Sockets -> Seq(Messages)]
  /\ gauge \in Nat /\ faults \in 0..MaxFaults

Init ==
  /\ user = NoOrg /\ page = NoAgent
  /\ sock = [s \in Sockets |-> Unused]
  /\ current = NoSocket /\ connecting = FALSE /\ attempts = 0
  /\ timer = NoOrg /\ strays = {} /\ expired = FALSE
  /\ clients = {} /\ ending = {} /\ gauge = 0
  /\ subs = [s \in Sockets |-> {}]
  /\ wire = [s \in Sockets |-> <<>>]
  /\ late = FALSE /\ faults = 0

State(s) == sock[s].state
IsOpen == current # NoSocket /\ State(current) = "open"
Forgotten(s) == State(s) = "free" /\ s \notin clients /\ s \notin ending

-----------------------------------------------------------------------------
(* WebSocketClient: connect and disconnect.                                *)

\* connect with the token of session o.
Connect(o) ==
  IF IsOpen \/ connecting
    THEN UNCHANGED <<sock, current, connecting>>
    ELSE \E s \in Sockets :
           /\ Forgotten(s)
           /\ sock' = [sock EXCEPT ![s] = [state |-> "connecting", org |-> o]]
           /\ current' = s
           /\ connecting' = TRUE

\* disconnect.  isConnecting stays, until the socket tells that it has closed.
\* Variants: the timer goes on; reconnectAttempts is left alone.
KeepTimer == timer
NoTimer == NoOrg
SameAttempts == attempts
NoMoreAttempts == MaxAttempts

Disconnect ==
  /\ timer' = NoTimer
  /\ sock' = IF current # NoSocket /\ State(current) \in {"connecting", "accepted", "refused", "open"}
               THEN [sock EXCEPT ![current].state = "closing"] ELSE sock
  /\ current' = NoSocket
  /\ attempts' = NoMoreAttempts

\* Providers mounts with a user who is signed in, and a token.
SignIn(o) ==
  /\ user = NoOrg /\ user' = o
  /\ Connect(o)
  /\ expired' = FALSE
  /\ late' = (late \/ \E s \in Sockets : State(s) # "free")
  /\ UNCHANGED <<page, attempts, timer, strays, server, wire, faults>>

\* It unmounts: the user signs out, or goes to the login page.
SignOut ==
  /\ user # NoOrg /\ user' = NoOrg
  /\ page' = NoAgent
  /\ Disconnect
  /\ UNCHANGED <<connecting, strays, expired, server, wire, late, faults>>

\* The tab loads anew, and connects with what localStorage holds.
Reload ==
  /\ user # NoOrg
  /\ page' = NoAgent
  /\ \E s \in Sockets :
       /\ Forgotten(s)
       /\ sock' = [t \in Sockets |-> IF t = s THEN [state |-> "connecting", org |-> user] ELSE Unused]
       /\ current' = s
  /\ connecting' = TRUE /\ attempts' = 0 /\ timer' = NoOrg /\ strays' = {}
  /\ expired' \in {FALSE, expired}
  /\ late' = FALSE
  /\ UNCHANGED <<user, server, wire, faults>>

-----------------------------------------------------------------------------
(* The handlers of a socket.                                               *)

OnOpen(s) ==
  /\ State(s) = "accepted"
  /\ sock' = [sock EXCEPT ![s].state = "open"]
  /\ connecting' = FALSE
  /\ attempts' = 0
  /\ UNCHANGED <<user, page, current, timer, strays, expired, server, wire, late, faults>>

\* onclose, whoever closed.  Variant: isConnecting is left alone.
SameConnecting == connecting
NotConnecting == FALSE

Closed(s) ==
  /\ sock' = [sock EXCEPT ![s] = Unused]
  /\ current' = IF current = s THEN NoSocket ELSE current
  /\ connecting' = NotConnecting

OnClose(s) ==
  /\ State(s) \in {"closing", "broken"}
  /\ Closed(s)
  /\ IF attempts < MaxAttempts
       THEN /\ timer' = sock[s].org
            /\ strays' = strays \union ({timer} \ {NoOrg})
       ELSE UNCHANGED <<timer, strays>>
  /\ UNCHANGED <<user, page, attempts, expired, server, wire, late, faults>>

\* The handler upgrades the connection before it closes it: onopen, then onclose
\* with code 4001, after which nothing is tried again.
OnRefused(s) ==
  /\ State(s) = "refused"
  /\ Closed(s)
  /\ attempts' = 0
  /\ UNCHANGED <<user, page, timer, strays, expired, server, wire, late, faults>>

\* The timer, named or not: the token is the one its socket had.
Fire(o) ==
  /\ attempts' = IF attempts < MaxAttempts THEN attempts + 1 ELSE attempts
  /\ Connect(o)
  /\ UNCHANGED <<user, page, expired, server, wire, late, faults>>

TimerFires == timer # NoOrg /\ timer' = NoOrg /\ Fire(timer) /\ UNCHANGED strays
StrayFires(o) == o \in strays /\ strays' = strays \ {o} /\ Fire(o) /\ UNCHANGED timer

-----------------------------------------------------------------------------
(* useAgentSubscription.  The hook is exported, and no component of the    *)
(* repository calls it: Show is what a component does that calls it for    *)
(* the agent it shows.  A message is dropped unless the socket is open.    *)

Send(msgs) ==
  wire' = IF IsOpen THEN [wire EXCEPT ![current] = @ \o msgs] ELSE wire

Subscribe(a) == [action |-> "subscribe", agent |-> a]

\* The effect's cleanup.  Variant: there is none.
NoCleanup == <<>>
Cleanup == IF page = NoAgent THEN <<>> ELSE <<[action |-> "unsubscribe", agent |-> page]>>

Show(a) ==
  /\ user # NoOrg /\ page # a /\ page' = a
  /\ current # NoSocket => Len(wire[current]) + 2 <= MaxWire
  /\ Send(Cleanup \o (IF a = NoAgent THEN <<>> ELSE <<Subscribe(a)>>))
  /\ UNCHANGED <<user, sock, client, server, late, faults>>

-----------------------------------------------------------------------------
(* The handler of /realtime.                                               *)

\* The token is verified once: an old socket's may have expired or not.
Accept(s) ==
  /\ State(s) = "connecting" /\ (expired => late)
  /\ sock' = [sock EXCEPT ![s].state = "accepted"]
  /\ clients' = clients \union {s}
  /\ gauge' = gauge + 1
  /\ UNCHANGED <<user, page, client, subs, wire, ending, late, faults>>

Refuse(s) ==
  /\ State(s) = "connecting" /\ (expired \/ late)
  /\ sock' = [sock EXCEPT ![s].state = "refused"]
  /\ UNCHANGED <<user, page, client, server, wire, late, faults>>

\* Input for a remote session is passed to a channel that nobody subscribes to.
OnMessage(s) ==
  /\ s \in clients /\ wire[s] # <<>>
  /\ LET m == Head(wire[s]) IN
     subs' = [subs EXCEPT ![s] = IF m.action = "subscribe" THEN @ \union {m.agent} ELSE @ \ {m.agent}]
  /\ wire' = [wire EXCEPT ![s] = Tail(@)]
  /\ UNCHANGED <<user, page, sock, client, clients, ending, gauge, late, faults>>

\* cleanup, called on close and on error.  Variant: it counts whatever the map says.
CountsAlways(s) == 1
Counts(s) == IF s \in clients THEN 1 ELSE 0

CleanUp(s) ==
  /\ clients' = clients \ {s}
  /\ gauge' = gauge - Counts(s)
  /\ subs' = [subs EXCEPT ![s] = {}]
  /\ wire' = [wire EXCEPT ![s] = <<>>]

OnError(s) ==
  /\ s \in clients /\ State(s) \in {"broken", "free"}
  /\ CleanUp(s)
  /\ ending' = ending \union {s}
  /\ UNCHANGED <<user, page, sock, client, late, faults>>

OnEnd(s) ==
  /\ \/ s \in clients /\ State(s) \in {"closing", "broken", "free"}
     \/ s \in ending
  /\ CleanUp(s)
  /\ ending' = ending \ {s}
  /\ UNCHANGED <<user, page, sock, client, late, faults>>

\* What the services publish about an agent or a job of organization `of'.
Channels == {"agent:status_changed", "agent:metrics", "job:created", "job:status_changed"}
Events   == [channel: Channels, of: Orgs, agent: Agents]

\* The organization_id in an event: of the four channels only one carries it.
Named(e) == e.channel = "agent:status_changed"
OrganizationId(e) == IF Named(e) THEN e.of ELSE NoOrg

\* The handler of Redis' messages: which clients an event reaches, and which of
\* their sockets still hand it to the pages.
Passes(s, e) ==
  /\ OrganizationId(e) # NoOrg => OrganizationId(e) = sock[s].org
  /\ e.channel = "agent:metrics" => e.agent \in subs[s]

Hears(e) == {s \in clients : State(s) = "open" /\ Passes(s, e)}

-----------------------------------------------------------------------------
(* What else happens.                                                      *)

Expire ==
  /\ user # NoOrg /\ ~expired /\ expired' = TRUE
  /\ UNCHANGED <<user, page, sock, current, connecting, attempts, timer, strays, server, wire, late, faults>>

Broken(s) == State(s) \in {"connecting", "accepted", "refused", "open"}

\* A connection breaks or is never made.
Break(s) ==
  /\ Broken(s) /\ faults < MaxFaults /\ faults' = faults + 1
  /\ sock' = [sock EXCEPT ![s].state = "broken"]
  /\ UNCHANGED <<user, page, client, server, wire, late>>

\* The server starts again with no clients.
Restart ==
  /\ faults < MaxFaults /\ faults' = faults + 1
  /\ sock' = [s \in Sockets |-> IF Broken(s) THEN [sock[s] EXCEPT !.state = "broken"] ELSE sock[s]]
  /\ clients' = {} /\ ending' = {} /\ gauge' = 0
  /\ subs' = [s \in Sockets |-> {}]
  /\ wire' = [s \in Sockets |-> <<>>]
  /\ UNCHANGED <<user, page, client, late>>

-----------------------------------------------------------------------------
SocketStep(s) ==
  \/ Accept(s) \/ Refuse(s) \/ OnOpen(s) \/ OnRefused(s) \/ OnClose(s)
  \/ OnError(s) \/ OnEnd(s)

Next ==
  \/ \E o \in Orgs : SignIn(o) \/ StrayFires(o)
  \/ SignOut \/ Reload \/ TimerFires \/ Expire \/ Restart
  \/ \E a \in Agents \union {NoAgent} : Show(a)
  \/ \E s \in Sockets : SocketStep(s) \/ OnMessage(s) \/ Break(s)

\* Browser, network and server pass on what happens to a socket, and timers fire.
Fairness == WF_vars(TimerFires) /\ \A s \in Sockets : WF_vars(SocketStep(s))

Spec     == Init /\ [][Next]_vars
FairSpec == Spec /\ Fairness

-----------------------------------------------------------------------------
(* Properties.                                                             *)

\* Unless somebody signed in before the last session's socket had closed: a tab in
\* which nobody is signed in hears nothing, and one whose user is signed in hears, of the
\* events that name their organization, those of the user's only: no socket and no timer
\* of an earlier session is left to open again.  Of the other events nothing of the kind
\* is true: they reach the clients of every organization.
NoOtherSession ==
  ~late => \A e \in Events : Hears(e) # {} => user # NoOrg /\ (Named(e) => e.of = user)

\* Likewise, the metrics of an agent come only while the component shows it, or until
\* the unsubscribe that is under way arrives.
NoGhostSubscription ==
  ~late => \A e \in Events : \A s \in Hears(e) :
    e.channel = "agent:metrics" =>
      \/ page = e.agent
      \/ \E i \in DOMAIN wire[s] : wire[s][i] = [action |-> "unsubscribe", agent |-> e.agent]

\* A connection that ends with an error and a close is taken off the gauge once.
GaugeExact == gauge = Cardinality(clients)

\* A user who stays signed in, and does not reload the tab for ever, has an open
\* socket again and again, unless the client has run out of attempts (disconnect uses
\* them up: after it, the first failure of a new session is final), its token has
\* expired, or the session began late as above.
ConnectsUnlessGivenUp ==
  \/ []<><<Reload>>_vars
  \/ []<>(user = NoOrg \/ IsOpen \/ attempts = MaxAttempts \/ expired \/ late)
=============================================================================
