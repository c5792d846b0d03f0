-------------------------- MODULE ArisConduitProofs --------------------------
(***************************************************************************)
(* Proofs about the conduit, for any addresses, settings and bounds: the   *)
(* connection's state machine never takes a transition that raises, a      *)
(* request of the client is never undone by a later connection, a sonar    *)
(* whose connection is up has been initialised, cookies reach it in order, *)
(* and the client is told of every change.  The connection is proved about *)
(* with the commands the conduit sends: Command = AnyCommand, which is how *)
(* the runs instantiate it.                                                *)
(***************************************************************************)
EXTENDS ArisConduit, TLAPS

\* While a connection is initialised the machine is where MakeConnected may
\* start from.
MachineInv == /\ {machineState, reported} \subseteq ConnectionState
              /\ handling = "initializing" =>
                     machineState.name \in {"NotConnected", "ConnectionRefused"}

\* The transitions, each from where it is meant to start.
LEMMA ReachedIsNotConnected ==
    ASSUME NEW s \in ConnectionState, NEW ip \in Addresses,
           s.name \in {"SonarNotFound", "NotConnected", "ConnectionRefused"}
    PROVE  /\ Reached(ip, s) \in ConnectionState
           /\ Reached(ip, s).name \in {"NotConnected", "ConnectionRefused"}
BY DEF Reached, FoundSonar, LostSonar, ConnectionState, State, SonarNotFound,
       NotConnected, Closed, BadTransition

LEMMA DisconnectedIsNotConnected ==
    ASSUME NEW s \in ConnectionState, s.name = "Connected"
    PROVE  Disconnected(s) \in ConnectionState
BY DEF Disconnected, ConnectionState, State, SonarNotFound, NotConnected, Closed

LEMMA ConnectedOrRefused ==
    ASSUME NEW s \in ConnectionState, s.name \in {"NotConnected", "ConnectionRefused"}
    PROVE  /\ MakeConnected(s.ip, s) \in ConnectionState
           /\ \A ip \in Addresses : Refused(ip, s) \in ConnectionState
BY DEF MakeConnected, Refused, ConnectionState, State, SonarNotFound, Connected,
       ConnectionRefused, Closed

LEMMA BadIsNoState == BadTransition \notin ConnectionState
BY DEF BadTransition, ConnectionState, State, SonarNotFound, Closed

\* What is reported is a state the machine is in.
LEMMA DoneKeepsReported ==
    ASSUME MachineInv, machineState' \in ConnectionState, ReportChange
    PROVE  reported' \in ConnectionState
BY DEF MachineInv, ReportChange

LEMMA MachineInit == Init => MachineInv
BY DEF Init, CxnInit, MachineInv, ConnectionState, SonarNotFound, State

LEMMA HandleKeepsMachine ==
    ASSUME MachineInv, Handle
    PROVE  MachineInv'
<1>1. CASE HandleQuit
  BY <1>1 DEF HandleQuit, MachineInv, ConnectionState
<1>2. CASE HandleTick \/ PingFails \/ HandleCommand \/ \E ip \in Addresses : IgnoreBeacon(ip)
  <2>1. \/ machineState' = machineState
        \/ IsConnected /\ machineState' = Disconnected(machineState)
    BY <1>2 DEF HandleTick, PingFails, HandleCommand, IgnoreBeacon, Sends, SendFails
  <2>2. machineState' \in ConnectionState
    BY <2>1, DisconnectedIsNotConnected DEF MachineInv, IsConnected
  <2>3. handling' = "idle" /\ ReportChange
    BY <1>2 DEF HandleTick, PingFails, HandleCommand, IgnoreBeacon, Done
  <2> QED BY <2>2, <2>3, DoneKeepsReported DEF MachineInv
<1> QED BY <1>1, <1>2 DEF Handle

LEMMA ConnectKeepsMachine ==
    ASSUME MachineInv, NEW ip \in Addresses, NEW cs, Connect(ip, cs) \/ Refuse(ip, cs)
    PROVE  MachineInv'
<1>1. CanConnect(ip)
  BY DEF Connect, Refuse
<1>2. /\ Reached(ip, machineState) \in ConnectionState
      /\ Reached(ip, machineState).name \in {"NotConnected", "ConnectionRefused"}
  BY <1>1, ReachedIsNotConnected DEF CanConnect, MachineInv
<1>3. CASE Connect(ip, cs)
  BY <1>2, <1>3 DEF Connect, MachineInv
<1>4. CASE Refuse(ip, cs)
  <2>1. machineState' \in ConnectionState
    BY <1>2, <1>4, ConnectedOrRefused DEF Refuse
  <2> QED BY <1>4, <2>1, DoneKeepsReported DEF Refuse, MachineInv
<1> QED BY <1>3, <1>4

LEMMA FinishKeepsMachine ==
    ASSUME MachineInv, NEW cs, FinishConnect(cs)
    PROVE  MachineInv'
<1>1. machineState' \in ConnectionState
  BY ConnectedOrRefused DEF FinishConnect, MachineInv
<1> QED BY <1>1, DoneKeepsReported DEF FinishConnect, MachineInv

LEMMA MachineStep ==
    ASSUME MachineInv, [Next]_vars
    PROVE  MachineInv'
<1>1. CASE Connection
  <2>1. CASE Handle
    BY <2>1, HandleKeepsMachine
  <2>2. CASE \E ip \in Addresses, address \in LocalAddresses : BeginInitialize(ip, address)
    BY <2>2, ConnectKeepsMachine DEF BeginInitialize
  <2>3. CASE \E ip \in Addresses : RefuseConnection(ip)
    BY <2>3, ConnectKeepsMachine DEF RefuseConnection
  <2>4. CASE FinishInitialize
    BY <2>4, FinishKeepsMachine DEF FinishInitialize
  <2>5. CASE Report
    BY <2>5 DEF Report, ReportClosed, MachineInv
  <2> QED BY <1>1, <2>1, <2>2, <2>3, <2>4, <2>5 DEF Connection
<1>2. CASE \/ Timer \/ Environment \/ FrameArrives \/ Dispose \/ UNCHANGED vars
           \/ \E s \in Settings : RequestAcousticSettings(s)
  <2>1. UNCHANGED <<machineState, reported, handling>>
    BY <1>2 DEF Timer, Tick, Environment, BeaconHeard, LinkBreaks, FrameArrives, Dispose,
                BeginDispose, StopEvents, FinishDispose, CompleteQueue, Post,
                RequestAcousticSettings, vars, cxnVars
  <2> QED BY <2>1 DEF MachineInv
<1> QED BY <1>1, <1>2 DEF Next

\* However beacons, refusals, lost links, commands and Quit follow each other,
\* no transition of the connection's state machine raises "Bad transition".
THEOREM NeverBadTransition == Spec => []NoBadTransition
<1>1. MachineInv => NoBadTransition
  BY BadIsNoState DEF MachineInv, NoBadTransition
<1> QED BY <1>1, MachineInit, MachineStep, PTL DEF Spec

-----------------------------------------------------------------------------
\* The client's last request.

Last(s) == s[Len(s)]

\* What a request of s may have become by being constrained.
Meets(settings, s) == settings \in {s, Constrain[s]}

\* The last request is held, and while a connection is initialised it is also
\* what OnInitializeConnection has in hand.
RequestInv ==
    /\ lastRequested \in Versioned
    /\ requested \in Settings
    /\ requests \in Seq(Settings)
    /\ requests # <<>> => lastRequested.cookie # InvalidCookie
    /\ (requests # <<>> /\ ~overtaken) =>
           /\ Meets(lastRequested.settings, Last(requests))
           /\ handling = "initializing" => Meets(requested, Last(requests))

LEMMA ConstrainedStillMeets ==
    ASSUME NEW s \in Settings, NEW settings, Meets(settings, s)
    PROVE  Meets(NextVersion(settings).settings, s)
BY SettingsAssumption DEF Meets, NextVersion

LEMMA NextVersionType ==
    ASSUME lastRequested \in Versioned, NEW s \in Settings
    PROVE  /\ NextVersion(s) \in Versioned
           /\ NextVersion(s).cookie # InvalidCookie
BY SettingsAssumption DEF NextVersion, Versioned, InvalidCookie

LEMMA LastInSettings ==
    ASSUME requests \in Seq(Settings), requests # <<>>
    PROVE  Last(requests) \in Settings
BY DEF Last

LEMMA RequestInit == Init => RequestInv
BY SettingsAssumption DEF Init, RequestInv, Versioned, InvalidCookie

LEMMA RequestStep ==
    ASSUME RequestInv, [Next]_vars
    PROVE  RequestInv'
<1>1. CASE \E ip \in Addresses, address \in LocalAddresses : BeginInitialize(ip, address)
  <2>1. /\ requested' = SettingsToSend
        /\ UNCHANGED <<lastRequested, requests, overtaken>>
    BY <1>1 DEF BeginInitialize
  <2>2. requested' \in Settings
    BY <2>1, SettingsAssumption DEF SettingsToSend, RequestInv, Versioned
  <2>3. requests # <<>> => requested' = lastRequested.settings
    BY <2>1 DEF SettingsToSend, RequestInv
  <2> QED BY <2>1, <2>2, <2>3 DEF RequestInv, Last, Meets
<1>2. CASE FinishInitialize
  <2>1. /\ handling = "initializing"
        /\ handling' = "idle"
        /\ lastRequested' = NextVersion(requested)
        /\ UNCHANGED <<requested, requests, overtaken>>
    BY <1>2 DEF FinishInitialize, FinishConnect
  <2>2. lastRequested' \in Versioned /\ lastRequested'.cookie # InvalidCookie
    BY <2>1, NextVersionType DEF RequestInv
  <2>3. (requests # <<>> /\ ~overtaken) => Meets(lastRequested'.settings, Last(requests))
    BY <2>1, ConstrainedStillMeets, LastInSettings DEF RequestInv
  <2> QED BY <2>1, <2>2, <2>3 DEF RequestInv, Last, Meets
<1>3. CASE \E s \in Settings : RequestAcousticSettings(s)
  <2>1. PICK s \in Settings : RequestAcousticSettings(s)
    BY <1>3
  <2>2. /\ lastRequested' = NextVersion(s)
        /\ requests' = Append(requests, s)
        /\ overtaken' = (handling = "initializing")
        /\ UNCHANGED <<requested, handling>>
    BY <2>1 DEF RequestAcousticSettings, Post
  <2>3. lastRequested' \in Versioned /\ lastRequested'.cookie # InvalidCookie
    BY <2>2, NextVersionType DEF RequestInv
  <2>4. requests' \in Seq(Settings) /\ Last(requests)' = s
    BY <2>2 DEF RequestInv, Last
  <2>5. Meets(lastRequested'.settings, s)
    BY <2>2, ConstrainedStillMeets DEF Meets
  <2> QED BY <2>2, <2>3, <2>4, <2>5 DEF RequestInv, Meets
<1>4. CASE \/ Handle /\ UNCHANGED conduitVars
           \/ \E ip \in Addresses : RefuseConnection(ip)
           \/ Report
           \/ Timer \/ Environment \/ FrameArrives \/ Dispose \/ UNCHANGED vars
  <2>1. UNCHANGED <<lastRequested, requested, requests, overtaken>>
    BY <1>4 DEF RefuseConnection, Report, Timer, Environment, FrameArrives, Dispose,
                BeginDispose, StopEvents, FinishDispose, DisposeAt, vars, conduitVars
  <2>2. handling' = "initializing" => handling = "initializing"
    BY <1>4 DEF Handle, HandleTick, PingFails, HandleCommand, IgnoreBeacon, HandleQuit, Done,
                RefuseConnection, Refuse, Report, ReportClosed, Timer, Tick, Environment,
                BeaconHeard, LinkBreaks, FrameArrives, Dispose, BeginDispose, StopEvents,
                FinishDispose, CompleteQueue, Post, vars, cxnVars
  <2> QED BY <2>1, <2>2 DEF RequestInv, Last, Meets
<1> QED BY <1>1, <1>2, <1>3, <1>4 DEF Next, Connection

\* Whatever connections are lost and made afterwards, the settings the conduit
\* holds and sends are those the client requested last, unless the request fell
\* between the reading and the requesting of OnInitializeConnection.
THEOREM LastRequestStays == Spec => []LastRequestWins
<1>1. RequestInv => LastRequestWins
  BY DEF RequestInv, LastRequestWins, Last, Meets
<1> QED BY <1>1, RequestInit, RequestStep, PTL DEF Spec

-----------------------------------------------------------------------------
\* What the sonar gets: of every type of command the last one queued, and cookies
\* in order.

\* Of the event queue q and the received commands r.
Carries(e, type) == e.kind = "Command" /\ e.command.type = type

SentLast(q, r, c) ==
    \/ \E k \in DOMAIN q : /\ q[k] = CommandOf(c)
                           /\ \A j \in DOMAIN q : j > k => ~Carries(q[j], c.type)
    \/ /\ \E k \in DOMAIN r : /\ r[k] = c
                              /\ \A j \in DOMAIN r : j > k => r[j].type # c.type
       /\ \A j \in DOMAIN q : ~Carries(q[j], c.type)

Acoustics(e) == Carries(e, "SetAcoustics")

\* The cookies in r, those in q after them, and none above max.
CookiesInOrder(q, r, max) ==
    /\ \A j, k \in DOMAIN r :
           (j < k /\ r[j].type = "SetAcoustics" /\ r[k].type = "SetAcoustics")
               => r[j].settings.cookie < r[k].settings.cookie
    /\ \A j \in DOMAIN r, k \in DOMAIN q :
           (r[j].type = "SetAcoustics" /\ Acoustics(q[k]))
               => r[j].settings.cookie < q[k].command.settings.cookie
    /\ \A j, k \in DOMAIN q :
           (j < k /\ Acoustics(q[j]) /\ Acoustics(q[k]))
               => q[j].command.settings.cookie < q[k].command.settings.cookie
    /\ \A j \in DOMAIN r : r[j].type = "SetAcoustics" => r[j].settings.cookie =< max
    /\ \A k \in DOMAIN q : Acoustics(q[k]) => q[k].command.settings.cookie =< max

LEMMA TailFacts ==
    ASSUME NEW S, NEW q \in Seq(S), q # <<>>
    PROVE  /\ Tail(q) \in Seq(S)
           /\ \A k \in DOMAIN Tail(q) : k + 1 \in DOMAIN q /\ Tail(q)[k] = q[k + 1]
           /\ \A k \in DOMAIN q : k = 1 \/ k - 1 \in DOMAIN Tail(q)
           /\ DOMAIN q \subseteq Nat \ {0} /\ DOMAIN Tail(q) \subseteq Nat \ {0}
           /\ 1 \in DOMAIN q /\ Head(q) = q[1]
OBVIOUS

LEMMA AppendFacts ==
    ASSUME NEW S, NEW q \in Seq(S), NEW e
    PROVE  /\ DOMAIN Append(q, e) = DOMAIN q \cup {Len(q) + 1}
           /\ Append(q, e)[Len(q) + 1] = e
           /\ \A k \in DOMAIN q : Append(q, e)[k] = q[k] /\ k \in Nat /\ k < Len(q) + 1
           /\ Len(q) + 1 \in Nat
OBVIOUS

\* Taking the first event off the queue: a command goes to the sonar.
LEMMA TakeCommand ==
    ASSUME NEW q \in Seq(Events), q # <<>>, NEW d, Head(q) = CommandOf(d),
           NEW r \in Seq(Command)
    PROVE  /\ \A c : SentLast(q, r, c) => SentLast(Tail(q), Append(r, d), c)
           /\ \A max : CookiesInOrder(q, r, max) => CookiesInOrder(Tail(q), Append(r, d), max)
<1> DEFINE t == Tail(q)
           u == Append(r, d)
           n == Len(r) + 1
<1>1. /\ \A k \in DOMAIN t : k + 1 \in DOMAIN q /\ t[k] = q[k + 1]
      /\ \A k \in DOMAIN q : k = 1 \/ k - 1 \in DOMAIN t
      /\ DOMAIN q \subseteq Nat \ {0} /\ DOMAIN t \subseteq Nat \ {0}
      /\ 1 \in DOMAIN q /\ q[1] = CommandOf(d)
  BY TailFacts
<1>2. /\ DOMAIN u = DOMAIN r \cup {n}
      /\ u[n] = d
      /\ \A k \in DOMAIN r : u[k] = r[k] /\ k \in Nat /\ k < n
      /\ n \in Nat
  BY AppendFacts
<1>3. \A type : Carries(CommandOf(d), type) <=> d.type = type
  BY DEF Carries, CommandOf
<1>4. CommandOf(d).command = d
  BY DEF CommandOf
<1> HIDE DEF t, u, n
<1>5. ASSUME NEW c, SentLast(q, r, c)
      PROVE  SentLast(t, u, c)
  <2>1. CASE \E k \in DOMAIN q : /\ q[k] = CommandOf(c)
                                 /\ \A j \in DOMAIN q : j > k => ~Carries(q[j], c.type)
    <3>1. PICK k \in DOMAIN q : /\ q[k] = CommandOf(c)
                                /\ \A j \in DOMAIN q : j > k => ~Carries(q[j], c.type)
      BY <2>1
    <3>2. CASE k = 1
      <4>1. c = d
        BY <1>1, <3>1, <3>2 DEF CommandOf
      <4>2. \A j \in DOMAIN t : ~Carries(t[j], c.type)
        BY <1>1, <3>1, <3>2
      <4>3. n \in DOMAIN u /\ u[n] = c /\ \A j \in DOMAIN u : ~(j > n)
        BY <1>2, <4>1
      <4> QED BY <4>2, <4>3 DEF SentLast
    <3>3. CASE k # 1
      <4>1. k - 1 \in DOMAIN t /\ t[k - 1] = CommandOf(c)
        BY <1>1, <3>1, <3>3
      <4>2. \A j \in DOMAIN t : j > k - 1 => ~Carries(t[j], c.type)
        BY <1>1, <3>1
      <4> QED BY <4>1, <4>2 DEF SentLast
    <3> QED BY <3>2, <3>3
  <2>2. CASE /\ \E k \in DOMAIN r : /\ r[k] = c
                                    /\ \A j \in DOMAIN r : j > k => r[j].type # c.type
             /\ \A j \in DOMAIN q : ~Carries(q[j], c.type)
    <3>1. PICK k \in DOMAIN r : /\ r[k] = c
                                /\ \A j \in DOMAIN r : j > k => r[j].type # c.type
      BY <2>2
    <3>2. d.type # c.type
      BY <1>1, <1>3, <2>2
    <3>3. /\ k \in DOMAIN u /\ u[k] = c
          /\ \A j \in DOMAIN u : j > k => u[j].type # c.type
      BY <1>2, <3>1, <3>2
    <3>4. \A j \in DOMAIN t : ~Carries(t[j], c.type)
      BY <1>1, <2>2
    <3> QED BY <3>3, <3>4 DEF SentLast
  <2> QED BY <1>5, <2>1, <2>2 DEF SentLast
<1>6. ASSUME NEW max, CookiesInOrder(q, r, max)
      PROVE  CookiesInOrder(t, u, max)
  <2>1. /\ \A j, k \in DOMAIN r :
               (j < k /\ r[j].type = "SetAcoustics" /\ r[k].type = "SetAcoustics")
                   => r[j].settings.cookie < r[k].settings.cookie
        /\ \A j \in DOMAIN r, k \in DOMAIN q :
               (r[j].type = "SetAcoustics" /\ Acoustics(q[k]))
                   => r[j].settings.cookie < q[k].command.settings.cookie
        /\ \A j, k \in DOMAIN q :
               (j < k /\ Acoustics(q[j]) /\ Acoustics(q[k]))
                   => q[j].command.settings.cookie < q[k].command.settings.cookie
        /\ \A j \in DOMAIN r : r[j].type = "SetAcoustics" => r[j].settings.cookie =< max
        /\ \A k \in DOMAIN q : Acoustics(q[k]) => q[k].command.settings.cookie =< max
    BY <1>6 DEF CookiesInOrder
  <2>2. Acoustics(q[1]) <=> d.type = "SetAcoustics"
    BY <1>1, <1>3 DEF Acoustics
  <2>3. q[1].command = d /\ 1 \in DOMAIN q
    BY <1>1, <1>4
  <2>4. ASSUME NEW j \in DOMAIN u, NEW k \in DOMAIN u, j < k,
               u[j].type = "SetAcoustics", u[k].type = "SetAcoustics"
        PROVE  u[j].settings.cookie < u[k].settings.cookie
    <3>1. j \in DOMAIN r /\ u[j] = r[j]
      BY <1>2, <2>4
    <3>2. CASE k \in DOMAIN r
      BY <1>2, <2>1, <2>4, <3>1, <3>2
    <3>3. CASE k = n
      BY <1>2, <2>1, <2>2, <2>3, <2>4, <3>1, <3>3
    <3> QED BY <1>2, <3>2, <3>3
  <2>5. ASSUME NEW j \in DOMAIN u, NEW k \in DOMAIN t,
               u[j].type = "SetAcoustics", Acoustics(t[k])
        PROVE  u[j].settings.cookie < t[k].command.settings.cookie
    <3>1. k + 1 \in DOMAIN q /\ t[k] = q[k + 1] /\ 1 < k + 1
      BY <1>1
    <3>2. CASE j \in DOMAIN r
      BY <1>2, <2>1, <2>5, <3>1, <3>2
    <3>3. CASE j = n
      BY <1>2, <2>1, <2>2, <2>3, <2>5, <3>1, <3>3
    <3> QED BY <1>2, <3>2, <3>3
  <2>6. ASSUME NEW j \in DOMAIN t, NEW k \in DOMAIN t, j < k,
               Acoustics(t[j]), Acoustics(t[k])
        PROVE  t[j].command.settings.cookie < t[k].command.settings.cookie
    <3>1. /\ k + 1 \in DOMAIN q /\ t[k] = q[k + 1]
          /\ j + 1 \in DOMAIN q /\ t[j] = q[j + 1]
          /\ j + 1 < k + 1
      BY <1>1, <2>6
    <3> QED BY <2>1, <2>6, <3>1
  <2>7. \A j \in DOMAIN u : u[j].type = "SetAcoustics" => u[j].settings.cookie =< max
    BY <1>2, <2>1, <2>2, <2>3
  <2>8. \A k \in DOMAIN t : Acoustics(t[k]) => t[k].command.settings.cookie =< max
    BY <1>1, <2>1
  <2> QED BY <2>4, <2>5, <2>6, <2>7, <2>8 DEF CookiesInOrder
<1> QED BY <1>5, <1>6 DEF t, u

\* Or it is dropped, or no command.
LEMMA TakeOther ==
    ASSUME NEW q \in Seq(Events), q # <<>>, NEW r
    PROVE  /\ \A c : (SentLast(q, r, c) /\ Head(q).kind # "Command") => SentLast(Tail(q), r, c)
           /\ \A max : CookiesInOrder(q, r, max) => CookiesInOrder(Tail(q), r, max)
<1> DEFINE t == Tail(q)
<1>1. /\ \A k \in DOMAIN t : k + 1 \in DOMAIN q /\ t[k] = q[k + 1]
      /\ \A k \in DOMAIN q : k = 1 \/ k - 1 \in DOMAIN t
      /\ DOMAIN q \subseteq Nat \ {0} /\ DOMAIN t \subseteq Nat \ {0}
      /\ 1 \in DOMAIN q /\ q[1] = Head(q)
  BY TailFacts
<1> HIDE DEF t
<1>2. ASSUME NEW c, SentLast(q, r, c), Head(q).kind # "Command"
      PROVE  SentLast(t, r, c)
  <2>1. CASE \E k \in DOMAIN q : /\ q[k] = CommandOf(c)
                                 /\ \A j \in DOMAIN q : j > k => ~Carries(q[j], c.type)
    <3>1. PICK k \in DOMAIN q : /\ q[k] = CommandOf(c)
                                /\ \A j \in DOMAIN q : j > k => ~Carries(q[j], c.type)
      BY <2>1
    <3>2. k # 1
      BY <1>1, <1>2, <3>1 DEF CommandOf
    <3>3. k - 1 \in DOMAIN t /\ t[k - 1] = CommandOf(c)
      BY <1>1, <3>1, <3>2
    <3>4. \A j \in DOMAIN t : j > k - 1 => ~Carries(t[j], c.type)
      BY <1>1, <3>1
    <3> QED BY <3>3, <3>4 DEF SentLast
  <2>2. CASE \A j \in DOMAIN q : ~Carries(q[j], c.type)
    <3>1. \A j \in DOMAIN t : ~Carries(t[j], c.type)
      BY <1>1, <2>2
    <3>2. ~\E k \in DOMAIN q : q[k] = CommandOf(c)
      BY <2>2 DEF Carries, CommandOf
    <3> QED BY <1>2, <3>1, <3>2 DEF SentLast
  <2> QED BY <1>2, <2>1, <2>2 DEF SentLast
<1>3. ASSUME NEW max, CookiesInOrder(q, r, max)
      PROVE  CookiesInOrder(t, r, max)
  <2>1. ASSUME NEW j \in DOMAIN t, NEW k \in DOMAIN t, j < k,
               Acoustics(t[j]), Acoustics(t[k])
        PROVE  t[j].command.settings.cookie < t[k].command.settings.cookie
    <3>1. /\ k + 1 \in DOMAIN q /\ t[k] = q[k + 1]
          /\ j + 1 \in DOMAIN q /\ t[j] = q[j + 1]
          /\ j + 1 < k + 1
      BY <1>1, <2>1
    <3> QED BY <1>3, <2>1, <3>1 DEF CookiesInOrder
  <2> QED BY <1>1, <1>3, <2>1 DEF CookiesInOrder
<1> QED BY <1>2, <1>3 DEF t

\* Queueing an event: what it carries is the last of its type.
LEMMA AppendEvent ==
    ASSUME NEW q \in Seq(Events), NEW r, NEW e
    PROVE  /\ \A c : e = CommandOf(c) => SentLast(Append(q, e), r, c)
           /\ \A c : (SentLast(q, r, c) /\ ~Carries(e, c.type)) => SentLast(Append(q, e), r, c)
           /\ \A max : (CookiesInOrder(q, r, max) /\ ~Acoustics(e))
                           => CookiesInOrder(Append(q, e), r, max)
<1> DEFINE t == Append(q, e)
           n == Len(q) + 1
<1>1. /\ DOMAIN t = DOMAIN q \cup {n}
      /\ t[n] = e
      /\ \A k \in DOMAIN q : t[k] = q[k] /\ k \in Nat /\ k < n
      /\ n \in Nat
  BY AppendFacts
<1> HIDE DEF t, n
<1>2. ASSUME NEW c, e = CommandOf(c)
      PROVE  SentLast(t, r, c)
  <2>1. n \in DOMAIN t /\ t[n] = CommandOf(c) /\ \A j \in DOMAIN t : ~(j > n)
    BY <1>1, <1>2
  <2> QED BY <2>1 DEF SentLast
<1>3. ASSUME NEW c, SentLast(q, r, c), ~Carries(e, c.type)
      PROVE  SentLast(t, r, c)
  <2>1. CASE \E k \in DOMAIN q : /\ q[k] = CommandOf(c)
                                 /\ \A j \in DOMAIN q : j > k => ~Carries(q[j], c.type)
    <3>1. PICK k \in DOMAIN q : /\ q[k] = CommandOf(c)
                                /\ \A j \in DOMAIN q : j > k => ~Carries(q[j], c.type)
      BY <2>1
    <3>2. /\ k \in DOMAIN t /\ t[k] = CommandOf(c)
          /\ \A j \in DOMAIN t : j > k => ~Carries(t[j], c.type)
      BY <1>1, <1>3, <3>1
    <3> QED BY <3>2 DEF SentLast
  <2>2. CASE \A j \in DOMAIN q : ~Carries(q[j], c.type)
    <3>1. \A j \in DOMAIN t : ~Carries(t[j], c.type)
      BY <1>1, <1>3, <2>2
    <3>2. ~\E k \in DOMAIN q : q[k] = CommandOf(c)
      BY <2>2 DEF Carries, CommandOf
    <3> QED BY <1>3, <3>1, <3>2 DEF SentLast
  <2> QED BY <1>3, <2>1, <2>2 DEF SentLast
<1>4. ASSUME NEW max, CookiesInOrder(q, r, max), ~Acoustics(e)
      PROVE  CookiesInOrder(t, r, max)
  BY <1>1, <1>4 DEF CookiesInOrder
<1> QED BY <1>2, <1>3, <1>4 DEF t

\* Queueing settings under a new cookie.
LEMMA AppendSettings ==
    ASSUME NEW q \in Seq(Events), NEW r, NEW max \in Nat, NEW new \in Versioned,
           new.cookie = max + 1, CookiesInOrder(q, r, max),
           \A j \in DOMAIN r : r[j].type = "SetAcoustics" => r[j].settings.cookie \in Nat,
           \A k \in DOMAIN q : Acoustics(q[k]) => q[k].command.settings.cookie \in Nat
    PROVE  CookiesInOrder(Append(q, CommandOf(SetAcoustics(new))), r, new.cookie)
<1> DEFINE e == CommandOf(SetAcoustics(new))
           t == Append(q, e)
           n == Len(q) + 1
<1>1. /\ DOMAIN t = DOMAIN q \cup {n}
      /\ t[n] = e
      /\ \A k \in DOMAIN q : t[k] = q[k] /\ k \in Nat /\ k < n
      /\ n \in Nat
  BY AppendFacts
<1>2. e.command.settings.cookie = max + 1
  BY DEF CommandOf, SetAcoustics
<1> HIDE DEF t, n, e
<1>3. /\ \A j \in DOMAIN r : r[j].type = "SetAcoustics" => r[j].settings.cookie < max + 1
      /\ \A k \in DOMAIN q : Acoustics(q[k]) => q[k].command.settings.cookie < max + 1
  BY DEF CookiesInOrder
<1>4. /\ \A j, k \in DOMAIN r :
             (j < k /\ r[j].type = "SetAcoustics" /\ r[k].type = "SetAcoustics")
                 => r[j].settings.cookie < r[k].settings.cookie
      /\ \A j \in DOMAIN r, k \in DOMAIN q :
             (r[j].type = "SetAcoustics" /\ Acoustics(q[k]))
                 => r[j].settings.cookie < q[k].command.settings.cookie
      /\ \A j, k \in DOMAIN q :
             (j < k /\ Acoustics(q[j]) /\ Acoustics(q[k]))
                 => q[j].command.settings.cookie < q[k].command.settings.cookie
  BY DEF CookiesInOrder
<1>5. \A j \in DOMAIN r, k \in DOMAIN t :
          (r[j].type = "SetAcoustics" /\ Acoustics(t[k]))
              => r[j].settings.cookie < t[k].command.settings.cookie
  BY <1>1, <1>2, <1>3, <1>4
<1>6. \A j, k \in DOMAIN t :
          (j < k /\ Acoustics(t[j]) /\ Acoustics(t[k]))
              => t[j].command.settings.cookie < t[k].command.settings.cookie
  BY <1>1, <1>2, <1>3, <1>4
<1>7. \A k \in DOMAIN t : Acoustics(t[k]) => t[k].command.settings.cookie =< max + 1
  BY <1>1, <1>2, <1>3
<1>8. \A j \in DOMAIN r : r[j].type = "SetAcoustics" => r[j].settings.cookie =< max + 1
  BY <1>3
<1> QED BY <1>4, <1>5, <1>6, <1>7, <1>8 DEF CookiesInOrder, t, e

\* The commands of the conduit, as events.
LEMMA CommandTypes ==
    ASSUME Command = AnyCommand, NEW ep \in EndPoint, NEW v \in Versioned
    PROVE  /\ CommandOf(SetDatetime) \in Events
           /\ CommandOf(FramestreamReceiver(ep)) \in Events
           /\ CommandOf(SetAcoustics(v)) \in Events
<1>1. /\ SetDatetime \in Command
      /\ FramestreamReceiver(ep) \in Command
      /\ SetAcoustics(v) \in Command
  BY DEF AnyCommand, FramestreamReceiver, SetAcoustics
<1>2. \A c \in Command : CommandOf(c) \in Events
  BY DEF CommandOf, Events
<1> QED BY <1>1, <1>2

\* An event that is a command, and a command of settings, are what they say.
LEMMA EventFacts ==
    ASSUME Command = AnyCommand
    PROVE  /\ \A e \in Events : e.kind = "Command" => e.command \in Command /\ e = CommandOf(e.command)
           /\ \A c \in Command : c.type = "SetAcoustics" => c.settings \in Versioned
<1>1. ASSUME NEW e \in Events, e.kind = "Command"
      PROVE  e.command \in Command /\ e = CommandOf(e.command)
  BY <1>1 DEF Events, KeepAliveTick, Quit, Beacon, CommandOf
<1>2. ASSUME NEW c \in Command, c.type = "SetAcoustics"
      PROVE  c.settings \in Versioned
  BY <1>2 DEF AnyCommand, SetDatetime
<1> QED BY <1>1, <1>2

LEMMA WithNone ==
    ASSUME NEW q \in Seq(Events)
    PROVE  With(q, Commands(<<>>)) = q
<1>1. Commands(<<>>) = <<>>
  BY DEF Commands
<1>2. q \o <<>> = q
  OBVIOUS
<1> QED BY <1>1, <1>2 DEF With

LEMMA WithOne ==
    ASSUME NEW q \in Seq(Events), NEW c, queueOpen \in BOOLEAN
    PROVE  With(q, Commands(<<c>>)) = (IF queueOpen THEN Append(q, CommandOf(c)) ELSE q)
<1>1. Commands(<<c>>) = <<CommandOf(c)>>
  BY DEF Commands
<1>2. q \o <<CommandOf(c)>> = Append(q, CommandOf(c))
  OBVIOUS
<1> QED BY <1>1, <1>2 DEF With

LEMMA WithTwo ==
    ASSUME NEW q \in Seq(Events), NEW c, NEW d, queueOpen \in BOOLEAN
    PROVE  With(q, Commands(<<c, d>>))
               = (IF queueOpen THEN Append(Append(q, CommandOf(c)), CommandOf(d)) ELSE q)
<1>1. Commands(<<c, d>>) = <<CommandOf(c), CommandOf(d)>>
  BY DEF Commands
<1> DEFINE e == CommandOf(c)
           f == CommandOf(d)
<1> HIDE DEF e, f
<1>2. q \o <<e, f>> = Append(Append(q, e), f)
  OBVIOUS
<1> QED BY <1>1, <1>2 DEF With, e, f

\* What each step does to the queue and the link, the sink and the last request.

\* An event is taken off and not sent.
TakesAway ==
    /\ cxnEvQueue # <<>>
    /\ cxnEvQueue' = Tail(cxnEvQueue)
    /\ cmdLink' = cmdLink \/ cmdLink' = NoLink
    /\ handling' # "initializing"
    /\ (cmdLink'.up /\ IsConnected') => IsConnected /\ Head(cxnEvQueue).kind # "Command"
    /\ UNCHANGED <<queueOpen, sink, lastRequested>>

\* A command is taken off and sent.
TakesAndSends ==
    /\ cxnEvQueue # <<>>
    /\ Head(cxnEvQueue).kind = "Command"
    /\ cxnEvQueue' = Tail(cxnEvQueue)
    /\ cmdLink' = [cmdLink EXCEPT !.received = @ \o <<Head(cxnEvQueue).command>>]
    /\ handling' # "initializing"
    /\ IsConnected' => IsConnected
    /\ UNCHANGED <<queueOpen, sink, lastRequested>>

LEMMA HandleEffect ==
    ASSUME cmdLink \in [up : BOOLEAN, received : Seq(Command)], Handle, UNCHANGED conduitVars
    PROVE  TakesAway \/ TakesAndSends
<1>1. /\ cxnEvQueue # <<>>
      /\ cxnEvQueue' = Tail(cxnEvQueue)
      /\ handling' # "initializing"
      /\ UNCHANGED <<queueOpen, sink, lastRequested>>
  BY DEF Handle, HandleTick, PingFails, HandleCommand, IgnoreBeacon, HandleQuit, Takes, Done,
         conduitVars
<1>2. cmdLink.received \o <<>> = cmdLink.received
  OBVIOUS
<1>4. [cmdLink EXCEPT !.received = @ \o <<>>] = cmdLink
  BY <1>2
<1>5. ~NoLink.up
  BY DEF NoLink
<1>6. CASE HandleTick
  <2>1. Head(cxnEvQueue).kind # "Command"
    BY <1>6 DEF HandleTick, Takes, KeepAliveTick
  <2>2. cmdLink' = cmdLink /\ machineState' = machineState
    BY <1>4, <1>6 DEF HandleTick, Sends
  <2> QED BY <1>1, <2>1, <2>2 DEF TakesAway, IsConnected
<1>7. CASE PingFails
  BY <1>1, <1>5, <1>7 DEF PingFails, SendFails, TakesAway
<1>8. CASE HandleCommand
  <2>1. CASE IsConnected /\ Sends(<<Head(cxnEvQueue).command>>)
    <3>1. CASE cmdLink.up
      BY <1>1, <1>8, <2>1, <3>1 DEF HandleCommand, Sends, TakesAndSends, IsConnected
    <3>2. CASE ~cmdLink.up
      BY <1>1, <2>1, <3>2 DEF Sends, TakesAway
    <3> QED BY <3>1, <3>2
  <2>2. CASE IsConnected /\ SendFails
    BY <1>1, <1>5, <2>2 DEF SendFails, TakesAway
  <2>3. CASE ~IsConnected
    BY <1>1, <1>8, <2>3 DEF HandleCommand, TakesAway, IsConnected
  <2> QED BY <1>8, <2>1, <2>2, <2>3 DEF HandleCommand
<1>9. CASE \E ip \in Addresses : IgnoreBeacon(ip)
  <2>1. Head(cxnEvQueue).kind # "Command" /\ UNCHANGED <<cmdLink, machineState>>
    BY <1>9 DEF IgnoreBeacon, Takes, Beacon
  <2> QED BY <1>1, <2>1 DEF TakesAway, IsConnected
<1>10. CASE HandleQuit
  BY <1>1, <1>5, <1>10 DEF HandleQuit, TakesAway
<1> QED BY <1>6, <1>7, <1>8, <1>9, <1>10 DEF Handle

LEMMA CookiesBelow ==
    ASSUME NEW q, NEW r, NEW max \in Nat, NEW larger \in Nat, max =< larger,
           CookiesInOrder(q, r, max),
           \A j \in DOMAIN r : r[j].type = "SetAcoustics" => r[j].settings.cookie \in Nat,
           \A k \in DOMAIN q : Acoustics(q[k]) => q[k].command.settings.cookie \in Nat
    PROVE  CookiesInOrder(q, r, larger)
BY DEF CookiesInOrder

\* A new link has got nothing.
LEMMA NothingReceived ==
    ASSUME NEW q, NEW r, NEW max, CookiesInOrder(q, r, max)
    PROVE  CookiesInOrder(q, <<>>, max)
BY DEF CookiesInOrder

\* The invariant.  A command that initialises the connection is on its way or
\* has come, and none of its type is behind it.
LinkInUse == queueOpen /\ cmdLink.up

SentInv ==
    /\ (LinkInUse /\ (IsConnected \/ handling = "initializing"))
           => SentLast(cxnEvQueue, cmdLink.received, FramestreamReceiver(sink))
    /\ (LinkInUse /\ IsConnected)
           => SentLast(cxnEvQueue, cmdLink.received, SetAcoustics(lastRequested))

CookieInv == CookiesInOrder(cxnEvQueue, cmdLink.received, lastRequested.cookie)

\* The variables no other invariant types.
QueueTypeOK == /\ cxnEvQueue \in Seq(Events)
               /\ queueOpen \in BOOLEAN
               /\ cmdLink \in [up : BOOLEAN, received : Seq(Command)]
               /\ sink \in EndPoint

QueueInv == QueueTypeOK /\ SentInv /\ CookieInv

LEMMA CookiesAreNumbers ==
    ASSUME Command = AnyCommand, QueueTypeOK
    PROVE  /\ \A j \in DOMAIN cmdLink.received :
                  cmdLink.received[j].type = "SetAcoustics"
                      => cmdLink.received[j].settings.cookie \in Nat
           /\ \A k \in DOMAIN cxnEvQueue :
                  Acoustics(cxnEvQueue[k]) => cxnEvQueue[k].command.settings.cookie \in Nat
<1>1. \A c \in Command : c.type = "SetAcoustics" => c.settings.cookie \in Nat
  BY EventFacts DEF Versioned
<1>2. \A e \in Events : Acoustics(e) => e.command \in Command
  BY EventFacts DEF Acoustics, Carries
<1>3. \A j \in DOMAIN cmdLink.received : cmdLink.received[j] \in Command
  BY DEF QueueTypeOK
<1>4. \A k \in DOMAIN cxnEvQueue : cxnEvQueue[k] \in Events
  BY DEF QueueTypeOK
<1> QED BY <1>1, <1>2, <1>3, <1>4 DEF Acoustics, Carries

LEMMA QueueInit == Init => QueueInv
<1> SUFFICES ASSUME Init PROVE QueueInv
  OBVIOUS
<1>1. QueueTypeOK
  BY DEF Init, CxnInit, QueueTypeOK, NoLink, EndPoint
<1>2. SentInv
  BY DEF Init, CxnInit, SentInv, LinkInUse, NoLink
<1>3. CookieInv
  BY DEF Init, CxnInit, CookieInv, CookiesInOrder, NoLink
<1> QED BY <1>1, <1>2, <1>3 DEF QueueInv

LEMMA HandleKeepsQueue ==
    ASSUME Command = AnyCommand, QueueInv, Handle, UNCHANGED conduitVars
    PROVE  QueueInv'
<1>1. /\ cxnEvQueue \in Seq(Events)
      /\ cmdLink \in [up : BOOLEAN, received : Seq(Command)]
  BY DEF QueueInv, QueueTypeOK
<1>2. CASE TakesAway
  <2>1. QueueTypeOK'
    <3>1. cxnEvQueue' \in Seq(Events)
      BY <1>1, <1>2 DEF TakesAway
    <3>2. NoLink \in [up : BOOLEAN, received : Seq(Command)]
      BY DEF NoLink
    <3>3. cmdLink' \in [up : BOOLEAN, received : Seq(Command)]
      BY <1>1, <1>2, <3>2 DEF TakesAway
    <3> QED BY <1>2, <3>1, <3>3 DEF TakesAway, QueueInv, QueueTypeOK
  <2>2. CookieInv'
    <3>1. CookiesInOrder(cxnEvQueue', cmdLink.received, lastRequested.cookie)
      BY <1>1, <1>2, TakeOther DEF TakesAway, QueueInv, CookieInv
    <3>2. CookiesInOrder(cxnEvQueue', <<>>, lastRequested.cookie)
      BY <3>1, NothingReceived
    <3> QED BY <1>2, <3>1, <3>2 DEF TakesAway, CookieInv, NoLink
  <2>3. ASSUME LinkInUse', IsConnected' \/ handling' = "initializing"
        PROVE  /\ SentLast(cxnEvQueue, cmdLink.received, FramestreamReceiver(sink))'
               /\ SentLast(cxnEvQueue, cmdLink.received, SetAcoustics(lastRequested))'
    <3>1. /\ cmdLink' = cmdLink
          /\ IsConnected
          /\ Head(cxnEvQueue).kind # "Command"
          /\ LinkInUse
      BY <1>2, <2>3 DEF TakesAway, LinkInUse, NoLink
    <3>2. /\ SentLast(cxnEvQueue, cmdLink.received, FramestreamReceiver(sink))
          /\ SentLast(cxnEvQueue, cmdLink.received, SetAcoustics(lastRequested))
      BY <3>1 DEF QueueInv, SentInv
    <3>3. cxnEvQueue # <<>> /\ cxnEvQueue' = Tail(cxnEvQueue) /\ UNCHANGED <<sink, lastRequested>>
      BY <1>2 DEF TakesAway
    <3>4. \A c : SentLast(cxnEvQueue, cmdLink.received, c)
                     => SentLast(Tail(cxnEvQueue), cmdLink.received, c)
      BY <1>1, <3>1, <3>3, TakeOther
    <3> QED BY <3>1, <3>2, <3>3, <3>4
  <2> QED BY <2>1, <2>2, <2>3 DEF QueueInv, SentInv
<1>3. CASE TakesAndSends
  <2> DEFINE d == Head(cxnEvQueue).command
  <2>1. /\ cxnEvQueue # <<>>
        /\ Head(cxnEvQueue) \in Events
        /\ Head(cxnEvQueue).kind = "Command"
    BY <1>1, <1>3 DEF TakesAndSends
  <2>2. d \in Command /\ Head(cxnEvQueue) = CommandOf(d)
    BY <2>1, EventFacts
  <2>3. cxnEvQueue' = Tail(cxnEvQueue) /\ UNCHANGED <<queueOpen, sink, lastRequested>>
    BY <1>3 DEF TakesAndSends
  <2>4. cmdLink' = [cmdLink EXCEPT !.received = cmdLink.received \o <<d>>]
    BY <1>3 DEF TakesAndSends
  <2> HIDE DEF d
  <2>5. cmdLink.received \o <<d>> = Append(cmdLink.received, d)
    BY <1>1, <2>2
  <2>6. cmdLink'.up = cmdLink.up /\ cmdLink'.received = Append(cmdLink.received, d)
    BY <1>1, <2>4, <2>5
  <2>7. QueueTypeOK'
    <3>1. Tail(cxnEvQueue) \in Seq(Events)
      BY <1>1, <2>1
    <3>2. Append(cmdLink.received, d) \in Seq(Command)
      BY <1>1, <2>2
    <3>3. cmdLink' \in [up : BOOLEAN, received : Seq(Command)]
      BY <1>1, <2>4, <2>5, <3>2
    <3> QED BY <2>3, <3>1, <3>3 DEF QueueInv, QueueTypeOK
  <2>8. cmdLink.received \in Seq(Command)
    BY <1>1
  <2>9. /\ \A c : SentLast(cxnEvQueue, cmdLink.received, c)
                      => SentLast(Tail(cxnEvQueue), Append(cmdLink.received, d), c)
        /\ \A max : CookiesInOrder(cxnEvQueue, cmdLink.received, max)
                        => CookiesInOrder(Tail(cxnEvQueue), Append(cmdLink.received, d), max)
    BY <1>1, <2>1, <2>2, <2>8, TakeCommand
  <2>10. CookieInv'
    BY <2>3, <2>6, <2>9 DEF QueueInv, CookieInv
  <2>11. (LinkInUse' /\ (IsConnected' \/ handling' = "initializing")) => LinkInUse /\ IsConnected
    BY <1>3, <2>3, <2>6 DEF TakesAndSends, LinkInUse
  <2>12. SentInv'
    BY <2>3, <2>6, <2>9, <2>11 DEF QueueInv, SentInv
  <2> QED BY <2>7, <2>10, <2>12 DEF QueueInv
<1> QED BY <1>1, <1>2, <1>3, HandleEffect

\* A beacon that is answered is taken off, and is no command.
LEMMA BeginKeepsQueue ==
    ASSUME Command = AnyCommand, QueueInv, MachineInv',
           NEW ip \in Addresses, NEW address \in LocalAddresses, BeginInitialize(ip, address)
    PROVE  QueueInv'
<1> DEFINE t == Tail(cxnEvQueue)
           a == Append(t, CommandOf(SetDatetime))
           b == Append(a, CommandOf(FramestreamReceiver(sink')))
<1>1. /\ cxnEvQueue \in Seq(Events)
      /\ queueOpen \in BOOLEAN
      /\ sink \in EndPoint
  BY DEF QueueInv, QueueTypeOK
<1>2. sink' \in EndPoint
  <2>1. sink' = SinkAt(address)
    BY DEF BeginInitialize
  <2> QED BY <1>1, <2>1 DEF SinkAt, EndPoint
<1>3. cxnEvQueue # <<>>
  BY DEF BeginInitialize, Connect, CanConnect, Takes
<1>4. t \in Seq(Events)
  BY <1>1, <1>3
<1>5. /\ cmdLink' = NewLink
      /\ handling' = "initializing"
      /\ UNCHANGED <<queueOpen, lastRequested>>
      /\ cxnEvQueue' = With(t, Commands(<<SetDatetime, FramestreamReceiver(sink')>>))
  BY DEF BeginInitialize, Connect
<1> HIDE DEF t
<1>6. cxnEvQueue' = IF queueOpen THEN b ELSE t
  BY <1>1, <1>4, <1>5, WithTwo
<1>7. CommandOf(SetDatetime) \in Events /\ CommandOf(FramestreamReceiver(sink')) \in Events
  <2>1. [cookie |-> 0, settings |-> InitialSettings] \in Versioned
    BY SettingsAssumption DEF Versioned
  <2> QED BY <1>2, <2>1, CommandTypes
<1>8. a \in Seq(Events)
  BY <1>4, <1>7
<1>9. b \in Seq(Events)
  BY <1>7, <1>8
<1>10. ~Acoustics(CommandOf(SetDatetime)) /\ ~Acoustics(CommandOf(FramestreamReceiver(sink')))
  BY DEF Acoustics, Carries, CommandOf, SetDatetime, FramestreamReceiver
<1>11. cmdLink'.received = <<>>
  BY <1>5 DEF NewLink
<1> HIDE DEF a, b
<1>12. QueueTypeOK'
  <2>1. cmdLink' \in [up : BOOLEAN, received : Seq(Command)]
    BY <1>5 DEF NewLink
  <2> QED BY <1>1, <1>2, <1>4, <1>5, <1>6, <1>9, <2>1 DEF QueueTypeOK
<1>13. CookieInv'
  <2>1. CookiesInOrder(t, <<>>, lastRequested.cookie)
    <3>1. CookiesInOrder(t, cmdLink.received, lastRequested.cookie)
      BY <1>1, <1>3, TakeOther DEF QueueInv, CookieInv, t
    <3> QED BY <3>1, NothingReceived
  <2>2. CookiesInOrder(a, <<>>, lastRequested.cookie)
    BY <1>4, <1>10, <2>1, AppendEvent DEF a
  <2>3. CookiesInOrder(b, <<>>, lastRequested.cookie)
    BY <1>8, <1>10, <2>2, AppendEvent DEF b
  <2> QED BY <1>5, <1>6, <1>11, <2>1, <2>3 DEF CookieInv
<1>14. SentInv'
  <2>1. ~IsConnected'
    BY <1>5 DEF MachineInv, IsConnected
  <2>2. SentLast(b, <<>>, FramestreamReceiver(sink'))
    BY <1>8, AppendEvent DEF b
  <2> QED BY <1>5, <1>6, <1>11, <2>1, <2>2 DEF SentInv, LinkInUse, FramestreamReceiver
<1> QED BY <1>12, <1>13, <1>14 DEF QueueInv

LEMMA RefuseKeepsQueue ==
    ASSUME Command = AnyCommand, QueueInv, MachineInv,
           NEW ip \in Addresses, RefuseConnection(ip)
    PROVE  QueueInv'
<1> DEFINE t == Tail(cxnEvQueue)
           a == Append(t, CommandOf(SetDatetime))
<1>1. /\ cxnEvQueue \in Seq(Events)
      /\ queueOpen \in BOOLEAN
  BY DEF QueueInv, QueueTypeOK
<1>2. CanConnect(ip) /\ cxnEvQueue # <<>>
  BY DEF RefuseConnection, Refuse, CanConnect, Takes
<1>3. t \in Seq(Events)
  BY <1>1, <1>2
<1>4. /\ machineState' = Refused(ip, Reached(ip, machineState))
      /\ handling' = "idle"
      /\ UNCHANGED <<queueOpen, cmdLink, lastRequested, sink>>
      /\ \/ cxnEvQueue' = With(t, Commands(<<>>))
         \/ cxnEvQueue' = With(t, Commands(<<SetDatetime>>))
  BY DEF RefuseConnection, Refuse, conduitVars
<1> HIDE DEF t
<1>5. cxnEvQueue' \in {t, a}
  <2>1. With(t, Commands(<<>>)) = t
    BY <1>3, WithNone
  <2>2. With(t, Commands(<<SetDatetime>>))
            = (IF queueOpen THEN Append(t, CommandOf(SetDatetime)) ELSE t)
    BY <1>1, <1>3, WithOne
  <2> QED BY <1>4, <2>1, <2>2
<1>6. CommandOf(SetDatetime) \in Events
  BY DEF AnyCommand, CommandOf, Events
<1>7. a \in Seq(Events)
  BY <1>3, <1>6
<1>8. ~Acoustics(CommandOf(SetDatetime))
  BY DEF Acoustics, Carries, CommandOf, SetDatetime
<1> HIDE DEF a
<1>9. QueueTypeOK'
  BY <1>3, <1>4, <1>5, <1>7 DEF QueueInv, QueueTypeOK
<1>10. CookieInv'
  <2>1. CookiesInOrder(t, cmdLink.received, lastRequested.cookie)
    BY <1>1, <1>2, TakeOther DEF QueueInv, CookieInv, t
  <2>2. CookiesInOrder(a, cmdLink.received, lastRequested.cookie)
    BY <1>3, <1>8, <2>1, AppendEvent DEF a
  <2> QED BY <1>4, <1>5, <2>1, <2>2 DEF CookieInv
<1>11. SentInv'
  <2>1. /\ Reached(ip, machineState) \in ConnectionState
        /\ Reached(ip, machineState).name \in {"NotConnected", "ConnectionRefused"}
    BY <1>2, ReachedIsNotConnected DEF CanConnect, MachineInv
  <2>2. machineState'.name = "ConnectionRefused"
    BY <1>4, <2>1 DEF Refused, ConnectionRefused, State
  <2> QED BY <1>4, <2>2 DEF SentInv, IsConnected
<1> QED BY <1>9, <1>10, <1>11 DEF QueueInv

\* Settings are queued under the next cookie; what is not settings stays as it
\* was sent.
LEMMA SettingsAreQueued ==
    ASSUME Command = AnyCommand, QueueInv, RequestInv,
           NEW s \in Settings, lastRequested' = NextVersion(s),
           cxnEvQueue' = IF queueOpen
                         THEN Append(cxnEvQueue, CommandOf(SetAcoustics(lastRequested')))
                         ELSE cxnEvQueue,
           UNCHANGED <<queueOpen, cmdLink, sink>>,
           IsConnected' => IsConnected \/ handling = "initializing",
           handling' = "initializing" => handling = "initializing"
    PROVE  QueueInv'
<1> DEFINE e == CommandOf(SetAcoustics(lastRequested'))
           t == Append(cxnEvQueue, e)
<1>1. /\ cxnEvQueue \in Seq(Events)
      /\ queueOpen \in BOOLEAN
      /\ lastRequested \in Versioned
  BY DEF QueueInv, QueueTypeOK, RequestInv
<1>2. lastRequested' \in Versioned /\ lastRequested'.cookie = lastRequested.cookie + 1
  BY <1>1, NextVersionType DEF NextVersion
<1>3. lastRequested.cookie \in Nat /\ lastRequested'.cookie \in Nat
  BY <1>1, <1>2 DEF Versioned
<1>4. e \in Events
  <2>1. [address |-> NoAddress, socket |-> 0] \in EndPoint
    BY DEF EndPoint
  <2> QED BY <1>2, <2>1, CommandTypes
<1>5. t \in Seq(Events)
  BY <1>1, <1>4
<1>6. QueueTypeOK'
  BY <1>1, <1>5 DEF QueueInv, QueueTypeOK
<1>7. CookieInv'
  <2>1. CookiesInOrder(cxnEvQueue, cmdLink.received, lastRequested.cookie)
    BY DEF QueueInv, CookieInv
  <2>2. CookiesInOrder(t, cmdLink.received, lastRequested'.cookie)
    BY <1>1, <1>2, <1>3, <2>1, CookiesAreNumbers, AppendSettings DEF QueueInv
  <2>3. CookiesInOrder(cxnEvQueue, cmdLink.received, lastRequested'.cookie)
    BY <1>2, <1>3, <2>1, CookiesAreNumbers, CookiesBelow DEF QueueInv
  <2> QED BY <2>2, <2>3 DEF CookieInv
<1>8. ASSUME LinkInUse', IsConnected' \/ handling' = "initializing"
      PROVE  /\ SentLast(cxnEvQueue, cmdLink.received, FramestreamReceiver(sink))'
             /\ SentLast(cxnEvQueue, cmdLink.received, SetAcoustics(lastRequested))'
  <2>1. LinkInUse /\ queueOpen /\ cxnEvQueue' = t
    BY <1>8 DEF LinkInUse
  <2>2. SentLast(cxnEvQueue, cmdLink.received, FramestreamReceiver(sink))
    BY <1>8, <2>1 DEF QueueInv, SentInv
  <2>3. ~Carries(e, FramestreamReceiver(sink).type)
    BY DEF Carries, CommandOf, SetAcoustics, FramestreamReceiver
  <2>4. SentLast(t, cmdLink.received, FramestreamReceiver(sink))
    BY <1>1, <2>2, <2>3, AppendEvent
  <2>5. SentLast(t, cmdLink.received, SetAcoustics(lastRequested'))
    BY <1>1, AppendEvent
  <2> QED BY <2>1, <2>4, <2>5
<1> QED BY <1>6, <1>7, <1>8 DEF QueueInv, SentInv

\* A tick, a beacon or Quit is queued; what is sent stays.
LEMMA SignalsAreQueued ==
    ASSUME QueueInv, NEW e \in Events, e.kind # "Command",
           Post(<<e>>), UNCHANGED <<lastRequested, sink>>
    PROVE  QueueInv'
<1> DEFINE t == Append(cxnEvQueue, e)
<1>1. /\ cxnEvQueue \in Seq(Events)
      /\ queueOpen \in BOOLEAN
  BY DEF QueueInv, QueueTypeOK
<1>2. cxnEvQueue' \in {cxnEvQueue, t}
  <2>1. cxnEvQueue \o <<e>> = t
    BY <1>1
  <2> QED BY <1>1, <2>1 DEF Post, With
<1>3. UNCHANGED <<queueOpen, machineState, handling, cmdLink>>
  BY DEF Post
<1>4. t \in Seq(Events)
  BY <1>1
<1>5. \A type : ~Carries(e, type)
  BY DEF Carries
<1>6. QueueTypeOK'
  BY <1>2, <1>3, <1>4 DEF QueueInv, QueueTypeOK
<1>7. CookieInv'
  <2>1. CookiesInOrder(cxnEvQueue, cmdLink.received, lastRequested.cookie)
    BY DEF QueueInv, CookieInv
  <2>2. CookiesInOrder(t, cmdLink.received, lastRequested.cookie)
    BY <1>1, <1>5, <2>1, AppendEvent DEF Acoustics
  <2> QED BY <1>2, <1>3, <2>1, <2>2 DEF CookieInv
<1>8. SentInv'
  <2>1. \A c : SentLast(cxnEvQueue, cmdLink.received, c) => SentLast(t, cmdLink.received, c)
    BY <1>1, <1>5, AppendEvent
  <2> HIDE DEF t
  <2>2. \A c : SentLast(cxnEvQueue, cmdLink.received, c)
                   => SentLast(cxnEvQueue', cmdLink'.received, c)
    BY <1>2, <1>3, <2>1
  <2>3. /\ LinkInUse' <=> LinkInUse
        /\ IsConnected' <=> IsConnected
        /\ handling' = handling
    BY <1>3 DEF LinkInUse, IsConnected
  <2> QED BY <2>2, <2>3 DEF QueueInv, SentInv
<1> QED BY <1>6, <1>7, <1>8 DEF QueueInv

\* The link breaks, the queue is completed, or neither they nor the machine are
\* concerned.
LEMMA NothingIsQueued ==
    ASSUME QueueInv, UNCHANGED <<cxnEvQueue, machineState, lastRequested, sink>>,
           cmdLink' = cmdLink \/ cmdLink' = [cmdLink EXCEPT !.up = FALSE],
           queueOpen' = queueOpen \/ queueOpen' = FALSE,
           handling' = "initializing" => handling = "initializing"
    PROVE  QueueInv'
<1>1. /\ cmdLink \in [up : BOOLEAN, received : Seq(Command)]
      /\ queueOpen \in BOOLEAN
  BY DEF QueueInv, QueueTypeOK
<1>2. /\ cmdLink' \in [up : BOOLEAN, received : Seq(Command)]
      /\ cmdLink'.received = cmdLink.received
      /\ cmdLink'.up => cmdLink.up
  BY <1>1
<1>3. queueOpen' \in BOOLEAN /\ (queueOpen' => queueOpen)
  <2>1. CASE queueOpen' = queueOpen
    BY <1>1, <2>1
  <2>2. CASE queueOpen' = FALSE
    BY <2>2
  <2> QED BY <2>1, <2>2
<1>4. LinkInUse' => LinkInUse
  BY <1>2, <1>3 DEF LinkInUse
<1>5. QueueTypeOK' /\ CookieInv'
  BY <1>2, <1>3 DEF QueueInv, QueueTypeOK, CookieInv
<1>6. SentInv'
  BY <1>2, <1>4 DEF QueueInv, SentInv, IsConnected
<1> QED BY <1>5, <1>6 DEF QueueInv

LEMMA QueueStep ==
    ASSUME Command = AnyCommand, QueueInv, MachineInv, RequestInv, MachineInv', [Next]_vars
    PROVE  QueueInv'
<1>1. CASE Connection
  <2>1. CASE Handle /\ UNCHANGED conduitVars
    BY <2>1, HandleKeepsQueue
  <2>2. CASE \E ip \in Addresses, address \in LocalAddresses : BeginInitialize(ip, address)
    BY <2>2, BeginKeepsQueue
  <2>3. CASE \E ip \in Addresses : RefuseConnection(ip)
    BY <2>3, RefuseKeepsQueue
  <2>4. CASE FinishInitialize
    <3>1. /\ requested \in Settings
          /\ cxnEvQueue \in Seq(Events)
          /\ queueOpen \in BOOLEAN
      BY DEF RequestInv, QueueInv, QueueTypeOK
    <3>2. /\ lastRequested' = NextVersion(requested)
          /\ handling = "initializing" /\ handling' = "idle"
          /\ cxnEvQueue' = With(cxnEvQueue, Commands(<<SetAcoustics(lastRequested')>>))
          /\ UNCHANGED <<queueOpen, cmdLink, sink>>
      BY <2>4 DEF FinishInitialize, FinishConnect
    <3>3. cxnEvQueue' = IF queueOpen
                        THEN Append(cxnEvQueue, CommandOf(SetAcoustics(lastRequested')))
                        ELSE cxnEvQueue
      <4> DEFINE c == SetAcoustics(lastRequested')
      <4> HIDE DEF c
      <4>1. cxnEvQueue' = With(cxnEvQueue, Commands(<<c>>))
        BY <3>2 DEF c
      <4>2. With(cxnEvQueue, Commands(<<c>>))
                = (IF queueOpen THEN Append(cxnEvQueue, CommandOf(c)) ELSE cxnEvQueue)
        BY <3>1, WithOne
      <4> QED BY <4>1, <4>2 DEF c
    <3> QED BY <3>1, <3>2, <3>3, SettingsAreQueued
  <2>5. CASE Report
    BY <2>5, NothingIsQueued DEF Report, ReportClosed, conduitVars
  <2> QED BY <1>1, <2>1, <2>2, <2>3, <2>4, <2>5 DEF Connection
<1>2. CASE Timer
  BY <1>2, SignalsAreQueued DEF Timer, Tick, KeepAliveTick, Events, conduitVars
<1>3. CASE Environment
  <2>1. CASE \E ip \in Addresses : BeaconHeard(ip)
    <3>1. PICK ip \in Addresses : BeaconHeard(ip)
      BY <2>1
    <3>2. Beacon(ip) \in Events /\ Beacon(ip).kind # "Command"
      BY DEF Events, Beacon
    <3> QED BY <1>3, <3>1, <3>2, SignalsAreQueued DEF Environment, BeaconHeard, conduitVars
  <2>2. CASE LinkBreaks
    BY <1>3, <2>2, NothingIsQueued DEF Environment, LinkBreaks, conduitVars
  <2> QED BY <1>3, <2>1, <2>2 DEF Environment
<1>4. CASE \E s \in Settings : RequestAcousticSettings(s)
  <2>1. PICK s \in Settings : RequestAcousticSettings(s)
    BY <1>4
  <2>2. cxnEvQueue \in Seq(Events) /\ queueOpen \in BOOLEAN
    BY DEF QueueInv, QueueTypeOK
  <2>3. /\ lastRequested' = NextVersion(s)
        /\ cxnEvQueue' = With(cxnEvQueue, <<CommandOf(SetAcoustics(lastRequested'))>>)
        /\ UNCHANGED <<queueOpen, cmdLink, sink, machineState, handling>>
    BY <2>1 DEF RequestAcousticSettings, Post
  <2>4. cxnEvQueue' = IF queueOpen
                      THEN Append(cxnEvQueue, CommandOf(SetAcoustics(lastRequested')))
                      ELSE cxnEvQueue
    <3> DEFINE c == SetAcoustics(lastRequested')
    <3> HIDE DEF c
    <3>1. cxnEvQueue' = With(cxnEvQueue, <<CommandOf(c)>>)
      BY <2>3 DEF c
    <3>2. cxnEvQueue \o <<CommandOf(c)>> = Append(cxnEvQueue, CommandOf(c))
      BY <2>2
    <3> QED BY <2>2, <3>1, <3>2 DEF With, c
  <2> QED BY <2>3, <2>4, SettingsAreQueued DEF IsConnected
<1>5. CASE Dispose
  <2>1. CASE BeginDispose
    BY <2>1, SignalsAreQueued DEF BeginDispose, DisposeAt, Quit, Events
  <2>2. CASE StopEvents \/ FinishDispose
    BY <2>2, NothingIsQueued DEF StopEvents, FinishDispose, CompleteQueue, DisposeAt, cxnVars
  <2> QED BY <1>5, <2>1, <2>2 DEF Dispose
<1>6. CASE FrameArrives \/ UNCHANGED vars
  BY <1>6, NothingIsQueued DEF FrameArrives, vars, cxnVars, conduitVars
<1> QED BY <1>1, <1>2, <1>3, <1>4, <1>5, <1>6 DEF Next

\* Whenever a link is in use and no command waits, the sonar got the frame
\* stream's open socket and the settings last requested after all others,
\* whatever was dropped, lost with a link or queued before it was made.
THEOREM ConnectedStaysInitialized ==
    ASSUME Command = AnyCommand
    PROVE  Spec => []ConnectedSonarIsInitialized
<1>1. QueueInv => ConnectedSonarIsInitialized
  <2> SUFFICES ASSUME QueueInv, IsConnected, cmdLink.up, queueOpen, ~CommandsWait
               PROVE  LastGot(FramestreamReceiver(sink)) /\ LastGot(SetAcoustics(lastRequested))
    BY DEF ConnectedSonarIsInitialized
  <2>1. /\ SentLast(cxnEvQueue, cmdLink.received, FramestreamReceiver(sink))
        /\ SentLast(cxnEvQueue, cmdLink.received, SetAcoustics(lastRequested))
    BY DEF QueueInv, SentInv, LinkInUse
  <2>2. \A c : SentLast(cxnEvQueue, cmdLink.received, c) => LastGot(c)
    BY DEF SentLast, LastGot, CommandsWait, CommandOf
  <2> QED BY <2>1, <2>2
<1>2. QueueInv /\ MachineInv /\ RequestInv /\ [Next]_vars => QueueInv'
  BY QueueStep, MachineStep
<1> QED BY <1>1, <1>2, QueueInit, MachineInit, MachineStep, RequestInit, RequestStep, PTL
        DEF Spec

-----------------------------------------------------------------------------
\* The variables that have no part in any of this.
RestTypeOK == /\ handling \in {"idle", "initializing", "reporting"}
              /\ breaks \in Nat
              /\ systemTypeKnown \in BOOLEAN
              /\ dispose \in {"no", "quit", "completed", "disposed"}
              /\ overtaken \in BOOLEAN

LEMMA RestInit == Init => RestTypeOK
<1> SUFFICES ASSUME Init PROVE RestTypeOK
  OBVIOUS
<1>1. handling = "idle" /\ breaks = 0 /\ dispose = "no"
  BY DEF Init, CxnInit
<1>2. systemTypeKnown = FALSE /\ overtaken = FALSE
  BY DEF Init
<1>3. systemTypeKnown \in BOOLEAN /\ overtaken \in BOOLEAN
  BY <1>2
<1> QED BY <1>1, <1>3 DEF RestTypeOK

LEMMA RestStep ==
    ASSUME RestTypeOK, [Next]_vars
    PROVE  RestTypeOK'
<1>1. handling' \in {"idle", "initializing", "reporting"}
  BY DEF RestTypeOK, Next, Connection, Handle, HandleTick, PingFails, HandleCommand,
         IgnoreBeacon, HandleQuit, Done, BeginInitialize, Connect, RefuseConnection, Refuse,
         FinishInitialize, FinishConnect, Report, ReportClosed, Timer, Tick, Environment,
         BeaconHeard, LinkBreaks, FrameArrives, RequestAcousticSettings, Dispose,
         BeginDispose, StopEvents, FinishDispose, CompleteQueue, Post, vars, cxnVars
<1>2. breaks' \in {breaks, breaks + 1}
  BY DEF Next, Connection, Handle, HandleTick, PingFails, HandleCommand,
         IgnoreBeacon, HandleQuit, Done, BeginInitialize, Connect, RefuseConnection, Refuse,
         FinishInitialize, FinishConnect, Report, ReportClosed, Timer, Tick, Environment,
         BeaconHeard, LinkBreaks, FrameArrives, RequestAcousticSettings, Dispose,
         BeginDispose, StopEvents, FinishDispose, CompleteQueue, Post, vars, cxnVars
<1>3. systemTypeKnown' \in {systemTypeKnown, TRUE}
  BY DEF Next, Connection, BeginInitialize, RefuseConnection, FinishInitialize, Report, Timer,
         Environment, FrameArrives, RequestAcousticSettings, Dispose, BeginDispose,
         StopEvents, FinishDispose, DisposeAt, vars, conduitVars
<1>4. dispose' \in {dispose, "quit", "completed", "disposed"}
  BY DEF Next, Connection, BeginInitialize, RefuseConnection, FinishInitialize, Report, Timer,
         Environment, FrameArrives, RequestAcousticSettings, Dispose, BeginDispose,
         StopEvents, FinishDispose, DisposeAt, vars, conduitVars
<1>5. overtaken' \in {overtaken, handling = "initializing"}
  BY DEF Next, Connection, BeginInitialize, RefuseConnection, FinishInitialize, Report, Timer,
         Environment, FrameArrives, RequestAcousticSettings, Dispose, BeginDispose,
         StopEvents, FinishDispose, DisposeAt, vars, conduitVars
<1>6. breaks' \in Nat /\ dispose' \in {"no", "quit", "completed", "disposed"}
  BY <1>2, <1>4 DEF RestTypeOK
<1>7. systemTypeKnown' \in BOOLEAN /\ overtaken' \in BOOLEAN
  BY <1>3, <1>5 DEF RestTypeOK
<1> QED BY <1>1, <1>6, <1>7 DEF RestTypeOK

\* Whoever requests settings and whenever connections are made, the cookies that
\* reach the sonar over a link increase.
THEOREM CookiesStaySound ==
    ASSUME Command = AnyCommand
    PROVE  Spec => []CookiesSound
<1>1. MachineInv /\ RequestInv /\ QueueInv /\ RestTypeOK => CookiesSound
  <2> SUFFICES ASSUME MachineInv, RequestInv, QueueInv, RestTypeOK
               PROVE  CookiesSound
    OBVIOUS
  <2>1. ConduitTypeOK
    BY DEF ConduitTypeOK, CxnTypeOK, MachineInv, RequestInv, QueueInv, QueueTypeOK, RestTypeOK
  <2>2. CookiesIncrease
    BY DEF QueueInv, CookieInv, CookiesInOrder, CookiesIncrease
  <2> QED BY <2>1, <2>2 DEF CookiesSound
<1>2. QueueInv /\ MachineInv /\ RequestInv /\ [Next]_vars => QueueInv'
  BY QueueStep, MachineStep
<1> QED BY <1>1, <1>2, QueueInit, MachineInit, MachineStep, RequestInit, RequestStep,
           RestInit, RestStep, PTL
        DEF Spec

-----------------------------------------------------------------------------
\* What the client is told.
ToldInv == /\ ClientIsTold
           /\ handling = "reporting" => machineState = Closed

LEMMA ToldInit == Init => ToldInv
BY DEF Init, CxnInit, ToldInv, ClientIsTold

\* After a change that is reported, and after none, the client is up to date.
LEMMA ReportTells ==
    ASSUME ToldInv, handling = "idle", ReportChange, handling' = "idle", UNCHANGED dispose
    PROVE  ToldInv'
BY DEF ToldInv, ClientIsTold, ReportChange

LEMMA ToldStep ==
    ASSUME ToldInv, MachineInv, [Next]_vars
    PROVE  ToldInv'
<1>1. CASE Handle /\ UNCHANGED conduitVars
  <2>1. CASE HandleQuit
    BY <2>1 DEF HandleQuit, ToldInv, ClientIsTold
  <2>2. CASE HandleTick \/ PingFails \/ HandleCommand \/ \E ip \in Addresses : IgnoreBeacon(ip)
    BY <1>1, <2>2, ReportTells
       DEF HandleTick, PingFails, HandleCommand, IgnoreBeacon, Takes, Done, conduitVars
  <2> QED BY <1>1, <2>1, <2>2 DEF Handle
<1>2. CASE \E ip \in Addresses, address \in LocalAddresses : BeginInitialize(ip, address)
  BY <1>2 DEF BeginInitialize, Connect, ToldInv, ClientIsTold
<1>3. CASE \E ip \in Addresses : RefuseConnection(ip)
  BY <1>3, ReportTells DEF RefuseConnection, Refuse, CanConnect, Takes, conduitVars
<1>4. CASE FinishInitialize
  <2>1. /\ machineState.name \in {"NotConnected", "ConnectionRefused"}
        /\ machineState' = MakeConnected(machineState.ip, machineState)
        /\ handling' = "idle"
        /\ ReportChange
    BY <1>4 DEF FinishInitialize, FinishConnect, MachineInv
  <2>2. machineState'.name = "Connected"
    BY <2>1 DEF MakeConnected, Connected, State
  <2>3. reported' = machineState'
    BY <2>1, <2>2 DEF ReportChange
  <2> QED BY <2>1, <2>3 DEF ToldInv, ClientIsTold
<1>5. CASE Report
  BY <1>5 DEF Report, ReportClosed, conduitVars, ToldInv, ClientIsTold
<1>6. CASE \/ Timer \/ Environment \/ FrameArrives \/ Dispose \/ UNCHANGED vars
           \/ \E s \in Settings : RequestAcousticSettings(s)
  <2>1. UNCHANGED <<machineState, reported, handling>>
    BY <1>6 DEF Timer, Tick, Environment, BeaconHeard, LinkBreaks, FrameArrives, Dispose,
                BeginDispose, StopEvents, FinishDispose, CompleteQueue, Post,
                RequestAcousticSettings, vars, cxnVars
  <2>2. dispose = "disposed" => dispose' = "disposed"
    BY <1>6 DEF Timer, Environment, FrameArrives, Dispose, BeginDispose, StopEvents,
                FinishDispose, DisposeAt, RequestAcousticSettings, vars, conduitVars
  <2> QED BY <2>1, <2>2 DEF ToldInv, ClientIsTold
<1> QED BY <1>1, <1>2, <1>3, <1>4, <1>5, <1>6 DEF Next, Connection

\* The client knows the state the machine is in, but for a Quit that is handled
\* after Dispose.
THEOREM ClientStaysTold == Spec => []ClientIsTold
<1>1. ToldInv => ClientIsTold
  BY DEF ToldInv
<1> QED BY <1>1, ToldInit, ToldStep, MachineInit, MachineStep, PTL DEF Spec
=============================================================================
