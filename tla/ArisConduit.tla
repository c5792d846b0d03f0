----------------------------- MODULE ArisConduit -----------------------------
(***************************************************************************)
(* The conduit to one sonar (F#): it owns the connection's event queue,    *)
(* initialises every new connection from its callback, remembers and       *)
(* re-sends the acoustic settings last requested, and quits on Dispose.    *)
(*                                                                         *)
(* A request of invalid settings is declined and changes nothing, so it is *)
(* not here.  Valid settings are taken to stay valid when constrained,     *)
(* which holds when their ping mode is one the sonar has.                  *)
(***************************************************************************)
EXTENDS SonarConnection

CONSTANTS LocalAddresses,   \* the addresses this host may reach the sonar from
          Settings,         \* valid acoustic settings
          InitialSettings,
          Constrain,        \* what constrainAcousticSettings makes of settings
          MaxRequests       \* bound: how often the client requests settings

ASSUME SettingsAssumption == /\ InitialSettings \in Settings
                             /\ Constrain \in [Settings -> Settings]
                             /\ \A s \in Settings : Constrain[Constrain[s]] = Constrain[s]
ASSUME RequestBound == MaxRequests \in Nat

VARIABLES lastRequested,    \* the versioned settings last queued; its cookie is
                            \* also the cookie tracker's last
          sink,             \* where the frame stream's socket is bound
          requested,        \* the settings OnInitializeConnection goes by
          systemTypeKnown,  \* a frame has told the type of the sonar
          dispose,          \* how far Dispose has got
          requests,         \* the settings the client requested, in order
          overtaken         \* OnInitializeConnection had read the settings when
                            \* the client last requested others

conduitVars == <<lastRequested, sink, requested, systemTypeKnown, dispose, requests, overtaken>>
vars == <<cxnVars, conduitVars>>

InvalidCookie == 0
SetDatetime              == [type |-> "SetDatetime"]
FramestreamReceiver(ep)  == [type |-> "SetFramestreamReceiver", sink |-> ep]
SetAcoustics(versioned)  == [type |-> "SetAcoustics", settings |-> versioned]

EndPoint == [address : LocalAddresses \cup {NoAddress}, socket : Nat]
Versioned == [cookie : Nat, settings : Settings]
AnyCommand == {SetDatetime} \cup [type : {"SetFramestreamReceiver"}, sink : EndPoint]
                \cup [type : {"SetAcoustics"}, settings : Versioned]

Init == /\ CxnInit
        /\ lastRequested = [cookie |-> InvalidCookie, settings |-> InitialSettings]
        /\ sink = [address |-> NoAddress, socket |-> 0]
        /\ requested = InitialSettings
        /\ systemTypeKnown = FALSE
        /\ dispose = "no"
        /\ requests = <<>>
        /\ overtaken = FALSE

-----------------------------------------------------------------------------

\* Mutant: the settings are re-sent under the cookie they had.
NextVersionWithOldCookie(s) ==
    [cookie |-> IF lastRequested.cookie = InvalidCookie THEN 1 ELSE lastRequested.cookie,
     settings |-> s]

\* The settings, constrained once the type of the sonar is known, under a new
\* cookie.
NextVersion(s) == [cookie   |-> lastRequested.cookie + 1,
                   settings |-> IF systemTypeKnown THEN Constrain[s] ELSE s]

\* Mutant: a new connection is always given the initial settings.
SettingsToSendAlwaysInitial == InitialSettings

\* What OnInitializeConnection sends, read outside acousticSettingsRequestGuard.
SettingsToSend == IF lastRequested.cookie # InvalidCookie THEN lastRequested.settings
                                                          ELSE InitialSettings

\* SetSinkAddress: the socket is replaced when its address is another.
SinkAt(address) == IF address # sink.address
                   THEN [address |-> address, socket |-> sink.socket + 1]
                   ELSE sink

\* A beacon leads to a connection, made from the local address: its commands
\* are queued up to the settings, which are read but not yet requested.
BeginInitialize(ip, address) ==
    /\ sink' = SinkAt(address)
    /\ Connect(ip, <<SetDatetime, FramestreamReceiver(sink')>>)
    /\ requested' = SettingsToSend
    /\ UNCHANGED <<lastRequested, systemTypeKnown, dispose, requests, overtaken>>

\* Mutant: the settings are queued only when none were requested before.
FinishInitializeOnce ==
    /\ FinishConnect(IF lastRequested.cookie = InvalidCookie
                     THEN <<SetAcoustics(NextVersion(requested))>> ELSE <<>>)
    /\ lastRequested' = NextVersion(requested)
    /\ UNCHANGED <<sink, requested, systemTypeKnown, dispose, requests, overtaken>>

\* The settings are requested under the guard, and the machine is connected.
FinishInitialize ==
    /\ FinishConnect(<<SetAcoustics(NextVersion(requested))>>)
    /\ lastRequested' = NextVersion(requested)
    /\ UNCHANGED <<sink, requested, systemTypeKnown, dispose, requests, overtaken>>

\* The sonar refuses the connection, or the frame stream cannot be bound to the
\* address the connection was made from.
RefuseConnection(ip) == /\ Refuse(ip, <<>>) \/ Refuse(ip, <<SetDatetime>>)
                        /\ UNCHANGED conduitVars

\* The client's request, on any thread and at any time.
RequestAcousticSettings(s) ==
    /\ Len(requests) < MaxRequests
    /\ lastRequested' = NextVersion(s)
    /\ Post(<<CommandOf(SetAcoustics(lastRequested'))>>)
    /\ requests' = Append(requests, s)
    /\ overtaken' = (handling = "initializing")
    /\ UNCHANGED <<sink, requested, systemTypeKnown, dispose>>

\* A frame comes; its header tells the type of the sonar.
FrameArrives == /\ cmdLink.up
                /\ \E k \in DOMAIN cmdLink.received :
                       cmdLink.received[k] = FramestreamReceiver(sink)
                /\ systemTypeKnown' = TRUE
                /\ UNCHANGED cxnVars
                /\ UNCHANGED <<lastRequested, sink, requested, dispose, requests, overtaken>>

-----------------------------------------------------------------------------
\* Dispose, after the processing graph has been quit.

DisposeAt(here, there) ==
    /\ dispose = here
    /\ dispose' = there
    /\ UNCHANGED <<lastRequested, sink, requested, systemTypeKnown, requests, overtaken>>

CompleteQueue == /\ queueOpen' = FALSE
                 /\ UNCHANGED <<cxnEvQueue, machineState, handling, cmdLink, reported, breaks>>

\* Mutant: the queue is completed first.
BeginDisposeWithoutQuit == DisposeAt("no", "quit") /\ CompleteQueue

BeginDispose == DisposeAt("no", "quit") /\ Post(<<Quit>>)

StopEvents == DisposeAt("quit", "completed") /\ CompleteQueue

\* cxnMgrDone was set, and the subject of connection states is disposed.
FinishDispose == /\ CxnMgrDone
                 /\ DisposeAt("completed", "disposed")
                 /\ UNCHANGED cxnVars

-----------------------------------------------------------------------------

Handle == \/ HandleTick
          \/ PingFails
          \/ HandleCommand
          \/ \E ip \in Addresses : IgnoreBeacon(ip)
          \/ HandleQuit

Report == ReportClosed(dispose # "disposed") /\ UNCHANGED conduitVars

Connection == \/ Handle /\ UNCHANGED conduitVars
              \/ \E ip \in Addresses, address \in LocalAddresses : BeginInitialize(ip, address)
              \/ \E ip \in Addresses : RefuseConnection(ip)
              \/ FinishInitialize
              \/ Report

Timer == Tick /\ UNCHANGED conduitVars

Environment == /\ \/ \E ip \in Addresses : BeaconHeard(ip)
                  \/ LinkBreaks
               /\ UNCHANGED conduitVars

Dispose == BeginDispose \/ StopEvents \/ FinishDispose

Next == \/ Connection
        \/ Timer
        \/ Environment
        \/ FrameArrives
        \/ \E s \in Settings : RequestAcousticSettings(s)
        \/ Dispose

\* The blocks run whatever they have been given, the timer never stops, and a
\* disposing thread goes on.  TCP does not for ever take what it cannot send,
\* so a ping on a broken link fails in the end.
Fairness == /\ WF_vars(Connection)
            /\ SF_vars(Timer)
            /\ SF_vars(PingFails /\ UNCHANGED conduitVars)
            /\ WF_vars(StopEvents)
            /\ WF_vars(FinishDispose)

Spec == Init /\ [][Next]_vars

FairSpec == Spec /\ Fairness

-----------------------------------------------------------------------------
\* Properties.

\* The variables of the conduit and of its connection have their types.
ConduitTypeOK == /\ CxnTypeOK
                 /\ lastRequested \in Versioned
                 /\ sink \in EndPoint
                 /\ requested \in Settings
                 /\ systemTypeKnown \in BOOLEAN
                 /\ dispose \in {"no", "quit", "completed", "disposed"}
                 /\ requests \in Seq(Settings)
                 /\ overtaken \in BOOLEAN

\* The sonar has got c, and no such command after it.
LastGot(c) ==
    \E k \in DOMAIN cmdLink.received :
        /\ cmdLink.received[k] = c
        /\ \A j \in DOMAIN cmdLink.received : j > k => cmdLink.received[j].type # c.type

CommandsWait == \E k \in DOMAIN cxnEvQueue : cxnEvQueue[k].kind = "Command"

\* When a link is up and nothing is left to be sent, the sonar streams to the
\* socket that is open and goes by the settings last requested, whichever of
\* the commands were dropped, lost with a link or queued before it was made.
ConnectedSonarIsInitialized ==
    (IsConnected /\ cmdLink.up /\ handling = "idle" /\ queueOpen /\ ~CommandsWait) =>
        LastGot(FramestreamReceiver(sink)) /\ LastGot(SetAcoustics(lastRequested))

\* The sonar gets every cookie once and in order: requests take their cookie and
\* their place in the queue under one guard.
CookiesIncrease ==
    \A j, k \in DOMAIN cmdLink.received :
        LET c == cmdLink.received[j]
            d == cmdLink.received[k]
        IN  (j < k /\ c.type = "SetAcoustics" /\ d.type = "SetAcoustics")
                => c.settings.cookie < d.settings.cookie

\* Every variable has its type, and the cookies their order.
CookiesSound == ConduitTypeOK /\ CookiesIncrease

\* What the client requested last is what the conduit holds and re-sends, unless
\* the request came while OnInitializeConnection already had the settings in
\* hand: it reads them outside the guard.
LastRequestWins ==
    (requests # <<>> /\ ~overtaken) =>
        LET s == requests[Len(requests)] IN lastRequested.settings \in {s, Constrain[s]}

\* Between events the client has been told of the state the machine is in, but
\* of its being closed only if the subject is not yet disposed.
ClientIsTold == handling = "idle" => \/ reported = machineState
                                     \/ dispose = "disposed" /\ machineState = Closed

\* Dispose, once begun, returns.
DisposeReturns == (dispose # "no") ~> (dispose = "disposed")
=============================================================================
