--------------------------- MODULE SonarConnection ---------------------------
(***************************************************************************)
(* The connection to one sonar (F#): events are queued by a timer, by the  *)
(* beacon listener and by clients, and handled one at a time by a state    *)
(* machine that owns the TCP command link.                                 *)
(*                                                                         *)
(* Nobody queues the event LostConnection, so it is not here.  The         *)
(* assertion that a connected sonar's beacons come from the link's address *)
(* is compiled out of a release build; the beacon is ignored.              *)
(***************************************************************************)
EXTENDS Integers, Sequences

CONSTANTS Addresses,  \* the addresses the sonar's beacons may name
          NoAddress,
          Command,    \* what may be sent on the command link, a ping excepted
          MaxQueued,  \* bound: how many ticks and beacons wait in the queue
          MaxBreaks   \* bound: how often the link breaks

ASSUME NoAddressAssumption == NoAddress \notin Addresses
ASSUME ConnectionBounds == {MaxQueued, MaxBreaks} \subseteq Nat

VARIABLES cxnEvQueue,    \* the events that wait
          queueOpen,     \* Complete has not been called on the queue
          machineState,
          handling,      \* where the handler is: in OnInitializeConnection,
                         \* about to report that it closed, or between events
          cmdLink,       \* the TCP link and what the sonar has got through it
          reported,      \* the last state OnCxnStateChanged told the client
          breaks

cxnVars == <<cxnEvQueue, queueOpen, machineState, handling, cmdLink, reported, breaks>>

State(name, ip) == [name |-> name, ip |-> ip]

SonarNotFound         == State("SonarNotFound", NoAddress)
NotConnected(ip)      == State("NotConnected", ip)
Connected(ip)         == State("Connected", ip)
ConnectionRefused(ip) == State("ConnectionRefused", ip)
Closed                == State("Closed", NoAddress)

\* Not a state of the code: an exception has left the handler and the block
\* handles no more events.
BadTransition == State("BadTransition", NoAddress)

ConnectionState ==
    {SonarNotFound, Closed} \cup
        [name : {"NotConnected", "Connected", "ConnectionRefused"}, ip : Addresses]

NoLink == [up |-> FALSE, received |-> <<>>]
NewLink == [up |-> TRUE, received |-> <<>>]

KeepAliveTick == [kind |-> "KeepAliveTick"]
Beacon(ip)    == [kind |-> "Beacon", ip |-> ip]
CommandOf(c)  == [kind |-> "Command", command |-> c]
Quit          == [kind |-> "Quit"]

Events == {KeepAliveTick, Quit} \cup {Beacon(ip) : ip \in Addresses}
            \cup [kind : {"Command"}, command : Command]

CxnInit == /\ cxnEvQueue = <<>>
           /\ queueOpen = TRUE
           /\ machineState = SonarNotFound
           /\ handling = "idle"
           /\ cmdLink = NoLink
           /\ reported = SonarNotFound
           /\ breaks = 0

-----------------------------------------------------------------------------
\* The transitions; each raises an exception in a state it is not meant for.

FoundSonar(ip, s) ==
    IF s.name \in {"SonarNotFound", "NotConnected"} THEN NotConnected(ip) ELSE BadTransition

LostSonar(s) ==
    IF s.name \in {"NotConnected", "ConnectionRefused"} THEN SonarNotFound ELSE BadTransition

MakeConnected(ip, s) ==
    IF s.name \in {"NotConnected", "ConnectionRefused"} THEN Connected(ip) ELSE BadTransition

Refused(ip, s) ==
    IF s.name \in {"NotConnected", "ConnectionRefused"} THEN ConnectionRefused(ip)
                                                        ELSE BadTransition

Disconnected(s) == IF s.name = "Connected" THEN NotConnected(s.ip) ELSE BadTransition

\* Mutant: a sonar that moved is not lost before it is found again.
ReachedWithoutLosing(ip, s) ==
    IF s.name # "SonarNotFound" /\ s.ip = ip THEN s ELSE FoundSonar(ip, s)

\* What a beacon makes of the state before connecting.
Reached(ip, s) ==
    IF s.name = "SonarNotFound" THEN FoundSonar(ip, s)
    ELSE IF s.ip # ip THEN FoundSonar(ip, LostSonar(s))
    ELSE s

-----------------------------------------------------------------------------

\* Posting to a queue that was completed has no effect.
With(queue, events) == IF queueOpen THEN queue \o events ELSE queue

Commands(cs) == [k \in DOMAIN cs |-> CommandOf(cs[k])]

\* Mutant: a change of address alone is not reported.
ReportChangeOfName ==
    reported' = IF machineState'.name # machineState.name THEN machineState' ELSE reported

\* OnCxnStateChanged, when handling the event has changed the state.
ReportChange ==
    reported' = IF machineState' # machineState THEN machineState' ELSE reported

\* The event e is taken off the queue.
Takes(e) == /\ machineState # BadTransition
            /\ handling = "idle"
            /\ cxnEvQueue # <<>>
            /\ Head(cxnEvQueue) = e

Done == /\ cxnEvQueue' = Tail(cxnEvQueue)
        /\ handling' = "idle"
        /\ ReportChange
        /\ UNCHANGED <<queueOpen, breaks>>

\* The link takes what is sent.  When it is broken, TCP finds out sooner or
\* later: what is sent vanishes, or the send fails.
Sends(cs) == \/ /\ cmdLink.up
                /\ cmdLink' = [cmdLink EXCEPT !.received = @ \o cs]
                /\ UNCHANGED machineState
             \/ /\ ~cmdLink.up
                /\ UNCHANGED <<cmdLink, machineState>>

SendFails == /\ ~cmdLink.up
             /\ machineState' = Disconnected(machineState)
             /\ cmdLink' = NoLink

IsConnected == machineState.name = "Connected"

\* Mutant: the tick sends nothing.
PingFailsNever == FALSE

\* The ping of a tick tells that the link is broken.
PingFails == /\ Takes(KeepAliveTick)
             /\ IsConnected
             /\ SendFails
             /\ Done

HandleTick == /\ Takes(KeepAliveTick)
              /\ IF IsConnected THEN Sends(<<>>) ELSE UNCHANGED <<cmdLink, machineState>>
              /\ Done

HandleCommand == /\ cxnEvQueue # <<>>
                 /\ Head(cxnEvQueue).kind = "Command"
                 /\ Takes(Head(cxnEvQueue))
                 /\ IF IsConnected THEN Sends(<<Head(cxnEvQueue).command>>) \/ SendFails
                                   ELSE UNCHANGED <<cmdLink, machineState>>
                 /\ Done

\* Connected or closed, the machine has no use for a beacon.
IgnoreBeacon(ip) == /\ Takes(Beacon(ip))
                    /\ machineState.name \in {"Connected", "Closed"}
                    /\ UNCHANGED <<cmdLink, machineState>>
                    /\ Done

CanConnect(ip) == /\ Takes(Beacon(ip))
                  /\ machineState.name \in {"SonarNotFound", "NotConnected", "ConnectionRefused"}

\* The sonar takes the connection, and the callback that initialises it is
\* entered: it queues the commands cs and goes on in FinishConnect.
Connect(ip, cs) ==
    /\ CanConnect(ip)
    /\ machineState' = Reached(ip, machineState)
    /\ cmdLink' = NewLink
    /\ cxnEvQueue' = With(Tail(cxnEvQueue), Commands(cs))
    /\ handling' = "initializing"
    /\ UNCHANGED <<queueOpen, reported, breaks>>

FinishConnect(cs) ==
    /\ handling = "initializing"
    /\ machineState' = MakeConnected(machineState.ip, machineState)
    /\ cxnEvQueue' = With(cxnEvQueue, Commands(cs))
    /\ handling' = "idle"
    /\ ReportChange
    /\ UNCHANGED <<queueOpen, cmdLink, breaks>>

\* A socket exception while connecting, or in the callback after it has queued
\* the commands cs.
Refuse(ip, cs) ==
    /\ CanConnect(ip)
    /\ machineState' = Refused(ip, Reached(ip, machineState))
    /\ cxnEvQueue' = With(Tail(cxnEvQueue), Commands(cs))
    /\ handling' = "idle"
    /\ ReportChange
    /\ UNCHANGED <<queueOpen, cmdLink, breaks>>

\* Quit sets the done signal, which is what the machine's being closed stands
\* for, and only then reports the change.
HandleQuit == /\ Takes(Quit)
              /\ machineState' = Closed
              /\ cmdLink' = NoLink
              /\ cxnEvQueue' = Tail(cxnEvQueue)
              /\ handling' = "reporting"
              /\ UNCHANGED <<queueOpen, reported, breaks>>

\* The client hears of it only as long as the subject is not disposed.
ReportClosed(heard) == /\ handling = "reporting"
                       /\ reported' = IF heard THEN machineState ELSE reported
                       /\ handling' = "idle"
                       /\ UNCHANGED <<cxnEvQueue, queueOpen, machineState, cmdLink, breaks>>

CxnMgrDone == machineState = Closed

-----------------------------------------------------------------------------
\* Where events come from.

Post(events) == /\ cxnEvQueue' = With(cxnEvQueue, events)
                /\ UNCHANGED <<queueOpen, machineState, handling, cmdLink, reported, breaks>>

RoomForMore ==
    LET isSignal(e) == e.kind \in {"KeepAliveTick", "Beacon"}
    IN  Len(SelectSeq(cxnEvQueue, isSignal)) < MaxQueued

Tick == /\ RoomForMore
        /\ Post(<<KeepAliveTick>>)

BeaconHeard(ip) == /\ RoomForMore
                   /\ Post(<<Beacon(ip)>>)

LinkBreaks == /\ cmdLink.up
              /\ breaks < MaxBreaks
              /\ breaks' = breaks + 1
              /\ cmdLink' = [cmdLink EXCEPT !.up = FALSE]
              /\ UNCHANGED <<cxnEvQueue, queueOpen, machineState, handling, reported>>

-----------------------------------------------------------------------------
\* Properties.

CxnTypeOK ==
    /\ cxnEvQueue \in Seq(Events)
    /\ queueOpen \in BOOLEAN
    /\ {machineState, reported} \subseteq ConnectionState
    /\ handling \in {"idle", "initializing", "reporting"}
    /\ cmdLink \in [up : BOOLEAN, received : Seq(Command)]
    /\ breaks \in Nat

\* No sequence of beacons, refusals, lost links and commands drives the machine
\* into a transition that raises "Bad transition": the event queue is never
\* faulted.
NoBadTransition == BadTransition \notin {machineState, reported}

\* A broken link is noticed, although the sonar says nothing and the client
\* sends nothing: the pings find out.
LostLinkNoticed == (IsConnected /\ ~cmdLink.up) ~> ~IsConnected
=============================================================================
