----------------------- MODULE DeviceConnectionProofs -----------------------
(***************************************************************************)
(* Proof that the state reported, the reader, the open sockets and what    *)
(* the client makes of the reports agree, for any endpoints and bounds.    *)
(***************************************************************************)
EXTENDS DeviceConnection, TLAPS

ConduitStates == {"TryingToConnect", "Connected", "TryingToReconnect"}

\* What a call under the lock changes: the connection, its reports and its reader.
\* A reader without a number is none, so that a socket in use has its reader.  A
\* connection that was abandoned never had one.
ConnectionPart ==
    /\ readerInfo \in [id : Nat, next : {"nothing", "size", "message"}, inStep : BOOLEAN]
    /\ open \subseteq Nat
    /\ state \in DeviceCxnState
    /\ conduitState \in ConduitStates
    /\ stateChangeSignal \in BOOLEAN
    /\ {made, failures} \subseteq Nat
    /\ abandoned \subseteq 1 .. made
    /\ readerInfo.id \in 0 .. made /\ readerInfo.id \notin abandoned
    /\ open = ({readerInfo.id} \ {0}) \cup abandoned
    /\ (state.name = "Connected") <=> (readerInfo # NoReader)
    /\ (conduitState = "Connected") <=> (state.name = "Connected")
    /\ readerInfo.id = 0 => readerInfo = NoReader

OthersTyped ==
    /\ workQueue \in Seq(Work)
    /\ processing \in Work \cup {NoWork}
    /\ endpoint \in Endpoints \cup {NoEndpoint}
    /\ target \in Endpoints \cup {NoEndpoint}
    /\ {faulted, errorSignal, doneSignal, quit} \subseteq BOOLEAN
    /\ worker \in {"examining", "waiting", "waiting 2 s", "done"}
    /\ posted \in Nat

\* The inductive invariant.  Only the worker's end sets quit, so that nobody
\* connects after it.
IInv == /\ ConnectionPart
        /\ OthersTyped
        /\ state.name = "Connected" => state.ep = endpoint
        /\ quit => open = abandoned /\ state = Closed
        /\ quit <=> worker = "done"

\* The conduit's state follows a report, whatever it was before.
LEMMA ReportFollows ==
    ASSUME NEW cs \in ConduitStates, NEW old \in DeviceCxnState, NEW new \in DeviceCxnState,
           (cs = "Connected") <=> (old.name = "Connected")
    PROVE  /\ Report(cs, old, new) \in ConduitStates
           /\ (Report(cs, old, new) = "Connected") <=> (new.name = "Connected")
BY DEF Report, NextConduitState, ConduitStates

\* So it follows two reports made under one lock.
LEMMA ConduitFollows ==
    ASSUME IInv, NEW s1 \in DeviceCxnState, NEW s2 \in DeviceCxnState, SetStates(s1, s2)
    PROVE  /\ state' = s2
           /\ conduitState' \in ConduitStates
           /\ (conduitState' = "Connected") <=> (s2.name = "Connected")
           /\ stateChangeSignal' \in BOOLEAN
<1> DEFINE cs == Report(conduitState, state, s1)
<1>1. /\ state \in DeviceCxnState
      /\ conduitState \in ConduitStates
      /\ (conduitState = "Connected") <=> (state.name = "Connected")
  BY DEF IInv, ConnectionPart
<1>2. cs \in ConduitStates /\ ((cs = "Connected") <=> (s1.name = "Connected"))
  BY <1>1, ReportFollows
<1>3. conduitState' = Report(cs, s1, s2) /\ state' = s2
  BY DEF SetStates
<1>4. stateChangeSignal' \in BOOLEAN
  BY DEF SetStates
<1> HIDE DEF cs
<1> QED BY <1>2, <1>3, <1>4, ReportFollows

LEMMA StatesAreStates ==
    /\ Start \in DeviceCxnState /\ Closed \in DeviceCxnState
    /\ State("NotConnected", NoEndpoint) \in DeviceCxnState
    /\ \A ep \in Endpoints : /\ State("Connected", ep) \in DeviceCxnState
                             /\ State("ConnectionRefused", ep) \in DeviceCxnState
BY DEF Start, Closed, State, DeviceCxnState

\* Closing what is in use, and making a connection in its place, keep the
\* agreement; afterwards the device is connected to no endpoint but the given.
LEMMA CloseConnectionKeeps ==
    ASSUME IInv, CloseConnection
    PROVE  ConnectionPart' /\ open' = abandoned' /\ state' = Closed
<1>1. SetStates(Closed, Closed) /\ Closed \in DeviceCxnState
  BY StatesAreStates DEF CloseConnection
<1>2. /\ state' = Closed /\ conduitState' \in ConduitStates
      /\ (conduitState' = "Connected") <=> (Closed.name = "Connected")
      /\ stateChangeSignal' \in BOOLEAN
  BY <1>1, ConduitFollows
<1>3. /\ readerInfo' = NoReader /\ open' = abandoned /\ UNCHANGED <<abandoned, made, failures>>
      /\ abandoned \subseteq 1 .. made
  BY DEF CloseConnection, IInv, ConnectionPart
<1>4. /\ NoReader \in [id : Nat, next : {"nothing", "size", "message"}, inStep : BOOLEAN]
      /\ NoReader.id = 0 /\ Closed.name = "Closed"
  BY DEF NoReader, Closed, State
<1>5. {made, failures} \subseteq Nat
  BY DEF IInv, ConnectionPart
<1> QED BY <1>1, <1>2, <1>3, <1>4, <1>5 DEF ConnectionPart

\* Without a connection in use, only what was abandoned is open.
LEMMA UnusedIsClosed ==
    ASSUME readerInfo' = NoReader, open' = abandoned', state' \in DeviceCxnState,
           state'.name # "Connected", conduitState' \in ConduitStates,
           conduitState' # "Connected", stateChangeSignal' \in BOOLEAN,
           made' \in Nat, failures' \in Nat, abandoned' \subseteq 1 .. made'
    PROVE  ConnectionPart'
<1>1. /\ NoReader.id = 0
      /\ NoReader \in [id : Nat, next : {"nothing", "size", "message"}, inStep : BOOLEAN]
  BY DEF NoReader
<1>2. /\ 0 \in 0 .. made' /\ 0 \notin abandoned' /\ abandoned' \subseteq Nat
      /\ ({0} \ {0}) \cup abandoned' = abandoned'
  OBVIOUS
<1> HIDE DEF NoReader
<1>3. /\ readerInfo'.id = 0
      /\ readerInfo' \in [id : Nat, next : {"nothing", "size", "message"}, inStep : BOOLEAN]
  BY <1>1
<1> QED BY <1>2, <1>3 DEF ConnectionPart

LEMMA MkConnectionKeeps ==
    ASSUME IInv, NEW ep \in Endpoints, NEW first \in DeviceCxnState, MkConnection(ep, first)
    PROVE  ConnectionPart' /\ (state'.name = "Connected" => state'.ep = ep)
<1>1. /\ made \in Nat /\ failures \in Nat
      /\ abandoned \subseteq 1 .. made
      /\ readerInfo.id \in 0 .. made
      /\ open \ {readerInfo.id} = abandoned
      /\ NoReader.id = 0
      /\ NoReader \in [id : Nat, next : {"nothing", "size", "message"}, inStep : BOOLEAN]
  BY DEF IInv, ConnectionPart, NoReader
<1>2. CASE Connect(ep, first)
  <2>1. /\ made' = made + 1
        /\ readerInfo' = Reader(made')
        /\ open' = abandoned \cup {made'}
        /\ SetStates(first, State("Connected", ep))
        /\ UNCHANGED <<abandoned, failures>>
    BY <1>1, <1>2 DEF Connect
  <2>2. /\ state' = State("Connected", ep) /\ state' \in DeviceCxnState
        /\ conduitState' = "Connected" /\ stateChangeSignal' \in BOOLEAN
    BY <2>1, ConduitFollows, StatesAreStates DEF State
  <2>3. /\ made' \in Nat /\ made' # 0 /\ made' \notin abandoned
        /\ abandoned' \subseteq 1 .. made' /\ open' \subseteq Nat
        /\ Reader(made') \in [id : Nat, next : {"nothing", "size", "message"}, inStep : BOOLEAN]
        /\ Reader(made').id = made' /\ Reader(made') # NoReader
    BY <1>1, <2>1 DEF Reader, NoReader
  <2>4. state'.name = "Connected" /\ state'.ep = ep
    BY <2>2 DEF State
  <2> QED BY <1>1, <2>1, <2>2, <2>3, <2>4 DEF ConnectionPart, ConduitStates
<1>3. ASSUME \E s \in NoConnection(ep) : SetStates(first, s)
      PROVE  /\ state' \in DeviceCxnState /\ state'.name # "Connected"
             /\ conduitState' \in ConduitStates /\ conduitState' # "Connected"
             /\ stateChangeSignal' \in BOOLEAN
  <2>1. PICK s \in NoConnection(ep) : SetStates(first, s)
    BY <1>3
  <2>2. s \in DeviceCxnState /\ s.name # "Connected"
    <3>1. s \in DeviceCxnState
      BY StatesAreStates DEF NoConnection
    <3>2. s.name # "Connected"
      BY DEF State, NoConnection
    <3> QED BY <3>1, <3>2
  <2> QED BY <2>1, <2>2, ConduitFollows
<1>4. CASE FailToConnect(ep, first)
  <2>1. /\ failures' \in Nat /\ readerInfo' = NoReader
        /\ open' = abandoned' /\ UNCHANGED <<abandoned, made>>
    BY <1>1, <1>4 DEF FailToConnect, Fail
  <2>2. \E s \in NoConnection(ep) : SetStates(first, s)
    BY <1>4 DEF FailToConnect
  <2>3. made' \in Nat /\ abandoned' \subseteq 1 .. made'
    BY <1>1, <2>1
  <2> QED BY <1>1, <1>3, <2>1, <2>2, <2>3, UnusedIsClosed
<1>5. CASE AbandonConnection(ep, first)
  <2>1. /\ failures' \in Nat /\ readerInfo' = NoReader /\ made' = made + 1
        /\ open' = abandoned' /\ abandoned' = abandoned \cup {made'}
    BY <1>1, <1>5 DEF AbandonConnection, Fail
  <2>2. made' \in Nat /\ abandoned' \subseteq 1 .. made'
    BY <1>1, <2>1
  <2>3. \E s \in NoConnection(ep) : SetStates(first, s)
    BY <1>5 DEF AbandonConnection
  <2> QED BY <1>1, <1>3, <2>1, <2>2, <2>3, UnusedIsClosed
<1> QED BY <1>2, <1>4, <1>5 DEF MkConnection

LEMMA KeepConnectionKeeps ==
    ASSUME IInv, KeepConnection
    PROVE  ConnectionPart'
BY DEF IInv, ConnectionPart, KeepConnection

-----------------------------------------------------------------------------
LEMMA InitIInv == Init => IInv
<1> SUFFICES ASSUME Init PROVE IInv
  OBVIOUS
<1>1. ConnectionPart
  <2>1. NoReader.id = 0 /\ Start.name = "Start" /\ Start \in DeviceCxnState
    BY StatesAreStates DEF NoReader, Start, State
  <2>2. NoReader \in [id : Nat, next : {"nothing", "size", "message"}, inStep : BOOLEAN]
    BY DEF NoReader
  <2>3. 0 \in 0 .. 0 /\ ({0} \ {0}) \cup {} = {} /\ {} \subseteq 1 .. 0 /\ {} \subseteq Nat
    OBVIOUS
  <2> QED BY <2>1, <2>2, <2>3 DEF Init, ConnectionPart, ConduitStates
<1>2. Start.name # "Connected" /\ <<>> \in Seq(Work)
  BY DEF Start, State
<1> QED BY <1>1, <1>2 DEF Init, IInv, OthersTyped

LEMMA QueueStaysQueue ==
    ASSUME NEW S, NEW q \in Seq(S), NEW w \in S
    PROVE  /\ Append(q, w) \in Seq(S)
           /\ q # <<>> => Head(q) \in S /\ Tail(q) \in Seq(S)
OBVIOUS

LEMMA ClientsKeepIInv ==
    ASSUME IInv,
           Dispose \/ PostWork(SendMessage) \/ \E ep \in Endpoints : PostWork(SetTarget(ep))
    PROVE  IInv'
<1>1. ASSUME NEW w \in Work, PostWork(w), w.kind = "SetTarget" => w.ep \in Endpoints
      PROVE  IInv'
  <2>1. ConnectionPart'
    BY <1>1 DEF IInv, PostWork, ConnectionPart
  <2>2. workQueue' \in Seq(Work)
    <3>1. workQueue \in Seq(Work)
      BY DEF IInv, OthersTyped
    <3>2. workQueue' = Append(workQueue, w)
      BY <1>1 DEF PostWork
    <3> QED BY <3>1, <3>2, QueueStaysQueue
  <2>3. target' \in Endpoints \cup {NoEndpoint} /\ posted' \in Nat
    <3>1. target \in Endpoints \cup {NoEndpoint} /\ posted \in Nat
      BY DEF IInv, OthersTyped
    <3>2. /\ target' = IF w.kind = "SetTarget" THEN w.ep ELSE target
          /\ posted' = posted + 1
      BY <1>1 DEF PostWork
    <3> QED BY <1>1, <3>1, <3>2
  <2> QED BY <1>1, <2>1, <2>2, <2>3 DEF IInv, OthersTyped, PostWork
<1>2. CASE Dispose
  <2>1. ConnectionPart'
    BY <1>2 DEF IInv, Dispose, ConnectionPart
  <2> QED BY <1>2, <2>1 DEF IInv, OthersTyped, Dispose
<1>3. \A ep \in Endpoints : /\ SetTarget(ep) \in Work /\ SetTarget(ep).kind = "SetTarget"
                            /\ SetTarget(ep).ep \in Endpoints
  BY DEF Work, SetTarget
<1>4. SendMessage \in Work /\ SendMessage.kind # "SetTarget"
  BY DEF Work, SendMessage
<1> QED BY <1>1, <1>2, <1>3, <1>4

LEMMA ProcessWorkKeepsIInv ==
    ASSUME IInv, ProcessWork
    PROVE  IInv'
<1>1. CASE TakeWork
  <2>1. ConnectionPart'
    BY <1>1 DEF IInv, TakeWork, ConnectionPart
  <2>2. Head(workQueue) \in Work /\ Tail(workQueue) \in Seq(Work)
    <3>1. workQueue \in Seq(Work)
      BY DEF IInv, OthersTyped
    <3>2. workQueue # <<>>
      BY <1>1 DEF TakeWork
    <3> QED BY <3>1, <3>2, QueueStaysQueue
  <2>3. processing' \in Work \cup {NoWork} /\ workQueue' \in Seq(Work)
    <3>1. /\ processing' = IF quit THEN NoWork ELSE Head(workQueue)
          /\ workQueue' = Tail(workQueue)
      BY <1>1 DEF TakeWork
    <3> QED BY <2>2, <3>1
  <2> QED BY <1>1, <2>1, <2>3 DEF IInv, OthersTyped, TakeWork
<1>2. CASE ProcessSetTarget
  <2>1. processing.ep \in Endpoints
    <3>1. processing \in Work \cup {NoWork} /\ processing.kind = "SetTarget"
      BY <1>2 DEF IInv, OthersTyped, ProcessSetTarget
    <3>2. SendMessage.kind = "SendMessage" /\ NoWork.kind = "none"
      BY DEF SendMessage, NoWork
    <3>3. PICK ep \in Endpoints : processing = SetTarget(ep)
      BY <3>1, <3>2 DEF Work
    <3> QED BY <3>3 DEF SetTarget
  <2>2. CASE readerInfo # NoReader /\ endpoint # processing.ep
    <3>1. MkConnection(processing.ep, Closed)
      BY <1>2, <2>2 DEF ProcessSetTarget
    <3>2. ConnectionPart' /\ (state'.name = "Connected" => state'.ep = processing.ep)
      BY <2>1, <3>1, MkConnectionKeeps, StatesAreStates
    <3>3. ~ quit
      BY <2>2 DEF IInv, ConnectionPart
    <3> QED BY <1>2, <2>1, <3>2, <3>3 DEF IInv, OthersTyped, ProcessSetTarget
  <2>3. CASE ~ (readerInfo # NoReader /\ endpoint # processing.ep)
    <3>1. KeepConnection
      BY <1>2, <2>3 DEF ProcessSetTarget
    <3>2. ConnectionPart' /\ UNCHANGED <<state, open, abandoned>>
      BY <3>1, KeepConnectionKeeps DEF KeepConnection
    <3>3. state.name = "Connected" => state.ep = processing.ep
      BY <2>3 DEF IInv, ConnectionPart
    <3> QED BY <1>2, <2>1, <3>2, <3>3 DEF IInv, OthersTyped, ProcessSetTarget
  <2> QED BY <2>2, <2>3
<1>3. CASE ProcessSendMessage
  <2>1. failures' \in Nat /\ faulted' \in BOOLEAN
    <3>1. failures \in Nat /\ faulted \in BOOLEAN
      BY DEF IInv, ConnectionPart, OthersTyped
    <3>2. \/ faulted' = faulted /\ failures' = failures
          \/ faulted' = TRUE /\ failures' = failures + 1
      BY <1>3 DEF ProcessSendMessage, Fail
    <3>3. failures' \in Nat
      BY <3>1, <3>2, SMT
    <3>4. faulted' \in BOOLEAN
      BY <3>1, <3>2, Zenon
    <3> QED BY <3>3, <3>4
  <2>2. ConnectionPart'
    BY <1>3, <2>1 DEF ProcessSendMessage, IInv, ConnectionPart
  <2> QED BY <1>3, <2>1, <2>2 DEF IInv, OthersTyped, ProcessSendMessage
<1> QED BY <1>1, <1>2, <1>3 DEF ProcessWork

LEMMA WorkerKeepsIInv ==
    ASSUME IInv, WorkerStep
    PROVE  IInv'
<1>1. CASE Examine
  <2>1. ~ quit /\ worker' \in {"waiting", "waiting 2 s"}
    BY <1>1 DEF Examine, IInv
  <2>2. /\ ConnectionPart'
        /\ state'.name = "Connected" => state'.ep = endpoint
    <3>1. CASE /\ state.name \in {"Start", "NotConnected", "ConnectionRefused"}
               /\ endpoint # NoEndpoint
      <4>1. MkConnection(endpoint, state)
        BY <1>1, <3>1 DEF Examine
      <4>2. endpoint \in Endpoints /\ state \in DeviceCxnState
        BY <3>1 DEF IInv, OthersTyped, ConnectionPart
      <4> QED BY <4>1, <4>2, MkConnectionKeeps
    <3>2. CASE ~ (/\ state.name \in {"Start", "NotConnected", "ConnectionRefused"}
                  /\ endpoint # NoEndpoint)
      <4>1. KeepConnection
        BY <1>1, <3>2 DEF Examine
      <4> QED BY <4>1, KeepConnectionKeeps DEF KeepConnection, IInv
    <3> QED BY <3>1, <3>2
  <2> QED BY <1>1, <2>1, <2>2 DEF IInv, OthersTyped, Examine
<1>2. CASE WakeToQuit
  <2>1. ConnectionPart' /\ open' = abandoned' /\ state' = Closed /\ Closed.name # "Connected"
    BY <1>2, CloseConnectionKeeps DEF WakeToQuit, Closed, State
  <2> QED BY <1>2, <2>1 DEF IInv, OthersTyped, WakeToQuit
<1>3. CASE WakeOnError
  <2>1. ~ quit
    BY <1>3 DEF WakeOnError, Waiting, IInv
  <2>2. /\ ConnectionPart'
        /\ state'.name = "Connected" => state'.ep = endpoint
    <3>1. CASE endpoint # NoEndpoint
      <4>1. MkConnection(endpoint, Closed) /\ endpoint \in Endpoints
        BY <1>3, <3>1 DEF WakeOnError, IInv, OthersTyped
      <4> QED BY <4>1, MkConnectionKeeps, StatesAreStates
    <3>2. CASE endpoint = NoEndpoint
      <4>1. CloseConnection
        BY <1>3, <3>2 DEF WakeOnError
      <4>2. Closed.name # "Connected"
        BY DEF Closed, State
      <4> QED BY <4>1, <4>2, CloseConnectionKeeps
    <3> QED BY <3>1, <3>2
  <2> QED BY <1>3, <2>1, <2>2 DEF IInv, OthersTyped, WakeOnError
<1>4. CASE WakeOnStateChange \/ WakeOnTimeout
  <2>1. ConnectionPart'
    BY <1>4 DEF IInv, ConnectionPart, WakeOnStateChange, WakeOnTimeout
  <2>2. ~ quit
    BY <1>4 DEF IInv, WakeOnStateChange, WakeOnTimeout, Waiting
  <2>3. /\ worker' = "examining"
        /\ stateChangeSignal' \in BOOLEAN
        /\ UNCHANGED <<workQueue, processing, faulted, endpoint, state, errorSignal,
                       doneSignal, quit, target, posted, made, failures>>
    <3>1. CASE WakeOnStateChange
      BY <3>1 DEF WakeOnStateChange
    <3>2. CASE WakeOnTimeout
      BY <3>2 DEF WakeOnTimeout, IInv, ConnectionPart, OthersTyped
    <3> QED BY <1>4, <3>1, <3>2
  <2> QED BY <2>1, <2>2, <2>3 DEF IInv, OthersTyped
<1> QED BY <1>1, <1>2, <1>3, <1>4 DEF WorkerStep

LEMMA ReceiveKeepsIInv ==
    ASSUME IInv, Receive
    PROVE  IInv'
<1>1. PICK next \in {"nothing", "size", "message"}, inStep \in BOOLEAN : Reads(next, inStep)
  BY DEF Receive, CompleteReadSize, CompleteReadMsg, ReadError, IInv, ConnectionPart
<1>2. readerInfo # NoReader
  <2>1. readerInfo.next \in {"size", "message"}
    BY DEF Receive, CompleteReadSize, CompleteReadMsg, ReadError
  <2>2. NoReader.next = "nothing"
    BY DEF NoReader
  <2> QED BY <2>1, <2>2
<1>3. /\ readerInfo' \in [id : Nat, next : {"nothing", "size", "message"}, inStep : BOOLEAN]
      /\ readerInfo'.id = readerInfo.id
  BY <1>1 DEF Reads, IInv, ConnectionPart
<1>4. readerInfo.id # 0 /\ readerInfo' # NoReader
  BY <1>2, <1>3 DEF IInv, ConnectionPart, NoReader
<1>5. errorSignal' \in BOOLEAN /\ failures' \in Nat
  <2>0. errorSignal \in BOOLEAN /\ failures \in Nat
    BY DEF IInv, OthersTyped, ConnectionPart
  <2>1. CASE CompleteReadSize
    BY <2>0, <2>1 DEF CompleteReadSize
  <2>2. CASE CompleteReadMsg
    <3>1. failures' = failures \/ failures' = failures + 1
      BY <2>2 DEF CompleteReadMsg, Fail
    <3>2. errorSignal' = errorSignal
      BY <2>2 DEF CompleteReadMsg
    <3> QED BY <2>0, <3>1, <3>2
  <2>3. CASE ReadError
    BY <2>0, <2>3 DEF ReadError, Fail
  <2> QED BY <2>1, <2>2, <2>3 DEF Receive
<1>6. ConnectionPart'
  BY <1>2, <1>3, <1>4, <1>5 DEF IInv, ConnectionPart, Receive
<1> QED BY <1>5, <1>6 DEF IInv, OthersTyped, Receive

LEMMA NextIInv == IInv /\ [Next]_vars => IInv'
<1> SUFFICES ASSUME IInv, [Next]_vars PROVE IInv'
  OBVIOUS
<1>1. CASE UNCHANGED vars
  BY <1>1 DEF vars, IInv, OthersTyped, ConnectionPart
<1> QED BY <1>1, ClientsKeepIInv, ProcessWorkKeepsIInv, WorkerKeepsIInv, ReceiveKeepsIInv
        DEF Next

LEMMA IInvIsEnough == IInv => Connection
<1> SUFFICES ASSUME IInv PROVE Connection
  OBVIOUS
<1>1. TypeOK
  BY DEF IInv, ConnectionPart, OthersTyped, TypeOK, ConduitStates
<1>2. (conduitState = "Connected") = (state.name = "Connected")
  BY DEF IInv, ConnectionPart
<1>3. ConnectionMatchesState
  BY <1>2 DEF IInv, ConnectionPart, ConnectionMatchesState
<1> QED BY <1>1, <1>3 DEF Connection

\* Whatever clients set as targets, however connecting, sending and receiving fail,
\* and whenever Dispose is called: no connection is made over another, none is kept
\* to an endpoint that is not wanted, none is made after quit, the conduit is taken
\* to be connected exactly while one is in use, and the only sockets open besides
\* are of connections whose keep-alives could not be set.
THEOREM ConnectionStays == Spec => []Connection
<1>1. Init => IInv
  BY InitIInv
<1>2. IInv /\ [Next]_vars => IInv'
  BY NextIInv
<1>3. IInv => Connection
  BY IInvIsEnough
<1> QED BY <1>1, <1>2, <1>3, PTL DEF Spec
=============================================================================
