--------------------------- MODULE DeviceConnection ---------------------------
(***************************************************************************)
(* The generic connection to a device (F#).  A worker thread keeps a TCP   *)
(* connection to the endpoint it was given, a block handles the clients'   *)
(* work on threads of the pool, and asynchronous receives read framed      *)
(* messages and signal errors to the worker.  What the worker and the      *)
(* block do under stateGuard is one step here.                             *)
(*                                                                         *)
(* Messages are not followed, only whether reading is in step with the     *)
(* framing: a receive that returns less than was asked for is an error for *)
(* a size and goes unnoticed for a message.  Connections have numbers; 0   *)
(* is none.  A socket that nothing refers to any more is taken to stay     *)
(* open: when its finalizer runs is not for this code to say.              *)
(***************************************************************************)
EXTENDS Integers, Sequences, FiniteSets

CONSTANTS Endpoints, NoEndpoint,
          MaxWork,     \* bound: how much work clients post
          MaxFailures  \* bound: how often connecting or receiving fails

ASSUME EndpointsAssumption == NoEndpoint \notin Endpoints
ASSUME DeviceBounds == {MaxWork, MaxFailures} \subseteq Nat

VARIABLES workQueue,
          processing,        \* work that passed the test of quit
          faulted,           \* whether handling work has raised: the block is over
          endpoint,          \* the endpoint the worker is to connect to
          readerInfo,        \* the connection in use, and how far its reader is
          open,              \* the connections that are open
          state,             \* as reported by OnStateChange
          conduitState,      \* what the client makes of the reports
          errorSignal, stateChangeSignal, doneSignal,
          worker,            \* where the worker thread is
          quit,
          target,            \* history: the endpoint clients asked for last
          abandoned,         \* history: the connections nobody kept or closed
          posted, made, failures

vars == <<workQueue, processing, faulted, endpoint, readerInfo, open, state,
          conduitState, errorSignal, stateChangeSignal, doneSignal, worker, quit,
          target, abandoned, posted, made, failures>>

DeviceCxnState == [name : {"Connected", "ConnectionRefused"}, ep : Endpoints]
                    \cup [name : {"Start", "NotConnected", "Closed"}, ep : {NoEndpoint}]

State(name, ep) == [name |-> name, ep |-> ep]
Start  == State("Start", NoEndpoint)
Closed == State("Closed", NoEndpoint)

SetTarget(ep) == [kind |-> "SetTarget", ep |-> ep]
SendMessage   == [kind |-> "SendMessage"]
NoWork        == [kind |-> "none"]

Work == {SendMessage} \cup {SetTarget(ep) : ep \in Endpoints}

\* next: what the reader receives next; inStep: it is where a frame begins.
NoReader  == [id |-> 0, next |-> "nothing", inStep |-> TRUE]
Reader(n) == [id |-> n, next |-> "size", inStep |-> TRUE]

Init == /\ workQueue = <<>>
        /\ processing = NoWork
        /\ faulted = FALSE
        /\ endpoint = NoEndpoint
        /\ readerInfo = NoReader
        /\ open = {}
        /\ state = Start
        /\ conduitState = "TryingToConnect"
        /\ errorSignal = FALSE
        /\ stateChangeSignal = FALSE
        /\ doneSignal = FALSE
        /\ worker = "examining"
        /\ quit = FALSE
        /\ target = NoEndpoint
        /\ abandoned = {}
        /\ posted = 0
        /\ made = 0
        /\ failures = 0

Fail == failures < MaxFailures /\ failures' = failures + 1

-----------------------------------------------------------------------------
\* States and connections.

\* getNextDefenderConduitState
NextConduitState(cs, s) ==
    IF s.name = "Connected" THEN "Connected"
    ELSE IF s.name = "Closed" \/ cs = "Connected" THEN "TryingToReconnect"
    ELSE cs

\* What the client makes of a call of setState.
Report(cs, old, new) == IF new # old THEN NextConduitState(cs, new) ELSE cs

\* setState, called for each of the states in turn.
SetStates(s1, s2) ==
    /\ state' = s2
    /\ conduitState' = Report(Report(conduitState, state, s1), s1, s2)
    /\ stateChangeSignal' = (stateChangeSignal \/ s1 # state \/ s2 # s1)

NoConnection(ep) == {State("ConnectionRefused", ep), State("NotConnected", NoEndpoint)}

Connect(ep, first) ==
    /\ made' = made + 1
    /\ readerInfo' = Reader(made')
    /\ open' = (open \ {readerInfo.id}) \cup {made'}
    /\ SetStates(first, State("Connected", ep))
    /\ UNCHANGED <<abandoned, failures>>

FailToConnect(ep, first) ==
    /\ Fail
    /\ readerInfo' = NoReader
    /\ open' = open \ {readerInfo.id}
    /\ \E s \in NoConnection(ep) : SetStates(first, s)
    /\ UNCHANGED <<abandoned, made>>

\* Setting the keep-alives of the connection raises.  The handlers report that
\* there is none, and do not close it.
AbandonConnection(ep, first) ==
    /\ Fail
    /\ made' = made + 1
    /\ readerInfo' = NoReader
    /\ open' = (open \ {readerInfo.id}) \cup {made'}
    /\ abandoned' = abandoned \cup {made'}
    /\ \E s \in NoConnection(ep) : SetStates(first, s)

\* mkConnection, after the connection in use, if any, went through first.
MkConnection(ep, first) == \/ Connect(ep, first)
                           \/ FailToConnect(ep, first)
                           \/ AbandonConnection(ep, first)

\* Mutant: the reader is let go, its socket stays open.
DropReader ==
    /\ readerInfo' = NoReader
    /\ SetStates(Closed, Closed)
    /\ UNCHANGED <<open, abandoned, made, failures>>

CloseConnection ==
    /\ readerInfo' = NoReader
    /\ open' = open \ {readerInfo.id}
    /\ SetStates(Closed, Closed)
    /\ UNCHANGED <<abandoned, made, failures>>

KeepConnection == UNCHANGED <<readerInfo, open, abandoned, state, conduitState,
                              stateChangeSignal, made, failures>>

-----------------------------------------------------------------------------
\* Clients.

PostWork(w) ==
    /\ ~ doneSignal /\ posted < MaxWork
    /\ posted' = posted + 1
    /\ workQueue' = Append(workQueue, w)
    /\ target' = IF w.kind = "SetTarget" THEN w.ep ELSE target
    /\ UNCHANGED <<processing, faulted, endpoint, readerInfo, open, abandoned, state,
                   conduitState, errorSignal, stateChangeSignal, doneSignal, worker,
                   quit, made, failures>>

\* Dispose, which then joins the worker.
Dispose ==
    /\ ~ doneSignal
    /\ doneSignal' = TRUE
    /\ UNCHANGED <<workQueue, processing, faulted, endpoint, readerInfo, open,
                   abandoned, state, conduitState, errorSignal, stateChangeSignal,
                   worker, quit, target, posted, made, failures>>

-----------------------------------------------------------------------------
\* The block that handles work, linked to the queue while the worker runs.

TakeWork ==
    /\ worker # "done" /\ ~ faulted /\ processing = NoWork /\ workQueue # <<>>
    /\ processing' = IF quit THEN NoWork ELSE Head(workQueue)
    /\ workQueue' = Tail(workQueue)
    /\ UNCHANGED <<faulted, endpoint, readerInfo, open, abandoned, state,
                   conduitState, errorSignal, stateChangeSignal, doneSignal, worker,
                   quit, target, posted, made, failures>>

ProcessSetTarget ==
    /\ processing.kind = "SetTarget"
    /\ endpoint' = processing.ep
    /\ IF readerInfo # NoReader /\ endpoint # processing.ep
       THEN MkConnection(processing.ep, Closed)
       ELSE KeepConnection
    /\ processing' = NoWork
    /\ UNCHANGED <<workQueue, faulted, errorSignal, doneSignal, worker, quit, target,
                   posted>>

\* Nothing is heard of what became of a message.  If the connection is dead by
\* now, BeginSend may raise, and the block handles no work any more.
ProcessSendMessage ==
    /\ processing.kind = "SendMessage"
    /\ processing' = NoWork
    /\ \/ UNCHANGED <<faulted, failures>>
       \/ readerInfo # NoReader /\ Fail /\ faulted' = TRUE
    /\ UNCHANGED <<workQueue, endpoint, readerInfo, open, abandoned, state, conduitState,
                   errorSignal, stateChangeSignal, doneSignal, worker, quit, target, posted,
                   made>>

-----------------------------------------------------------------------------
\* The worker.

\* Mutant: an attempt that failed is not repeated after a while.
ExamineOnce ==
    /\ worker = "examining"
    /\ IF state.name \in {"Start", "NotConnected", "ConnectionRefused"} /\ endpoint # NoEndpoint
       THEN MkConnection(endpoint, state)
       ELSE KeepConnection
    /\ worker' = "waiting"
    /\ UNCHANGED <<workQueue, processing, faulted, endpoint, errorSignal, doneSignal,
                   quit, target, posted>>

Examine ==
    /\ worker = "examining"
    /\ IF state.name \in {"Start", "NotConnected", "ConnectionRefused"} /\ endpoint # NoEndpoint
       THEN MkConnection(endpoint, state)
       ELSE KeepConnection
    /\ worker' = IF state'.name = "Connected" THEN "waiting" ELSE "waiting 2 s"
    /\ UNCHANGED <<workQueue, processing, faulted, endpoint, errorSignal, doneSignal,
                   quit, target, posted>>

Waiting == worker \in {"waiting", "waiting 2 s"}

\* Mutant: the short wait does not look for doneSignal.
WakeToQuitFromLongWait ==
    /\ worker = "waiting" /\ doneSignal
    /\ quit' = TRUE
    /\ CloseConnection
    /\ worker' = "done"
    /\ UNCHANGED <<workQueue, processing, faulted, endpoint, errorSignal, doneSignal,
                   target, posted>>

WakeToQuit ==
    /\ Waiting /\ doneSignal
    /\ quit' = TRUE
    /\ CloseConnection
    /\ worker' = "done"
    /\ UNCHANGED <<workQueue, processing, faulted, endpoint, errorSignal, doneSignal,
                   target, posted>>

WakeOnError ==
    /\ Waiting /\ errorSignal /\ ~ doneSignal
    /\ errorSignal' = FALSE
    /\ IF endpoint # NoEndpoint THEN MkConnection(endpoint, Closed) ELSE CloseConnection
    /\ worker' = "examining"
    /\ UNCHANGED <<workQueue, processing, faulted, endpoint, doneSignal, quit,
                   target, posted>>

WakeOnStateChange ==
    /\ Waiting /\ stateChangeSignal /\ ~ doneSignal /\ ~ errorSignal
    /\ stateChangeSignal' = FALSE
    /\ worker' = "examining"
    /\ UNCHANGED <<workQueue, processing, faulted, endpoint, readerInfo, open,
                   abandoned, state, conduitState, errorSignal, doneSignal, quit,
                   target, posted, made, failures>>

WakeOnTimeout ==
    /\ worker = "waiting 2 s" /\ ~ doneSignal /\ ~ errorSignal /\ ~ stateChangeSignal
    /\ worker' = "examining"
    /\ UNCHANGED <<workQueue, processing, faulted, endpoint, readerInfo, open,
                   abandoned, state, conduitState, errorSignal, stateChangeSignal,
                   doneSignal, quit, target, posted, made, failures>>

-----------------------------------------------------------------------------
\* The reader of the connection in use.

Reads(next, inStep) == readerInfo' = [readerInfo EXCEPT !.next = next, !.inStep = inStep]

\* A whole size: of a message to come, or of an empty one.
CompleteReadSize ==
    /\ readerInfo.next = "size"
    /\ \E next \in {"size", "message"} : Reads(next, readerInfo.inStep)
    /\ UNCHANGED <<errorSignal, failures>>

\* Part of a message counts as all of it, and its rest is read as a size.
CompleteReadMsg ==
    /\ readerInfo.next = "message"
    /\ \/ Reads("size", readerInfo.inStep) /\ UNCHANGED failures
       \/ Reads("size", FALSE) /\ Fail
    /\ UNCHANGED errorSignal

\* Mutant: the reader stops and tells nobody.
ReadErrorUnsignalled ==
    /\ readerInfo.next \in {"size", "message"}
    /\ \/ readerInfo.inStep /\ Fail
       \/ ~ readerInfo.inStep /\ readerInfo.next = "size" /\ UNCHANGED failures
    /\ Reads("nothing", readerInfo.inStep)
    /\ UNCHANGED errorSignal

\* The receive fails, or a size is incomplete or not a good one.
ReadError ==
    /\ readerInfo.next \in {"size", "message"}
    /\ \/ readerInfo.inStep /\ Fail
       \/ ~ readerInfo.inStep /\ readerInfo.next = "size" /\ UNCHANGED failures
    /\ Reads("nothing", readerInfo.inStep)
    /\ errorSignal' = TRUE

Receive ==
    /\ CompleteReadSize \/ CompleteReadMsg \/ ReadError
    /\ UNCHANGED <<workQueue, processing, faulted, endpoint, open, abandoned, state,
                   conduitState, stateChangeSignal, doneSignal, worker, quit, target,
                   posted, made>>

-----------------------------------------------------------------------------
ProcessWork == TakeWork \/ ProcessSetTarget \/ ProcessSendMessage

WorkerStep == \/ Examine
              \/ WakeToQuit \/ WakeOnError \/ WakeOnStateChange \/ WakeOnTimeout

Next == \/ \E ep \in Endpoints : PostWork(SetTarget(ep))
        \/ PostWork(SendMessage)
        \/ Dispose
        \/ ProcessWork
        \/ WorkerStep
        \/ Receive

Spec == Init /\ [][Next]_vars

\* The pool runs the block, the system the thread; both take turns with the lock.
FairSpec == Spec /\ WF_vars(ProcessWork) /\ WF_vars(WorkerStep)

-----------------------------------------------------------------------------
TypeOK ==
    /\ workQueue \in Seq(Work)
    /\ processing \in Work \cup {NoWork}
    /\ endpoint \in Endpoints \cup {NoEndpoint}
    /\ readerInfo \in [id : Nat, next : {"nothing", "size", "message"}, inStep : BOOLEAN]
    /\ {open, abandoned} \subseteq SUBSET Nat
    /\ state \in DeviceCxnState
    /\ conduitState \in {"TryingToConnect", "Connected", "TryingToReconnect"}
    /\ {faulted, errorSignal, stateChangeSignal, doneSignal, quit} \subseteq BOOLEAN
    /\ worker \in {"examining", "waiting", "waiting 2 s", "done"}
    /\ target \in Endpoints \cup {NoEndpoint}
    /\ {posted, made, failures} \subseteq Nat

\* The state reported, the reader, the sockets and the endpoint agree whenever
\* the lock is free, though block and worker both change them: none is made over
\* another (the assertions in the worker's loop), none is kept to an endpoint that
\* is not wanted any more, and none is made after quit.  The conduit is taken to be
\* connected exactly while one is in use.  No other connection is left open but
\* those whose keep-alives could not be set, which nobody ever closes; nothing is
\* heard from them.
ConnectionMatchesState ==
    /\ open = ({readerInfo.id} \ {0}) \cup abandoned
    /\ readerInfo.id \notin abandoned
    /\ state.name = "Connected" <=> readerInfo # NoReader
    /\ state.name = "Connected" => state.ep = endpoint
    /\ (conduitState = "Connected") = (state.name = "Connected")
    /\ quit => open = abandoned /\ state = Closed

Connection == TypeOK /\ ConnectionMatchesState

\* Whatever target a client sets last, and whatever happens to connections
\* before, the device is connected to it in the end, unless Dispose comes first or
\* sending a message has raised: then targets are not even looked at any more, and
\* the device stays connected, or is again, to the one that was.
TargetIsReached ==
    \A ep \in Endpoints :
        /\ target = ep ~> \/ state = State("Connected", ep)
                          \/ target # ep
                          \/ doneSignal \/ faulted
        /\ endpoint = ep ~> \/ state = State("Connected", ep)
                            \/ endpoint # ep
                            \/ doneSignal

\* A reader that stopped reading is replaced: its error reaches the worker even
\* when a signal of an older connection is handled in between.
ReadingResumes ==
    \A n \in 1..MaxWork + MaxFailures + 1 :
        readerInfo.id = n /\ readerInfo.next = "nothing" ~> readerInfo.id # n

\* Dispose returns, with the connection closed.
DisposeReturns == doneSignal ~> worker = "done"
=============================================================================
