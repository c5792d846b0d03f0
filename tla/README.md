# Verification of the ARIS Integration SDK

TLA+ models of the SDK's own logic, TLC runs on small instances, and theorems
checked with TLAPS. Everything is translated from the sources under `src/`;
`PROJECT.json` maps each definition to the lines it stands for.

## The system

An ARIS sonar announces itself with UDP beacons, takes commands on a TCP link
and streams raw frames as UDP datagrams (`FramePart`), which receivers assemble
and acknowledge. The repository holds four independent receivers, the client
library that drives a sonar from .NET, and smaller pieces.

| Component | State it keeps | Operations | Hard behaviour | What makes it correct |
|---|---|---|---|---|
| F# frame assembler (`SlidingWindowFrameAssembler.fs`, `FrameAccumulator.fs`, `ProtocolMetrics.fs`) | indexes, expected offset, frame in progress, metrics, work queue | ProcessPacket, DrainAsync, Flush, Metrics, Dispose | a worker and other threads; loss, repeats, reordering, restarts of the sonar; exceptions half way | frames have no holes and no parts of another index; metrics account for every byte; acks ask for what is missing; Dispose returns |
| F# listener (`FrameStreamListener.fs`) | socket, frame numbers, subject, disposing | listen loop, onNewFrame, Flush, SetSinkAddress, Dispose | Dispose while the worker is busy | whole frames, numbered without a gap; silence after Dispose but for one frame |
| C++ frame stream (`common/code/FrameStream`) | indexes, offset, FrameBuilder, metrics | HandlePacketFrom, ProcessPacket, Flush | loss, repeats, reordering; an exception ends receiving | frames in order, none twice, no holes |
| C# accumulator (`SimplifiedProtocol/FrameAccumulator.cs`) | work in progress, header, buffer, number | ReceivePacket | abandoned and restarted frames | its four fields agree; whole frames |
| C lite assembler (`FrmAsmLt.c`) | state, part number, allocation | Init, AddFramePart, Free | ownership of memory over resets | one owner per allocation |
| Connection state machine (`SonarConnectionMachineState.fs`) | state, command link, event queue | beacon, tick, command, quit | lost links, changed addresses, order of initialisation | a connected sonar is initialised; Quit ends it |
| `ArisConduit` | settings, cookies, subjects, graph | requests, callbacks, recording commands, Dispose | requests racing re-initialisation | the last request wins; Dispose returns |
| Recording (`Recording.fs`, `FileRecording.fs`, `FrameIndexMapper.fs`) | recorders, queued request, frame size, index offsets | frame, start, stop, quit | write failures and retries, size changes | recorders are disposed once; files and counts agree; clients are told |
| `DeviceConnection`, `ConduitState`, `FramedMessageReader` | target, socket, reader, state, three signals | SetTarget, SendMessage, receives, Dispose | a worker and a block under one lock, stale errors, timeouts, incomplete reads | state, socket and reader agree; the last target is reached; Dispose returns |
| `BeaconListener`, `UdpListener`, `QueuedSynchronizationContext` | three listeners, three lists, a queue, a subject | receive, add or update, weed, wait for a beacon, Dispose | four kinds of threads; Dispose between a test and a receive | each device once, newest beacon, gone when silent; waits and Dispose end |
| `AsyncTaskTracker`, `DeviceReachability`, SSDP | counters, timers | | races of reset and signal | |
| Pure parts: reordering, acoustic settings, focus maps, depth, frame rate | none | | | values in range, permutations |

The link calls the listener (datagrams), the listener posts to the assembler's
queue, the assembler calls back `onNewFrame` (under its lock) and `sendAck`; the
connection machine calls the conduit (`OnCxnStateChanged` flushes the listener,
`OnInitializeConnection` gives it a new sink); frames go on to the processing
graph and the recorders. The hazards of this code, each at its line, are listed
in `PROJECT.json`.

## Modules

| Module | Models | Notes |
|---|---|---|
| `FramePart` | `frame_stream.proto` | `Stream` is what one sonar sends; a frame of size n travels as n parts, of unit size but in `FrmAsmLt`; only part 0 has the header |
| `SonarLink` | UDP (external) | unsteady: any datagram any number of times in any order; steady: a subsequence of what is sent |
| `WholeFrames` | abstract specification | the client gets numbered frames without holes, made of what was taken; a frame with an index of its own is exactly one raw frame, two that share an index after a restart may be spliced |
| `SlidingWindowFrameAssembler` | the F# assembler | one action per work unit, metrics update, queue step, Flush, Dispose step |
| `FrameStreamListener` | listener + assembler + link | composes the above; `onNewFrame` tests `disposing` in one step and publishes in another |
| `CppFrameStream` | the C++ listener and assembler | |
| `SimplifiedFrameAccumulator` | the C# accumulator | implements `WholeFrames` |
| `FrmAsmLt` | the C lite assembler | with the sizes of parts, the bytes copied and the owner of each allocation, the assembler's own included |
| `SonarConnection` | the connection's event queue, state machine and TCP link | no specification of its own: commands and the initialising callback are the conduit's |
| `ArisConduit` | the conduit over `SonarConnection` | settings and cookies, initialisation, the sink, state reports, Dispose |
| `Recording` | the recorder's block with its files, the frame index mapper, and the processing graph as one queue | one action per step of `processInput` at which storage may fail |
| `DeviceConnection` | the generic device connection, its framed reader and the conduit state made of its reports | internal to the library, used by no product code yet |
| `BeaconListener` | device lists, `UdpListener`s and the synchronization context | Rx is external |
| `MC...` | instances for TLC | values of `Stream`, `Kind` and other constants |
| `FrameStreamListenerProofs` | theorems | about the F# assembler alone, then about the stream |
| `CppFrameStreamProofs`, `SimplifiedFrameAccumulatorProofs`, `FrmAsmLtProofs`, `ArisConduitProofs`, `RecordingProofs`, `DeviceConnectionProofs`, `BeaconListenerProofs` | theorems | each about the module it is named after |

### How state and actions correspond to the code

F# assembler. The refs of the class are the fields of `asm`; `workQueue` and
`pktProcessor` are the BufferBlock and the ActionBlock's input. What
`receivePacket` does under `stateGuard` is one step (`ProcessWorkUnitPacket`);
the `finally` that adds to the metrics under another lock is a step of its own
(`UpdateMetrics`), with the locals of the function in `asm.call` between them.
`FlushMember`, on any thread, can come between the two. `ackSent` says whether
`sendAck` came back; when it throws, the handler's `with` swallows the exception
and the rest of the handling is skipped. Exceptions of the parser and of
`FrameAccumulator` are modelled in the same way (`Garbage`, `Throws`).
`lastFinishedFrameIndex` is kept although the code never reads it but for a log
line. The unsigned cast of a negative gap is `% UInt64Range`. Of the metrics,
`UniqueFrameIndexCount` is left out: it is always added to as
`ProcessedFrameCount` is.

Listener. `Receive` is one turn of the loop. What happens under `stateGuard` is
three steps for each complete frame: `Assemble` puts the frames that are finished
into `newFrames`, `PassesTest` or `FailsTest` is the test of `disposing`
(`FrameStreamListener.fs:59`), and `Publish` numbers the frame and calls `OnNext`
(`:77`). `newFrames` stands for the lock, which nobody else gets while it is not
empty; `Dispose` does not take it, so it may begin, complete the subject and end
the loop between test and `OnNext`. `BeginDispose`, `CompleteSubject`,
`ListenLoopEnds` and `DisposeAssembler` are the steps of `Dispose`. A completed
subject has no observers, so nothing is published but the number is used up. The
client's subscription is taken to exist and not to throw.

C++. `HandlePacketFrom` is one step up to the end of the lock; `UpdateMetrics`
is the scoped guard. `receiving` becomes false when `FrameBuilder`'s constructor
throws, because `StartReceiveAsync` is then never reached. Acks are compiled out
in this code (`DISABLE_PACKET_ACK`), so they are not in the model. `AppendPart`
copies what fits into the rest of the buffer, as `buffer_copy` does.

C#. A step is one `ReceivePacket`. `Ignore` stands for the paths that only log.
Sample parts have unit size: what a part of another size does to a spliced frame
(`samplesReceived` may step over the count that `FrameAccumulator.cs:213` compares
it with) is not modelled.

C. A step is one `SmcAddFramePart`, the dispatch loop included: `Restart` is the
Reset of `HandleAssembling` followed by `HandleStart` in the same call. `SamplesTo`
gives the parts their sizes. `pSampleInsert` is moved by the size of the part and
nothing compares it with the end of the buffer, as in the code; the frame ends when
it has passed `samplesExpected`. `owner` follows every allocation: number 1 is the
assembler itself, and the header handed to the client is a part of it. What a write
beyond a buffer destroys is not modelled, only that it happens.

Connection and conduit. `cxnEvQueue` is the BufferBlock and the
TransformBlock's input together: the events the handler has not taken. One event
is handled in one step but for two. A beacon that leads to a connection is taken
by `BeginInitialize`, up to the point at which `OnInitializeConnection` has read
the settings to send, and done with by `FinishInitialize`, which requests them
under the guard: a client's request on another thread may come between the two.
Quit sets the done signal in `HandleQuit` and reports the new state in `Report`;
Dispose may get to the end between the two. The ref of the cookie tracker is not
a variable, it always equals the cookie last requested. The TCP link is up or
broken and keeps what the sonar got through it; what is sent on a broken link
vanishes or fails. An exception that leaves the handler is the state
`BadTransition`, in which nothing more is handled. `LostConnection` is left out
because nobody queues it; `OnInitializeConnection` never returns false. `SinkAt`
replaces the socket only when its address differs; a new socket has a new number.
The table of valid state changes in a comment (`SonarConnectionMachineState.fs:38-47`)
does not list ConnectionRefused -> SonarNotFound, which a changed address makes.

Recording. `work` stands for the chain of dataflow blocks in front of the
recorder, which keep the order of what is posted. A command is one step. A frame
is taken by `TakeFrame`, which also stops all recordings when the size changed
(`stopAll`), and handled by one step for each file made or written: `Restart`
(the lazy sequence of `badResizeRestarts`), `StartQueued`, `Write`, `Retry` (one
attempt of `retry`), `GiveUp`, `FinishFrame`; `job` holds the locals in between.
Requests that a fold goes through in the order of a list are taken in any order.
Writing a frame (`Write`) and publishing its index offset under the mapper's own
lock (`RecordFrameIndexOffset`) are two steps; `job.wrote` is the request between
them, and nothing else is written meanwhile. `fate` is what a request's client
knows: asked once or twice, told as often as it asked ("told"), told once of two
("told of one"), stopped, or replaced in the slot.
`Create`, `Written` and `WriteFails` are what `FixedFrameSizeRecorder` does to
its file; `MakingFileRaises` is an exception that is not an IOException, which
nobody catches (`Recording.fs:79-81`) and which faults the block. Once the block
has faulted the last block completes without `Quit`, because completion is
propagated (`LeafIsComplete`). `ClientStops` removes the frame mapping at once, on
the client's thread, before the stop is handled.

Device connection. What the worker and the work block do inside
`lock stateGuard` is one step. `TakeWork` is the test of `quit`, outside the
lock. `worker` tells whether the thread examines its situation or waits, with a
timeout of two seconds or without; the four `Wake...` actions are the outcomes of
`WaitAny`, in the order of its handles. `MkConnection` chooses among the outcomes
of connecting: a connection, none, or one that is made and abandoned
(`AbandonConnection`), because setting its keep-alives raised after `EndConnect`
(`DeviceConnection.fs:98`) and the outer handlers (`:113-117`) do not close it.
`ProcessSendMessage` may raise, since `BeginSend` (`:173`) is in no `try`: the block
is then `faulted` and handles no work any more. `SetStates` composes the calls of `setState` made in one step,
each of which reports to the subscriber who derives the conduit's state
(`NextConduitState`). The reader is followed by whether its next receive is a
size or a message and whether it is in step with the framing: a message received
in part counts as whole (`FramedMessageReader.fs:97`), and its rest is read as a
size.

Beacons. `listener` says where each `UdpListener` is between its receive and the
test of `keepGoing`, and the publishing and the next receive. `queue` is the
synchronization context's; an entry names the callback. A callback that adds a
beacon to its list (`Process`) and the `OnNext` that follows (`Tell`) are two
steps. Explorers' packets are posted twice, by `ObserveOn` and by the handler.
`DisposeSteps` lists what `dispose` goes through; disposing of a listener waits
for its `doneSignal`. Unsubscribing from a listener, cancelling it and closing
its socket are one step, and so are publishing a packet and calling `listen`.
`InsertSorted` looks for the place of a beacon from the front, as the loop of
`addOrUpdateBeacon` does, and `Cleaned` is the loop of `cleanCollection`, which
takes the expired beacons out one by one, from the last.
No receive on an open socket fails, and the wait is not cancelled.

## Runs

| Run | Instance and bounds | What it shows |
|---|---|---|
| `recording` | 2 requests, 2 frame sizes, 2 frames, 2 retries, 3 failures, 1 unit of work waiting | files, the index mapping and the window before it is published, open recorders, notices to clients, quitting |
| `rec_stop` | the same without failures, 2 units of work waiting | disagreement, below |
| `device` | 2 endpoints, 3 pieces of work, 3 failures | agreement of state, sockets and reader; targets, recovery, Dispose; abandoned sockets and a faulted block |
| `beacons` | 2 explorers, a defender the filter excludes and a command module; 2 beacons, clock of 2 values, expiry after 0 | lists, weeding, waiting, Dispose |
| `fs_stream` | 4 raw frames: the client joins at frame 2, frame 3 has no header, then the sonar restarts with frames 1 and 2, the latter of another size; 6 datagrams posted, queue of 1 | type, soundness of frames, accounting, acks, order, resynchronisation, `WholeFrames` as abstract specification |
| `fs_live` | 3 frames, the last without a header, 3 datagrams, queue of 2, one Drain, Dispose at any time | Drain, Dispose, at most one frame after it, progress |
| `fs_ack` | 2 frames, 4 datagrams | disagreement with a comment, below |
| `cpp_stream` | 6 frames, a headerless one and then a restart to lower indexes among them, 9 datagrams | order, holes, accounting; completeness and no other loss on a steady link until the restart |
| `cpp_complete` | 2 frames, 4 datagrams | disagreement, below |
| `simple` | 5 frames, one without a header and then a restart that uses index 1 again; 3 published frames at most | agreement of the fields, loss, `WholeFrames` |
| `lite` | 4 frames with parts of 1 or 2 samples, one without a header; 4 allocations, one of them the assembler | ownership, holes, bytes written, loss |
| `conduit` | 2 addresses of the sonar, 2 of the host; fast settings that are constrained to slow ones; one tick or beacon waiting, one break of the link, one request | initialisation, cookies, the last request, reports, noticing a lost link, Dispose |

Bounds. `MaxPackets` bounds how many datagrams come; six is enough for two
frames to be mixed with each other, flushed and restarted, nine for the frames
of the C++ instance to follow each other through its restart with losses or repeats. A queue of one entry loses nothing
in `fs_stream`: the order in which the worker takes datagrams is that of the
queue whatever its length, and what a longer queue adds (Drain and Dispose with
work waiting) is in `fs_live`. `UInt64Range` is 16: larger than any count of the
instance, smaller than a wrapped gap. `steady` picks, per behaviour, a link that
only loses datagrams and a conduit that does not flush; properties about what
must not be lost are stated of these.

In `conduit` one tick or beacon may wait among any number of commands, so a new
connection is made while commands meant for the old one are still queued; one
break of the link gives two connections, to the same address of the sonar or
not, and from the same address of the host or not. Connections may be refused,
and fail to bind the sink, any number of times.

In `recording` one unit of work waits while one is handled, so that a command is
queued behind a frame whose handling goes on; longer queues only delay commands,
which `rec_stop`, with two, is about. Three failures let a write fail, its retry
fail and the next attempt fail in whichever way; two retries stand for the
code's three, of which the last two are alike. Two frames have a change of size
between them, or none. In `device` three pieces of work are targets
that change and change back, a target set twice, or a message in between; a failure
is a refusal, an abandoned socket, a receive or a send that raises. In `lite` the
parts of the frames differ in size so that a mixture of two overruns its buffer, or
needs another number of parts. In `beacons` two beacons are two of
one device, of two devices of one list, or of two lists; with an expiry of 0 the
older expires when the clock moves; no more than one callback of the weeder
waits.

Deadlock is not checked in the receivers' runs: the bounds end every behaviour, and a disposed stream
stops.

Fairness (`fs_live`). The thread pool runs dataflow blocks that have work
(`Deliver`, `Work`); the loop whose socket `Dispose` closed ends
(`ListenLoopEnds`); the worker, or whoever flushes, goes on in `onNewFrame`
(`OnNewFrame`); the thread in `Dispose` goes on when its wait is over
(`CompleteSubject`, `DisposeAssembler`). Nothing is assumed of the link, of clients or of Flush.

Fairness (`conduit`). The blocks run whatever they have been given
(`Connection`), the timer is an `Observable.Interval` that never stops
(`Timer`, strong because its bound disables it while something waits), and the
disposing thread goes on when it can. `PingFails` is strongly fair: TCP gives up
on data that is not acknowledged, so of all pings sent on a broken link one
fails. Nothing is assumed of beacons, clients or the link.

Fairness (`recording`, `device`, `beacons`). Dataflow blocks and threads go on
when they can. In `recording` storage answers, with success or failure, and the
thread in Dispose goes on when the graph has completed (`GraphCompletes`). In
`device` nothing is assumed of receives and clients. In `beacons` the pool runs
the continuations, a receive on a closed socket fails, the timer of a wait runs
out, and the weeder's timer fires; each of the first group happens finitely often,
so that one condition is enough for all of them, and none is assumed of beacons
or of the beginning of Dispose.

### Disagreements between the code and what it says

* `fs_ack`: after a complete frame, the index moves on by one and the expected
  offset stays. When the first part of the next frame is lost, its second part
  is acked with the old frame's end. `frame_stream.proto` defines the offset as
  that "of next expected part"; the comment at that branch says the ack asks for
  the first part.
* `cpp_complete`: "complete" is said to mean that all packets were received; a
  late packet of an older unfinished frame may take the place of one.
* `rec_stop`: a start request waits for the next frame; StopRecording "stops the
  recording", but looks only among those already started. A recording stopped
  before a frame came is started by it and goes on until the conduit is disposed.

Other behaviour that a reader of the code may not expect, found while modelling
and part of the models. Where a property leaves such an outcome out, it does not
catch it: the outcome is what the code does.

* Frames that share an index after the sonar restarted are not told apart by the F#
  and the C# receiver: what is in progress of the old frame may be completed with
  parts of the new one, and the client is handed a frame that was never sent
  (`WholeFrames` allows this and no other mixture). In the F# receiver the new
  frame's first part is then taken for a repeated one, and the frame is lost though
  all its parts arrived; `NothingElseLost` leaves out frames between which nothing
  came that ends the first (`IsToldApart`).
* `onNewFrame` tests `disposing` and publishes without a lock that Dispose takes, so
  one frame may be published after Dispose has begun (`SilentAfterDispose`).
* `FrmAsmLt.h:77-79` gives the callee the ownership of both header and samples and
  says the user's function allocated them. The header it gets is a field of the
  assembler (`FrmAsmLt.c:194`): to free it is to free the assembler, and it is
  overwritten by the next frame. `AllocationsSound` says who owns what in fact.
* The lite assembler copies a part without looking at the room left
  (`FrmAsmLt.c:184`). When the header of a frame is lost and its parts continue an
  older one, it may write beyond the end of the buffer, or end the frame with another
  number of parts than either had.
* A connection whose keep-alives cannot be set is reported as refused or not made,
  and its socket is left open (`DeviceConnection.fs:95-98`, `:113-117`). `Connection`
  says that no other is.
* When `BeginSend` raises, the work block faults and no target that is set later is
  looked at (`DeviceConnection.fs:173`); `TargetIsReached` leaves this out, but says
  that the worker still connects to the target the block handled last.
* Between the writing of a file's first frame and the report of its offset
  (`Recording.fs:135-136`) a client is answered with the offset of the file before.
* A client that asked twice for a recording may be told of the end of the first
  while the second start waits in the slot and is then served (`Recording.fs:282`).
  When the recorder's block faults, and on Quit, nobody is told anything.

* `Flush(true)` of the F# assembler "resets to expect any frame index next"
  (`SlidingWindowFrameAssembler.fs:161`), but clears an index nobody reads and
  keeps the one it compares with; later parts of older frames are still turned
  away. First parts are not (`FirstPartResyncs`).
* The lite assembler says that missing parts "cause an entire frame to be lost";
  when the end of a frame and the next header are lost, a frame is made of the
  parts of both. `CompletedFramesSound` says that this needs a lost header.
* The frame mapping a client removed with StopRecording comes back when a frame
  is recorded before the stop is handled, although `ArisConduit.fs:289-291` says
  that mapping can be done only during recording.
* When a write fails and is retried, the recorder that failed is replaced and
  left open. A second start request replaces one that waits, and its client is
  told nothing.
* A pending error of a device connection that was replaced closes its successor;
  the device is connected again all the same (`TargetIsReached`).
* A `UdpListener` whose continuation tested `keepGoing` just before Dispose closed
  the socket receives on the closed socket; the exception leaves `doneSignal`
  unset and Dispose waits for ever. A wait for a beacon during which Dispose
  begins need not return. Packets of defenders and command modules that are handled
  after Dispose end the loop of the synchronization context. `WaitReturns` and the
  `DisposeReturns` of the beacons exclude exactly these outcomes and cannot catch
  them; what they show is that the race of a beacon with the timeout, and the order
  of the steps of Dispose, do no harm.
* In the conduit a request made while a connection is initialised is overridden by
  older settings (`LastRequestWins` excludes these), and a Quit handled after Dispose
  is not reported (`ClientIsTold`). When a constructor throws in the C++ receiver the
  stream goes silent (`NothingElseLost` is stated while receiving).
* The factories say that the listener "sees only" one kind of device; beacons of
  command modules bypass the filter.

## Proofs

Every state and action property the passing runs check is a theorem, for every
value of the constants that satisfies the named assumptions; only the liveness
properties are not.

The first part of `FrameStreamListenerProofs` is about the assembler alone. It
proves, for every `Stream` and every bound (`StreamAssumption`,
`BoundsAssumption`), that the specification implies
`AssemblerSound` (`TypeOK`, `FinishedFramesAreSound` and `InProgressIsCurrent`),
`AcceptedBytesAccounted`, `AckAsksForNextPart` and `FirstPartResyncs`. The
inductive invariant `IInv` is `TypeOK` with `SoundState`, the conjunction of the
three state properties (none of them is inductive alone: a finished frame is
sound because the one in progress was, and that is because the expected offset
is its length), `AckCorrect`, and that an idle call has accepted nothing. Each
function the worker composes has a lemma (`FlushSound`, `AdvancedSound`,
`RetrogradeSound`, `FrameInProgressSound`, `NoFrameInProgressSound`,
`AcceptPartSound`) that says it keeps `SoundState`; `NextIInv` goes through the
actions and cites them. `DrainMeansCounted` needs an invariant of its own,
`DrainInv`: of what was posted before a Drain that waits, all but what is ahead of
it in its queue (and in the next) was taken by the worker (`Awaited`). `Ahead`
counts the datagrams before a place in a queue; `AheadInTail` finds, by a
bijection, what taking the head does to it.

The second part shows that each step of the composition is a step or a stutter of
the assembler (`StreamRunsAssembler`), so all of this holds in the running stream.
It also proves `PublishedSound`, `NothingElseLost`, `SilentAfterDispose` and that
the stream implements `WholeFrames`. `ReceivePacketEffect` splits what a datagram
does to the assembler into flushing the frame in progress, taking the part, and
completing a frame with it; `PacketTells` says which messages the client gets
for each, at most two. The layers speak of `told`: what is published and, numbered,
what `onNewFrame` is still to be done for. What is published is always the
beginning of it, and while nobody disposes the rest is what is still to be done
(`ClientSound`). `StreamInv` is kept in four layers: the client
has been told as many frames as are counted complete (`ClientSound`); on a link that
only loses datagrams, what waits anywhere between the sonar and the worker is in
the order sent and after all that was handled (`LinkSound`); what was published
comes in that order and before the frame in progress (`ToldInOrder`); and if
exactly the first n parts of a frame were handled and the frame is told apart from
others of its index (`IsDistinct`), the frame in progress is made
of these, or, when these are all its parts, was published whole (`NothingLost`).
Each layer needs the ones before it: a frame could be lost to one already handled
but sent later, which `LinkSound` excludes.

`CppFrameStreamProofs` proves `FinishedFramesSound`, `MetricsSound` and
`NothingElseLost` for every `Stream` and number of datagrams. The inductive
invariant has three layers. `SoundState` holds whatever the link does: frames
rise in index up to `lastFinishedFrameIndex`, the one in progress is above it,
and the expected offset is the number of parts it has. `SteadyState` is added on
a link that only loses datagrams: until the sonar restarts, `currentFrameIndex`
is the highest index that came, so a frame's parts are its own and every accepted
byte is counted. `Collected` is added while receiving goes on: if nothing but the
first n parts of a frame has come of it, the frame in progress is made of
exactly these, and once all have come it is finished whole. None of the three
properties follows from the layers below its own.

`SimplifiedFrameAccumulatorProofs` proves `FrameStateSound` and the refinement
`DeliversWholeFrames` (`Spec` implies `WholeFrames` under the mapping of that
module). `IInv` adds to `FrameStateSound` that the next number is the number of
frames published and that a buffer has its header; `StepImplements` shows that
each datagram publishes the next whole frame or leaves the client's view alone. As
in the F# receiver, `OwnRunIsWhole` makes one raw frame of parts whose index no other
frame has.
`NothingElseLost` follows from `Collected`, as in the C++ receiver but simpler: if
the header and the first n samples of a frame have come and nothing else of it, on
a link that only loses datagrams, the work in progress is made of exactly these,
and once all have come the frame is published. `FrmAsmLtProofs` has the same layer
for the C assembler.

`FrmAsmLtProofs` proves `AllocationsSound` from an invariant about the work in
progress (`WorkInv`: no buffer in state Start, and in Assembling the part number,
the bytes copied and the parts inserted agree), and `CompletedFramesSound` from that
and `SteadyInv`: parts of two frames meet in a completed one only if the later one's
header was lost, because headers that come reset the assembler. Of the sizes of
parts the proofs assume only that every sample part has some (`SamplesAssumption`);
`SampleFacts` says that the first n parts of a frame reach its size only when they
are all of it.

`ArisConduitProofs` proves all the state properties of `conduit`, for all
addresses, settings and bounds. `NoBadTransition` follows from `MachineInv`: both
states are states of the code, and while a connection is initialised the machine
is NotConnected or ConnectionRefused, from which both `connected` and `refused`
start. `LastRequestWins` follows from `RequestInv`: once requested, settings have
a valid cookie, so a later initialisation takes them and not the initial ones, and
what it has in hand is the last request unless it was overtaken.
`ConnectedSonarIsInitialized` and `CookiesSound` follow from `QueueInv`, which
speaks of the event queue and of what the sonar got as one sequence: as long as
the link is in use, the command in question is the last of its type in it
(`SentInv`), and cookies increase along it up to the last requested
(`CookieInv`); `TakeCommand`, `TakeOther` and `AppendEvent` say what taking and
posting an event do to it. `ClientIsTold` follows from `ToldInv`, which adds that
only a closed machine is about to report. Of `Constrain` the proofs assume that
it maps valid settings to valid settings and changes them only once
(`SettingsAssumption`); two theorems take as hypothesis `Command = AnyCommand`:
what the conduit sends is what the connection beneath it is given to send.

`DeviceConnectionProofs` proves `Connection`, for any endpoints, work and
failures. `ConnectionPart` says of what a call under the lock changes that the
open socket is the reader's, that the state is Connected exactly while there is
one, and that the conduit's state follows; `CloseConnectionKeeps` and
`MkConnectionKeeps` show that the two ways of changing a connection keep it.
`IInv` adds that a connected state names the wanted endpoint, and that `quit` is
set exactly when the worker has ended: without it, work taken before `quit` could
connect after it. Abandoned connections have numbers already used (`UnusedIsClosed`
says that a new one is none of them), so no reader is ever that of one.

`RecordingProofs` proves `FilesAndMappingAgree`, `OpenFilesAreInUse` and
`NobodyIsForgotten`. `IInv` says what each file ends with at each point of
`processInput`: the frames that wait are those after the h-th taken
(`FramesFrom`); between units of work the open file of each recording ends with
frame h, and while it is handled those already written to do, those still to be
written to end with the frame before it or are empty, and those that failed have
failed (`Follow`). Only so is the frame that is appended the next one, which is
what makes the file readable and the published offset right (`MappingSound`).
`JobSound` keeps the sets of requests that a frame is handled for apart, and
`OpenSound` counts the open files. What is
published fits the file but for the first frame of a new one that is not reported
yet (`IsNew`); the report then makes it fit (`MappingWhenReported`). The clients need
that a request asked for once is in one place only, the queue, the slot, the handling
of a frame or the recordings, and one asked for twice in two at most
(`KnowsItsFate`): being told as often as it asked is the end of it. The lemmas `...Files` say what
creating, writing, failing and disposing do to the files of one request, and there
is one lemma for each step of the recorder and each part of the invariant.

`BeaconListenerProofs` proves `ListsFollowBeacons`, for any devices, filter,
expiration and bounds. The invariant follows, for each device, the beacons that
wait in the queue, in the order in which they will be handled (`HandledBefore`: a
packet of an explorer is posted to be observed and then again to be processed, so
those to be processed come before those to be observed). They get newer in that order (`PendingSound`);
what is listed is no newer than any of them (`ListedSound`), so that a list never
goes back; and the last beacon heard is among them, or listed until it expires
(`CatchesUp`). `Carried` and its instances for posting, taking and posting anew say
when a change of the queue keeps this; `Handled` and `HeardAgain` are the steps
that change a list or hear a beacon. `Updated` and `Weeded` say what adding and
weeding do to a sorted list. `Weeded` is about a recursive function. The library's
induction theorems have an operator as parameter, which the installed provers
cannot instantiate; `Induction` is the same principle for a set of numbers, proved
from the well-foundedness of `<` on the natural numbers, and `CleanedIsDefined`
shows with it that the function satisfies its recursion.

Only model-checked: the liveness properties (`DisposeReturns`, `EverythingHandled`,
`LostLinkNoticed`, `QuitReturns`, `TargetIsReached`, `ReadingResumes`,
`SilentDevicesGo`, `WaitReturns`). Fairness and ENABLED are out of the prover's
reach. `Assemble` goes through the frames finished in a step one by one (there are
never more than two) and not with `SelectSeq`, a recursion of which every theorem
about the listener would need facts found by induction.

## Not modelled, and the plan

Next, in this order:

1. The rest of the conduit: `SetSalinity`, which repeats itself until a frame
   shows the salinity, and `WaitForConnectionAsync`, which does not see a
   connection that exists already.
2. Smaller pieces where a run can be shared: `DeviceReachability`, reordering as
   a permutation.

Left out: `AsyncTaskTracker`, which is compiled but which nothing in the source uses;
floating-point formulas (acoustic projections, focus maps, depth,
speed of sound), message construction, sockets and text parsing (SSDP), user
interfaces, scripts, samples and vendored code (of the 48 800 lines of
implementation some 40 000 are the vendored test framework Catch2 and its tests;
what carries state in the SDK itself is a few thousand). Subscribers that throw, the
lifetime of asio handlers and failed allocations are not modelled either; the
hazards list says where they would bite.
