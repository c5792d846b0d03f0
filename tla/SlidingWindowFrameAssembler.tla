--------------------- MODULE SlidingWindowFrameAssembler ---------------------
(***************************************************************************)
(* The frame assembler of SoundMetrics.Aris.Comms (F#): a work queue fed   *)
(* by the socket thread, one worker that assembles frames from the queued  *)
(* datagrams, and a Flush that other threads may call at any time.         *)
(*                                                                         *)
(* All assembly happens under stateGuard, so the part of receivePacket     *)
(* inside the lock is one step.  The metrics of the datagram are added     *)
(* only afterwards, outside that lock, in a step of their own, and a Flush *)
(* can come between the two.                                               *)
(***************************************************************************)
EXTENDS FramePart, FiniteSets

CONSTANTS MaxPackets,  \* bound: how many datagrams are posted in a behaviour
          MaxQueued,   \* bound: how many work units wait at a time
          MaxDrains,   \* bound: how many of them are Drains
          UInt64Range  \* 2^64 in the code: where an unsigned counter wraps

ASSUME BoundsAssumption == /\ {MaxPackets, MaxQueued, MaxDrains} \subseteq Nat
                           /\ UInt64Range \in Nat \ {0}

VARIABLES workQueue,     \* the BufferBlock the datagrams are posted to
          pktProcessor,  \* the input of the ActionBlock that handles them
          lifetime,      \* how far Dispose has come
          asm            \* what the assembler holds, and what it has put out

vars == <<workQueue, pktProcessor, lifetime, asm>>

\* A datagram FramePart.Parser cannot parse.
Garbage == [frame |-> 0, dataOffset |-> 0]

Datagrams == Packets \cup {Garbage}

\* A Drain carries, for the properties only, how many datagrams were posted
\* before it.
WorkUnit == [kind : {"Packet"}, packet : Datagrams]
              \cup [kind : {"Drain"}, posted : Nat]

\* A FrameAccumulator.  Its fragments are never empty, so NoFrame is none.
FrameAccumulator == [frameIndex : Nat, totalDataSize : Nat,
                     fragments : Seq(Packets) \ {<<>>}]

NoFrame == [frameIndex |-> -1, totalDataSize |-> 0, fragments |-> <<>>]

BytesReceived(frame) == Len(frame.fragments)

IsComplete(frame) == BytesReceived(frame) = frame.totalDataSize

NoAck == [frameIndex |-> -1, dataOffset |-> 0]

\* The locals of receivePacket: what its finally block will add to the
\* metrics, and the ack it sent.  NoCall while no datagram is being handled.
NoCall == [active |-> FALSE, acceptedPacket |-> FALSE, parsedOkay |-> FALSE,
           skippedFrameCount |-> 0, ack |-> NoAck]

EmptyMetrics == [ProcessedFrameCount    |-> 0, CompleteFrameCount   |-> 0,
                 SkippedFrameCount      |-> 0, TotalPacketsReceived |-> 0,
                 TotalExpectedFrameSize |-> 0, TotalPacketsAccepted |-> 0,
                 TotalReceivedFrameSize |-> 0, UnparsablePackets    |-> 0]

Init == /\ workQueue = <<>>
        /\ pktProcessor = <<>>
        /\ lifetime = "open"
        /\ asm = [currentFrameIndex |-> -1, lastFinishedFrameIndex |-> -1,
                  expectedDataOffset |-> 0, currentFrame |-> NoFrame,
                  monotonicFrameIndex |-> 0, finished |-> <<>>,
                  metrics |-> EmptyMetrics, call |-> NoCall]

-----------------------------------------------------------------------------
(***************************************************************************)
(* The functions the worker runs under stateGuard.  Each one takes what    *)
(* the assembler holds, s, and yields what it holds afterwards.            *)
(***************************************************************************)

InProgress(s) == s.currentFrame # NoFrame

\* Mutants: every finished frame is counted as if all of it had come, or as
\* complete whatever has come of it.
WithFinishedFrameAssumedWhole(m, frame) ==
    [m EXCEPT !.ProcessedFrameCount    = @ + 1,
              !.CompleteFrameCount     = IF IsComplete(frame) THEN @ + 1 ELSE @,
              !.TotalExpectedFrameSize = @ + frame.totalDataSize,
              !.TotalReceivedFrameSize = @ + frame.totalDataSize]

WithFinishedFrameAssumedComplete(m, frame) ==
    [m EXCEPT !.ProcessedFrameCount    = @ + 1,
              !.CompleteFrameCount     = @ + 1,
              !.TotalExpectedFrameSize = @ + frame.totalDataSize,
              !.TotalReceivedFrameSize = @ + BytesReceived(frame)]

WithFinishedFrame(m, frame) ==
    [m EXCEPT !.ProcessedFrameCount    = @ + 1,
              !.CompleteFrameCount     = IF IsComplete(frame) THEN @ + 1 ELSE @,
              !.TotalExpectedFrameSize = @ + frame.totalDataSize,
              !.TotalReceivedFrameSize = @ + BytesReceived(frame)]

\* Hand the frame in progress, if there is one, to onFrameFinished under a
\* fresh number.  The current index moves to the frame that should be next.
FinishFrame(s) ==
    LET frame == s.currentFrame
    IN  [s EXCEPT !.currentFrame           = NoFrame,
                  !.monotonicFrameIndex    = @ + 1,
                  !.metrics                = WithFinishedFrame(@, frame),
                  !.lastFinishedFrameIndex = s.monotonicFrameIndex,
                  !.currentFrameIndex      = @ + 1,
                  !.finished = Append(@, [frame EXCEPT !.frameIndex = s.monotonicFrameIndex])]

Flush(s, clearFrameIndex) ==
    LET flushed == IF InProgress(s) THEN FinishFrame(s) ELSE s
    IN  IF clearFrameIndex THEN [flushed EXCEPT !.lastFinishedFrameIndex = -1]
                           ELSE flushed

\* The gap between two frame indexes is cast to an unsigned integer.
SetSkipCount(s, p) ==
    LET gap == (FrameIndex(p) - s.currentFrameIndex - 1) % UInt64Range
    IN  [s EXCEPT !.call.skippedFrameCount = (@ + gap) % UInt64Range]

\* Mutant: moving on to the next frame leaves the old one in progress.
OnFrameIndexAdvancedWithoutFlush(s, p) ==
    [(IF s.currentFrameIndex < 0 THEN s ELSE SetSkipCount(s, p))
        EXCEPT !.currentFrameIndex = FrameIndex(p), !.expectedDataOffset = 0]

OnFrameIndexAdvanced(s, p) ==
    LET left == IF s.currentFrameIndex < 0 THEN s
                                           ELSE Flush(SetSkipCount(s, p), FALSE)
    IN  [left EXCEPT !.currentFrameIndex = FrameIndex(p), !.expectedDataOffset = 0]

\* Mutant: the current index does not follow the sonar back.
OnRetrogradeFrameIndexWithoutReset(s, p) == Flush(s, TRUE)

OnRetrogradeFrameIndex(s, p) ==
    [Flush(s, TRUE) EXCEPT !.currentFrameIndex = FrameIndex(p)]

OnFrameInProgress(s, p) ==
    IF p.dataOffset = s.expectedDataOffset
    THEN [s EXCEPT !.currentFrame.fragments = Append(@, p),
                   !.expectedDataOffset     = @ + 1,
                   !.call.acceptedPacket    = TRUE]
    ELSE s

OnNoFrameInProgress(s, p) ==
    IF p.dataOffset = 0
    THEN [s EXCEPT !.currentFrame = [frameIndex    |-> FrameIndex(p),
                                     totalDataSize |-> TotalDataSize(p),
                                     fragments     |-> <<p>>],
                   !.expectedDataOffset  = 1,
                   !.call.acceptedPacket = TRUE]
    ELSE s

\* FrameAccumulator's validateInputs refuses a first part without a header;
\* the exception ends the handling of the datagram.
Throws(s, p) == ~InProgress(s) /\ p.dataOffset = 0 /\ ~HasHeader(p)

\* Mutant: the ack asks for the part after the one that came.
AcknowledgePartAsReceived(s, p) ==
    [s EXCEPT !.call.ack = [frameIndex |-> FrameIndex(p),
                            dataOffset |-> p.dataOffset + 1]]

AcknowledgePart(s, p) ==
    [s EXCEPT !.call.ack = [frameIndex |-> FrameIndex(p),
                            dataOffset |-> s.expectedDataOffset]]

TakePart(s, p) == IF InProgress(s) THEN OnFrameInProgress(s, p)
                                   ELSE OnNoFrameInProgress(s, p)

FlushIfWhole(s, p) == IF s.expectedDataOffset = TotalDataSize(p) THEN Flush(s, FALSE) ELSE s

\* The datagram belongs to the frame that is now current.  When the socket
\* refuses the ack, the exception ends the handling of the datagram there.
AcceptPart(s, p, ackSent) ==
    IF Throws(s, p) THEN s
    ELSE IF ~ackSent THEN TakePart(s, p)
    ELSE FlushIfWhole(AcknowledgePart(TakePart(s, p), p), p)

\* Mutant: whatever has an older index is turned away.
TurnsAwayFirstPartsToo(s, p) == FrameIndex(p) < s.currentFrameIndex

\* A part of a frame the assembler has left behind, other than a first part.
TurnsAway(s, p) == FrameIndex(p) < s.currentFrameIndex /\ p.dataOffset # 0

ReceivePart(s, p, ackSent) ==
    IF FrameIndex(p) > s.currentFrameIndex
    THEN AcceptPart(OnFrameIndexAdvanced(s, p), p, ackSent)
    ELSE IF TurnsAway(s, p) THEN SetSkipCount(s, p)
    ELSE IF FrameIndex(p) < s.currentFrameIndex
    THEN AcceptPart(OnRetrogradeFrameIndex(s, p), p, ackSent)
    ELSE AcceptPart(s, p, ackSent)

Begun(s, parsed) == [s EXCEPT !.call = [NoCall EXCEPT !.active = TRUE, !.parsedOkay = parsed]]

\* receivePacket up to the end of its lock.
ReceivePacket(s, datagram, ackSent) ==
    LET begun == Begun(s, datagram # Garbage)
    IN  IF datagram = Garbage THEN begun ELSE ReceivePart(begun, datagram, ackSent)

WithPacketAdded(m, call) ==
    [m EXCEPT !.SkippedFrameCount    = (@ + call.skippedFrameCount) % UInt64Range,
              !.TotalPacketsReceived = @ + 1,
              !.TotalPacketsAccepted = IF call.acceptedPacket THEN @ + 1 ELSE @,
              !.UnparsablePackets    = IF call.parsedOkay THEN @ ELSE @ + 1]

\* The finally block of receivePacket.
WithPacketCounted(s) ==
    [s EXCEPT !.call = NoCall, !.metrics = WithPacketAdded(s.metrics, s.call)]

-----------------------------------------------------------------------------
(***************************************************************************)
(* The steps of the socket thread, of the worker, and of other threads.    *)
(***************************************************************************)

IsPacket(unit) == unit.kind = "Packet"

PacketsIn(queue) == Cardinality({k \in DOMAIN queue : IsPacket(queue[k])})

PostedPackets ==
    asm.metrics.TotalPacketsReceived + (IF asm.call.active THEN 1 ELSE 0)
        + PacketsIn(workQueue) + PacketsIn(pktProcessor)

QueuedDrains == Len(workQueue) + Len(pktProcessor)
                    - PacketsIn(workQueue) - PacketsIn(pktProcessor)

\* ProcessPacket: a BufferBlock takes what is posted until it is completed.
ProcessPacket(datagram) ==
    /\ lifetime = "open"
    /\ PostedPackets < MaxPackets
    /\ Len(workQueue) + Len(pktProcessor) < MaxQueued
    /\ workQueue' = Append(workQueue, [kind |-> "Packet", packet |-> datagram])
    /\ UNCHANGED <<pktProcessor, lifetime, asm>>

DrainAsync ==
    /\ lifetime = "open"
    /\ QueuedDrains < MaxDrains
    /\ workQueue' = Append(workQueue, [kind |-> "Drain", posted |-> PostedPackets])
    /\ UNCHANGED <<pktProcessor, lifetime, asm>>

\* Mutant: Dispose drops the link before it waits for the queue.
LinkDeliversWhileOpen ==
    /\ lifetime = "open"
    /\ workQueue # <<>>
    /\ pktProcessor' = Append(pktProcessor, Head(workQueue))
    /\ workQueue' = Tail(workQueue)
    /\ UNCHANGED <<lifetime, asm>>

\* pktQueueLink: the BufferBlock offers its head to the ActionBlock.
LinkDelivers ==
    /\ lifetime # "unlinked"
    /\ workQueue # <<>>
    /\ pktProcessor' = Append(pktProcessor, Head(workQueue))
    /\ workQueue' = Tail(workQueue)
    /\ UNCHANGED <<lifetime, asm>>

\* Mutant: the parser's exception leaves the handler and faults the block.
ProcessWorkUnitPacketUncaught ==
    /\ ~asm.call.active
    /\ pktProcessor # <<>>
    /\ IsPacket(Head(pktProcessor))
    /\ Head(pktProcessor).packet # Garbage
    /\ \E ackSent \in BOOLEAN : asm' = ReceivePacket(asm, Head(pktProcessor).packet, ackSent)
    /\ pktProcessor' = Tail(pktProcessor)
    /\ UNCHANGED <<workQueue, lifetime>>

ProcessWorkUnitPacket ==
    /\ ~asm.call.active
    /\ pktProcessor # <<>>
    /\ IsPacket(Head(pktProcessor))
    /\ \E ackSent \in BOOLEAN : asm' = ReceivePacket(asm, Head(pktProcessor).packet, ackSent)
    /\ pktProcessor' = Tail(pktProcessor)
    /\ UNCHANGED <<workQueue, lifetime>>

UpdateMetrics ==
    /\ asm.call.active
    /\ asm' = WithPacketCounted(asm)
    /\ UNCHANGED <<workQueue, pktProcessor, lifetime>>

\* Mutant: the block handles two work units at a time.
ProcessWorkUnitDrainInParallel ==
    /\ pktProcessor # <<>>
    /\ ~IsPacket(Head(pktProcessor))
    /\ pktProcessor' = Tail(pktProcessor)
    /\ UNCHANGED <<workQueue, lifetime, asm>>

\* SetResult on the Drain's task: everything posted before it is done.
ProcessWorkUnitDrain ==
    /\ ~asm.call.active
    /\ pktProcessor # <<>>
    /\ ~IsPacket(Head(pktProcessor))
    /\ pktProcessor' = Tail(pktProcessor)
    /\ UNCHANGED <<workQueue, lifetime, asm>>

\* The Flush member, called from any thread.
FlushMember ==
    /\ asm' = Flush(asm, TRUE)
    /\ UNCHANGED <<workQueue, pktProcessor, lifetime>>

\* Dispose completes the queue, waits until the link has emptied it, and
\* only then drops the link.
DisposeCompletesQueue ==
    /\ lifetime = "open"
    /\ lifetime' = "completed"
    /\ UNCHANGED <<workQueue, pktProcessor, asm>>

DisposeDropsLink ==
    /\ lifetime = "completed"
    /\ workQueue = <<>>
    /\ lifetime' = "unlinked"
    /\ UNCHANGED <<workQueue, pktProcessor, asm>>

Worker == ProcessWorkUnitPacket \/ UpdateMetrics \/ ProcessWorkUnitDrain

Next == \/ \E datagram \in Datagrams : ProcessPacket(datagram)
        \/ DrainAsync
        \/ LinkDelivers
        \/ Worker
        \/ FlushMember
        \/ DisposeCompletesQueue
        \/ DisposeDropsLink

Spec == Init /\ [][Next]_vars

-----------------------------------------------------------------------------
\* Properties.

AckType == [frameIndex : Nat, dataOffset : Nat] \cup {NoAck}

CallType == [active : BOOLEAN, acceptedPacket : BOOLEAN, parsedOkay : BOOLEAN,
             skippedFrameCount : Nat, ack : AckType]

MetricsType == [ProcessedFrameCount    : Nat, CompleteFrameCount   : Nat,
                SkippedFrameCount      : Nat, TotalPacketsReceived : Nat,
                TotalExpectedFrameSize : Nat, TotalPacketsAccepted : Nat,
                TotalReceivedFrameSize : Nat, UnparsablePackets    : Nat]

AssemblerType == [currentFrameIndex : Nat \cup {-1}, lastFinishedFrameIndex : Nat \cup {-1},
                  expectedDataOffset : Nat, currentFrame : FrameAccumulator \cup {NoFrame},
                  monotonicFrameIndex : Nat, finished : Seq(FrameAccumulator),
                  metrics : MetricsType, call : CallType]

\* Every variable holds what its declaration says.
TypeOK == /\ workQueue \in Seq(WorkUnit)
          /\ pktProcessor \in Seq(WorkUnit)
          /\ lifetime \in {"open", "completed", "unlinked"}
          /\ asm \in AssemblerType

\* The fragments of a frame, complete or not, are parts 0, 1, 2, ... of frames
\* with one index, whatever the order in which the datagrams came: the
\* assembler never leaves a hole and never splices frames with two indexes.
\* Frames that share an index after a restart it cannot tell apart.
IsSound(frame) == /\ IsRunOfOneIndex(frame.fragments)
                  /\ frame.totalDataSize = TotalDataSize(frame.fragments[1])

FinishedFramesAreSound == \A k \in DOMAIN asm.finished : IsSound(asm.finished[k])

\* The frame in progress is the current frame, and the next offset expected
\* is exactly what has been received of it.
InProgressIsCurrent ==
    InProgress(asm) => /\ IsSound(asm.currentFrame)
                       /\ FrameIndex(asm.currentFrame.fragments[1]) = asm.currentFrameIndex
                       /\ BytesReceived(asm.currentFrame) = asm.expectedDataOffset

\* Whatever the order of datagrams, flushes and the worker's steps, every frame
\* is sound, the finished ones and the one in progress, down to the offset that
\* decides whether the next part is taken.
AssemblerSound == TypeOK /\ FinishedFramesAreSound /\ InProgressIsCurrent

\* No byte is counted twice or forgotten: what the accepted datagrams brought
\* is in the finished frames or in the one in progress, also while a datagram
\* is between its lock and its metrics update.
AcceptedBytesAccounted ==
    asm.metrics.TotalPacketsAccepted + (IF asm.call.acceptedPacket THEN 1 ELSE 0)
        = asm.metrics.TotalReceivedFrameSize + BytesReceived(asm.currentFrame)

\* The ack for a part of the frame in progress asks for the part after the
\* last one received, so that a retry would close the gap.
AckAsksForNextPart ==
    (InProgress(asm) /\ asm.call.ack.frameIndex = asm.currentFrameIndex)
        => asm.call.ack.dataOffset = BytesReceived(asm.currentFrame)

\* frame_stream.proto says of an ack's data_offset: "Offset of next expected
\* part.  For a frame with 'total_data_size' of N, the last FramePartAck will
\* have 'data_offset' containing N."  So an ack never claims more of a frame
\* than has been received of a frame with its index.
AckClaimsOnlyReceived ==
    LET ack == asm.call.ack
        Has(frame) == /\ BytesReceived(frame) >= ack.dataOffset
                      /\ FrameIndex(frame.fragments[1]) = ack.frameIndex
    IN  ack.dataOffset > 0 => \/ InProgress(asm) /\ Has(asm.currentFrame)
                              \/ \E k \in DOMAIN asm.finished : Has(asm.finished[k])

\* When DrainAsync's task completes, every datagram posted before the call has
\* been handled and is in the metrics.
DrainMeansCounted ==
    [][(pktProcessor # <<>> /\ ~IsPacket(Head(pktProcessor)) /\ pktProcessor' # pktProcessor
          /\ Len(pktProcessor') < Len(pktProcessor))
        => asm.metrics.TotalPacketsReceived >= Head(pktProcessor).posted]_vars

\* "Sonar may have reset; resync on first frame of a packet": a first part is
\* taken at once, however old or new its index, unless the frame in progress
\* already has that index.
FirstPartResyncs ==
    [][\A p \in Packets :
         (/\ ~asm.call.active /\ asm'.call.active
          /\ Head(pktProcessor) = [kind |-> "Packet", packet |-> p]
          /\ HasHeader(p)
          /\ InProgress(asm) => asm.currentFrameIndex # FrameIndex(p))
            => asm'.call.acceptedPacket]_vars
=============================================================================
