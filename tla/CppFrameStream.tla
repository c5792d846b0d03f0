--------------------------- MODULE CppFrameStream ---------------------------
(***************************************************************************)
(* The C++ frame stream: FrameStreamListener receives one datagram at a    *)
(* time on the io_service thread, SlidingWindowFrameAssembler assembles    *)
(* frames in FrameBuilders, and other threads read the metrics.            *)
(*                                                                         *)
(* ProcessPacket works under stateGuard and adds the datagram to the       *)
(* metrics when its scope ends, after the lock is gone: two steps.         *)
(***************************************************************************)
EXTENDS SonarLink

CONSTANT MaxPackets  \* bound: how many datagrams are received in a behaviour

ASSUME MaxPacketsAssumption == MaxPackets \in Nat

VARIABLES receiving,  \* an async_receive_from is pending
          asm         \* what the assembler holds, and what it has put out

vars == <<linkVars, receiving, asm>>

\* A FrameBuilder.  fragments are the parts appended to it; dataReceived
\* counts what was copied into its buffer of totalDataSize.
FrameBuilder == [frameIndex : Nat, totalDataSize : Nat \ {0},
                 fragments : Seq(Packets) \ {<<>>}, dataReceived : Nat]

NoFrame == [frameIndex |-> -1, totalDataSize |-> 0, fragments |-> <<>>,
            dataReceived |-> 0]

IsComplete(frame) == frame.dataReceived = frame.totalDataSize

\* The locals of ProcessPacket that its scoped_guard reads.
NoCall == [active |-> FALSE, acceptedPacket |-> FALSE, invalidPacket |-> FALSE,
           skippedFrameCount |-> 0]

EmptyMetrics == [finishedFrameCount     |-> 0, completeFrameCount   |-> 0,
                 skippedFrameCount      |-> 0, totalPacketsReceived |-> 0,
                 totalExpectedFrameSize |-> 0, totalPacketsAccepted |-> 0,
                 totalReceivedFrameSize |-> 0, totalPacketsIgnored  |-> 0,
                 invalidPacketCount     |-> 0]

Init == /\ LinkInit
        /\ receiving = TRUE
        /\ asm = [currentFrameIndex |-> -1, lastFinishedFrameIndex |-> -1,
                  expectedDataOffset |-> 0, currentFrame |-> NoFrame,
                  finished |-> <<>>, metrics |-> EmptyMetrics,
                  call |-> NoCall]

-----------------------------------------------------------------------------
\* The functions that run under stateGuard.

InProgress(s) == s.currentFrame # NoFrame

\* Mutant: a finished frame is counted as if all of it had come.
WithFinishedFrameAssumedWhole(m, frame) ==
    [m EXCEPT !.finishedFrameCount     = @ + 1,
              !.completeFrameCount     = IF IsComplete(frame) THEN @ + 1 ELSE @,
              !.totalExpectedFrameSize = @ + frame.totalDataSize,
              !.totalReceivedFrameSize = @ + frame.totalDataSize]

WithFinishedFrame(m, frame) ==
    [m EXCEPT !.finishedFrameCount     = @ + 1,
              !.completeFrameCount     = IF IsComplete(frame) THEN @ + 1 ELSE @,
              !.totalExpectedFrameSize = @ + frame.totalDataSize,
              !.totalReceivedFrameSize = @ + frame.dataReceived]

\* Mutant: the index of the finished frame is not remembered.
FlushForgetful(s) ==
    IF ~InProgress(s) THEN s
    ELSE [s EXCEPT !.currentFrame = NoFrame,
                   !.metrics      = WithFinishedFrame(@, s.currentFrame),
                   !.finished     = Append(@, s.currentFrame)]

Flush(s) ==
    IF ~InProgress(s) THEN s
    ELSE [s EXCEPT !.currentFrame           = NoFrame,
                   !.metrics                = WithFinishedFrame(@, s.currentFrame),
                   !.lastFinishedFrameIndex = s.currentFrame.frameIndex,
                   !.finished               = Append(@, s.currentFrame)]

\* Mutant: the frame in progress stays where it is.
MoveOnWithoutFlush(s, p) ==
    [s EXCEPT !.currentFrameIndex      = FrameIndex(p),
              !.expectedDataOffset     = 0,
              !.call.skippedFrameCount = FrameIndex(p) - s.currentFrameIndex - 1]

\* The sender moved on to the next frame.
MoveOn(s, p) ==
    [Flush(s) EXCEPT !.currentFrameIndex      = FrameIndex(p),
                     !.expectedDataOffset     = 0,
                     !.call.skippedFrameCount = FrameIndex(p) - s.currentFrameIndex - 1]

StartFrame(s, p) ==
    [s EXCEPT !.currentFrame = [frameIndex |-> FrameIndex(p), totalDataSize |-> TotalDataSize(p),
                                fragments |-> <<p>>, dataReceived |-> 1],
              !.expectedDataOffset  = 1,
              !.call.acceptedPacket = TRUE]

\* AppendFrameData copies what fits between the offset and the end of the
\* buffer: nothing at the very end.  Beyond it the unsigned difference wraps.
AppendPart(s, p) ==
    [s EXCEPT !.currentFrame.fragments    = Append(@, p),
              !.currentFrame.dataReceived =
                    IF p.dataOffset = s.currentFrame.totalDataSize THEN @ ELSE @ + 1,
              !.expectedDataOffset  = @ + 1,
              !.call.acceptedPacket = TRUE]

\* Mutant: a part is appended whatever its offset.
TakePartAtAnyOffset(s, p) ==
    IF InProgress(s) THEN AppendPart(s, p)
    ELSE IF p.dataOffset = 0 THEN StartFrame(s, p) ELSE s

TakePart(s, p) ==
    IF InProgress(s)
    THEN IF p.dataOffset = s.expectedDataOffset THEN AppendPart(s, p) ELSE s
    ELSE IF p.dataOffset = 0 THEN StartFrame(s, p) ELSE s

\* FrameBuilder's ValidateInputs throws for a first part without a header.
Throws(s, p) == ~InProgress(s) /\ p.dataOffset = 0 /\ ~HasHeader(p)

\* A duplicate packet from a finished frame.
IsFinished(s, p) == FrameIndex(p) =< s.lastFinishedFrameIndex

\* The part belongs to a frame that is not finished.
AcceptPart(s, p) ==
    IF Throws(s, p) THEN s
    ELSE LET taken == TakePart(s, p)
         IN  IF taken.expectedDataOffset = TotalDataSize(p) THEN Flush(taken) ELSE taken

ReceivePart(s, p) ==
    IF FrameIndex(p) > s.currentFrameIndex THEN AcceptPart(MoveOn(s, p), p)
    ELSE IF IsFinished(s, p) THEN s
    ELSE AcceptPart(s, p)

Begun(s, valid) == [s EXCEPT !.call = [NoCall EXCEPT !.active = TRUE, !.invalidPacket = ~valid]]

-----------------------------------------------------------------------------
\* The steps of the io_service thread.

\* The state in which ReceivePart comes to the FrameBuilder.
Moved(s, p) == IF FrameIndex(p) > s.currentFrameIndex THEN MoveOn(s, p) ELSE s

CanReceive == /\ receiving
              /\ ~asm.call.active
              /\ asm.metrics.totalPacketsReceived < MaxPackets

\* HandlePacketFrom runs ProcessPacket and only then receives again: after an
\* exception it never does.
HandlePacketFrom(p) ==
    /\ CanReceive
    /\ Transmit(p)
    /\ asm' = ReceivePart(Begun(asm, TRUE), p)
    /\ receiving' = ~(Throws(Moved(asm, p), p) /\ ~IsFinished(asm, p))

HandleInvalidPacket ==
    /\ CanReceive
    /\ asm' = Begun(asm, FALSE)
    /\ UNCHANGED <<linkVars, receiving>>

\* The scoped_guard of ProcessPacket, also when an exception leaves it.
UpdateMetrics ==
    LET call == asm.call
    IN  /\ call.active
        /\ asm' = [asm EXCEPT !.call = NoCall,
              !.metrics.skippedFrameCount    = @ + call.skippedFrameCount,
              !.metrics.totalPacketsReceived = @ + 1,
              !.metrics.totalPacketsAccepted = IF call.acceptedPacket THEN @ + 1 ELSE @,
              !.metrics.totalPacketsIgnored  = IF call.acceptedPacket THEN @ ELSE @ + 1,
              !.metrics.invalidPacketCount   = IF call.invalidPacket THEN @ + 1 ELSE @]
        /\ UNCHANGED <<linkVars, receiving>>

Next == \/ \E p \in Packets : HandlePacketFrom(p)
        \/ HandleInvalidPacket
        \/ UpdateMetrics

Spec == Init /\ [][Next]_vars

-----------------------------------------------------------------------------
\* Properties.

CallType == [active : BOOLEAN, acceptedPacket : BOOLEAN, invalidPacket : BOOLEAN,
             skippedFrameCount : Nat]

MetricsType == [finishedFrameCount     : Nat, completeFrameCount   : Nat,
                skippedFrameCount      : Nat, totalPacketsReceived : Nat,
                totalExpectedFrameSize : Nat, totalPacketsAccepted : Nat,
                totalReceivedFrameSize : Nat, totalPacketsIgnored  : Nat,
                invalidPacketCount     : Nat]

AssemblerType == [currentFrameIndex : Nat \cup {-1}, lastFinishedFrameIndex : Nat \cup {-1},
                  expectedDataOffset : Nat, currentFrame : FrameBuilder \cup {NoFrame},
                  finished : Seq(FrameBuilder),
                  metrics : MetricsType, call : CallType]

\* Every variable holds what its declaration says.
TypeOK == /\ steady \in BOOLEAN
          /\ delivered \subseteq Packets
          /\ receiving \in BOOLEAN
          /\ asm \in AssemblerType

\* However datagrams are repeated or reordered, the client never gets a frame
\* twice, and never an older frame after a newer one.
FinishedInOrder == \A j, k \in DOMAIN asm.finished :
                       j < k => asm.finished[j].frameIndex < asm.finished[k].frameIndex

\* Has an earlier frame of the stream an index as high as this one's?
IsRetrograde(f) == \E g \in 1 .. (f - 1) : Stream[g].index >= Stream[f].index

\* The metrics and the frames agree, also while a datagram is between its lock
\* and its metrics: no byte is counted that was not accepted, and, on a link that
\* only loses datagrams and until the sonar restarts, every accepted byte is counted.
AcceptedBytesAccounted ==
    LET accepted == asm.metrics.totalPacketsAccepted + (IF asm.call.acceptedPacket THEN 1 ELSE 0)
        counted  == asm.metrics.totalReceivedFrameSize + asm.currentFrame.dataReceived
    IN  /\ counted =< accepted
        /\ (steady /\ \A p \in delivered : ~IsRetrograde(p.frame)) => counted = accepted

\* The metrics, in their type's range, account for the bytes.
MetricsSound == TypeOK /\ AcceptedBytesAccounted

\* The parts of a frame come from offsets 0, 1, 2, ...: no hole, whatever the
\* link did.
HasNoHole(frame) == \A k \in DOMAIN frame.fragments : frame.fragments[k].dataOffset = k - 1

FramesHaveNoHoles == /\ HasNoHole(asm.currentFrame)
                     /\ \A k \in DOMAIN asm.finished : HasNoHole(asm.finished[k])

\* "The term "complete" means we've received all the packets for the frame."
CompleteMeansAllPackets ==
    \A k \in DOMAIN asm.finished :
        IsComplete(asm.finished[k]) => IsWhole(asm.finished[k].fragments)

\* On a link that only loses datagrams that is so of the frames without a part that
\* was sent after the sonar restarted: such a part may be appended to another frame.
SteadyCompleteMeansAllPackets ==
    steady => \A k \in DOMAIN asm.finished :
        LET parts == asm.finished[k].fragments
        IN  (IsComplete(asm.finished[k]) /\ \A j \in DOMAIN parts : ~IsRetrograde(parts[j].frame))
                => IsWhole(parts)

\* The frames the client gets: each once, in order, without holes, and complete
\* only if whole as long as the link is steady.
FinishedFramesSound == FinishedInOrder /\ FramesHaveNoHoles /\ SteadyCompleteMeansAllPackets

\* On such a link, and until the sonar restarts, a frame all of whose packets
\* arrived is finished complete: losing packets of one frame costs no other.
\* Left out is a listener that an exception has made stop receiving.
NothingElseLost ==
    (steady /\ receiving) =>
        \A f \in DOMAIN Stream :
            (AllDelivered(f) /\ ~IsRetrograde(f))
                => \E k \in DOMAIN asm.finished : asm.finished[k].fragments = AllPartsOf(f)
=============================================================================
