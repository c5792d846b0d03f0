------------------------- MODULE FrameStreamListener -------------------------
(***************************************************************************)
(* The frame stream of SoundMetrics.Aris.Comms (F#) put together: the UDP  *)
(* link from the sonar, the listener that reads the socket, and the frame  *)
(* assembler it owns.                                                      *)
(*                                                                         *)
(* The listener's onNewFrame is the callback the assembler makes while it  *)
(* holds stateGuard.  It tests disposing, and publishes only later; nothing*)
(* keeps Dispose, on another thread, from coming between the two.  So the  *)
(* assembly under stateGuard, the test and the publishing are three steps. *)
(***************************************************************************)
EXTENDS SlidingWindowFrameAssembler, SonarLink

CONSTANT MayDispose  \* bound: whether the client disposes the stream at all

ASSUME MayDisposeAssumption == MayDispose \in BOOLEAN

VARIABLES listening,       \* the listen loop has not ended
          disposing,       \* Dispose has begun
          completed,       \* Dispose has completed frameSubject
          newFrames,       \* the complete frames onNewFrame is still to be done for
          workerCalls,     \* whether it is the worker that calls onNewFrame
          entered,         \* whether onNewFrame for the first of them has passed its test
          nextFrameIndex,  \* the number the next published frame will get
          published        \* what frameSubject has published

callVars == <<newFrames, workerCalls, entered>>

clientVars == <<nextFrameIndex, published>>

disposeVars == <<listening, disposing, completed>>

allVars == <<vars, linkVars, disposeVars, callVars, clientVars>>

StreamInit == /\ Init
              /\ LinkInit
              /\ listening = TRUE
              /\ disposing = FALSE
              /\ completed = FALSE
              /\ newFrames = <<>>
              /\ workerCalls = FALSE
              /\ entered = FALSE
              /\ nextFrameIndex = 0
              /\ published = <<>>

-----------------------------------------------------------------------------

\* The k-th frame the assembler finishes in this step, if it finishes so many.
NewFrame(k) == LET n == Len(asm.finished) + k
               IN  IF n \in DOMAIN asm'.finished THEN <<asm'.finished[n]>> ELSE <<>>

\* Mutant: partial frames are kept too.
KeptFrame(k) == NewFrame(k)

CompleteFrame(k) == LET frame == NewFrame(k)
                    IN  IF frame # <<>> /\ IsComplete(frame[1]) THEN frame ELSE <<>>

\* The assembler takes stateGuard and finishes at most two frames: the one in
\* progress, and one that comes as a single part.  onNewFrame drops the partial
\* ones without effect; what is left to do for the others keeps stateGuard.
Assemble(byWorker) ==
    /\ newFrames = <<>>
    /\ newFrames' = CompleteFrame(1) \o CompleteFrame(2)
    /\ workerCalls' = (byWorker /\ newFrames' # <<>>)
    /\ UNCHANGED <<entered, clientVars>>

\* onNewFrame returns.
LeaveOnNewFrame ==
    /\ newFrames' = Tail(newFrames)
    /\ workerCalls' = (workerCalls /\ newFrames' # <<>>)
    /\ entered' = FALSE

\* Mutant: disposing is not looked at.
PassesAlways ==
    /\ newFrames # <<>>
    /\ ~entered
    /\ entered' = TRUE
    /\ UNCHANGED <<newFrames, workerCalls, clientVars>>

\* onNewFrame finds that nobody disposes.
PassesTest ==
    /\ newFrames # <<>>
    /\ ~entered
    /\ ~disposing
    /\ entered' = TRUE
    /\ UNCHANGED <<newFrames, workerCalls, clientVars>>

\* onNewFrame finds that somebody disposes.
FailsTest ==
    /\ newFrames # <<>>
    /\ ~entered
    /\ disposing
    /\ LeaveOnNewFrame
    /\ UNCHANGED clientVars

\* onNewFrame numbers the frame and publishes it.  A completed subject has no
\* observers, so OnNext is not called, but the number is used up.
Publish ==
    /\ entered
    /\ LeaveOnNewFrame
    /\ nextFrameIndex' = nextFrameIndex + 1
    /\ published' = IF completed THEN published
                    ELSE Append(published, [number |-> nextFrameIndex,
                                            parts  |-> Head(newFrames).fragments])

OnNewFrame ==
    /\ PassesTest \/ FailsTest \/ Publish
    /\ UNCHANGED <<vars, linkVars, disposeVars>>

\* One turn of the listen loop.
Receive(datagram) ==
    /\ listening
    /\ ProcessPacket(datagram)
    /\ UNCHANGED <<disposeVars, callVars, clientVars>>

ReceiveFramePart(p) == Receive(p) /\ Transmit(p)

ReceiveGarbage == Receive(Garbage) /\ UNCHANGED linkVars

Drain == DrainAsync /\ UNCHANGED <<linkVars, disposeVars, callVars, clientVars>>

Deliver == LinkDelivers /\ UNCHANGED <<linkVars, disposeVars, callVars, clientVars>>

\* The worker handles a datagram, up to the end of its lock or to onNewFrame.
WorkOnPacket ==
    /\ ProcessWorkUnitPacket
    /\ Assemble(TRUE)
    /\ UNCHANGED <<linkVars, disposeVars>>

\* The worker goes on, unless it is in onNewFrame.
WorkOn ==
    /\ ~workerCalls
    /\ UpdateMetrics \/ ProcessWorkUnitDrain
    /\ UNCHANGED <<linkVars, disposeVars, callVars, clientVars>>

Work == WorkOnPacket \/ WorkOn

\* The conduit flushes when its connection to the sonar changes.
FlushListener ==
    /\ ~steady
    /\ FlushMember
    /\ Assemble(FALSE)
    /\ UNCHANGED <<linkVars, disposeVars>>

\* Dispose: it sets disposing, completes the subject, cancels the loop and
\* closes the socket, waits for the loop to end, then disposes the assembler.
BeginDispose ==
    /\ MayDispose
    /\ ~disposing
    /\ disposing' = TRUE
    /\ UNCHANGED <<vars, linkVars, listening, completed, callVars, clientVars>>

CompleteSubject ==
    /\ disposing
    /\ ~completed
    /\ completed' = TRUE
    /\ UNCHANGED <<vars, linkVars, listening, disposing, callVars, clientVars>>

ListenLoopEnds ==
    /\ completed
    /\ listening
    /\ listening' = FALSE
    /\ UNCHANGED <<vars, linkVars, disposing, completed, callVars, clientVars>>

DisposeAssembler ==
    /\ ~listening
    /\ DisposeCompletesQueue \/ DisposeDropsLink
    /\ UNCHANGED <<linkVars, disposeVars, callVars, clientVars>>

StreamNext == \/ \E p \in Packets : ReceiveFramePart(p)
              \/ ReceiveGarbage
              \/ Drain
              \/ Deliver
              \/ Work
              \/ OnNewFrame
              \/ FlushListener
              \/ BeginDispose
              \/ CompleteSubject
              \/ ListenLoopEnds
              \/ DisposeAssembler

StreamSpec == StreamInit /\ [][StreamNext]_allVars

\* The thread pool runs the dataflow blocks whenever they have work, the loop
\* of a closed socket ends, and a thread in Dispose goes on once it may.
Fairness == /\ WF_allVars(Deliver)
            /\ WF_allVars(Work)
            /\ WF_allVars(OnNewFrame)
            /\ WF_allVars(CompleteSubject)
            /\ WF_allVars(ListenLoopEnds)
            /\ WF_allVars(DisposeAssembler)

FairStreamSpec == StreamSpec /\ Fairness

-----------------------------------------------------------------------------
\* Properties.

\* Every variable of the composition holds what its declaration says.
StreamTypeOK == /\ TypeOK
                /\ delivered \subseteq Packets
                /\ {steady, listening, disposing, completed, workerCalls, entered} \subseteq BOOLEAN
                /\ newFrames \in Seq(FrameAccumulator)
                /\ nextFrameIndex \in Nat
                /\ published \in Seq([number : Nat, parts : Seq(Packets)])

\* The listener and the metrics agree: until Dispose, every frame that is counted
\* complete has been handed to the client or is about to be.  Numbers are given
\* out without a gap; once the subject is completed at most one is used up for a
\* frame the client does not get.
PublishedAreCounted ==
    /\ IF disposing THEN nextFrameIndex =< asm.metrics.CompleteFrameCount
                    ELSE nextFrameIndex + Len(newFrames) = asm.metrics.CompleteFrameCount
    /\ nextFrameIndex - Len(published) \in IF completed THEN {0, 1} ELSE {0}

\* Everything that was received has been handled.
Idle == workQueue = <<>> /\ pktProcessor = <<>> /\ ~asm.call.active /\ newFrames = <<>>

\* The datagram p ends a frame of this index that is in progress.
Ends(p, index) == \/ FrameIndex(p) > index
                  \/ FrameIndex(p) < index /\ p.dataOffset = 0

\* Between the frames f and g something came that ends the first of them.
AreToldApart(f, g) == \E p \in delivered : /\ f < p.frame
                                           /\ p.frame < g
                                           /\ Ends(p, Stream[f].index)

\* The assembler can tell f from every other frame that came: where a restarted
\* sonar used the index of f again, the earlier of the two frames was ended by
\* some datagram between them.
IsToldApart(f) ==
    \A q \in delivered :
        FrameIndex(q) = Stream[f].index =>
            \/ q.frame = f
            \/ q.frame < f /\ AreToldApart(q.frame, f)
            \/ f < q.frame /\ AreToldApart(f, q.frame)

\* On a link that only loses datagrams, the loss of one frame's parts never
\* costs the client another frame: a frame all of whose parts arrived is
\* published, also after frames that were lost whole or in part, and also when
\* the sonar restarted and its indexes went back, or came to an index it had
\* used before.  Only when the ack for its last part could not be sent may it
\* still be in progress.  Left out is a frame that meets another of the same
\* index still in progress, with nothing received between them that ends it: the
\* assembler takes the two for one and does lose it.
NothingElseLost ==
    (steady /\ ~disposing /\ Idle) =>
        \A f \in DOMAIN Stream :
            (IsToldApart(f) /\ Stream[f].header /\ AllDelivered(f))
                => \/ \E k \in DOMAIN published : published[k].parts = AllPartsOf(f)
                   \/ asm.currentFrame.fragments = AllPartsOf(f)

\* On such a link the client sees the frames in the order they were sent, and
\* none twice.
PublishedInOrder ==
    steady => \A j, k \in DOMAIN published :
                  j < k => published[j].parts[1].frame < published[k].parts[1].frame

\* What the client is handed is counted, in order, and nothing is handed twice.
PublishedSound == StreamTypeOK /\ PublishedAreCounted /\ PublishedInOrder

\* Although the worker may still be busy with datagrams received before, at most
\* one frame is published after Dispose has begun, the one whose onNewFrame had
\* looked at disposing before, and none once the subject is completed.
SilentAfterDispose ==
    /\ \A n \in 0 .. MaxPackets :
          []((disposing /\ Len(published) = n) => [](Len(published) =< n + 1))
    /\ [][completed => published' = published]_allVars

\* The client of the stream sees frames numbered without a gap, none with a hole
\* or a part of a frame with another index.  A frame with an index of its own is
\* exactly one raw frame; two that share an index after a restart may be spliced.
Accepted == {p \in Packets :
                \/ \E k \in DOMAIN asm.currentFrame.fragments : asm.currentFrame.fragments[k] = p
                \/ \E f \in DOMAIN asm.finished : \E k \in DOMAIN asm.finished[f].fragments :
                       asm.finished[f].fragments[k] = p}

Client == INSTANCE WholeFrames WITH accepted <- Accepted

DeliversWholeFrames == Client!Spec

\* frame_stream.proto on an ack's data_offset: see AckClaimsOnlyReceived.  Here
\* the link does nothing but lose datagrams.
SteadyAcksClaimOnlyReceived == steady => AckClaimsOnlyReceived

\* Dispose comes back, whatever was still queued when it was called.
DisposeReturns == disposing ~> lifetime = "unlinked"

\* Whatever was received is handled in the end, also after Dispose, and also
\* when datagrams before it could not be parsed or have no header.
EverythingHandled == []<>Idle
=============================================================================
