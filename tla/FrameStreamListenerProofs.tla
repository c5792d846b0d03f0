---------------------- MODULE FrameStreamListenerProofs ----------------------
(***************************************************************************)
(* Proofs about the frame assembler, alone and in the frame stream as a    *)
(* whole.  The stream's steps are steps of the assembler, so what is       *)
(* proved of the assembler alone, which comes first, holds of it inside    *)
(* the listener, whatever the link, the client and the conduit do.  The    *)
(* rest follows a datagram through the worker: it may make the assembler   *)
(* hand over the frame in progress before it is taken, and again after,    *)
(* and each frame handed over is given to onNewFrame, which publishes it   *)
(* later or drops it.                                                      *)
(***************************************************************************)
EXTENDS FrameStreamListener, FiniteSetTheorems, FunctionTheorems, TLAPS

-----------------------------------------------------------------------------
\* What every step of the assembler preserves, of what it holds, s.

FramesSound(s) ==
    /\ \A k \in DOMAIN s.finished : IsSound(s.finished[k])
    /\ InProgress(s) => /\ IsSound(s.currentFrame)
                        /\ FrameIndex(s.currentFrame.fragments[1]) = s.currentFrameIndex
                        /\ BytesReceived(s.currentFrame) = s.expectedDataOffset

AckCorrect(s) == (InProgress(s) /\ s.call.ack.frameIndex = s.currentFrameIndex)
                     => s.call.ack.dataOffset = BytesReceived(s.currentFrame)

AcceptedBytes(s) ==
    s.metrics.TotalPacketsAccepted + (IF s.call.acceptedPacket THEN 1 ELSE 0)

ReceivedBytes(s) == s.metrics.TotalReceivedFrameSize + BytesReceived(s.currentFrame)

SoundState(s) == /\ s \in AssemblerType
                 /\ FramesSound(s)
                 /\ AcceptedBytes(s) = ReceivedBytes(s)

-----------------------------------------------------------------------------
\* The functions the worker runs.

\* What a datagram says about itself.
LEMMA PacketFacts ==
    ASSUME NEW p \in Packets
    PROVE  /\ p.frame \in DOMAIN Stream
           /\ p.dataOffset \in Nat
           /\ FrameIndex(p) \in Nat
           /\ TotalDataSize(p) \in Nat \ {0}
           /\ p.dataOffset < TotalDataSize(p)
<1>1. PICK f \in DOMAIN Stream : p \in [frame : {f}, dataOffset : 0 .. Stream[f].size - 1]
  BY DEF Packets
<1>2. Stream[f] \in RawFrame
  BY <1>1, StreamAssumption
<1>3. p.frame = f /\ p.dataOffset \in 0 .. Stream[f].size - 1
  BY <1>1
<1> QED BY <1>1, <1>2, <1>3 DEF RawFrame, FrameIndex, TotalDataSize

LEMMA FrameFacts ==
    ASSUME NEW frame \in FrameAccumulator
    PROVE  /\ BytesReceived(frame) \in Nat \ {0}
           /\ frame # NoFrame
           /\ \A n \in Nat : [frame EXCEPT !.frameIndex = n] \in FrameAccumulator
<1>1. frame.fragments \in Seq(Packets) /\ frame.fragments # <<>>
  BY DEF FrameAccumulator
<1>2. Len(frame.fragments) \in Nat \ {0}
  BY <1>1
<1> QED BY <1>1, <1>2 DEF FrameAccumulator, BytesReceived, NoFrame

LEMMA MetricsOfFinished ==
    ASSUME NEW m \in MetricsType, NEW frame \in FrameAccumulator
    PROVE  /\ WithFinishedFrame(m, frame) \in MetricsType
           /\ WithFinishedFrame(m, frame).TotalPacketsAccepted = m.TotalPacketsAccepted
           /\ WithFinishedFrame(m, frame).TotalReceivedFrameSize
                  = m.TotalReceivedFrameSize + BytesReceived(frame)
<1>1. BytesReceived(frame) \in Nat
  BY FrameFacts
<1>2. frame.totalDataSize \in Nat
  BY DEF FrameAccumulator
<1> DEFINE complete == IF IsComplete(frame) THEN m.CompleteFrameCount + 1
                                             ELSE m.CompleteFrameCount
<1>3. complete \in Nat
  BY DEF MetricsType
<1>4. WithFinishedFrame(m, frame) =
        [m EXCEPT !.ProcessedFrameCount    = m.ProcessedFrameCount + 1,
                  !.CompleteFrameCount     = complete,
                  !.TotalExpectedFrameSize = m.TotalExpectedFrameSize + frame.totalDataSize,
                  !.TotalReceivedFrameSize = m.TotalReceivedFrameSize + BytesReceived(frame)]
  BY Zenon DEF WithFinishedFrame
<1> HIDE DEF complete
<1>5. /\ m.ProcessedFrameCount + 1 \in Nat
      /\ m.TotalExpectedFrameSize + frame.totalDataSize \in Nat
      /\ m.TotalReceivedFrameSize + BytesReceived(frame) \in Nat
  BY <1>1, <1>2 DEF MetricsType
<1>6. WithFinishedFrame(m, frame) \in MetricsType
  BY <1>3, <1>4, <1>5 DEF MetricsType
<1>7. WithFinishedFrame(m, frame).TotalPacketsAccepted = m.TotalPacketsAccepted
  BY <1>4 DEF MetricsType
<1>8. WithFinishedFrame(m, frame).TotalReceivedFrameSize
        = m.TotalReceivedFrameSize + BytesReceived(frame)
  BY <1>4 DEF MetricsType
<1> QED BY <1>6, <1>7, <1>8

LEMMA FinishFrameType ==
    ASSUME NEW s \in AssemblerType, InProgress(s)
    PROVE  FinishFrame(s) \in AssemblerType
<1>1. s.currentFrame \in FrameAccumulator
  BY DEF AssemblerType, InProgress
<1>2. WithFinishedFrame(s.metrics, s.currentFrame) \in MetricsType
  BY <1>1, MetricsOfFinished DEF AssemblerType
<1>3. [s.currentFrame EXCEPT !.frameIndex = s.monotonicFrameIndex] \in FrameAccumulator
  BY <1>1, FrameFacts DEF AssemblerType
<1>4. Append(s.finished, [s.currentFrame EXCEPT !.frameIndex = s.monotonicFrameIndex])
        \in Seq(FrameAccumulator)
  BY <1>3 DEF AssemblerType
<1>5. s.currentFrameIndex + 1 \in Nat \cup {-1}
  BY DEF AssemblerType
<1>6. s.monotonicFrameIndex + 1 \in Nat /\ s.monotonicFrameIndex \in Nat
  BY DEF AssemblerType
<1> DEFINE numbered == [s.currentFrame EXCEPT !.frameIndex = s.monotonicFrameIndex]
<1>7. FinishFrame(s) =
        [s EXCEPT !.currentFrame = NoFrame,
                  !.monotonicFrameIndex = s.monotonicFrameIndex + 1,
                  !.metrics = WithFinishedFrame(s.metrics, s.currentFrame),
                  !.lastFinishedFrameIndex = s.monotonicFrameIndex,
                  !.currentFrameIndex = s.currentFrameIndex + 1,
                  !.finished = Append(s.finished, numbered)]
  BY DEF FinishFrame
<1> QED BY <1>2, <1>4, <1>5, <1>6, <1>7 DEF AssemblerType

\* Flushing hands over the frame in progress and leaves the call alone.
LEMMA FlushSound ==
    ASSUME NEW s, SoundState(s), NEW clear \in BOOLEAN
    PROVE  /\ SoundState(Flush(s, clear))
           /\ ~InProgress(Flush(s, clear))
           /\ Flush(s, clear).call = s.call
<1> USE DEF SoundState
<1>1. CASE ~InProgress(s)
  <2>1. CASE ~clear
    BY <1>1, <2>1 DEF Flush
  <2>2. CASE clear
    <3> DEFINE t == [s EXCEPT !.lastFinishedFrameIndex = -1]
    <3>1. Flush(s, clear) = t
      BY <1>1, <2>2 DEF Flush
    <3>2. /\ t \in AssemblerType
          /\ t.currentFrame = s.currentFrame
          /\ t.finished = s.finished
          /\ t.metrics = s.metrics
          /\ t.call = s.call
      BY DEF AssemblerType
    <3> HIDE DEF t
    <3> QED BY <1>1, <3>1, <3>2 DEF FramesSound, InProgress, AcceptedBytes, ReceivedBytes
  <2> QED BY <2>1, <2>2
<1>2. CASE InProgress(s)
  <2> DEFINE t == FinishFrame(s)
             numbered == [s.currentFrame EXCEPT !.frameIndex = s.monotonicFrameIndex]
  <2>1. s.currentFrame \in FrameAccumulator /\ s.finished \in Seq(FrameAccumulator)
    BY <1>2 DEF AssemblerType, InProgress
  <2>2. t \in AssemblerType
    BY <1>2, FinishFrameType
  <2>3. /\ t.currentFrame = NoFrame
        /\ t.finished = Append(s.finished, numbered)
        /\ t.metrics = WithFinishedFrame(s.metrics, s.currentFrame)
        /\ t.call = s.call
    BY DEF AssemblerType, FinishFrame
  <2>4. /\ numbered.fragments = s.currentFrame.fragments
        /\ numbered.totalDataSize = s.currentFrame.totalDataSize
    BY <2>1 DEF FrameAccumulator
  <2>5. IsSound(numbered)
    BY <1>2, <2>4 DEF FramesSound, IsSound
  <2>6. \A k \in DOMAIN t.finished : IsSound(t.finished[k])
    BY <2>1, <2>3, <2>5 DEF FramesSound
  <2>7. AcceptedBytes(t) = ReceivedBytes(t)
    <3>1. /\ s.metrics \in MetricsType
          /\ BytesReceived(s.currentFrame) \in Nat
          /\ BytesReceived(NoFrame) = 0
      BY <2>1, FrameFacts DEF AssemblerType, BytesReceived, NoFrame
    <3>2. s.metrics.TotalReceivedFrameSize \in Nat
      BY <3>1 DEF MetricsType
    <3>3. AcceptedBytes(t) = AcceptedBytes(s)
      BY <2>1, <2>3, <3>1, MetricsOfFinished DEF AcceptedBytes
    <3>4. ReceivedBytes(t) = ReceivedBytes(s)
      BY <2>1, <2>3, <3>1, <3>2, MetricsOfFinished DEF ReceivedBytes
    <3> QED BY <3>3, <3>4
  <2>8. ~InProgress(t)
    BY <2>3 DEF InProgress
  <2> HIDE DEF t
  <2>9. SoundState(t)
    BY <2>2, <2>6, <2>7, <2>8 DEF FramesSound
  <2>10. CASE ~clear
    BY <1>2, <2>3, <2>8, <2>9, <2>10 DEF Flush, t
  <2>11. CASE clear
    <3> DEFINE u == [t EXCEPT !.lastFinishedFrameIndex = -1]
    <3>1. Flush(s, clear) = u
      BY <1>2, <2>11 DEF Flush, t
    <3>2. /\ u \in AssemblerType
          /\ u.currentFrame = t.currentFrame
          /\ u.finished = t.finished
          /\ u.metrics = t.metrics
          /\ u.call = t.call
      BY <2>2 DEF AssemblerType
    <3> HIDE DEF u
    <3> QED BY <2>3, <2>8, <2>9, <3>1, <3>2
            DEF FramesSound, InProgress, AcceptedBytes, ReceivedBytes
  <2> QED BY <2>10, <2>11
<1> QED BY <1>1, <1>2

LEMMA FrameInProgressHasIndex ==
    ASSUME NEW s, SoundState(s), InProgress(s)
    PROVE  s.currentFrameIndex \in Nat
<1>1. s.currentFrame.fragments[1] \in Packets
  BY DEF SoundState, AssemblerType, InProgress, FrameAccumulator
<1> QED BY <1>1, PacketFacts DEF SoundState, FramesSound

\* A step that leaves the frames alone and moves neither index nor offset under
\* a frame in progress.
LEMMA SameFramesSound ==
    ASSUME NEW s, SoundState(s), NEW t \in AssemblerType,
           t.currentFrame = s.currentFrame, t.finished = s.finished,
           InProgress(s) => /\ t.currentFrameIndex = s.currentFrameIndex
                            /\ t.expectedDataOffset = s.expectedDataOffset,
           AcceptedBytes(t) = AcceptedBytes(s), ReceivedBytes(t) = ReceivedBytes(s)
    PROVE  SoundState(t)
  BY DEF SoundState, FramesSound, InProgress

LEMMA SkipCountSound ==
    ASSUME NEW s, SoundState(s), NEW p \in Packets
    PROVE  LET t == SetSkipCount(s, p)
           IN  /\ SoundState(t)
               /\ t.currentFrame = s.currentFrame
               /\ t.currentFrameIndex = s.currentFrameIndex
               /\ t.call.acceptedPacket = s.call.acceptedPacket
               /\ t.call.active = s.call.active
               /\ t.call.ack = s.call.ack
<1> DEFINE gap == (FrameIndex(p) - s.currentFrameIndex - 1) % UInt64Range
           count == (s.call.skippedFrameCount + gap) % UInt64Range
           call == [s.call EXCEPT !.skippedFrameCount = count]
           t == SetSkipCount(s, p)
<1>1. s \in AssemblerType /\ s.call \in CallType
  BY DEF SoundState, AssemblerType
<1>2. gap \in Nat
  BY <1>1, PacketFacts, BoundsAssumption DEF AssemblerType
<1> HIDE DEF gap
<1>3. count \in Nat
  BY <1>1, <1>2, BoundsAssumption DEF CallType
<1>4. t = [s EXCEPT !.call = call]
  BY <1>1 DEF SetSkipCount, gap, AssemblerType
<1> HIDE DEF count
<1>5. /\ call \in CallType
      /\ call.acceptedPacket = s.call.acceptedPacket
      /\ call.active = s.call.active
      /\ call.ack = s.call.ack
  BY <1>1, <1>3 DEF CallType
<1> HIDE DEF call, t
<1>6. /\ t \in AssemblerType
      /\ t.call = call
      /\ t.currentFrame = s.currentFrame
      /\ t.finished = s.finished
      /\ t.metrics = s.metrics
      /\ t.currentFrameIndex = s.currentFrameIndex
      /\ t.expectedDataOffset = s.expectedDataOffset
  BY <1>1, <1>4, <1>5 DEF AssemblerType
<1>7. AcceptedBytes(t) = AcceptedBytes(s) /\ ReceivedBytes(t) = ReceivedBytes(s)
  BY <1>5, <1>6 DEF AcceptedBytes, ReceivedBytes
<1>8. SoundState(t)
  BY <1>6, <1>7, SameFramesSound
<1> QED BY <1>5, <1>6, <1>8 DEF t

\* Moving on to a newer frame leaves none in progress, the datagram's index the
\* current one, and the call as it was but for the count of skipped frames.
LEMMA AdvancedSound ==
    ASSUME NEW s, SoundState(s), NEW p \in Packets
    PROVE  LET t == OnFrameIndexAdvanced(s, p)
           IN  /\ SoundState(t)
               /\ ~InProgress(t)
               /\ t.currentFrameIndex = FrameIndex(p)
               /\ t.call.acceptedPacket = s.call.acceptedPacket
               /\ t.call.active = s.call.active
               /\ t.call.ack = s.call.ack
<1> DEFINE left == IF s.currentFrameIndex < 0 THEN s
                                              ELSE Flush(SetSkipCount(s, p), FALSE)
           t == OnFrameIndexAdvanced(s, p)
<1>1. s.currentFrameIndex < 0 => ~InProgress(s)
  BY FrameInProgressHasIndex
<1>2. /\ SoundState(left)
      /\ ~InProgress(left)
      /\ left.call.acceptedPacket = s.call.acceptedPacket
      /\ left.call.active = s.call.active
      /\ left.call.ack = s.call.ack
  BY <1>1, SkipCountSound, FlushSound
<1>3. t = [left EXCEPT !.currentFrameIndex = FrameIndex(p), !.expectedDataOffset = 0]
  BY DEF OnFrameIndexAdvanced
<1> HIDE DEF left, t
<1>4. left \in AssemblerType
  BY <1>2 DEF SoundState
<1>5. /\ t \in AssemblerType
      /\ t.currentFrameIndex = FrameIndex(p)
      /\ t.currentFrame = left.currentFrame
      /\ t.finished = left.finished
      /\ t.metrics = left.metrics
      /\ t.call = left.call
  BY <1>3, <1>4, PacketFacts DEF AssemblerType
<1>6. SoundState(t)
  BY <1>2, <1>5, SameFramesSound DEF AcceptedBytes, ReceivedBytes
<1> QED BY <1>2, <1>5, <1>6 DEF t, InProgress

\* So does following a sonar that went back.
LEMMA RetrogradeSound ==
    ASSUME NEW s, SoundState(s), NEW p \in Packets
    PROVE  LET t == OnRetrogradeFrameIndex(s, p)
           IN  /\ SoundState(t)
               /\ ~InProgress(t)
               /\ t.currentFrameIndex = FrameIndex(p)
               /\ t.call = s.call
<1> DEFINE left == Flush(s, TRUE)
           t == OnRetrogradeFrameIndex(s, p)
<1>1. SoundState(left) /\ ~InProgress(left) /\ left.call = s.call
  BY FlushSound
<1>2. t = [left EXCEPT !.currentFrameIndex = FrameIndex(p)]
  BY DEF OnRetrogradeFrameIndex
<1> HIDE DEF left, t
<1>3. left \in AssemblerType
  BY <1>1 DEF SoundState
<1>4. /\ t \in AssemblerType
      /\ t.currentFrameIndex = FrameIndex(p)
      /\ t.currentFrame = left.currentFrame
      /\ t.finished = left.finished
      /\ t.metrics = left.metrics
      /\ t.call = left.call
  BY <1>2, <1>3, PacketFacts DEF AssemblerType
<1>5. SoundState(t)
  BY <1>1, <1>4, SameFramesSound DEF AcceptedBytes, ReceivedBytes
<1> QED BY <1>1, <1>4, <1>5 DEF t, InProgress

\* A run of one frame stays one with the next part of a frame of that index.
LEMMA RunExtended ==
    ASSUME NEW parts \in Seq(Packets), parts # <<>>, IsRunOfOneIndex(parts), NEW p \in Packets,
           p.dataOffset = Len(parts), FrameIndex(p) = FrameIndex(parts[1])
    PROVE  IsRunOfOneIndex(Append(parts, p))
<1> DEFINE longer == Append(parts, p)
<1>1. /\ DOMAIN parts = 1 .. Len(parts)
      /\ DOMAIN longer = 1 .. (Len(parts) + 1)
      /\ Len(parts) \in Nat \ {0}
      /\ \A k \in 1 .. Len(parts) : longer[k] = parts[k]
      /\ longer[Len(parts) + 1] = p
  OBVIOUS
<1> HIDE DEF longer
<1>2. ASSUME NEW k \in 1 .. (Len(parts) + 1)
      PROVE  longer[k].dataOffset = k - 1 /\ FrameIndex(longer[k]) = FrameIndex(longer[1])
  <2>1. longer[1] = parts[1]
    BY <1>1
  <2>2. CASE k \in 1 .. Len(parts)
    BY <1>1, <2>1, <2>2 DEF IsRunOfOneIndex
  <2>3. CASE k = Len(parts) + 1
    BY <1>1, <2>1, <2>3
  <2> QED BY <1>1, <2>2, <2>3
<1> QED BY <1>1, <1>2 DEF IsRunOfOneIndex, longer

\* The next part of the frame in progress extends it.
LEMMA FrameInProgressSound ==
    ASSUME NEW s, SoundState(s), NEW p \in Packets,
           s.currentFrameIndex = FrameIndex(p), ~s.call.acceptedPacket, InProgress(s)
    PROVE  LET t == OnFrameInProgress(s, p)
           IN  /\ SoundState(t)
               /\ InProgress(t)
               /\ t.currentFrameIndex = FrameIndex(p)
               /\ t.call.active = s.call.active
               /\ t.call.ack = s.call.ack
<1>1. CASE p.dataOffset # s.expectedDataOffset
  BY <1>1 DEF OnFrameInProgress
<1>2. CASE p.dataOffset = s.expectedDataOffset
  <2> DEFINE frag == Append(s.currentFrame.fragments, p)
             frame == [s.currentFrame EXCEPT !.fragments = frag]
             call == [s.call EXCEPT !.acceptedPacket = TRUE]
             t == OnFrameInProgress(s, p)
  <2>1. /\ s \in AssemblerType
        /\ s.currentFrame \in FrameAccumulator
        /\ s.call \in CallType
        /\ s.metrics \in MetricsType
        /\ s.expectedDataOffset + 1 \in Nat
        /\ s.expectedDataOffset \in Nat
    BY DEF SoundState, AssemblerType, InProgress
  <2>2. /\ s.currentFrame.fragments \in Seq(Packets)
        /\ s.currentFrame.fragments # <<>>
        /\ BytesReceived(s.currentFrame) = s.expectedDataOffset
        /\ IsSound(s.currentFrame)
        /\ FrameIndex(s.currentFrame.fragments[1]) = s.currentFrameIndex
    BY <2>1 DEF FrameAccumulator, SoundState, FramesSound
  <2>3. /\ frag \in Seq(Packets) \ {<<>>}
        /\ Len(frag) = Len(s.currentFrame.fragments) + 1
        /\ frag[1] = s.currentFrame.fragments[1]
        /\ \A k \in 1 .. Len(s.currentFrame.fragments) : frag[k] = s.currentFrame.fragments[k]
        /\ frag[Len(s.currentFrame.fragments) + 1] = p
    BY <2>2
  <2>4. IsRunOfOneIndex(frag)
    BY <1>2, <2>2, RunExtended DEF IsSound, BytesReceived
  <2> HIDE DEF frag
  <2>5. /\ frame \in FrameAccumulator
        /\ frame.fragments = frag
        /\ frame.totalDataSize = s.currentFrame.totalDataSize
    BY <2>1, <2>3 DEF FrameAccumulator
  <2> HIDE DEF frame
  <2>6. /\ IsSound(frame)
        /\ FrameIndex(frame.fragments[1]) = s.currentFrameIndex
        /\ BytesReceived(frame) = s.expectedDataOffset + 1
    BY <2>2, <2>3, <2>4, <2>5 DEF IsSound, BytesReceived
  <2>7. /\ call \in CallType
        /\ call.acceptedPacket = TRUE
        /\ call.active = s.call.active
        /\ call.ack = s.call.ack
    BY <2>1 DEF CallType
  <2>8. t = [s EXCEPT !.currentFrame = frame, !.expectedDataOffset = s.expectedDataOffset + 1,
                      !.call = call]
    BY <1>2, <2>1 DEF OnFrameInProgress, AssemblerType, frame, frag
  <2> HIDE DEF call, t
  <2>9. /\ t \in AssemblerType
        /\ t.currentFrame = frame
        /\ t.expectedDataOffset = s.expectedDataOffset + 1
        /\ t.currentFrameIndex = s.currentFrameIndex
        /\ t.finished = s.finished
        /\ t.metrics = s.metrics
        /\ t.call = call
    BY <2>1, <2>5, <2>7, <2>8 DEF AssemblerType
  <2>10. FramesSound(t)
    BY <2>6, <2>9 DEF FramesSound, SoundState
  <2>11. AcceptedBytes(t) = ReceivedBytes(t)
    <3>1. /\ s.metrics.TotalPacketsAccepted \in Nat
          /\ s.metrics.TotalReceivedFrameSize \in Nat
      BY <2>1 DEF MetricsType
    <3>2. s.metrics.TotalPacketsAccepted = s.metrics.TotalReceivedFrameSize + s.expectedDataOffset
      BY <2>2, <3>1 DEF SoundState, AcceptedBytes, ReceivedBytes
    <3> QED BY <2>1, <2>6, <2>7, <2>9, <3>1, <3>2 DEF AcceptedBytes, ReceivedBytes
  <2>12. InProgress(t)
    BY <2>5, <2>9, FrameFacts DEF InProgress
  <2> QED BY <2>7, <2>9, <2>10, <2>11, <2>12 DEF SoundState, t
<1> QED BY <1>1, <1>2

\* A first part with a header starts a frame.
LEMMA NoFrameInProgressSound ==
    ASSUME NEW s, SoundState(s), NEW p \in Packets,
           s.currentFrameIndex = FrameIndex(p), ~s.call.acceptedPacket, ~InProgress(s)
    PROVE  LET t == OnNoFrameInProgress(s, p)
           IN  /\ SoundState(t)
               /\ t.currentFrameIndex = FrameIndex(p)
               /\ t.call.active = s.call.active
               /\ t.call.ack = s.call.ack
               /\ p.dataOffset = 0 => t.call.acceptedPacket
<1>1. CASE p.dataOffset # 0
  BY <1>1 DEF OnNoFrameInProgress
<1>2. CASE p.dataOffset = 0
  <2> DEFINE frame == [frameIndex |-> FrameIndex(p), totalDataSize |-> TotalDataSize(p),
                       fragments |-> <<p>>]
             call == [s.call EXCEPT !.acceptedPacket = TRUE]
             t == OnNoFrameInProgress(s, p)
  <2>1. /\ s \in AssemblerType
        /\ s.currentFrame = NoFrame
        /\ s.call \in CallType
        /\ s.metrics \in MetricsType
    BY DEF SoundState, AssemblerType, InProgress
  <2>2. frame \in FrameAccumulator
    BY PacketFacts DEF FrameAccumulator
  <2>3. /\ IsSound(frame)
        /\ FrameIndex(frame.fragments[1]) = s.currentFrameIndex
        /\ BytesReceived(frame) = 1
    BY <1>2 DEF IsSound, IsRunOfOneIndex, BytesReceived
  <2> HIDE DEF frame
  <2>4. /\ call \in CallType
        /\ call.acceptedPacket = TRUE
        /\ call.active = s.call.active
        /\ call.ack = s.call.ack
    BY <2>1 DEF CallType
  <2>5. t = [s EXCEPT !.currentFrame = frame, !.expectedDataOffset = 1, !.call = call]
    BY <1>2, <2>1 DEF OnNoFrameInProgress, AssemblerType, frame
  <2> HIDE DEF call, t
  <2>6. /\ t \in AssemblerType
        /\ t.currentFrame = frame
        /\ t.expectedDataOffset = 1
        /\ t.currentFrameIndex = s.currentFrameIndex
        /\ t.finished = s.finished
        /\ t.metrics = s.metrics
        /\ t.call = call
    BY <2>1, <2>2, <2>4, <2>5 DEF AssemblerType
  <2>7. FramesSound(t)
    BY <2>3, <2>6 DEF FramesSound, SoundState
  <2>8. AcceptedBytes(t) = ReceivedBytes(t)
    <3>1. /\ s.metrics.TotalPacketsAccepted \in Nat
          /\ s.metrics.TotalReceivedFrameSize \in Nat
      BY <2>1 DEF MetricsType
    <3>2. BytesReceived(s.currentFrame) = 0
      BY <2>1 DEF BytesReceived, NoFrame
    <3>3. s.metrics.TotalPacketsAccepted = s.metrics.TotalReceivedFrameSize
      BY <3>1, <3>2 DEF SoundState, AcceptedBytes, ReceivedBytes
    <3> QED BY <2>3, <2>4, <2>6, <3>1, <3>3 DEF AcceptedBytes, ReceivedBytes
  <2> QED BY <2>4, <2>6, <2>7, <2>8 DEF SoundState, t
<1> QED BY <1>1, <1>2

\* A part of the current frame: it is taken if it is the next one, the ack asks
\* for the part after what has been received, and a whole frame is handed over.
LEMMA AcceptPartSound ==
    ASSUME NEW s, SoundState(s), NEW p \in Packets,
           s.currentFrameIndex = FrameIndex(p), ~s.call.acceptedPacket, s.call.ack = NoAck,
           NEW ackSent \in BOOLEAN
    PROVE  LET t == AcceptPart(s, p, ackSent)
           IN  /\ SoundState(t)
               /\ AckCorrect(t)
               /\ t.call.active = s.call.active
               /\ (~InProgress(s) /\ HasHeader(p)) => t.call.acceptedPacket
<1>1. CASE Throws(s, p)
  <2>1. FrameIndex(p) # NoAck.frameIndex
    BY PacketFacts DEF NoAck
  <2> QED BY <1>1, <2>1 DEF AcceptPart, Throws, AckCorrect
<1>2. CASE ~Throws(s, p) /\ ~ackSent
  <2> DEFINE t == TakePart(s, p)
  <2>1. AcceptPart(s, p, ackSent) = t
    BY <1>2 DEF AcceptPart
  <2>2. /\ SoundState(t)
        /\ t.call.active = s.call.active
        /\ t.call.ack = NoAck
        /\ (~InProgress(s) /\ HasHeader(p)) => t.call.acceptedPacket
    BY FrameInProgressSound, NoFrameInProgressSound DEF TakePart, HasHeader
  <2> HIDE DEF t
  <2>3. AckCorrect(t)
    BY <2>2, FrameInProgressHasIndex DEF AckCorrect, NoAck
  <2> QED BY <2>1, <2>2, <2>3
<1>3. CASE ~Throws(s, p) /\ ackSent
  <2> DEFINE taken == TakePart(s, p)
             ack == [frameIndex |-> FrameIndex(p), dataOffset |-> taken.expectedDataOffset]
             call == [taken.call EXCEPT !.ack = ack]
             acked == AcknowledgePart(taken, p)
             t == AcceptPart(s, p, ackSent)
  <2>1. /\ SoundState(taken)
        /\ taken.currentFrameIndex = FrameIndex(p)
        /\ taken.call.active = s.call.active
        /\ (~InProgress(s) /\ HasHeader(p)) => taken.call.acceptedPacket
    BY FrameInProgressSound, NoFrameInProgressSound DEF TakePart, HasHeader
  <2> HIDE DEF taken
  <2>2. taken \in AssemblerType /\ taken.call \in CallType
    BY <2>1 DEF SoundState, AssemblerType
  <2>3. taken.expectedDataOffset \in Nat
    BY <2>2 DEF AssemblerType
  <2>4. ack \in AckType
    BY <2>3, PacketFacts DEF AckType
  <2>5. acked = [taken EXCEPT !.call = call]
    BY <2>2 DEF AcknowledgePart, AssemblerType
  <2>6. /\ ack.frameIndex = FrameIndex(p)
        /\ ack.dataOffset = taken.expectedDataOffset
    OBVIOUS
  <2> HIDE DEF ack
  <2>7. /\ call \in CallType
        /\ call.ack = ack
        /\ call.acceptedPacket = taken.call.acceptedPacket
        /\ call.active = taken.call.active
    BY <2>2, <2>4 DEF CallType
  <2> HIDE DEF call, acked, t
  <2>8. /\ acked \in AssemblerType
        /\ acked.currentFrame = taken.currentFrame
        /\ acked.finished = taken.finished
        /\ acked.metrics = taken.metrics
        /\ acked.currentFrameIndex = taken.currentFrameIndex
        /\ acked.expectedDataOffset = taken.expectedDataOffset
        /\ acked.call = call
    BY <2>2, <2>5, <2>7 DEF AssemblerType
  <2>9. SoundState(acked)
    BY <2>1, <2>7, <2>8, SameFramesSound DEF AcceptedBytes, ReceivedBytes
  <2>10. AckCorrect(acked)
    BY <2>6, <2>7, <2>8, <2>9 DEF AckCorrect, SoundState, FramesSound
  <2>11. t = IF acked.expectedDataOffset = TotalDataSize(p) THEN Flush(acked, FALSE) ELSE acked
    BY <1>3 DEF AcceptPart, FlushIfWhole, taken, acked, t
  <2>12. /\ SoundState(t)
         /\ AckCorrect(t)
         /\ t.call = acked.call
    BY <2>9, <2>10, <2>11, FlushSound DEF AckCorrect
  <2> QED BY <2>1, <2>7, <2>8, <2>12 DEF t
<1> QED BY <1>1, <1>2, <1>3

\* receivePacket up to the end of its lock.
LEMMA ReceivePacketSound ==
    ASSUME NEW s, SoundState(s), ~s.call.acceptedPacket, NEW datagram \in Datagrams,
           NEW ackSent \in BOOLEAN
    PROVE  LET t == ReceivePacket(s, datagram, ackSent)
           IN  /\ SoundState(t)
               /\ AckCorrect(t)
               /\ t.call.active
               /\ (/\ datagram \in Packets
                   /\ HasHeader(datagram)
                   /\ InProgress(s) => s.currentFrameIndex # FrameIndex(datagram))
                      => t.call.acceptedPacket
<1> DEFINE begun == Begun(s, datagram # Garbage)
           call == [NoCall EXCEPT !.active = TRUE, !.parsedOkay = datagram # Garbage]
<1>1. /\ call \in CallType
      /\ call.active = TRUE
      /\ call.acceptedPacket = FALSE
      /\ call.ack = NoAck
  BY DEF NoCall, CallType, AckType
<1>2. begun = [s EXCEPT !.call = call]
  BY DEF Begun
<1> HIDE DEF call, begun
<1>3. s \in AssemblerType
  BY DEF SoundState
<1>4. /\ begun \in AssemblerType
      /\ begun.currentFrame = s.currentFrame
      /\ begun.finished = s.finished
      /\ begun.metrics = s.metrics
      /\ begun.currentFrameIndex = s.currentFrameIndex
      /\ begun.expectedDataOffset = s.expectedDataOffset
      /\ begun.call = call
  BY <1>1, <1>2, <1>3 DEF AssemblerType
<1>5. SoundState(begun)
  BY <1>1, <1>4, SameFramesSound DEF AcceptedBytes, ReceivedBytes
<1>6. AckCorrect(begun)
  <2>1. InProgress(begun) => begun.currentFrameIndex # -1
    BY <1>5, FrameInProgressHasIndex
  <2> QED BY <1>1, <1>4, <2>1 DEF AckCorrect, NoAck
<1>7. CASE datagram = Garbage
  <2>1. ReceivePacket(s, datagram, ackSent) = begun
    BY <1>7 DEF ReceivePacket, begun
  <2>2. datagram \notin Packets
    <3>1. Garbage.frame \notin DOMAIN Stream
      BY StreamAssumption DEF Garbage
    <3> QED BY <1>7, <3>1, PacketFacts
  <2> QED BY <1>1, <1>4, <1>5, <1>6, <2>1, <2>2
<1>8. CASE datagram # Garbage
  <2> DEFINE p == datagram
             t == ReceivePart(begun, p, ackSent)
  <2>1. p \in Packets
    BY <1>8 DEF Datagrams
  <2>2. ReceivePacket(s, datagram, ackSent) = t
    BY <1>8 DEF ReceivePacket, begun
  <2>3. CASE FrameIndex(p) > begun.currentFrameIndex
    <3>1. t = AcceptPart(OnFrameIndexAdvanced(begun, p), p, ackSent)
      BY <2>3 DEF ReceivePart
    <3> QED BY <1>1, <1>4, <1>5, <2>1, <2>2, <3>1, AdvancedSound, AcceptPartSound
  <2>4. CASE ~(FrameIndex(p) > begun.currentFrameIndex) /\ TurnsAway(begun, p)
    <3>1. t = SetSkipCount(begun, p)
      BY <2>4 DEF ReceivePart
    <3>2. ~HasHeader(p)
      BY <2>4 DEF TurnsAway, HasHeader
    <3> QED BY <1>1, <1>4, <1>5, <1>6, <2>1, <2>2, <3>1, <3>2, SkipCountSound
            DEF AckCorrect, InProgress
  <2>5. CASE /\ ~(FrameIndex(p) > begun.currentFrameIndex)
             /\ ~TurnsAway(begun, p)
             /\ FrameIndex(p) < begun.currentFrameIndex
    <3>1. t = AcceptPart(OnRetrogradeFrameIndex(begun, p), p, ackSent)
      BY <2>5 DEF ReceivePart
    <3> QED BY <1>1, <1>4, <1>5, <2>1, <2>2, <3>1, RetrogradeSound, AcceptPartSound
  <2>6. CASE /\ ~(FrameIndex(p) > begun.currentFrameIndex)
             /\ ~TurnsAway(begun, p)
             /\ ~(FrameIndex(p) < begun.currentFrameIndex)
    <3>1. t = AcceptPart(begun, p, ackSent)
      BY <2>6 DEF ReceivePart
    <3>2. begun.currentFrameIndex = FrameIndex(p)
      BY <1>4, <2>1, <2>6, PacketFacts DEF AssemblerType
    <3> QED BY <1>1, <1>4, <1>5, <2>1, <2>2, <3>1, <3>2, AcceptPartSound DEF InProgress
  <2> QED BY <2>3, <2>4, <2>5, <2>6
<1> QED BY <1>7, <1>8

\* The finally block of receivePacket.
LEMMA PacketCountedSound ==
    ASSUME NEW s, SoundState(s)
    PROVE  LET t == WithPacketCounted(s)
           IN  SoundState(t) /\ AckCorrect(t) /\ ~t.call.acceptedPacket
<1> DEFINE m == s.metrics
           call == s.call
           skipped == (m.SkippedFrameCount + call.skippedFrameCount) % UInt64Range
           accepted == IF call.acceptedPacket THEN m.TotalPacketsAccepted + 1
                                              ELSE m.TotalPacketsAccepted
           unparsable == IF call.parsedOkay THEN m.UnparsablePackets ELSE m.UnparsablePackets + 1
           counted == WithPacketAdded(m, call)
           t == WithPacketCounted(s)
<1>1. s \in AssemblerType /\ m \in MetricsType /\ call \in CallType
  BY DEF SoundState, AssemblerType
<1>2. /\ skipped \in Nat
      /\ m.TotalPacketsReceived + 1 \in Nat
      /\ accepted \in Nat
      /\ unparsable \in Nat
  <2>1. m.SkippedFrameCount \in Nat /\ call.skippedFrameCount \in Nat
    BY <1>1 DEF MetricsType, CallType
  <2>2. skipped \in Nat
    BY <2>1, BoundsAssumption
  <2>3. /\ m.TotalPacketsReceived \in Nat
        /\ m.TotalPacketsAccepted \in Nat
        /\ m.UnparsablePackets \in Nat
    BY <1>1 DEF MetricsType
  <2> QED BY <2>2, <2>3
<1>3. t = [s EXCEPT !.call = NoCall, !.metrics = counted]
  BY DEF WithPacketCounted
<1>4. NoCall \in CallType
  BY DEF NoCall, CallType, AckType
<1> HIDE DEF skipped, accepted, unparsable, t
<1>5. /\ counted \in MetricsType
      /\ counted.TotalPacketsAccepted = accepted
      /\ counted.TotalReceivedFrameSize = m.TotalReceivedFrameSize
  <2>1. counted = [m EXCEPT !.SkippedFrameCount    = skipped,
                            !.TotalPacketsReceived = m.TotalPacketsReceived + 1,
                            !.TotalPacketsAccepted = accepted,
                            !.UnparsablePackets    = unparsable]
    BY DEF WithPacketAdded, skipped, accepted, unparsable
  <2> QED BY <1>1, <1>2, <2>1 DEF MetricsType
<1> HIDE DEF counted
<1>6. /\ t \in AssemblerType
      /\ t.currentFrame = s.currentFrame
      /\ t.finished = s.finished
      /\ t.currentFrameIndex = s.currentFrameIndex
      /\ t.expectedDataOffset = s.expectedDataOffset
      /\ t.metrics = counted
      /\ t.call = NoCall
  BY <1>1, <1>3, <1>4, <1>5 DEF AssemblerType
<1>7. AcceptedBytes(t) = AcceptedBytes(s)
  <2>1. m.TotalPacketsAccepted \in Nat
    BY <1>1 DEF MetricsType
  <2> QED BY <1>5, <1>6, <2>1 DEF AcceptedBytes, NoCall, accepted
<1>8. ReceivedBytes(t) = ReceivedBytes(s)
  BY <1>5, <1>6 DEF ReceivedBytes
<1>9. SoundState(t)
  BY <1>6, <1>7, <1>8, SameFramesSound
<1>10. AckCorrect(t)
  BY <1>6, <1>9, FrameInProgressHasIndex DEF AckCorrect, NoCall, NoAck
<1> QED BY <1>6, <1>9, <1>10 DEF t, NoCall

-----------------------------------------------------------------------------
\* The queues.

LEMMA PacketsInType ==
    ASSUME NEW queue \in Seq(WorkUnit)
    PROVE  PacketsIn(queue) \in Nat
<1>1. /\ IsFiniteSet(1 .. Len(queue))
      /\ {k \in DOMAIN queue : IsPacket(queue[k])} \subseteq 1 .. Len(queue)
  BY FS_Interval
<1> QED BY <1>1, FS_Subset, FS_CardinalityType DEF PacketsIn

-----------------------------------------------------------------------------
\* The inductive invariant: the type, what every function preserves, and that
\* nothing is left over from the call before when a call begins.

IInv == /\ TypeOK
        /\ SoundState(asm)
        /\ AckCorrect(asm)
        /\ ~asm.call.active => ~asm.call.acceptedPacket

LEMMA InitIInv == Init => IInv
<1> SUFFICES ASSUME Init PROVE IInv
  OBVIOUS
<1>1. EmptyMetrics \in MetricsType
  BY DEF EmptyMetrics, MetricsType
<1>2. NoCall \in CallType
  BY DEF NoCall, CallType, AckType
<1>3. asm \in AssemblerType
  BY <1>1, <1>2 DEF Init, AssemblerType
<1>4. /\ asm.currentFrame = NoFrame
      /\ asm.finished = <<>>
      /\ asm.metrics = EmptyMetrics
      /\ asm.call = NoCall
  BY DEF Init
<1>5. FramesSound(asm)
  BY <1>4 DEF FramesSound, InProgress
<1>6. AcceptedBytes(asm) = ReceivedBytes(asm)
  BY <1>4 DEF AcceptedBytes, ReceivedBytes, EmptyMetrics, NoCall, BytesReceived, NoFrame
<1>7. AckCorrect(asm)
  BY <1>4 DEF AckCorrect, InProgress
<1> QED BY <1>3, <1>4, <1>5, <1>6, <1>7 DEF IInv, TypeOK, SoundState, Init, NoCall

LEMMA NextIInv == IInv /\ [Next]_vars => IInv'
<1> SUFFICES ASSUME IInv, [Next]_vars PROVE IInv'
  OBVIOUS
<1> USE DEF IInv
<1>1. ASSUME NEW datagram \in Datagrams, ProcessPacket(datagram) PROVE IInv'
  <2>1. [kind |-> "Packet", packet |-> datagram] \in WorkUnit
    BY DEF WorkUnit
  <2>2. workQueue' \in Seq(WorkUnit)
    BY <1>1, <2>1 DEF ProcessPacket, TypeOK
  <2> QED BY <1>1, <2>2 DEF ProcessPacket, TypeOK
<1>2. CASE DrainAsync
  <2>1. PostedPackets \in Nat
    <3>1. PacketsIn(workQueue) \in Nat /\ PacketsIn(pktProcessor) \in Nat
      BY PacketsInType DEF TypeOK
    <3>2. asm.metrics.TotalPacketsReceived \in Nat
      BY DEF TypeOK, AssemblerType, MetricsType
    <3> QED BY <3>1, <3>2 DEF PostedPackets
  <2>2. [kind |-> "Drain", posted |-> PostedPackets] \in WorkUnit
    BY <2>1 DEF WorkUnit
  <2>3. workQueue' \in Seq(WorkUnit)
    BY <1>2, <2>2 DEF DrainAsync, TypeOK
  <2> QED BY <1>2, <2>3 DEF DrainAsync, TypeOK
<1>3. CASE LinkDelivers
  <2>1. workQueue' \in Seq(WorkUnit) /\ pktProcessor' \in Seq(WorkUnit)
    BY <1>3 DEF LinkDelivers, TypeOK
  <2> QED BY <1>3, <2>1 DEF LinkDelivers, TypeOK
<1>4. CASE ProcessWorkUnitPacket
  <2>1. Head(pktProcessor).packet \in Datagrams
    BY <1>4 DEF ProcessWorkUnitPacket, TypeOK, WorkUnit, IsPacket
  <2>2. SoundState(asm') /\ AckCorrect(asm') /\ asm'.call.active
    BY <1>4, <2>1, ReceivePacketSound DEF ProcessWorkUnitPacket
  <2>3. pktProcessor' \in Seq(WorkUnit)
    BY <1>4 DEF ProcessWorkUnitPacket, TypeOK
  <2> QED BY <1>4, <2>2, <2>3 DEF ProcessWorkUnitPacket, TypeOK, SoundState
<1>5. CASE UpdateMetrics
  BY <1>5, PacketCountedSound DEF UpdateMetrics, TypeOK, SoundState
<1>6. CASE ProcessWorkUnitDrain
  <2>1. pktProcessor' \in Seq(WorkUnit)
    BY <1>6 DEF ProcessWorkUnitDrain, TypeOK
  <2> QED BY <1>6, <2>1 DEF ProcessWorkUnitDrain, TypeOK
<1>7. CASE FlushMember
  <2>1. SoundState(asm') /\ ~InProgress(asm') /\ asm'.call = asm.call
    BY <1>7, FlushSound DEF FlushMember
  <2> QED BY <1>7, <2>1 DEF FlushMember, TypeOK, SoundState, AckCorrect
<1>8. CASE DisposeCompletesQueue
  BY <1>8 DEF DisposeCompletesQueue, TypeOK
<1>9. CASE DisposeDropsLink
  BY <1>9 DEF DisposeDropsLink, TypeOK
<1>10. CASE UNCHANGED vars
  BY <1>10 DEF vars, TypeOK
<1> QED BY <1>1, <1>2, <1>3, <1>4, <1>5, <1>6, <1>7, <1>8, <1>9, <1>10 DEF Next, Worker

LEMMA SpecIInv == Spec => []IInv
  BY InitIInv, NextIInv, PTL DEF Spec

-----------------------------------------------------------------------------

\* Every variable of the assembler always holds what its declaration says.
THEOREM TypeCorrect == Spec => []TypeOK
  BY SpecIInv, PTL DEF IInv

\* Whatever datagrams come in whatever order, and whenever another thread
\* flushes, no finished frame has a hole or a part of a frame with another
\* index.
THEOREM FramesAreSound == Spec => []FinishedFramesAreSound
<1>1. IInv => FinishedFramesAreSound
  BY DEF IInv, SoundState, FramesSound, FinishedFramesAreSound
<1> QED BY <1>1, SpecIInv, PTL

\* The offset expected next is always what has been received of the current
\* frame.
THEOREM InProgressStaysCurrent == Spec => []InProgressIsCurrent
<1>1. IInv => InProgressIsCurrent
  BY DEF IInv, SoundState, FramesSound, InProgressIsCurrent
<1> QED BY <1>1, SpecIInv, PTL

\* So the assembler is sound as a whole.
THEOREM AssemblerStaysSound == Spec => []AssemblerSound
  BY TypeCorrect, FramesAreSound, InProgressStaysCurrent, PTL DEF AssemblerSound

\* The metrics and the frames never disagree on what was received.
THEOREM BytesAccounted == Spec => []AcceptedBytesAccounted
<1>1. IInv => AcceptedBytesAccounted
  BY DEF IInv, SoundState, AcceptedBytes, ReceivedBytes, AcceptedBytesAccounted
<1> QED BY <1>1, SpecIInv, PTL

\* An ack for the frame in progress asks for the part after the last received.
THEOREM AcksAskForNextPart == Spec => []AckAsksForNextPart
<1>1. IInv => AckAsksForNextPart
  BY DEF IInv, AckCorrect, AckAsksForNextPart
<1> QED BY <1>1, SpecIInv, PTL

\* A first part is taken at once, however old or new its index, so a restarted
\* sonar is followed with the first frame it sends.
THEOREM FirstPartsResync == Spec => FirstPartResyncs
<1> DEFINE Begins(p) == /\ ~asm.call.active /\ asm'.call.active
                        /\ Head(pktProcessor) = [kind |-> "Packet", packet |-> p]
                        /\ HasHeader(p)
                        /\ InProgress(asm) => asm.currentFrameIndex # FrameIndex(p)
<1>1. ASSUME IInv, [Next]_vars, NEW p \in Packets, Begins(p)
      PROVE  asm'.call.acceptedPacket
  <2>1. CASE ProcessWorkUnitPacket
    <3>1. Head(pktProcessor).packet = p /\ p \in Datagrams
      BY <1>1 DEF Datagrams
    <3>2. PICK ackSent \in BOOLEAN : asm' = ReceivePacket(asm, p, ackSent)
      BY <2>1, <3>1 DEF ProcessWorkUnitPacket
    <3>3. SoundState(asm) /\ ~asm.call.acceptedPacket
      BY <1>1 DEF IInv
    <3> QED BY <1>1, <3>1, <3>2, <3>3, ReceivePacketSound
  <2>2. CASE UpdateMetrics
    BY <1>1, <2>2 DEF UpdateMetrics
  <2>3. CASE FlushMember
    <3>1. asm'.call = asm.call
      BY <1>1, <2>3, FlushSound DEF FlushMember, IInv
    <3> QED BY <1>1, <3>1
  <2>4. CASE asm' = asm
    BY <1>1, <2>4
  <2>5. CASE ~ProcessWorkUnitPacket /\ ~UpdateMetrics /\ ~FlushMember
    <3>1. asm' = asm
      BY <1>1, <2>5 DEF Next, Worker, ProcessPacket, DrainAsync, LinkDelivers,
            ProcessWorkUnitDrain, DisposeCompletesQueue, DisposeDropsLink, vars
    <3> QED BY <2>4, <3>1
  <2> QED BY <2>1, <2>2, <2>3, <2>5
<1>2. IInv /\ [Next]_vars => [\A p \in Packets : Begins(p) => asm'.call.acceptedPacket]_vars
  BY <1>1
<1>3. [][\A p \in Packets : Begins(p) => asm'.call.acceptedPacket]_vars => FirstPartResyncs
  BY PTL DEF FirstPartResyncs
<1> QED BY <1>2, <1>3, SpecIInv, PTL DEF Spec

-----------------------------------------------------------------------------
\* Drains.  How many datagrams are ahead of a place in a queue.

PacketsBefore(queue, k) == {j \in DOMAIN queue : j < k /\ IsPacket(queue[j])}

Ahead(queue, k) == Cardinality(PacketsBefore(queue, k))

LEMMA AheadType ==
    ASSUME NEW queue \in Seq(WorkUnit), NEW k \in Int
    PROVE  /\ Ahead(queue, k) \in Nat /\ IsFiniteSet(PacketsBefore(queue, k))
           /\ k <= 1 => Ahead(queue, k) = 0
           /\ k > Len(queue) => Ahead(queue, k) = PacketsIn(queue)
<1>1. Len(queue) \in Nat /\ DOMAIN queue = 1 .. Len(queue)
  OBVIOUS
<1>2. IsFiniteSet(PacketsBefore(queue, k))
  <2>1. IsFiniteSet(1 .. Len(queue))
    BY <1>1, FS_Interval
  <2>2. PacketsBefore(queue, k) \subseteq 1 .. Len(queue)
    BY <1>1 DEF PacketsBefore
  <2> QED BY <2>1, <2>2, FS_Subset
<1>3. k <= 1 => PacketsBefore(queue, k) = {}
  BY <1>1 DEF PacketsBefore
<1>4. k > Len(queue) => PacketsBefore(queue, k) = {j \in DOMAIN queue : IsPacket(queue[j])}
  BY <1>1 DEF PacketsBefore
<1> QED BY <1>2, <1>3, <1>4, FS_CardinalityType, FS_EmptySet DEF Ahead, PacketsIn

LEMMA AheadInAppended ==
    ASSUME NEW queue \in Seq(WorkUnit), NEW unit \in WorkUnit
    PROVE  LET q == Append(queue, unit) n == Len(queue) IN
           /\ \A k \in 1 .. n + 1 : Ahead(q, k) = Ahead(queue, k)
           /\ PacketsIn(q) = PacketsIn(queue) + (IF IsPacket(unit) THEN 1 ELSE 0)
<1> DEFINE q == Append(queue, unit)
           n == Len(queue)
<1>1. /\ n \in Nat /\ DOMAIN queue = 1 .. n /\ DOMAIN q = 1 .. n + 1
      /\ q[n + 1] = unit /\ \A j \in 1 .. n : q[j] = queue[j]
  OBVIOUS
<1> HIDE DEF q, n
<1>2. ASSUME NEW k \in 1 .. n + 1 PROVE Ahead(q, k) = Ahead(queue, k)
  <2>1. \A j \in 1 .. n + 1 : j < k => j \in 1 .. n
    BY <1>1
  <2>2. \A j \in 1 .. n : j \in 1 .. n + 1
    BY <1>1
  <2>3. PacketsBefore(q, k) = PacketsBefore(queue, k)
    BY <1>1, <2>1, <2>2 DEF PacketsBefore
  <2> QED BY <2>3 DEF Ahead
<1>3. PacketsIn(q) = PacketsIn(queue) + (IF IsPacket(unit) THEN 1 ELSE 0)
  <2> DEFINE P == {j \in DOMAIN queue : IsPacket(queue[j])}
             Q == {j \in DOMAIN q : IsPacket(q[j])}
  <2>1. /\ n + 1 \notin 1 .. n /\ n + 1 \in 1 .. n + 1
        /\ \A j \in 1 .. n : j \in 1 .. n + 1
        /\ \A j \in 1 .. n + 1 : j \in 1 .. n \/ j = n + 1
    BY <1>1
  <2>2. Q = IF IsPacket(unit) THEN P \cup {n + 1} ELSE P
    BY <1>1, <2>1
  <2>3. n + 1 \notin P
    BY <1>1, <2>1
  <2>4. IsFiniteSet(P)
    <3>1. IsFiniteSet(1 .. n) /\ P \subseteq 1 .. n
      BY <1>1, FS_Interval
    <3> QED BY <3>1, FS_Subset
  <2>5. PacketsIn(q) = Cardinality(Q) /\ PacketsIn(queue) = Cardinality(P)
    BY DEF PacketsIn
  <2>6. Cardinality(P \cup {n + 1}) = Cardinality(P) + 1 /\ Cardinality(P) \in Nat
    BY <2>3, <2>4, FS_AddElement, FS_CardinalityType
  <2> HIDE DEF P, Q
  <2> QED BY <2>2, <2>5, <2>6
<1> QED BY <1>2, <1>3 DEF q, n

LEMMA AheadInTail ==
    ASSUME NEW queue \in Seq(WorkUnit), queue # <<>>, NEW k \in 1 .. Len(queue)
    PROVE  Ahead(queue, k + 1) = Ahead(Tail(queue), k) + (IF IsPacket(Head(queue)) THEN 1 ELSE 0)
<1> DEFINE q == Tail(queue)
           n == Len(queue)
           P == PacketsBefore(queue, k + 1)
           Q == PacketsBefore(q, k)
           shift == [j \in Q |-> j + 1]
<1>1. /\ n \in Nat /\ n >= 1 /\ k \in 1 .. n /\ DOMAIN queue = 1 .. n /\ DOMAIN q = 1 .. n - 1
      /\ Head(queue) = queue[1] /\ \A j \in 1 .. n - 1 : q[j] = queue[j + 1]
  <2>1. n \in Nat /\ n >= 1
    OBVIOUS
  <2> QED BY <2>1
<1> HIDE DEF q, n
<1>2. Q = {j \in 1 .. n - 1 : j < k /\ IsPacket(queue[j + 1])}
  BY <1>1 DEF PacketsBefore
<1>3. P = {j \in 1 .. n : j < k + 1 /\ IsPacket(queue[j])}
  BY <1>1 DEF PacketsBefore
<1> HIDE DEF P, Q
<1>4. shift \in Bijection(Q, P \ {1})
  <2>1. \A j \in Q : j \in Int /\ j + 1 \in P \ {1}
    BY <1>1, <1>2, <1>3
  <2>2. shift \in [Q -> P \ {1}]
    BY <2>1
  <2>3. \A i, j \in Q : shift[i] = shift[j] => i = j
    BY <2>1
  <2>4. \A j \in P \ {1} : \E i \in Q : shift[i] = j
    <3> SUFFICES ASSUME NEW j \in P \ {1} PROVE \E i \in Q : shift[i] = j
      OBVIOUS
    <3>1. j - 1 \in 1 .. n - 1 /\ j - 1 < k /\ (j - 1) + 1 = j /\ IsPacket(queue[j])
      BY <1>1, <1>3
    <3>2. j - 1 \in Q
      BY <1>2, <3>1
    <3> QED BY <3>1, <3>2
  <2> QED BY <2>2, <2>3, <2>4, Fun_IsBij
<1>5. IsFiniteSet(Q) /\ IsFiniteSet(P)
  <2>1. IsFiniteSet(1 .. n) /\ IsFiniteSet(1 .. n - 1)
    BY <1>1, FS_Interval
  <2>2. Q \subseteq 1 .. n - 1 /\ P \subseteq 1 .. n
    BY <1>2, <1>3
  <2> QED BY <2>1, <2>2, FS_Subset
<1>6. Cardinality(P \ {1}) = Cardinality(Q)
  BY <1>4, <1>5, FS_Bijection DEF ExistsBijection
<1>7. Cardinality(P \ {1}) = (IF 1 \in P THEN Cardinality(P) - 1 ELSE Cardinality(P))
      /\ Cardinality(P) \in Nat /\ Cardinality(Q) \in Nat
  BY <1>5, FS_RemoveElement, FS_CardinalityType
<1>8. 1 \in P <=> IsPacket(Head(queue))
  BY <1>1, <1>3
<1>9. Cardinality(P) = Cardinality(Q) + (IF IsPacket(Head(queue)) THEN 1 ELSE 0)
  BY <1>6, <1>7, <1>8
<1> QED BY <1>9 DEF Ahead, P, Q, q

\* Only the finally block of receivePacket counts a datagram as received.
Received(s) == s.metrics.TotalPacketsReceived

LEMMA FlushLeavesReceived ==
    ASSUME NEW s \in AssemblerType, NEW clear \in BOOLEAN
    PROVE  Received(Flush(s, clear)) = Received(s)
<1> DEFINE flushed == IF InProgress(s) THEN FinishFrame(s) ELSE s
<1>1. flushed \in AssemblerType
  BY FinishFrameType
<1>2. Received(flushed) = Received(s)
  <2>1. CASE InProgress(s)
    <3>1. s.metrics \in MetricsType
      BY DEF AssemblerType
    <3>2. WithFinishedFrame(s.metrics, s.currentFrame).TotalPacketsReceived
            = s.metrics.TotalPacketsReceived
      BY <3>1 DEF WithFinishedFrame, MetricsType
    <3>3. FinishFrame(s).metrics = WithFinishedFrame(s.metrics, s.currentFrame)
      BY DEF FinishFrame, AssemblerType
    <3> QED BY <2>1, <3>2, <3>3 DEF Received
  <2> QED BY <2>1
<1>3. Flush(s, clear) = IF clear THEN [flushed EXCEPT !.lastFinishedFrameIndex = -1] ELSE flushed
  BY DEF Flush
<1> HIDE DEF flushed
<1>4. [flushed EXCEPT !.lastFinishedFrameIndex = -1].metrics = flushed.metrics
  BY <1>1 DEF AssemblerType
<1> QED BY <1>2, <1>3, <1>4 DEF Received

LEMMA AdvancedLeavesReceived ==
    ASSUME NEW s, SoundState(s), NEW p \in Packets
    PROVE  /\ Received(SetSkipCount(s, p)) = Received(s)
           /\ Received(OnFrameIndexAdvanced(s, p)) = Received(s)
           /\ Received(OnRetrogradeFrameIndex(s, p)) = Received(s)
<1> DEFINE skipped == SetSkipCount(s, p)
           left == IF s.currentFrameIndex < 0 THEN s ELSE Flush(skipped, FALSE)
           back == Flush(s, TRUE)
<1>1. s \in AssemblerType /\ skipped \in AssemblerType
  BY SkipCountSound DEF SoundState
<1>2. Received(skipped) = Received(s)
  BY <1>1 DEF SetSkipCount, Received, AssemblerType
<1>3. left \in AssemblerType /\ back \in AssemblerType
  <2>1. SoundState(skipped)
    BY SkipCountSound
  <2>2. SoundState(Flush(skipped, FALSE)) /\ SoundState(back)
    BY <2>1, FlushSound
  <2> QED BY <1>1, <2>2 DEF SoundState
<1>4. Received(left) = Received(s) /\ Received(back) = Received(s)
  BY <1>1, <1>2, FlushLeavesReceived
<1>5. OnFrameIndexAdvanced(s, p)
        = [left EXCEPT !.currentFrameIndex = FrameIndex(p), !.expectedDataOffset = 0]
  BY DEF OnFrameIndexAdvanced
<1>6. OnRetrogradeFrameIndex(s, p) = [back EXCEPT !.currentFrameIndex = FrameIndex(p)]
  BY DEF OnRetrogradeFrameIndex
<1> HIDE DEF left, back, skipped
<1>7. /\ [left EXCEPT !.currentFrameIndex = FrameIndex(p), !.expectedDataOffset = 0].metrics
           = left.metrics
      /\ [back EXCEPT !.currentFrameIndex = FrameIndex(p)].metrics = back.metrics
  BY <1>3 DEF AssemblerType
<1> QED BY <1>2, <1>4, <1>5, <1>6, <1>7 DEF Received, skipped

LEMMA AcceptPartLeavesReceived ==
    ASSUME NEW s, SoundState(s), NEW p \in Packets, NEW ackSent \in BOOLEAN,
           s.currentFrameIndex = FrameIndex(p), ~s.call.acceptedPacket
    PROVE  Received(AcceptPart(s, p, ackSent)) = Received(s)
<1> DEFINE t == TakePart(s, p)
           u == AcknowledgePart(t, p)
<1>1. SoundState(t)
  BY FrameInProgressSound, NoFrameInProgressSound DEF TakePart
<1>2. Received(t) = Received(s)
  BY DEF TakePart, OnFrameInProgress, OnNoFrameInProgress, SoundState, AssemblerType, Received
<1> HIDE DEF t
<1>3. t \in AssemblerType
  BY <1>1 DEF SoundState
<1>4. u \in AssemblerType /\ Received(u) = Received(t)
  <2> DEFINE ack == [frameIndex |-> FrameIndex(p), dataOffset |-> t.expectedDataOffset]
             call == [t.call EXCEPT !.ack = ack]
  <2>1. ack \in AckType
    BY <1>3, PacketFacts DEF AssemblerType, AckType
  <2>2. t.call \in CallType
    BY <1>3 DEF AssemblerType
  <2>3. call \in CallType
    BY <2>1, <2>2 DEF CallType
  <2>4. u = [t EXCEPT !.call = call]
    BY DEF AcknowledgePart
  <2> HIDE DEF call
  <2> QED BY <1>3, <2>3, <2>4 DEF AssemblerType, Received
<1> HIDE DEF u
<1>5. Received(FlushIfWhole(u, p)) = Received(u)
  BY <1>4, FlushLeavesReceived DEF FlushIfWhole
<1> QED BY <1>2, <1>4, <1>5 DEF AcceptPart, t, u

LEMMA ReceivePacketLeavesReceived ==
    ASSUME NEW s, SoundState(s), ~s.call.acceptedPacket, NEW datagram \in Datagrams,
           NEW ackSent \in BOOLEAN
    PROVE  Received(ReceivePacket(s, datagram, ackSent)) = Received(s)
<1> DEFINE begun == Begun(s, datagram # Garbage)
           call == [NoCall EXCEPT !.active = TRUE, !.parsedOkay = datagram # Garbage]
<1>1. call \in CallType /\ call.acceptedPacket = FALSE
  BY DEF NoCall, CallType, AckType
<1>2. begun = [s EXCEPT !.call = call]
  BY DEF Begun
<1> HIDE DEF call, begun
<1>3. begun \in AssemblerType /\ begun.currentFrameIndex = s.currentFrameIndex
      /\ begun.call = call /\ begun.metrics = s.metrics /\ begun.finished = s.finished
      /\ begun.currentFrame = s.currentFrame /\ begun.expectedDataOffset = s.expectedDataOffset
  BY <1>1, <1>2 DEF SoundState, AssemblerType
<1>4. SoundState(begun) /\ Received(begun) = Received(s)
  BY <1>1, <1>3, SameFramesSound DEF AcceptedBytes, ReceivedBytes, Received
<1>5. CASE datagram = Garbage
  BY <1>4, <1>5 DEF ReceivePacket, begun
<1>6. CASE datagram # Garbage
  <2> DEFINE p == datagram
             advanced == OnFrameIndexAdvanced(begun, p)
             back == OnRetrogradeFrameIndex(begun, p)
  <2>1. p \in Packets
    BY <1>6 DEF Datagrams
  <2>2. ReceivePacket(s, datagram, ackSent) = ReceivePart(begun, p, ackSent)
    BY <1>6 DEF ReceivePacket, begun
  <2>3. /\ SoundState(advanced) /\ SoundState(back)
        /\ advanced.currentFrameIndex = FrameIndex(p) /\ ~advanced.call.acceptedPacket
        /\ back.currentFrameIndex = FrameIndex(p) /\ ~back.call.acceptedPacket
    BY <1>1, <1>3, <1>4, <2>1, AdvancedSound, RetrogradeSound
  <2>4. /\ Received(advanced) = Received(begun) /\ Received(back) = Received(begun)
        /\ Received(SetSkipCount(begun, p)) = Received(begun)
    BY <1>4, <2>1, AdvancedLeavesReceived
  <2> HIDE DEF advanced, back
  <2>5. /\ Received(AcceptPart(advanced, p, ackSent)) = Received(s)
        /\ Received(AcceptPart(back, p, ackSent)) = Received(s)
    BY <1>4, <2>1, <2>3, <2>4, AcceptPartLeavesReceived
  <2>6. begun.currentFrameIndex = FrameIndex(p)
            => Received(AcceptPart(begun, p, ackSent)) = Received(s)
    BY <1>1, <1>3, <1>4, <2>1, AcceptPartLeavesReceived
  <2>7. \/ FrameIndex(p) > begun.currentFrameIndex
        \/ FrameIndex(p) < begun.currentFrameIndex
        \/ begun.currentFrameIndex = FrameIndex(p)
    BY <1>3, <2>1, PacketFacts DEF AssemblerType
  <2> QED BY <1>4, <2>2, <2>4, <2>5, <2>6, <2>7 DEF ReceivePart, advanced, back
<1> QED BY <1>5, <1>6

-----------------------------------------------------------------------------
\* Every Drain that waits in a queue comes after what was posted before it: of
\* that, all but what is ahead of it in the queue is among the first n datagrams.
Awaited(queue, n) ==
    \A k \in DOMAIN queue : ~IsPacket(queue[k]) => queue[k].posted <= n + Ahead(queue, k)

LEMMA DrainFacts ==
    ASSUME NEW unit \in WorkUnit
    PROVE  IsPacket(unit) \/ unit.posted \in Nat
  BY DEF WorkUnit, IsPacket

LEMMA AwaitedMore ==
    ASSUME NEW queue \in Seq(WorkUnit), NEW n \in Nat, NEW m \in Nat, n <= m,
           Awaited(queue, n)
    PROVE  Awaited(queue, m)
<1> SUFFICES ASSUME NEW k \in DOMAIN queue, ~IsPacket(queue[k])
             PROVE  queue[k].posted <= m + Ahead(queue, k)
  BY DEF Awaited
<1>1. k \in Int /\ queue[k] \in WorkUnit
  OBVIOUS
<1>2. queue[k].posted <= n + Ahead(queue, k)
  BY DEF Awaited
<1>3. queue[k].posted \in Nat /\ Ahead(queue, k) \in Nat
  BY <1>1, DrainFacts, AheadType
<1> QED BY <1>2, <1>3

LEMMA AwaitedInAppended ==
    ASSUME NEW queue \in Seq(WorkUnit), NEW n \in Nat, NEW unit \in WorkUnit,
           Awaited(queue, n),
           IsPacket(unit) \/ unit.posted <= n + PacketsIn(queue)
    PROVE  Awaited(Append(queue, unit), n)
<1> DEFINE q == Append(queue, unit)
<1>1. /\ DOMAIN queue = 1 .. Len(queue) /\ DOMAIN q = 1 .. Len(queue) + 1
      /\ q[Len(queue) + 1] = unit /\ \A j \in 1 .. Len(queue) : q[j] = queue[j]
      /\ Len(queue) \in Nat
  OBVIOUS
<1>2. \A k \in 1 .. Len(queue) + 1 : Ahead(q, k) = Ahead(queue, k)
  BY AheadInAppended
<1>3. Ahead(queue, Len(queue) + 1) = PacketsIn(queue)
  BY <1>1, AheadType
<1> HIDE DEF q
<1>4. ASSUME NEW k \in DOMAIN q, ~IsPacket(q[k]) PROVE q[k].posted <= n + Ahead(q, k)
  <2>1. k \in 1 .. Len(queue) \/ k = Len(queue) + 1
    BY <1>1
  <2>2. CASE k \in 1 .. Len(queue)
    BY <1>1, <1>2, <1>4, <2>2 DEF Awaited
  <2>3. CASE k = Len(queue) + 1
    <3>1. Ahead(q, k) = PacketsIn(queue) /\ q[k] = unit
      BY <1>1, <1>2, <1>3, <2>3
    <3> QED BY <1>4, <3>1
  <2> QED BY <2>1, <2>2, <2>3
<1> QED BY <1>4 DEF Awaited, q

LEMMA AwaitedInTail ==
    ASSUME NEW queue \in Seq(WorkUnit), queue # <<>>, NEW n \in Nat, Awaited(queue, n)
    PROVE  LET taken == IF IsPacket(Head(queue)) THEN 1 ELSE 0 IN
           /\ Awaited(Tail(queue), n + taken)
           /\ PacketsIn(queue) = PacketsIn(Tail(queue)) + taken
           /\ IsPacket(Head(queue)) \/ Head(queue).posted <= n
<1> DEFINE q == Tail(queue)
           taken == IF IsPacket(Head(queue)) THEN 1 ELSE 0
<1>1. Len(queue) \in Nat /\ Len(queue) >= 1
  OBVIOUS
<1>2. /\ DOMAIN queue = 1 .. Len(queue) /\ DOMAIN q = 1 .. Len(queue) - 1
      /\ Head(queue) = queue[1] /\ q \in Seq(WorkUnit) /\ Len(q) = Len(queue) - 1
      /\ \A j \in 1 .. Len(queue) - 1 : q[j] = queue[j + 1] /\ q[j] \in WorkUnit
  BY <1>1
<1> HIDE DEF q
<1>3. \A k \in 1 .. Len(queue) : Ahead(queue, k + 1) = Ahead(q, k) + taken
  BY AheadInTail DEF q
<1> HIDE DEF taken
<1>4. taken \in Nat
  BY DEF taken
<1>5. ASSUME NEW k \in DOMAIN q, ~IsPacket(q[k]) PROVE q[k].posted <= (n + taken) + Ahead(q, k)
  <2>1. k \in 1 .. Len(queue) /\ k + 1 \in DOMAIN queue /\ q[k] = queue[k + 1] /\ k \in Int
        /\ q[k] \in WorkUnit
    BY <1>1, <1>2
  <2>2. q[k].posted <= n + Ahead(queue, k + 1)
    BY <1>5, <2>1 DEF Awaited
  <2>3. Ahead(queue, k + 1) = Ahead(q, k) + taken
    BY <1>3, <2>1
  <2>4. q[k].posted \in Nat /\ Ahead(q, k) \in Nat
    BY <1>2, <1>5, <2>1, DrainFacts, AheadType
  <2> QED BY <1>4, <2>2, <2>3, <2>4
<1>6. PacketsIn(queue) = PacketsIn(q) + taken
  <2> DEFINE k == Len(queue)
  <2>1. k \in 1 .. Len(queue) /\ k + 1 \in Int /\ k \in Int /\ k + 1 > Len(queue) /\ k > Len(q)
    BY <1>1, <1>2
  <2>2. Ahead(queue, k + 1) = PacketsIn(queue) /\ Ahead(q, k) = PacketsIn(q)
    BY <1>2, <2>1, AheadType
  <2> QED BY <1>3, <2>1, <2>2
<1>7. IsPacket(Head(queue)) \/ Head(queue).posted <= n
  <2>1. 1 \in DOMAIN queue /\ Ahead(queue, 1) = 0
    BY <1>1, <1>2, AheadType
  <2>2. ~IsPacket(queue[1]) => queue[1].posted <= n + 0
    BY <2>1 DEF Awaited
  <2> QED BY <1>2, <2>2
<1> QED BY <1>5, <1>6, <1>7 DEF Awaited, q, taken

\* The datagrams the worker has taken.
DatagramsTaken == Received(asm) + (IF asm.call.active THEN 1 ELSE 0)

DrainInv == /\ Awaited(pktProcessor, DatagramsTaken)
            /\ Awaited(workQueue, DatagramsTaken + PacketsIn(pktProcessor))

LEMMA TakenInNat ==
    ASSUME TypeOK
    PROVE  /\ DatagramsTaken \in Nat
           /\ PacketsIn(workQueue) \in Nat /\ PacketsIn(pktProcessor) \in Nat
           /\ PostedPackets = (DatagramsTaken + PacketsIn(pktProcessor)) + PacketsIn(workQueue)
<1>1. asm.metrics.TotalPacketsReceived \in Nat
  BY DEF TypeOK, AssemblerType, MetricsType
<1>2. PacketsIn(workQueue) \in Nat /\ PacketsIn(pktProcessor) \in Nat
  BY PacketsInType DEF TypeOK
<1> QED BY <1>1, <1>2 DEF DatagramsTaken, Received, PostedPackets

\* A step that takes nothing from either queue.
LEMMA DrainsStay ==
    ASSUME DrainInv, UNCHANGED <<workQueue, pktProcessor>>, DatagramsTaken' = DatagramsTaken
    PROVE  DrainInv'
  BY DEF DrainInv, Awaited, Ahead, PacketsBefore, PacketsIn, IsPacket

LEMMA NextDrainInv == IInv /\ DrainInv /\ [Next]_vars => DrainInv'
<1> SUFFICES ASSUME IInv, DrainInv, [Next]_vars PROVE DrainInv'
  OBVIOUS
<1>1. /\ TypeOK /\ workQueue \in Seq(WorkUnit) /\ pktProcessor \in Seq(WorkUnit)
      /\ SoundState(asm) /\ asm \in AssemblerType
  BY DEF IInv, TypeOK
<1>2. /\ DatagramsTaken \in Nat /\ PacketsIn(workQueue) \in Nat /\ PacketsIn(pktProcessor) \in Nat
      /\ PostedPackets = (DatagramsTaken + PacketsIn(pktProcessor)) + PacketsIn(workQueue)
  BY <1>1, TakenInNat
<1>3. /\ Awaited(pktProcessor, DatagramsTaken)
      /\ Awaited(workQueue, DatagramsTaken + PacketsIn(pktProcessor))
  BY DEF DrainInv
<1>4. ASSUME NEW unit \in WorkUnit, IsPacket(unit) \/ unit.posted <= PostedPackets,
             workQueue' = Append(workQueue, unit), UNCHANGED <<pktProcessor, asm>>
      PROVE  DrainInv'
  <2>1. Awaited(Append(workQueue, unit), DatagramsTaken + PacketsIn(pktProcessor))
    BY <1>1, <1>2, <1>3, <1>4, AwaitedInAppended
  <2>2. DatagramsTaken' = DatagramsTaken /\ PacketsIn(pktProcessor)' = PacketsIn(pktProcessor)
    BY <1>4 DEF DatagramsTaken, PacketsIn
  <2>3. /\ Awaited(pktProcessor', DatagramsTaken')
        /\ Awaited(workQueue', DatagramsTaken' + PacketsIn(pktProcessor)')
    BY <1>3, <1>4, <2>1, <2>2
  <2> QED BY <2>3 DEF DrainInv, Awaited, Ahead, PacketsBefore, PacketsIn, IsPacket
<1>5. ASSUME NEW datagram \in Datagrams, ProcessPacket(datagram) PROVE DrainInv'
  <2> DEFINE unit == [kind |-> "Packet", packet |-> datagram]
  <2>1. unit \in WorkUnit /\ IsPacket(unit)
    BY DEF WorkUnit, IsPacket
  <2> QED BY <1>4, <1>5, <2>1 DEF ProcessPacket
<1>6. CASE DrainAsync
  <2> DEFINE unit == [kind |-> "Drain", posted |-> PostedPackets]
  <2>1. PostedPackets \in Nat
    BY <1>2
  <2>2. unit \in WorkUnit /\ unit.posted <= PostedPackets
    BY <2>1 DEF WorkUnit
  <2> QED BY <1>4, <1>6, <2>2 DEF DrainAsync
<1>7. CASE LinkDelivers
  <2> DEFINE unit == Head(workQueue)
             taken == IF IsPacket(unit) THEN 1 ELSE 0
             n == DatagramsTaken + PacketsIn(pktProcessor)
  <2>1. workQueue # <<>> /\ unit \in WorkUnit /\ n \in Nat
    BY <1>1, <1>2, <1>7 DEF LinkDelivers
  <2>2. /\ Awaited(Tail(workQueue), n + taken)
        /\ IsPacket(unit) \/ unit.posted <= n
    BY <1>1, <1>3, <2>1, AwaitedInTail
  <2>3. Awaited(Append(pktProcessor, unit), DatagramsTaken)
    BY <1>1, <1>2, <1>3, <2>1, <2>2, AwaitedInAppended
  <2>4. PacketsIn(Append(pktProcessor, unit)) = PacketsIn(pktProcessor) + taken
    BY <1>1, <2>1, AheadInAppended
  <2>5. /\ DatagramsTaken' = DatagramsTaken
        /\ PacketsIn(pktProcessor)' = PacketsIn(pktProcessor) + taken
    BY <1>7, <2>4 DEF LinkDelivers, DatagramsTaken, PacketsIn
  <2>6. taken \in Nat
    OBVIOUS
  <2>7. DatagramsTaken' + PacketsIn(pktProcessor)' = n + taken
    BY <1>2, <2>5, <2>6
  <2> HIDE DEF n, taken, unit
  <2>8. /\ Awaited(pktProcessor', DatagramsTaken')
        /\ Awaited(workQueue', DatagramsTaken' + PacketsIn(pktProcessor)')
    BY <1>7, <2>2, <2>3, <2>5, <2>7 DEF LinkDelivers, unit
  <2> QED BY <2>8 DEF DrainInv
<1>8. ASSUME pktProcessor # <<>>, pktProcessor' = Tail(pktProcessor), workQueue' = workQueue,
             ~asm.call.active,
             DatagramsTaken' = DatagramsTaken + (IF IsPacket(Head(pktProcessor)) THEN 1 ELSE 0)
      PROVE  DrainInv'
  <2> DEFINE taken == IF IsPacket(Head(pktProcessor)) THEN 1 ELSE 0
  <2>1. /\ Awaited(Tail(pktProcessor), DatagramsTaken + taken)
        /\ PacketsIn(pktProcessor) = PacketsIn(Tail(pktProcessor)) + taken
    BY <1>1, <1>2, <1>3, <1>8, AwaitedInTail
  <2>2. PacketsIn(pktProcessor)' = PacketsIn(Tail(pktProcessor)) /\ taken \in Nat
        /\ PacketsIn(Tail(pktProcessor)) \in Nat
    <3>1. Tail(pktProcessor) \in Seq(WorkUnit)
      BY <1>1, <1>8
    <3> QED BY <1>8, <3>1, PacketsInType DEF PacketsIn
  <2>3. DatagramsTaken' + PacketsIn(pktProcessor)' = DatagramsTaken + PacketsIn(pktProcessor)
    BY <1>2, <1>8, <2>1, <2>2
  <2> HIDE DEF taken
  <2>4. /\ Awaited(pktProcessor', DatagramsTaken')
        /\ Awaited(workQueue', DatagramsTaken' + PacketsIn(pktProcessor)')
    BY <1>3, <1>8, <2>1, <2>3 DEF taken
  <2> QED BY <2>4 DEF DrainInv
<1>9. CASE ProcessWorkUnitPacket
  <2>1. Head(pktProcessor).packet \in Datagrams
    BY <1>1, <1>9 DEF ProcessWorkUnitPacket, WorkUnit, IsPacket
  <2>2. ~asm.call.acceptedPacket
    BY <1>9 DEF ProcessWorkUnitPacket, IInv
  <2>3. asm'.call.active /\ Received(asm') = Received(asm)
    BY <1>1, <1>9, <2>1, <2>2, ReceivePacketSound, ReceivePacketLeavesReceived
       DEF ProcessWorkUnitPacket
  <2>4. DatagramsTaken' = DatagramsTaken + 1
    <3>1. DatagramsTaken = Received(asm) + 0 /\ DatagramsTaken' = Received(asm') + 1
      BY <1>9, <2>3, Zenon DEF DatagramsTaken, ProcessWorkUnitPacket
    <3>2. Received(asm) \in Nat
      BY <1>1 DEF Received, AssemblerType, MetricsType
    <3> QED BY <2>3, <3>1, <3>2
  <2> QED BY <1>8, <1>9, <2>4 DEF ProcessWorkUnitPacket
<1>10. CASE UpdateMetrics
  <2>1. Received(asm') = Received(asm) + 1 /\ ~asm'.call.active
    BY <1>1, <1>10 DEF UpdateMetrics, WithPacketCounted, WithPacketAdded, Received, NoCall,
                       AssemblerType, MetricsType
  <2>2. DatagramsTaken' = DatagramsTaken
    BY <1>2, <1>10, <2>1 DEF DatagramsTaken, UpdateMetrics
  <2> QED BY <1>10, <2>2, DrainsStay DEF UpdateMetrics
<1>11. CASE ProcessWorkUnitDrain
  <2>1. DatagramsTaken' = DatagramsTaken
    BY <1>11 DEF ProcessWorkUnitDrain, DatagramsTaken
  <2> QED BY <1>2, <1>8, <1>11, <2>1 DEF ProcessWorkUnitDrain
<1>12. CASE FlushMember
  <2>1. asm'.call = asm.call /\ Received(asm') = Received(asm)
    BY <1>1, <1>12, FlushSound, FlushLeavesReceived DEF FlushMember
  <2>2. DatagramsTaken' = DatagramsTaken
    BY <2>1 DEF DatagramsTaken
  <2> QED BY <1>12, <2>2, DrainsStay DEF FlushMember
<1>13. CASE DisposeCompletesQueue \/ DisposeDropsLink \/ UNCHANGED vars
  <2>1. UNCHANGED <<workQueue, pktProcessor>> /\ DatagramsTaken' = DatagramsTaken
    BY <1>13 DEF DisposeCompletesQueue, DisposeDropsLink, vars, DatagramsTaken
  <2> QED BY <2>1, DrainsStay
<1> QED BY <1>5, <1>6, <1>7, <1>9, <1>10, <1>11, <1>12, <1>13 DEF Next, Worker

\* Once the task of a Drain completes, all that was posted before the call is
\* in the metrics: the queues keep the order of what is posted, and a Drain is
\* only taken when no datagram is being handled.
THEOREM DrainsCountAll == Spec => DrainMeansCounted
<1> DEFINE Taking == /\ pktProcessor # <<>> /\ ~IsPacket(Head(pktProcessor))
                     /\ pktProcessor' # pktProcessor /\ Len(pktProcessor') < Len(pktProcessor)
           Counted == asm.metrics.TotalPacketsReceived >= Head(pktProcessor).posted
<1>1. Init => DrainInv
  BY DEF Init, DrainInv, Awaited
<1>2. Spec => [](IInv /\ DrainInv)
  BY <1>1, InitIInv, NextIInv, NextDrainInv, PTL DEF Spec
<1>3. ASSUME IInv, DrainInv, [Next]_vars, Taking PROVE Counted
  <2>1. pktProcessor \in Seq(WorkUnit) /\ TypeOK
    BY <1>3 DEF IInv, TypeOK
  <2>2. ~asm.call.active
    <3>1. CASE LinkDelivers
      <4>1. Len(pktProcessor') = Len(pktProcessor) + 1 /\ Len(pktProcessor) \in Nat
        BY <2>1, <3>1 DEF LinkDelivers, TypeOK
      <4> QED BY <1>3, <4>1
    <3>2. CASE ~LinkDelivers
      BY <1>3, <3>2 DEF Next, Worker, ProcessPacket, DrainAsync, ProcessWorkUnitPacket,
           UpdateMetrics, ProcessWorkUnitDrain, FlushMember, DisposeCompletesQueue,
           DisposeDropsLink, vars
    <3> QED BY <3>1, <3>2
  <2>3. DatagramsTaken \in Nat
    BY <2>1, TakenInNat
  <2>4. Awaited(pktProcessor, DatagramsTaken)
    BY <1>3 DEF DrainInv
  <2>5. Head(pktProcessor).posted <= DatagramsTaken
    BY <1>3, <2>1, <2>3, <2>4, AwaitedInTail
  <2>6. Head(pktProcessor).posted \in Nat
    BY <1>3, <2>1, DrainFacts
  <2>7. asm.metrics.TotalPacketsReceived \in Nat
    BY <2>1 DEF TypeOK, AssemblerType, MetricsType
  <2> QED BY <2>2, <2>5, <2>6, <2>7 DEF DatagramsTaken, Received
<1>4. IInv /\ DrainInv /\ [Next]_vars => [Taking => Counted]_vars
  BY <1>3
<1>5. [][Taking => Counted]_vars => DrainMeansCounted
  BY PTL DEF DrainMeansCounted
<1> QED BY <1>2, <1>4, <1>5, PTL DEF Spec

-----------------------------------------------------------------------------
\* The stream.

LEMMA StreamStepIsAssemblerStep == [StreamNext]_allVars => [Next]_vars
<1> SUFFICES ASSUME [StreamNext]_allVars PROVE [Next]_vars
  OBVIOUS
<1>1. ASSUME NEW p \in Packets, ReceiveFramePart(p) PROVE [Next]_vars
  BY <1>1 DEF ReceiveFramePart, Receive, Next, Datagrams
<1>2. CASE ReceiveGarbage
  BY <1>2 DEF ReceiveGarbage, Receive, Next, Datagrams
<1>3. CASE Drain \/ Deliver \/ FlushListener \/ DisposeAssembler
  BY <1>3 DEF Drain, Deliver, FlushListener, DisposeAssembler, Next
<1>4. CASE Work
  BY <1>4 DEF Work, WorkOnPacket, WorkOn, Next, Worker
<1>5. CASE OnNewFrame \/ BeginDispose \/ CompleteSubject \/ ListenLoopEnds \/ UNCHANGED allVars
  BY <1>5 DEF OnNewFrame, BeginDispose, CompleteSubject, ListenLoopEnds, allVars
<1> QED BY <1>1, <1>2, <1>3, <1>4, <1>5 DEF StreamNext

\* The assembler inside the listener behaves as the assembler alone does.
THEOREM StreamRunsAssembler == StreamSpec => Spec
<1>1. StreamInit => Init
  BY DEF StreamInit
<1> QED BY <1>1, StreamStepIsAssemblerStep, PTL DEF StreamSpec, Spec

\* So in the running stream, too, no frame, finished or in progress, has a hole or
\* a part of a frame with another index.
THEOREM StreamFramesAreSound == StreamSpec => []AssemblerSound
  BY StreamRunsAssembler, AssemblerStaysSound, PTL


-----------------------------------------------------------------------------
\* What the worker's functions do to the frames, from s to t.

\* The frames are left alone.
Quiet(s, t) ==
    /\ t.currentFrame = s.currentFrame
    /\ t.finished = s.finished
    /\ t.metrics.CompleteFrameCount = s.metrics.CompleteFrameCount

Numbered(s) == [s.currentFrame EXCEPT !.frameIndex = s.monotonicFrameIndex]

\* The frame in progress is handed over.
HandsOver(s, t) ==
    /\ InProgress(s)
    /\ t.currentFrame = NoFrame
    /\ t.finished = Append(s.finished, Numbered(s))
    /\ t.metrics.CompleteFrameCount
           = s.metrics.CompleteFrameCount + (IF IsComplete(s.currentFrame) THEN 1 ELSE 0)

\* The datagram p is taken.
Takes(s, t, p) ==
    /\ t.finished = s.finished
    /\ t.metrics.CompleteFrameCount = s.metrics.CompleteFrameCount
    /\ IF InProgress(s) THEN t.currentFrame.fragments = Append(s.currentFrame.fragments, p)
                        ELSE p.dataOffset = 0 /\ t.currentFrame.fragments = <<p>>

Flushes(s, t) == /\ SoundState(s) /\ SoundState(t)
                 /\ Quiet(s, t) \/ HandsOver(s, t)

MayTake(s, t, p) == /\ SoundState(s) /\ SoundState(t)
                    /\ Quiet(s, t) \/ Takes(s, t, p)

\* After the datagram p: the frame is handed over only if its last part came.
Completes(s, t, p) == /\ SoundState(s) /\ SoundState(t)
                      /\ \/ Quiet(s, t)
                         \/ HandsOver(s, t) /\ s.expectedDataOffset = TotalDataSize(p)

IsCurrent(s, p) == InProgress(s) /\ s.currentFrameIndex = FrameIndex(p)

\* A first part is taken unless its frame is in progress already, and so is the
\* next part of the frame in progress.  What ends the frame in progress does so.
Heeds(s, a, u, p) ==
    /\ (HasHeader(p) /\ ~IsCurrent(s, p)) => ~InProgress(a) /\ Takes(a, u, p)
    /\ (IsCurrent(s, p) /\ p.dataOffset = s.expectedDataOffset) => Quiet(s, a) /\ Takes(a, u, p)
    /\ (InProgress(s) /\ Ends(p, s.currentFrameIndex)) => ~InProgress(a)

LEMMA FinishCounts ==
    ASSUME NEW m \in MetricsType, NEW frame \in FrameAccumulator
    PROVE  WithFinishedFrame(m, frame).CompleteFrameCount
               = m.CompleteFrameCount + (IF IsComplete(frame) THEN 1 ELSE 0)
<1>1. frame.totalDataSize \in Nat /\ BytesReceived(frame) \in Nat
  BY FrameFacts DEF FrameAccumulator
<1>2. m.CompleteFrameCount \in Nat
  BY DEF MetricsType
<1> DEFINE complete == IF IsComplete(frame) THEN m.CompleteFrameCount + 1
                                             ELSE m.CompleteFrameCount
<1>3. WithFinishedFrame(m, frame) =
        [m EXCEPT !.ProcessedFrameCount    = m.ProcessedFrameCount + 1,
                  !.CompleteFrameCount     = complete,
                  !.TotalExpectedFrameSize = m.TotalExpectedFrameSize + frame.totalDataSize,
                  !.TotalReceivedFrameSize = m.TotalReceivedFrameSize + BytesReceived(frame)]
  BY Zenon DEF WithFinishedFrame
<1> HIDE DEF complete
<1>4. WithFinishedFrame(m, frame).CompleteFrameCount = complete
  BY <1>3 DEF MetricsType
<1> QED BY <1>2, <1>4 DEF complete

LEMMA FlushEffect ==
    ASSUME NEW s, SoundState(s), NEW clear \in BOOLEAN
    PROVE  Flushes(s, Flush(s, clear))
<1>1. SoundState(Flush(s, clear))
  BY FlushSound
<1>2. s \in AssemblerType
  BY DEF SoundState
<1> DEFINE t == FinishFrame(s)
           left == IF InProgress(s) THEN t ELSE s
<1>3. InProgress(s) => HandsOver(s, t)
  <2> SUFFICES ASSUME InProgress(s) PROVE HandsOver(s, t)
    OBVIOUS
  <2>1. s.currentFrame \in FrameAccumulator /\ s.metrics \in MetricsType
    BY <1>2 DEF AssemblerType, InProgress
  <2>2. /\ t.currentFrame = NoFrame
        /\ t.finished = Append(s.finished, Numbered(s))
        /\ t.metrics = WithFinishedFrame(s.metrics, s.currentFrame)
    BY <1>2 DEF AssemblerType, FinishFrame, Numbered
  <2> HIDE DEF t
  <2> QED BY <2>1, <2>2, FinishCounts DEF HandsOver
<1>4. left \in AssemblerType
  BY <1>2, FinishFrameType
<1> HIDE DEF t
<1>5. Quiet(s, left) \/ HandsOver(s, left)
  BY <1>3 DEF Quiet
<1>6. Flush(s, clear) = IF clear THEN [left EXCEPT !.lastFinishedFrameIndex = -1] ELSE left
  BY DEF Flush, t
<1> HIDE DEF left
<1>7. /\ Flush(s, clear).currentFrame = left.currentFrame
      /\ Flush(s, clear).finished = left.finished
      /\ Flush(s, clear).metrics = left.metrics
  BY <1>4, <1>6 DEF AssemblerType
<1> QED BY <1>1, <1>5, <1>7 DEF Flushes, Quiet, HandsOver

LEMMA SkipCountQuiet ==
    ASSUME NEW s, SoundState(s), NEW p \in Packets
    PROVE  SoundState(SetSkipCount(s, p)) /\ Quiet(s, SetSkipCount(s, p))
<1>1. s \in AssemblerType
  BY DEF SoundState
<1>2. SetSkipCount(s, p).finished = s.finished /\ SetSkipCount(s, p).metrics = s.metrics
  BY <1>1 DEF SetSkipCount, AssemblerType
<1> QED BY <1>2, SkipCountSound DEF Quiet

LEMMA AdvancedEffect ==
    ASSUME NEW s, SoundState(s), NEW p \in Packets
    PROVE  Flushes(s, OnFrameIndexAdvanced(s, p))
<1> DEFINE skipped == SetSkipCount(s, p)
           left == IF s.currentFrameIndex < 0 THEN s ELSE Flush(skipped, FALSE)
           t == OnFrameIndexAdvanced(s, p)
<1>1. SoundState(skipped) /\ Quiet(s, skipped)
  BY SkipCountQuiet
<1>2. skipped.monotonicFrameIndex = s.monotonicFrameIndex
  <2>1. s \in AssemblerType
    BY DEF SoundState
  <2> QED BY <2>1 DEF SetSkipCount, AssemblerType
<1> HIDE DEF skipped
<1>3. Flushes(s, left)
  <2>1. Flushes(skipped, Flush(skipped, FALSE))
    BY <1>1, FlushEffect
  <2>2. Flushes(s, Flush(skipped, FALSE))
    BY <1>1, <1>2, <2>1 DEF Flushes, Quiet, HandsOver, InProgress, Numbered
  <2> QED BY <2>2 DEF Flushes, Quiet
<1>4. t = [left EXCEPT !.currentFrameIndex = FrameIndex(p), !.expectedDataOffset = 0]
  BY DEF OnFrameIndexAdvanced, skipped
<1> HIDE DEF left
<1>5. left \in AssemblerType
  BY <1>3 DEF Flushes, SoundState
<1>6. t.currentFrame = left.currentFrame /\ t.finished = left.finished /\ t.metrics = left.metrics
  BY <1>4, <1>5 DEF AssemblerType
<1>7. SoundState(t)
  BY AdvancedSound
<1> HIDE DEF t
<1> QED BY <1>3, <1>6, <1>7 DEF Flushes, Quiet, HandsOver, t

LEMMA RetrogradeEffect ==
    ASSUME NEW s, SoundState(s), NEW p \in Packets
    PROVE  Flushes(s, OnRetrogradeFrameIndex(s, p))
<1> DEFINE left == Flush(s, TRUE)
           t == OnRetrogradeFrameIndex(s, p)
<1>1. Flushes(s, left)
  BY FlushEffect
<1>2. t = [left EXCEPT !.currentFrameIndex = FrameIndex(p)]
  BY DEF OnRetrogradeFrameIndex
<1> HIDE DEF left
<1>3. left \in AssemblerType
  BY <1>1 DEF Flushes, SoundState
<1>4. t.currentFrame = left.currentFrame /\ t.finished = left.finished /\ t.metrics = left.metrics
  BY <1>2, <1>3 DEF AssemblerType
<1>5. SoundState(t)
  BY RetrogradeSound
<1> HIDE DEF t
<1> QED BY <1>1, <1>4, <1>5 DEF Flushes, Quiet, HandsOver, t

LEMMA TakePartEffect ==
    ASSUME NEW s, SoundState(s), NEW p \in Packets,
           s.currentFrameIndex = FrameIndex(p), ~s.call.acceptedPacket
    PROVE  /\ MayTake(s, TakePart(s, p), p)
           /\ (InProgress(s) /\ p.dataOffset = s.expectedDataOffset) => Takes(s, TakePart(s, p), p)
           /\ (~InProgress(s) /\ p.dataOffset = 0) => Takes(s, TakePart(s, p), p)
<1>1. SoundState(TakePart(s, p))
  BY FrameInProgressSound, NoFrameInProgressSound DEF TakePart
<1>2. s \in AssemblerType
  BY DEF SoundState
<1>3. CASE InProgress(s)
  <2> DEFINE t == OnFrameInProgress(s, p)
  <2>1. s.currentFrame \in FrameAccumulator
    BY <1>2, <1>3 DEF AssemblerType, InProgress
  <2>2. CASE p.dataOffset = s.expectedDataOffset
    <3>1. /\ t.currentFrame.fragments = Append(s.currentFrame.fragments, p)
          /\ t.finished = s.finished
          /\ t.metrics = s.metrics
      BY <1>2, <2>1, <2>2 DEF OnFrameInProgress, AssemblerType, FrameAccumulator
    <3> QED BY <1>1, <1>3, <3>1 DEF MayTake, Takes, TakePart
  <2>3. CASE p.dataOffset # s.expectedDataOffset
    BY <1>1, <1>3, <2>3 DEF OnFrameInProgress, MayTake, Quiet, TakePart
  <2> QED BY <2>2, <2>3
<1>4. CASE ~InProgress(s)
  <2> DEFINE t == OnNoFrameInProgress(s, p)
  <2>1. CASE p.dataOffset = 0
    <3>1. /\ t.currentFrame.fragments = <<p>>
          /\ t.finished = s.finished
          /\ t.metrics = s.metrics
      BY <1>2, <2>1 DEF OnNoFrameInProgress, AssemblerType
    <3> QED BY <1>1, <1>4, <2>1, <3>1 DEF MayTake, Takes, TakePart
  <2>2. CASE p.dataOffset # 0
    BY <1>1, <1>4, <2>2 DEF OnNoFrameInProgress, MayTake, Quiet, TakePart
  <2> QED BY <2>1, <2>2
<1> QED BY <1>3, <1>4

LEMMA AcknowledgeQuiet ==
    ASSUME NEW s, SoundState(s), NEW p \in Packets
    PROVE  /\ SoundState(AcknowledgePart(s, p))
           /\ Quiet(s, AcknowledgePart(s, p))
           /\ AcknowledgePart(s, p).expectedDataOffset = s.expectedDataOffset
<1> DEFINE ack == [frameIndex |-> FrameIndex(p), dataOffset |-> s.expectedDataOffset]
           call == [s.call EXCEPT !.ack = ack]
           t == AcknowledgePart(s, p)
<1>1. s \in AssemblerType /\ s.call \in CallType /\ s.expectedDataOffset \in Nat
  BY DEF SoundState, AssemblerType
<1>2. ack \in AckType
  BY <1>1, PacketFacts DEF AckType
<1>3. t = [s EXCEPT !.call = call]
  BY <1>1 DEF AcknowledgePart, AssemblerType
<1> HIDE DEF ack
<1>4. call \in CallType /\ call.acceptedPacket = s.call.acceptedPacket
  BY <1>1, <1>2 DEF CallType
<1> HIDE DEF call, t
<1>5. /\ t \in AssemblerType
      /\ t.currentFrame = s.currentFrame
      /\ t.finished = s.finished
      /\ t.metrics = s.metrics
      /\ t.currentFrameIndex = s.currentFrameIndex
      /\ t.expectedDataOffset = s.expectedDataOffset
      /\ t.call = call
  BY <1>1, <1>3, <1>4 DEF AssemblerType
<1>6. SoundState(t)
  BY <1>4, <1>5, SameFramesSound DEF AcceptedBytes, ReceivedBytes
<1> QED BY <1>5, <1>6 DEF Quiet, t

LEMMA AcceptPartEffect ==
    ASSUME NEW s, SoundState(s), NEW p \in Packets,
           s.currentFrameIndex = FrameIndex(p), ~s.call.acceptedPacket,
           NEW ackSent \in BOOLEAN
    PROVE  \E u : /\ MayTake(s, u, p)
                  /\ Completes(u, AcceptPart(s, p, ackSent), p)
                  /\ (InProgress(s) /\ p.dataOffset = s.expectedDataOffset) => Takes(s, u, p)
                  /\ (~InProgress(s) /\ HasHeader(p)) => Takes(s, u, p)
<1> DEFINE u == TakePart(s, p)
           v == AcknowledgePart(u, p)
<1>1. /\ MayTake(s, u, p)
      /\ (InProgress(s) /\ p.dataOffset = s.expectedDataOffset) => Takes(s, u, p)
      /\ (~InProgress(s) /\ HasHeader(p)) => Takes(s, u, p)
  BY TakePartEffect DEF HasHeader
<1>2. SoundState(u)
  BY <1>1 DEF MayTake
<1> HIDE DEF u
<1>3. SoundState(v) /\ Quiet(u, v) /\ v.expectedDataOffset = u.expectedDataOffset
  BY <1>2, AcknowledgeQuiet
<1>4. v.monotonicFrameIndex = u.monotonicFrameIndex
  <2>1. u \in AssemblerType
    BY <1>2 DEF SoundState
  <2> QED BY <2>1 DEF AcknowledgePart, AssemblerType
<1> HIDE DEF v
<1>5. CASE Throws(s, p)
  <2>1. AcceptPart(s, p, ackSent) = s
    BY <1>5 DEF AcceptPart
  <2> QED BY <1>5, <2>1 DEF MayTake, Completes, Quiet, Throws
<1>6. CASE ~Throws(s, p) /\ ~ackSent
  <2>1. AcceptPart(s, p, ackSent) = u
    BY <1>6 DEF AcceptPart, u
  <2> QED BY <1>1, <1>2, <2>1 DEF Completes, Quiet
<1>7. CASE ~Throws(s, p) /\ ackSent
  <2>1. AcceptPart(s, p, ackSent) = FlushIfWhole(v, p)
    BY <1>7 DEF AcceptPart, u, v
  <2>2. Completes(v, FlushIfWhole(v, p), p)
    BY <1>3, FlushEffect DEF FlushIfWhole, Flushes, Completes, Quiet
  <2>3. Completes(u, FlushIfWhole(v, p), p)
    BY <1>2, <1>3, <1>4, <2>2 DEF Completes, Quiet, HandsOver, InProgress, Numbered
  <2> QED BY <1>1, <2>1, <2>3
<1> QED BY <1>5, <1>6, <1>7

\* A datagram lets one frame be handed over before it is taken, and one after.
LEMMA ReceivePacketEffect ==
    ASSUME NEW s, SoundState(s), ~s.call.acceptedPacket, NEW p \in Packets,
           NEW ackSent \in BOOLEAN
    PROVE  \E a, u : /\ Flushes(s, a)
                     /\ MayTake(a, u, p)
                     /\ Completes(u, ReceivePacket(s, p, ackSent), p)
                     /\ Heeds(s, a, u, p)
<1> DEFINE begun == Begun(s, TRUE)
           call == [NoCall EXCEPT !.active = TRUE, !.parsedOkay = TRUE]
           t == ReceivePart(begun, p, ackSent)
<1>1. p # Garbage
  <2>1. Garbage.frame \notin DOMAIN Stream
    BY StreamAssumption DEF Garbage
  <2> QED BY <2>1, PacketFacts
<1>2. ReceivePacket(s, p, ackSent) = t
  BY <1>1, Zenon DEF ReceivePacket
<1>3. call \in CallType /\ call.acceptedPacket = FALSE
  BY DEF NoCall, CallType, AckType
<1>4. begun = [s EXCEPT !.call = call]
  BY DEF Begun
<1> HIDE DEF call, begun
<1>5. s \in AssemblerType
  BY DEF SoundState
<1>6. /\ begun \in AssemblerType
      /\ begun.currentFrame = s.currentFrame
      /\ begun.finished = s.finished
      /\ begun.metrics = s.metrics
      /\ begun.currentFrameIndex = s.currentFrameIndex
      /\ begun.expectedDataOffset = s.expectedDataOffset
      /\ begun.monotonicFrameIndex = s.monotonicFrameIndex
      /\ begun.call = call
  BY <1>3, <1>4, <1>5 DEF AssemblerType
<1>7. SoundState(begun) /\ ~begun.call.acceptedPacket
  BY <1>3, <1>6, SameFramesSound DEF AcceptedBytes, ReceivedBytes
<1>8. ASSUME NEW b, Flushes(begun, b) PROVE Flushes(s, b)
  BY <1>6, <1>8 DEF Flushes, Quiet, HandsOver, InProgress, Numbered
<1>9. CASE FrameIndex(p) > begun.currentFrameIndex
  <2> DEFINE a == OnFrameIndexAdvanced(begun, p)
  <2>1. /\ Flushes(s, a)
        /\ SoundState(a)
        /\ ~InProgress(a)
        /\ a.currentFrameIndex = FrameIndex(p)
        /\ ~a.call.acceptedPacket
    BY <1>7, <1>8, AdvancedEffect, AdvancedSound
  <2>2. t = AcceptPart(a, p, ackSent)
    BY <1>9 DEF ReceivePart
  <2> HIDE DEF a, t
  <2>3. PICK u : /\ MayTake(a, u, p)
                 /\ Completes(u, t, p)
                 /\ HasHeader(p) => Takes(a, u, p)
    BY <2>1, <2>2, AcceptPartEffect
  <2>4. ~IsCurrent(s, p)
    BY <1>6, <1>7, <1>9, PacketFacts DEF IsCurrent, AssemblerType
  <2> QED BY <1>2, <2>1, <2>3, <2>4 DEF Heeds
<1>10. CASE ~(FrameIndex(p) > begun.currentFrameIndex) /\ TurnsAway(begun, p)
  <2>1. t = SetSkipCount(begun, p)
    BY <1>10 DEF ReceivePart
  <2>2. SoundState(t) /\ Quiet(begun, t)
    BY <1>7, <2>1, SkipCountQuiet
  <2>3. Flushes(s, begun) /\ MayTake(begun, begun, p) /\ Completes(begun, t, p)
    BY <1>6, <1>7, <2>2 DEF Flushes, MayTake, Completes, Quiet
  <2>4. Heeds(s, begun, begun, p)
    <3>1. p.dataOffset # 0 /\ FrameIndex(p) < begun.currentFrameIndex
      BY <1>10 DEF TurnsAway
    <3>2. ~IsCurrent(s, p)
      BY <1>6, <3>1, PacketFacts DEF IsCurrent, AssemblerType
    <3>3. ~Ends(p, s.currentFrameIndex)
      BY <1>6, <3>1, PacketFacts DEF Ends, AssemblerType
    <3> QED BY <3>1, <3>2, <3>3 DEF Heeds, HasHeader
  <2> QED BY <1>2, <2>3, <2>4
<1>11. CASE /\ ~(FrameIndex(p) > begun.currentFrameIndex)
            /\ ~TurnsAway(begun, p)
            /\ FrameIndex(p) < begun.currentFrameIndex
  <2> DEFINE a == OnRetrogradeFrameIndex(begun, p)
  <2>1. /\ Flushes(s, a)
        /\ SoundState(a)
        /\ ~InProgress(a)
        /\ a.currentFrameIndex = FrameIndex(p)
        /\ ~a.call.acceptedPacket
    BY <1>7, <1>8, RetrogradeEffect, RetrogradeSound
  <2>2. t = AcceptPart(a, p, ackSent)
    BY <1>11 DEF ReceivePart
  <2> HIDE DEF a, t
  <2>3. PICK u : /\ MayTake(a, u, p)
                 /\ Completes(u, t, p)
                 /\ HasHeader(p) => Takes(a, u, p)
    BY <2>1, <2>2, AcceptPartEffect
  <2>4. ~IsCurrent(s, p)
    BY <1>6, <1>7, <1>11, PacketFacts DEF IsCurrent, AssemblerType
  <2> QED BY <1>2, <2>1, <2>3, <2>4 DEF Heeds
<1>12. CASE /\ ~(FrameIndex(p) > begun.currentFrameIndex)
            /\ ~TurnsAway(begun, p)
            /\ ~(FrameIndex(p) < begun.currentFrameIndex)
  <2>1. t = AcceptPart(begun, p, ackSent)
    BY <1>12 DEF ReceivePart
  <2>2. begun.currentFrameIndex = FrameIndex(p)
    BY <1>6, <1>12, PacketFacts DEF AssemblerType
  <2> HIDE DEF t
  <2>3. PICK u : /\ MayTake(begun, u, p)
                 /\ Completes(u, t, p)
                 /\ (InProgress(begun) /\ p.dataOffset = begun.expectedDataOffset)
                        => Takes(begun, u, p)
                 /\ (~InProgress(begun) /\ HasHeader(p)) => Takes(begun, u, p)
    BY <1>7, <2>1, <2>2, AcceptPartEffect
  <2>4. Flushes(s, begun) /\ Quiet(s, begun)
    BY <1>6, <1>7 DEF Flushes, Quiet
  <2>5. ~Ends(p, s.currentFrameIndex)
    BY <1>6, <2>2, PacketFacts DEF Ends
  <2>6. Heeds(s, begun, u, p)
    BY <1>6, <2>2, <2>3, <2>4, <2>5 DEF Heeds, IsCurrent, InProgress
  <2> QED BY <1>2, <2>3, <2>4, <2>6
<1> QED BY <1>9, <1>10, <1>11, <1>12


-----------------------------------------------------------------------------
\* What is handed to onNewFrame, pub, before and after a frame is finished: the
\* complete frames, numbered as they come.  The client is told of them in this
\* order, and of all of them unless it disposes.

Message == [number : Nat, parts : Seq(Packets)]

Told(pub, frame) ==
    IF IsComplete(frame)
    THEN Append(pub, [number |-> Len(pub), parts |-> frame.fragments])
    ELSE pub

\* The frames kept are added to pub.
Grown(pub, kept) ==
    pub \o [k \in DOMAIN kept |-> [number |-> Len(pub) + k - 1, parts |-> kept[k].fragments]]

Tells(s, t, pub, qub) == \/ Quiet(s, t) /\ qub = pub
                         \/ HandsOver(s, t) /\ qub = Told(pub, s.currentFrame)

LEMMA ToldType ==
    ASSUME NEW pub \in Seq(Message), NEW frame \in FrameAccumulator
    PROVE  Told(pub, frame) \in Seq(Message)
<1>1. [number |-> Len(pub), parts |-> frame.fragments] \in Message
  BY DEF Message, FrameAccumulator
<1> QED BY <1>1 DEF Told

LEMMA OneMessage ==
    ASSUME NEW x, NEW m \in Nat, NEW kept, kept = <<x>>
    PROVE  [k \in DOMAIN kept |-> [number |-> m + k - 1, parts |-> kept[k].fragments]]
             = << [number |-> m, parts |-> x.fragments] >>
<1> DEFINE e == [number |-> m, parts |-> x.fragments]
           g == [k \in DOMAIN kept |-> [number |-> m + k - 1, parts |-> kept[k].fragments]]
<1>1. DOMAIN kept = 1 .. 1 /\ kept[1] = x
  OBVIOUS
<1>2. \A k \in 1 .. 1 : k = 1 /\ (m + k) - 1 = m
  OBVIOUS
<1>3. DOMAIN g = 1 .. 1 
  BY <1>1
<1>4. g[1] = e
  <2>1. 1 \in DOMAIN kept
    BY <1>1
  <2>2. g[1] = [number |-> m + 1 - 1, parts |-> kept[1].fragments]
    BY <2>1
  <2>3. m + 1 - 1 = m
    OBVIOUS
  <2> QED BY <2>2, <2>3, <1>1
<1>5. g = [k \in 1 .. 1 |-> e]
  <2>1. g = [k \in 1 .. 1 |-> g[k]]
     BY <1>3
  <2> HIDE DEF g, e
  <2> QED BY <2>1, <1>4
<1> HIDE DEF g, e
<1>6. [k \in 1 .. 1 |-> e] = <<e>>
  OBVIOUS
<1> QED BY <1>5, <1>6 DEF g, e
LEMMA TwoMessages ==
    ASSUME NEW x, NEW y, NEW m \in Nat, NEW kept, kept = <<x, y>>
    PROVE  [k \in DOMAIN kept |-> [number |-> m + k - 1, parts |-> kept[k].fragments]]
             = << [number |-> m, parts |-> x.fragments],
                  [number |-> m + 1, parts |-> y.fragments] >>
<1> DEFINE e == [number |-> m, parts |-> x.fragments]
           f == [number |-> m + 1, parts |-> y.fragments]
           g == [k \in DOMAIN kept |-> [number |-> m + k - 1, parts |-> kept[k].fragments]]
<1>1. DOMAIN kept = 1 .. 2 /\ kept[1] = x /\ kept[2] = y
  OBVIOUS
<1>3. DOMAIN g = 1 .. 2
  BY <1>1
<1>4. g[1] = e
  <2>1. 1 \in DOMAIN kept
    BY <1>1
  <2>2. g[1] = [number |-> m + 1 - 1, parts |-> kept[1].fragments]
    BY <2>1
  <2>3. m + 1 - 1 = m
    OBVIOUS
  <2> QED BY <2>2, <2>3, <1>1
<1>5. g[2] = f
  <2>1. 2 \in DOMAIN kept
    BY <1>1
  <2>2. g[2] = [number |-> m + 2 - 1, parts |-> kept[2].fragments]
    BY <2>1
  <2>3. m + 2 - 1 = m + 1
    OBVIOUS
  <2> QED BY <2>2, <2>3, <1>1
<1>6. g = [k \in 1 .. 2 |-> g[k]]
   BY <1>3
<1> HIDE DEF g, e, f
<1>7. g = [k \in 1 .. 2 |-> IF k = 1 THEN e ELSE f]
  BY <1>6, <1>4, <1>5
<1>8. [k \in 1 .. 2 |-> IF k = 1 THEN e ELSE f] = <<e, f>>
  OBVIOUS
<1> QED BY <1>7, <1>8 DEF g, e, f
LEMMA Appended ==
    ASSUME NEW S, NEW seq \in Seq(S), NEW e \in S, NEW f \in S
    PROVE  /\ seq \o <<>> = seq
           /\ seq \o <<e>> = Append(seq, e)
           /\ seq \o <<e, f>> = Append(Append(seq, e), f)
           /\ Len(Append(seq, e)) = Len(seq) + 1
           /\ Len(Append(Append(seq, e), f)) = Len(seq) + 2
  OBVIOUS

LEMMA Pair ==
    ASSUME NEW x, NEW y
    PROVE  Append(<<x>>, y) = <<x, y>>
<1>1. /\ DOMAIN Append(<<x>>, y) = 1 .. 2
      /\ Append(<<x>>, y)[1] = x
      /\ Append(<<x>>, y)[2] = y
  OBVIOUS
<1>2. Append(<<x>>, y) = [k \in 1 .. 2 |-> Append(<<x>>, y)[k]]
  BY <1>1
<1>3. [k \in 1 .. 2 |-> Append(<<x>>, y)[k]] = [k \in 1 .. 2 |-> IF k = 1 THEN x ELSE y]
  BY <1>1
<1>4. [k \in 1 .. 2 |-> IF k = 1 THEN x ELSE y] = <<x, y>>
  OBVIOUS
<1> QED BY <1>2, <1>3, <1>4

LEMMA MessageType ==
    ASSUME NEW n \in Nat, NEW frame \in FrameAccumulator
    PROVE  [number |-> n, parts |-> frame.fragments] \in Message
  BY DEF Message, FrameAccumulator

LEMMA Concatenated ==
    ASSUME NEW S, NEW a \in Seq(S), NEW b \in Seq(S)
    PROVE  /\ a \o b \in Seq(S)
           /\ Len(a \o b) = Len(a) + Len(b)
           /\ \A k \in 1 .. Len(a) : (a \o b)[k] = a[k]
           /\ \A k \in 1 .. Len(b) : (a \o b)[Len(a) + k] = b[k]
  OBVIOUS

LEMMA GrownFacts ==
    ASSUME NEW pub \in Seq(Message), NEW kept \in Seq(FrameAccumulator)
    PROVE  /\ Grown(pub, kept) \in Seq(Message)
           /\ Len(Grown(pub, kept)) = Len(pub) + Len(kept)
           /\ \A k \in DOMAIN pub : Grown(pub, kept)[k] = pub[k]
           /\ \A k \in DOMAIN kept : Grown(pub, kept)[Len(pub) + k]
                  = [number |-> Len(pub) + k - 1, parts |-> kept[k].fragments]
<1> DEFINE m == Len(pub)
           n == Len(kept)
           added == [k \in DOMAIN kept |-> [number |-> m + k - 1, parts |-> kept[k].fragments]]
<1>1. m \in Nat /\ n \in Nat /\ DOMAIN kept = 1 .. n /\ DOMAIN pub = 1 .. m
  OBVIOUS
<1>2. \A k \in 1 .. n : [number |-> m + k - 1, parts |-> kept[k].fragments] \in Message
  <2> SUFFICES ASSUME NEW k \in 1 .. n
               PROVE  [number |-> m + k - 1, parts |-> kept[k].fragments] \in Message
    OBVIOUS
  <2>1. kept[k] \in FrameAccumulator /\ m + k - 1 \in Nat
    BY <1>1
  <2> QED BY <2>1, MessageType
<1>3. /\ added \in Seq(Message)
      /\ Len(added) = n
      /\ \A k \in 1 .. n : added[k] = [number |-> m + k - 1, parts |-> kept[k].fragments]
  BY <1>1, <1>2
<1>4. Grown(pub, kept) = pub \o added
  BY DEF Grown
<1>5. m = Len(pub) /\ n = Len(added)
  BY <1>3
<1> HIDE DEF m, n, added
<1>6. PICK more : more = added
  OBVIOUS
<1>7. more \in Seq(Message) /\ Len(more) = n
  BY <1>3, <1>6
<1>8. /\ pub \o more \in Seq(Message)
      /\ Len(pub \o more) = m + n
      /\ \A k \in 1 .. m : (pub \o more)[k] = pub[k]
      /\ \A k \in 1 .. n : (pub \o more)[m + k] = more[k]
  BY <1>5, <1>7, Concatenated
<1> QED BY <1>1, <1>3, <1>4, <1>6, <1>8 DEF m, n

\* The same for no frame, one frame and two.
LEMMA GrownBy ==
    ASSUME NEW pub \in Seq(Message)
    PROVE  /\ Grown(pub, <<>>) = pub
           /\ \A x \in FrameAccumulator : Grown(pub, <<x>>)
                  = Append(pub, [number |-> Len(pub), parts |-> x.fragments])
           /\ \A x, y \in FrameAccumulator : Grown(pub, <<x, y>>)
                  = Append(Append(pub, [number |-> Len(pub), parts |-> x.fragments]),
                           [number |-> Len(pub) + 1, parts |-> y.fragments])
<1>1. Grown(pub, <<>>) = pub
  <2>1. [k \in DOMAIN <<>> |-> [number |-> Len(pub) + k - 1, parts |-> <<>>[k].fragments]] = <<>>
    OBVIOUS
  <2>2. pub \o <<>> = pub
    OBVIOUS
  <2> QED BY <2>1, <2>2 DEF Grown
<1>2. ASSUME NEW x \in FrameAccumulator
      PROVE  Grown(pub, <<x>>) = Append(pub, [number |-> Len(pub), parts |-> x.fragments])
  <2> DEFINE m == Len(pub)
             e == [number |-> m, parts |-> x.fragments]
             kept == <<x>>
             g == [k \in DOMAIN kept |-> [number |-> m + k - 1, parts |-> kept[k].fragments]]
  <2>1. m \in Nat /\ e \in Message
    BY MessageType
  <2>2. Grown(pub, kept) = pub \o g
    BY DEF Grown
  <2>3. g = <<e>>
    BY <2>1, OneMessage
  <2> HIDE DEF e, kept, g
  <2>4. pub \o <<e>> = Append(pub, e)
    BY <2>1, Appended
  <2> QED BY <2>2, <2>3, <2>4 DEF e, kept
<1>3. ASSUME NEW x \in FrameAccumulator, NEW y \in FrameAccumulator
      PROVE  Grown(pub, <<x, y>>)
                  = Append(Append(pub, [number |-> Len(pub), parts |-> x.fragments]),
                           [number |-> Len(pub) + 1, parts |-> y.fragments])
  <2> DEFINE m == Len(pub)
             e == [number |-> m, parts |-> x.fragments]
             f == [number |-> m + 1, parts |-> y.fragments]
             kept == <<x, y>>
             g == [k \in DOMAIN kept |-> [number |-> m + k - 1, parts |-> kept[k].fragments]]
  <2>1. m \in Nat /\ m + 1 \in Nat
    OBVIOUS
  <2>2. e \in Message /\ f \in Message
    BY <2>1, MessageType
  <2>3. Grown(pub, kept) = pub \o g
    BY DEF Grown
  <2>4. g = <<e, f>>
    BY <2>1, TwoMessages
  <2> HIDE DEF e, f, kept, g
  <2>5. pub \o <<e, f>> = Append(Append(pub, e), f)
    BY <2>2, Appended
  <2> QED BY <2>3, <2>4, <2>5 DEF e, f, kept
<1> QED BY <1>1, <1>2, <1>3

\* What is handed to onNewFrame when no frame, one, or two are finished.
LEMMA AssembleGrows ==
    ASSUME NEW both, both = CompleteFrame(1) \o CompleteFrame(2),
           NEW pub \in Seq(Message), asm.finished \in Seq(FrameAccumulator)
    PROVE  /\ asm'.finished = asm.finished
                  => both \in Seq(FrameAccumulator) /\ Grown(pub, both) = pub
           /\ \A x \in FrameAccumulator :
                  asm'.finished = Append(asm.finished, x)
                      => both \in Seq(FrameAccumulator) /\ Grown(pub, both) = Told(pub, x)
           /\ \A x, y \in FrameAccumulator :
                  asm'.finished = Append(Append(asm.finished, x), y)
                      => /\ both \in Seq(FrameAccumulator)
                         /\ Grown(pub, both) = Told(Told(pub, x), y)
<1> DEFINE n == Len(asm.finished)
           m == Len(pub)
<1>1. /\ n \in Nat /\ m \in Nat
      /\ DOMAIN asm.finished = 1 .. n
      /\ n + 1 \notin DOMAIN asm.finished
      /\ n + 2 \notin DOMAIN asm.finished
  OBVIOUS
<1>2. <<>> \in Seq(FrameAccumulator) /\ Grown(pub, <<>>) = pub
  BY GrownBy
<1>3. ASSUME NEW x \in FrameAccumulator
      PROVE  /\ <<x>> \in Seq(FrameAccumulator)
             /\ Grown(pub, <<x>>) = Append(pub, [number |-> m, parts |-> x.fragments])
  BY GrownBy
<1>4. ASSUME NEW x \in FrameAccumulator, NEW y \in FrameAccumulator
      PROVE  /\ <<x, y>> \in Seq(FrameAccumulator)
             /\ Grown(pub, <<x, y>>)
                    = Append(Append(pub, [number |-> m, parts |-> x.fragments]),
                             [number |-> m + 1, parts |-> y.fragments])
  BY GrownBy
<1> HIDE DEF n, m
<1>5. ASSUME asm'.finished = asm.finished
      PROVE  both \in Seq(FrameAccumulator) /\ Grown(pub, both) = pub
  <2>1. CompleteFrame(1) = <<>> /\ CompleteFrame(2) = <<>>
    BY <1>1, <1>5 DEF CompleteFrame, NewFrame, n
  <2>2. both = <<>>
    BY <2>1
  <2> QED BY <1>2, <2>2
<1>6. ASSUME NEW x \in FrameAccumulator, asm'.finished = Append(asm.finished, x)
      PROVE  both \in Seq(FrameAccumulator) /\ Grown(pub, both) = Told(pub, x)
  <2>1. /\ n + 1 \in DOMAIN asm'.finished /\ asm'.finished[n + 1] = x
        /\ n + 2 \notin DOMAIN asm'.finished
    BY <1>1, <1>6 DEF n
  <2>2. CompleteFrame(1) = IF IsComplete(x) THEN <<x>> ELSE <<>>
    <3>1. NewFrame(1) = <<x>>
      BY <2>1 DEF NewFrame, n
    <3> QED BY <3>1 DEF CompleteFrame
  <2>3. CompleteFrame(2) = <<>>
    <3>1. NewFrame(2) = <<>>
      BY <2>1 DEF NewFrame, n
    <3> QED BY <3>1 DEF CompleteFrame
  <2>4. both = IF IsComplete(x) THEN <<x>> ELSE <<>>
    <3>1. <<x>> \o <<>> = <<x>> /\ <<>> \o <<>> = <<>>
      OBVIOUS
    <3> QED BY <2>2, <2>3, <3>1
  <2>5. CASE ~IsComplete(x)
    BY <1>2, <2>4, <2>5 DEF Told
  <2>6. CASE IsComplete(x)
    BY <1>3, <2>4, <2>6 DEF Told, m
  <2> QED BY <2>5, <2>6
<1>7. ASSUME NEW x \in FrameAccumulator, NEW y \in FrameAccumulator,
             asm'.finished = Append(Append(asm.finished, x), y)
      PROVE  both \in Seq(FrameAccumulator) /\ Grown(pub, both) = Told(Told(pub, x), y)
  <2>1. /\ n + 1 \in DOMAIN asm'.finished /\ asm'.finished[n + 1] = x
        /\ n + 2 \in DOMAIN asm'.finished /\ asm'.finished[n + 2] = y
    <3> DEFINE one == Append(asm.finished, x)
    <3>1. /\ one \in Seq(FrameAccumulator) /\ Len(one) = n + 1 /\ one[n + 1] = x
      BY <1>1 DEF n
    <3> HIDE DEF one
    <3>2. asm'.finished = Append(one, y)
      BY <1>7 DEF one
    <3>3. /\ DOMAIN Append(one, y) = 1 .. n + 2
          /\ Append(one, y)[n + 2] = y
          /\ Append(one, y)[n + 1] = one[n + 1]
      BY <1>1, <3>1
    <3> QED BY <1>1, <3>1, <3>2, <3>3
  <2>2. CompleteFrame(1) = IF IsComplete(x) THEN <<x>> ELSE <<>>
    <3>1. NewFrame(1) = <<x>>
      BY <2>1 DEF NewFrame, n
    <3> QED BY <3>1 DEF CompleteFrame
  <2>3. CompleteFrame(2) = IF IsComplete(y) THEN <<y>> ELSE <<>>
    <3>1. NewFrame(2) = <<y>>
      BY <2>1 DEF NewFrame, n
    <3> QED BY <3>1 DEF CompleteFrame
  <2>4. both = IF IsComplete(x) THEN IF IsComplete(y) THEN <<x, y>> ELSE <<x>>
                                ELSE IF IsComplete(y) THEN <<y>> ELSE <<>>
    <3>1. <<>> \in Seq(FrameAccumulator) /\ <<x>> \in Seq(FrameAccumulator)
      OBVIOUS
    <3>2. <<x>> \o <<>> = <<x>> /\ <<>> \o <<>> = <<>>
      OBVIOUS
    <3>3. <<>> \o <<y>> = Append(<<>>, y) /\ <<x>> \o <<y>> = Append(<<x>>, y)
      BY <3>1, Appended
    <3>4. Append(<<>>, y) = <<y>>
      OBVIOUS
    <3> QED BY <2>2, <2>3, <3>2, <3>3, <3>4, Pair
  <2>5. Len(Append(pub, [number |-> m, parts |-> x.fragments])) = m + 1
    BY DEF m
  <2>6. CASE ~IsComplete(x) /\ ~IsComplete(y)
    BY <1>2, <2>4, <2>6 DEF Told
  <2>7. CASE IsComplete(x) /\ ~IsComplete(y)
    BY <1>3, <2>4, <2>7 DEF Told, m
  <2>8. CASE ~IsComplete(x) /\ IsComplete(y)
    BY <1>3, <2>4, <2>8 DEF Told, m
  <2>9. CASE IsComplete(x) /\ IsComplete(y)
    BY <1>4, <2>4, <2>5, <2>9 DEF Told, m
  <2> QED BY <2>6, <2>7, <2>8, <2>9
<1> QED BY <1>5, <1>6, <1>7

\* What is handed to onNewFrame is what is counted complete.
Counted(s, pub) ==
    /\ pub \in Seq(Message)
    /\ Len(pub) = s.metrics.CompleteFrameCount

LEMMA FrameInProgressType ==
    ASSUME NEW s, SoundState(s), InProgress(s)
    PROVE  /\ s.currentFrame \in FrameAccumulator
           /\ Numbered(s) \in FrameAccumulator
           /\ Numbered(s).fragments = s.currentFrame.fragments
           /\ IsComplete(Numbered(s)) <=> IsComplete(s.currentFrame)
           /\ IsSound(s.currentFrame)
<1>1. s.currentFrame \in FrameAccumulator /\ s.monotonicFrameIndex \in Nat
  BY DEF SoundState, AssemblerType, InProgress
<1>2. Numbered(s) \in FrameAccumulator
  BY <1>1, FrameFacts DEF Numbered
<1>3. /\ Numbered(s).fragments = s.currentFrame.fragments
      /\ Numbered(s).totalDataSize = s.currentFrame.totalDataSize
  BY <1>1 DEF Numbered, FrameAccumulator
<1>4. IsComplete(Numbered(s)) <=> IsComplete(s.currentFrame)
  BY <1>3 DEF IsComplete, BytesReceived
<1> QED BY <1>1, <1>2, <1>3, <1>4 DEF SoundState, FramesSound

LEMMA TellsCounted ==
    ASSUME NEW s, NEW t, NEW pub, NEW qub,
           Flushes(s, t), Tells(s, t, pub, qub), Counted(s, pub)
    PROVE  Counted(t, qub)
<1>1. CASE Quiet(s, t) /\ qub = pub
  BY <1>1 DEF Counted, Quiet
<1>2. CASE HandsOver(s, t) /\ qub = Told(pub, s.currentFrame)
  <2> DEFINE frame == s.currentFrame
             e == [number |-> Len(pub), parts |-> frame.fragments]
  <2>1. frame \in FrameAccumulator
    BY <1>2, FrameInProgressType DEF Flushes, HandsOver
  <2>2. pub \in Seq(Message) /\ qub \in Seq(Message)
    BY <1>2, <2>1, ToldType DEF Counted
  <2>3. s.metrics.CompleteFrameCount \in Nat
    BY DEF Flushes, SoundState, AssemblerType, MetricsType
  <2>4. qub = IF IsComplete(frame) THEN Append(pub, e) ELSE pub
    BY <1>2 DEF Told
  <2>5. t.metrics.CompleteFrameCount
          = s.metrics.CompleteFrameCount + (IF IsComplete(frame) THEN 1 ELSE 0)
    BY <1>2 DEF HandsOver
  <2> HIDE DEF e, frame
  <2>6. Len(Append(pub, e)) = Len(pub) + 1 /\ Len(pub) \in Nat
    BY <2>2
  <2> QED BY <2>2, <2>3, <2>4, <2>5, <2>6 DEF Counted
<1> QED BY <1>1, <1>2 DEF Tells

LEMMA TakeCounted ==
    ASSUME NEW s, NEW t, NEW p, NEW pub, MayTake(s, t, p), Counted(s, pub)
    PROVE  Counted(t, pub)
  BY DEF MayTake, Quiet, Takes, Counted

-----------------------------------------------------------------------------
\* What the steps of the stream do to the frames and to what onNewFrame is handed.
\* The lemmas speak of told, everything onNewFrame has been handed so far, and of
\* qold, the same after a step.

Flags == {steady, listening, disposing, completed, workerCalls, entered} \subseteq BOOLEAN

\* Of told, the k-th frame onNewFrame is still to be done for comes next but k.
IsNext(told, k) == told[nextFrameIndex + k] = [number |-> nextFrameIndex + k - 1,
                                               parts  |-> newFrames[k].fragments]

\* The client has been told of told up to nextFrameIndex.  Unless it disposes, the
\* rest is what onNewFrame is still to be done for.
ClientSound(told) ==
    /\ Flags
    /\ told \in Seq(Message)
    /\ published \in Seq(Message)
    /\ nextFrameIndex \in Nat
    /\ newFrames \in Seq(FrameAccumulator)
    /\ \A k \in DOMAIN published : k \in DOMAIN told /\ published[k] = told[k]
    /\ nextFrameIndex + Len(newFrames) =< Len(told)
    /\ completed => disposing
    /\ IF completed /\ ~entered THEN nextFrameIndex - Len(published) \in {0, 1}
                                ELSE nextFrameIndex = Len(published)
    /\ entered => newFrames # <<>> /\ IsNext(told, 1)
    /\ ~disposing => /\ nextFrameIndex + Len(newFrames) = Len(told)
                     /\ \A k \in DOMAIN newFrames : IsNext(told, k)

\* A step that finishes nothing.
KeepsQuiet(told, qold) == /\ SoundState(asm')
                          /\ Quiet(asm, asm')
                          /\ qold = told

\* The steps that may finish a frame: the conduit's flush, and a datagram p.
ToldByFlush(told, qold) == Flushes(asm, asm') /\ Tells(asm, asm', told, qold)

ToldByPart(p, told, qold) == \E a, u, pub : /\ Flushes(asm, a)
                                            /\ Tells(asm, a, told, pub)
                                            /\ MayTake(a, u, p)
                                            /\ Heeds(asm, a, u, p)
                                            /\ Completes(u, asm', p)
                                            /\ Tells(u, asm', pub, qold)

LEMMA CompletesFlushes ==
    ASSUME NEW s, NEW t, NEW p, Completes(s, t, p)
    PROVE  Flushes(s, t)
  BY DEF Completes, Flushes

LEMMA ToldNumbered ==
    ASSUME NEW s, SoundState(s), InProgress(s), NEW pub
    PROVE  Told(pub, Numbered(s)) = Told(pub, s.currentFrame)
  BY FrameInProgressType DEF Told

LEMMA FlushTells ==
    ASSUME SoundState(asm), NEW told \in Seq(Message), Flushes(asm, asm'),
           NEW both, both = CompleteFrame(1) \o CompleteFrame(2)
    PROVE  both \in Seq(FrameAccumulator) /\ Tells(asm, asm', told, Grown(told, both))
<1>1. asm.finished \in Seq(FrameAccumulator)
  BY DEF SoundState, AssemblerType
<1>2. CASE Quiet(asm, asm')
  <2>1. both \in Seq(FrameAccumulator) /\ Grown(told, both) = told
    BY <1>1, <1>2, AssembleGrows DEF Quiet
  <2> QED BY <1>2, <2>1 DEF Tells
<1>3. CASE HandsOver(asm, asm')
  <2>1. Numbered(asm) \in FrameAccumulator
    BY <1>3, FrameInProgressType DEF HandsOver
  <2>2. both \in Seq(FrameAccumulator) /\ Grown(told, both) = Told(told, Numbered(asm))
    BY <1>1, <1>3, <2>1, AssembleGrows DEF HandsOver
  <2>3. Grown(told, both) = Told(told, asm.currentFrame)
    BY <1>3, <2>2, ToldNumbered DEF HandsOver
  <2> QED BY <1>3, <2>2, <2>3 DEF Tells
<1> QED BY <1>2, <1>3 DEF Flushes

LEMMA PartTells ==
    ASSUME SoundState(asm), NEW told \in Seq(Message), NEW p, NEW a, NEW u,
           Flushes(asm, a), MayTake(a, u, p), Heeds(asm, a, u, p), Completes(u, asm', p),
           NEW both, both = CompleteFrame(1) \o CompleteFrame(2)
    PROVE  both \in Seq(FrameAccumulator) /\ ToldByPart(p, told, Grown(told, both))
<1> DEFINE qold == Grown(told, both)
<1>1. /\ asm.finished \in Seq(FrameAccumulator)
      /\ u.finished = a.finished
      /\ SoundState(u)
  BY DEF SoundState, AssemblerType, MayTake, Quiet, Takes
<1>2. CASE Quiet(asm, a) /\ Quiet(u, asm')
  <2>1. asm'.finished = asm.finished
    BY <1>1, <1>2 DEF Quiet
  <2>2. both \in Seq(FrameAccumulator) /\ qold = told
    BY <1>1, <2>1, AssembleGrows
  <2>3. Tells(asm, a, told, told) /\ Tells(u, asm', told, qold)
    BY <1>2, <2>2 DEF Tells
  <2> QED BY <2>2, <2>3 DEF ToldByPart
<1>3. CASE HandsOver(asm, a) /\ Quiet(u, asm')
  <2> DEFINE pub == Told(told, asm.currentFrame)
  <2>1. Numbered(asm) \in FrameAccumulator
    BY <1>3, FrameInProgressType DEF HandsOver
  <2>2. asm'.finished = Append(asm.finished, Numbered(asm))
    BY <1>1, <1>3 DEF Quiet, HandsOver
  <2>3. both \in Seq(FrameAccumulator) /\ qold = Told(told, Numbered(asm))
    BY <1>1, <2>1, <2>2, AssembleGrows
  <2>4. qold = pub
    BY <1>3, <2>3, ToldNumbered DEF HandsOver
  <2>5. Tells(asm, a, told, pub) /\ Tells(u, asm', pub, qold)
    BY <1>3, <2>4 DEF Tells
  <2> QED BY <2>3, <2>5 DEF ToldByPart
<1>4. CASE Quiet(asm, a) /\ HandsOver(u, asm')
  <2>1. Numbered(u) \in FrameAccumulator
    BY <1>1, <1>4, FrameInProgressType DEF HandsOver
  <2>2. asm'.finished = Append(asm.finished, Numbered(u))
    BY <1>1, <1>4 DEF Quiet, HandsOver
  <2>3. both \in Seq(FrameAccumulator) /\ qold = Told(told, Numbered(u))
    BY <1>1, <2>1, <2>2, AssembleGrows
  <2>4. qold = Told(told, u.currentFrame)
    BY <1>1, <1>4, <2>3, ToldNumbered DEF HandsOver
  <2>5. Tells(asm, a, told, told) /\ Tells(u, asm', told, qold)
    BY <1>4, <2>4 DEF Tells
  <2> QED BY <2>3, <2>5 DEF ToldByPart
<1>5. CASE HandsOver(asm, a) /\ HandsOver(u, asm')
  <2> DEFINE pub == Told(told, asm.currentFrame)
  <2>1. Numbered(asm) \in FrameAccumulator /\ Numbered(u) \in FrameAccumulator
    BY <1>1, <1>5, FrameInProgressType DEF HandsOver
  <2>2. asm'.finished = Append(Append(asm.finished, Numbered(asm)), Numbered(u))
    BY <1>1, <1>5 DEF HandsOver
  <2>3. both \in Seq(FrameAccumulator) /\ qold = Told(Told(told, Numbered(asm)), Numbered(u))
    BY <1>1, <2>1, <2>2, AssembleGrows
  <2>4. Told(told, Numbered(asm)) = pub
    BY <1>5, ToldNumbered DEF HandsOver
  <2>5. qold = Told(pub, u.currentFrame)
    BY <1>1, <1>5, <2>3, <2>4, ToldNumbered DEF HandsOver
  <2> HIDE DEF pub, qold
  <2>6. Tells(u, asm', pub, qold)
    BY <1>5, <2>5 DEF Tells
  <2>7. Tells(asm, a, told, pub)
    BY <1>5 DEF Tells, pub
  <2>8. ToldByPart(p, told, qold)
    BY <2>6, <2>7 DEF ToldByPart
  <2> QED BY <2>3, <2>8 DEF qold
<1> QED BY <1>2, <1>3, <1>4, <1>5 DEF Flushes, Completes

Unit(p) == [kind |-> "Packet", packet |-> p]

LEMMA UnitFacts ==
    /\ \A p \in Packets : Unit(p) \in WorkUnit
    /\ \A p, q \in Packets : Unit(p) = Unit(q) => p = q
    /\ \A p \in Packets : Unit(p) # [kind |-> "Packet", packet |-> Garbage]
    /\ \A p \in Packets, n \in Nat : Unit(p) # [kind |-> "Drain", posted |-> n]
<1>1. Garbage \notin Packets
  <2>1. Garbage.frame \notin DOMAIN Stream
    BY StreamAssumption DEF Garbage
  <2> QED BY <2>1, PacketFacts
<1>2. \A p \in Packets : Unit(p) \in WorkUnit
  BY DEF Unit, WorkUnit, Datagrams
<1>3. \A p, q : Unit(p) = Unit(q) => p = q
  <2>1. \A p : Unit(p).packet = p
    BY DEF Unit
  <2> QED BY <2>1
<1>4. \A p \in Packets : Unit(p) # [kind |-> "Packet", packet |-> Garbage]
  BY <1>1, <1>3 DEF Unit
<1>5. \A p \in Packets, n \in Nat : Unit(p) # [kind |-> "Drain", posted |-> n]
  <2>1. \A p : Unit(p).kind = "Packet"
    BY DEF Unit
  <2>2. \A n : [kind |-> "Drain", posted |-> n].kind = "Drain"
    OBVIOUS
  <2> QED BY <2>1, <2>2
<1> QED BY <1>2, <1>3, <1>4, <1>5

\* The worker takes the datagram p from its queue.
Consumes(p) == /\ pktProcessor # <<>>
               /\ Head(pktProcessor) = Unit(p)
               /\ pktProcessor' = Tail(pktProcessor)

Handles(p) == Consumes(p) /\ UNCHANGED <<workQueue, linkVars>>

StepTells(told, qold) ==
    \/ KeepsQuiet(told, qold) /\ \A p \in Packets : ~Consumes(p)
    \/ ~steady /\ UNCHANGED linkVars /\ ToldByFlush(told, qold)
    \/ \E p \in Packets : Handles(p) /\ ToldByPart(p, told, qold)

LEMMA NothingConsumed ==
    ASSUME pktProcessor \in Seq(WorkUnit), NEW p,
           \/ pktProcessor' = pktProcessor
           \/ \E unit \in WorkUnit : pktProcessor' = Append(pktProcessor, unit)
    PROVE  ~Consumes(p)
<1> SUFFICES ASSUME Consumes(p) PROVE FALSE
  OBVIOUS
<1>1. Len(pktProcessor') = Len(pktProcessor) - 1 /\ Len(pktProcessor) \in Nat
  BY DEF Consumes
<1>2. Len(pktProcessor') >= Len(pktProcessor)
  OBVIOUS
<1> QED BY <1>1, <1>2

LEMMA FlagsStay == Flags /\ [StreamNext]_allVars => Flags'
<1> SUFFICES ASSUME Flags, [StreamNext]_allVars PROVE Flags'
  OBVIOUS
<1>1. /\ steady' = steady
      /\ listening' = listening \/ listening' = FALSE
      /\ disposing' = disposing \/ disposing' = TRUE
      /\ completed' = completed \/ completed' = TRUE
  BY Zenon DEF StreamNext, ReceiveFramePart, Transmit, ReceiveGarbage, Receive, Drain, Deliver,
     Work, WorkOnPacket, WorkOn, OnNewFrame, FlushListener, BeginDispose, CompleteSubject,
     ListenLoopEnds, DisposeAssembler, allVars, linkVars, disposeVars
<1>2. UNCHANGED callVars => entered' = entered /\ workerCalls' = workerCalls
  BY DEF callVars
<1>3. ASSUME NEW b \in BOOLEAN, Assemble(b) PROVE entered' = entered /\ workerCalls' \in BOOLEAN
  BY <1>3 DEF Assemble
<1>4. OnNewFrame => entered' \in BOOLEAN /\ workerCalls' \in BOOLEAN
  BY DEF OnNewFrame, PassesTest, FailsTest, Publish, LeaveOnNewFrame, Flags
<1>5. entered' \in BOOLEAN /\ workerCalls' \in BOOLEAN
  <2>1. \/ UNCHANGED callVars
        \/ \E b \in BOOLEAN : Assemble(b)
        \/ OnNewFrame
    BY Zenon DEF StreamNext, ReceiveFramePart, ReceiveGarbage, Receive, Drain, Deliver,
       Work, WorkOnPacket, WorkOn, FlushListener, BeginDispose, CompleteSubject,
       ListenLoopEnds, DisposeAssembler, allVars
  <2> QED BY <1>2, <1>3, <1>4, <2>1 DEF Flags
<1> QED BY <1>1, <1>5 DEF Flags

\* The worker, or the conduit's flush, finishes frames.
LEMMA AssembleSound ==
    ASSUME NEW told, ClientSound(told), NEW byWorker, Assemble(byWorker), UNCHANGED disposeVars,
           Flags', newFrames' \in Seq(FrameAccumulator),
           NEW qold, qold = Grown(told, newFrames')
    PROVE  ClientSound(qold)'
<1>1. /\ told \in Seq(Message) /\ newFrames = <<>> /\ Len(newFrames) = 0
      /\ nextFrameIndex \in Nat /\ published \in Seq(Message)
      /\ UNCHANGED <<entered, nextFrameIndex, published, disposing, completed>>
  BY DEF ClientSound, Assemble, clientVars, disposeVars
<1>2. /\ qold \in Seq(Message)
      /\ Len(qold) = Len(told) + Len(newFrames')
      /\ \A k \in DOMAIN told : qold[k] = told[k]
      /\ \A k \in DOMAIN newFrames' : qold[Len(told) + k]
             = [number |-> Len(told) + k - 1, parts |-> newFrames'[k].fragments]
  BY <1>1, GrownFacts
<1>3. /\ Len(told) \in Nat /\ Len(newFrames') \in Nat
      /\ DOMAIN told = 1 .. Len(told) /\ DOMAIN qold = 1 .. Len(qold)
  BY <1>1, <1>2
<1>4. ~entered
  BY <1>1 DEF ClientSound
<1>5. \A k \in DOMAIN published : k \in DOMAIN qold /\ published[k] = qold[k]
  <2>1. \A k \in DOMAIN published : k \in DOMAIN told /\ published[k] = told[k]
    BY DEF ClientSound
  <2>2. \A k \in DOMAIN told : k \in DOMAIN qold
    BY <1>2, <1>3
  <2> QED BY <1>2, <2>1, <2>2
<1>6. nextFrameIndex + Len(newFrames') =< Len(qold)
  <2>1. nextFrameIndex + Len(newFrames) =< Len(told)
    BY DEF ClientSound
  <2> QED BY <1>1, <1>2, <1>3, <2>1
<1>7. ASSUME ~disposing
      PROVE  /\ nextFrameIndex + Len(newFrames') = Len(qold)
             /\ \A k \in DOMAIN newFrames' : IsNext(qold, k)'
  <2>1. nextFrameIndex = Len(told)
    BY <1>1, <1>3, <1>7 DEF ClientSound
  <2> QED BY <1>1, <1>2, <2>1 DEF IsNext
<1>8. /\ completed => disposing
      /\ IF completed /\ ~entered THEN nextFrameIndex - Len(published) \in {0, 1}
                                  ELSE nextFrameIndex = Len(published)
  BY DEF ClientSound
<1> QED BY <1>1, <1>2, <1>4, <1>5, <1>6, <1>7, <1>8 DEF ClientSound

\* The client is told of a frame, or not.
LEMMA OnNewFrameSound ==
    ASSUME NEW told, ClientSound(told), OnNewFrame, Flags'
    PROVE  ClientSound(told)'
<1>1. /\ told \in Seq(Message) /\ Len(told) \in Nat /\ DOMAIN told = 1 .. Len(told)
      /\ nextFrameIndex \in Nat
      /\ published \in Seq(Message) /\ Len(published) \in Nat
      /\ DOMAIN published = 1 .. Len(published)
      /\ newFrames \in Seq(FrameAccumulator)
      /\ UNCHANGED <<disposing, completed>>
      /\ {disposing, completed, entered} \subseteq BOOLEAN
  BY DEF ClientSound, OnNewFrame, disposeVars, Flags
<1>2. ASSUME newFrames # <<>>, newFrames' = Tail(newFrames)
      PROVE  /\ newFrames' \in Seq(FrameAccumulator)
             /\ Len(newFrames') = Len(newFrames) - 1
             /\ Len(newFrames) \in Nat \ {0}
             /\ newFrames[1] = Head(newFrames)
             /\ Head(newFrames) \in FrameAccumulator
             /\ 1 \in DOMAIN newFrames
             /\ \A k \in DOMAIN newFrames' : k \in Nat /\ k + 1 \in DOMAIN newFrames
                                             /\ newFrames'[k] = newFrames[k + 1]
  BY <1>1, <1>2
<1>3. CASE PassesTest
  <2>1. 1 \in DOMAIN newFrames
    BY <1>1, <1>3 DEF PassesTest
  <2>2. IsNext(told, 1)
    BY <1>3, <2>1 DEF PassesTest, ClientSound
  <2>3. /\ UNCHANGED <<newFrames, nextFrameIndex, published>>
        /\ ~entered /\ ~disposing /\ entered' = TRUE /\ newFrames # <<>>
    BY <1>3 DEF PassesTest, clientVars
  <2>4. ~completed
    BY <2>3 DEF ClientSound
  <2>5. nextFrameIndex = Len(published)
    BY <2>4 DEF ClientSound
  <2> QED BY <1>1, <2>2, <2>3, <2>4, <2>5 DEF ClientSound, IsNext
<1>4. CASE FailsTest
  <2>1. /\ UNCHANGED <<nextFrameIndex, published>>
        /\ disposing /\ ~entered /\ entered' = FALSE
        /\ newFrames # <<>> /\ newFrames' = Tail(newFrames)
    BY <1>4 DEF FailsTest, LeaveOnNewFrame, clientVars
  <2>2. newFrames' \in Seq(FrameAccumulator) /\ Len(newFrames') = Len(newFrames) - 1
        /\ Len(newFrames) \in Nat
    BY <1>2, <2>1
  <2>3. nextFrameIndex + Len(newFrames') =< Len(told)
    <3>1. nextFrameIndex + Len(newFrames) =< Len(told)
      BY DEF ClientSound
    <3> QED BY <1>1, <2>2, <3>1
  <2> QED BY <1>1, <2>1, <2>2, <2>3 DEF ClientSound
<1>5. CASE Publish
  <2> DEFINE frame == Head(newFrames)
             e == [number |-> nextFrameIndex, parts |-> frame.fragments]
  <2>1. /\ entered /\ entered' = FALSE
        /\ newFrames' = Tail(newFrames)
        /\ nextFrameIndex' = nextFrameIndex + 1
        /\ published' = IF completed THEN published ELSE Append(published, e)
    BY <1>5 DEF Publish, LeaveOnNewFrame
  <2>2. newFrames # <<>> /\ nextFrameIndex = Len(published) /\ IsNext(told, 1)
    BY <2>1 DEF ClientSound
  <2>3. frame \in FrameAccumulator /\ newFrames[1] = frame
    BY <1>2, <2>1, <2>2
  <2>4. e \in Message
    BY <1>1, <2>3, MessageType
  <2>5. told[nextFrameIndex + 1] = e
    <3>1. nextFrameIndex + 1 - 1 = nextFrameIndex
      BY <1>1
    <3> QED BY <2>2, <2>3, <3>1 DEF IsNext
  <2> HIDE DEF e, frame
  <2>6. /\ newFrames' \in Seq(FrameAccumulator)
        /\ Len(newFrames') = Len(newFrames) - 1 /\ Len(newFrames) \in Nat \ {0}
        /\ \A k \in DOMAIN newFrames' : k \in Nat /\ k + 1 \in DOMAIN newFrames
                                        /\ newFrames'[k] = newFrames[k + 1]
    BY <1>2, <2>1, <2>2
  <2>7. nextFrameIndex + Len(newFrames) =< Len(told)
    BY DEF ClientSound
  <2>8. nextFrameIndex' + Len(newFrames') =< Len(told) /\ nextFrameIndex + 1 \in DOMAIN told
    BY <1>1, <2>1, <2>6, <2>7
  <2>9. /\ published' \in Seq(Message)
        /\ \A k \in DOMAIN published' : k \in DOMAIN told /\ published'[k] = told[k]
        /\ IF completed THEN nextFrameIndex' - Len(published') \in {0, 1}
                        ELSE nextFrameIndex' = Len(published')
    <3>1. CASE completed
      <4>1. published' = published
        BY <2>1, <3>1
      <4>2. \A k \in DOMAIN published : k \in DOMAIN told /\ published[k] = told[k]
        BY DEF ClientSound
      <4> QED BY <1>1, <2>1, <2>2, <3>1, <4>1, <4>2
    <3>2. CASE ~completed
      <4>1. /\ published' \in Seq(Message)
            /\ Len(published') = Len(published) + 1
            /\ DOMAIN published' = 1 .. Len(published) + 1
            /\ \A k \in 1 .. Len(published) : published'[k] = published[k]
            /\ published'[Len(published) + 1] = e
        BY <1>1, <2>1, <2>4, <3>2
      <4>2. \A k \in 1 .. Len(published) + 1 : k \in 1 .. Len(published) \/ k = Len(published) + 1
        BY <1>1
      <4>3. \A k \in 1 .. Len(published) : k \in DOMAIN told /\ published[k] = told[k]
        BY <1>1 DEF ClientSound
      <4>4. \A k \in DOMAIN published' : k \in DOMAIN told /\ published'[k] = told[k]
        BY <2>2, <2>5, <2>8, <4>1, <4>2, <4>3
      <4> QED BY <1>1, <2>1, <2>2, <3>2, <4>1, <4>4
    <3> QED BY <1>1, <3>1, <3>2
  <2>10. ASSUME ~disposing
         PROVE  /\ nextFrameIndex' + Len(newFrames') = Len(told)
                /\ \A k \in DOMAIN newFrames' : IsNext(told, k)'
    <3>1. nextFrameIndex + Len(newFrames) = Len(told) /\ \A k \in DOMAIN newFrames : IsNext(told, k)
      BY <2>10 DEF ClientSound
    <3>2. ASSUME NEW k \in DOMAIN newFrames' PROVE IsNext(told, k)'
      <4>1. IsNext(told, k + 1) /\ newFrames'[k] = newFrames[k + 1] /\ k \in Nat
        BY <2>6, <3>1, <3>2
      <4>2. nextFrameIndex' = nextFrameIndex + 1 /\ nextFrameIndex \in Nat
        BY <1>1, <2>1
      <4>3. /\ nextFrameIndex + (k + 1) = nextFrameIndex' + k
            /\ nextFrameIndex + (k + 1) - 1 = nextFrameIndex' + k - 1
        BY <4>1, <4>2
      <4> QED BY <4>1, <4>3 DEF IsNext
    <3>3. nextFrameIndex' + Len(newFrames') = Len(told)
      <4>1. /\ nextFrameIndex' = nextFrameIndex + 1 /\ nextFrameIndex \in Nat
            /\ Len(newFrames') = Len(newFrames) - 1 /\ Len(newFrames) \in Nat
        BY <1>1, <2>1, <2>6
      <4> QED BY <3>1, <4>1
    <3> QED BY <3>2, <3>3
  <2>11. completed => disposing
    BY DEF ClientSound
  <2>12. nextFrameIndex' \in Nat
    BY <1>1, <2>1
  <2> QED BY <1>1, <2>1, <2>6, <2>8, <2>9, <2>10, <2>11, <2>12 DEF ClientSound
<1> QED BY <1>3, <1>4, <1>5 DEF OnNewFrame

LEMMA PacketTells ==
    ASSUME IInv, IInv', NEW told \in Seq(Message), WorkOnPacket
    PROVE  /\ newFrames' \in Seq(FrameAccumulator)
           /\ StepTells(told, Grown(told, newFrames'))
<1> DEFINE unit == Head(pktProcessor)
           qold == Grown(told, newFrames')
<1>1. SoundState(asm) /\ SoundState(asm') /\ ProcessWorkUnitPacket
  BY DEF IInv, WorkOnPacket
<1>2. asm \in AssemblerType /\ pktProcessor \in Seq(WorkUnit)
  BY <1>1 DEF SoundState, IInv, TypeOK
<1>3. newFrames' = CompleteFrame(1) \o CompleteFrame(2)
  BY DEF WorkOnPacket, Assemble
<1>4. unit \in WorkUnit /\ IsPacket(unit)
  BY <1>1 DEF ProcessWorkUnitPacket, IInv, TypeOK
<1>5. unit.packet \in Datagrams /\ unit = [kind |-> "Packet", packet |-> unit.packet]
  BY <1>4 DEF WorkUnit, IsPacket
<1>6. PICK ackSent \in BOOLEAN : asm' = ReceivePacket(asm, unit.packet, ackSent)
  BY <1>1 DEF ProcessWorkUnitPacket
<1>7. CASE unit.packet = Garbage
  <2>1. asm' = Begun(asm, FALSE)
    BY <1>6, <1>7 DEF ReceivePacket
  <2>2. Quiet(asm, asm')
    BY <1>2, <2>1 DEF Begun, Quiet, AssemblerType
  <2>3. \A p \in Packets : ~Consumes(p)
    BY <1>5, <1>7, UnitFacts DEF Consumes
  <2>4. asm.finished \in Seq(FrameAccumulator) /\ asm'.finished = asm.finished
    BY <1>2, <2>2 DEF AssemblerType, Quiet
  <2>5. newFrames' \in Seq(FrameAccumulator) /\ qold = told
    BY <1>3, <2>4, AssembleGrows
  <2> QED BY <1>1, <2>2, <2>3, <2>5 DEF StepTells, KeepsQuiet
<1>8. CASE unit.packet \in Packets
  <2>1. ~asm.call.acceptedPacket
    BY <1>1 DEF ProcessWorkUnitPacket, IInv
  <2>2. PICK a, u : /\ Flushes(asm, a)
                    /\ MayTake(a, u, unit.packet)
                    /\ Completes(u, asm', unit.packet)
                    /\ Heeds(asm, a, u, unit.packet)
    BY <1>1, <1>6, <1>8, <2>1, ReceivePacketEffect
  <2>3. newFrames' \in Seq(FrameAccumulator) /\ ToldByPart(unit.packet, told, qold)
    BY <1>1, <1>3, <2>2, PartTells
  <2>4. Handles(unit.packet)
    BY <1>1, <1>5 DEF Handles, Consumes, Unit, ProcessWorkUnitPacket, WorkOnPacket
  <2> QED BY <1>8, <2>3, <2>4 DEF StepTells
<1> QED BY <1>5, <1>7, <1>8 DEF Datagrams

LEMMA StreamTells ==
    ASSUME IInv, IInv', NEW told, ClientSound(told), [StreamNext]_allVars
    PROVE  \E qold : ClientSound(qold)' /\ StepTells(told, qold)
<1>1. SoundState(asm) /\ SoundState(asm') /\ Flags' /\ told \in Seq(Message)
  BY FlagsStay DEF IInv, ClientSound
<1>2. ASSUME Quiet(asm, asm'), \A p \in Packets : ~Consumes(p)
      PROVE  StepTells(told, told)
  BY <1>1, <1>2 DEF StepTells, KeepsQuiet
<1>3. ASSUME \/ pktProcessor' = pktProcessor
             \/ \E unit \in WorkUnit : pktProcessor' = Append(pktProcessor, unit)
      PROVE  \A p \in Packets : ~Consumes(p)
  BY <1>3, NothingConsumed DEF IInv, TypeOK
<1>4. UNCHANGED <<disposeVars, callVars, clientVars>> => ClientSound(told)'
  BY <1>1 DEF disposeVars, callVars, clientVars, ClientSound, IsNext
<1>5. asm' = asm => Quiet(asm, asm')
  BY DEF Quiet
<1>6. CASE FlushListener
  <2>1. asm' = Flush(asm, TRUE) /\ ~steady /\ UNCHANGED <<linkVars, disposeVars>>
        /\ Assemble(FALSE)
    BY <1>6 DEF FlushListener, FlushMember
  <2>2. Flushes(asm, asm')
    BY <1>1, <2>1, FlushEffect
  <2>3. newFrames' = CompleteFrame(1) \o CompleteFrame(2)
    BY <2>1 DEF Assemble
  <2>4. /\ newFrames' \in Seq(FrameAccumulator)
        /\ Tells(asm, asm', told, Grown(told, newFrames'))
    BY <1>1, <2>2, <2>3, FlushTells
  <2>5. PICK qold : qold = Grown(told, newFrames')
    OBVIOUS
  <2>6. ClientSound(qold)'
    BY <1>1, <2>1, <2>4, <2>5, AssembleSound
  <2>7. StepTells(told, qold)
    BY <2>1, <2>2, <2>4, <2>5 DEF StepTells, ToldByFlush
  <2> QED BY <2>6, <2>7
<1>7. CASE WorkOnPacket
  <2>1. newFrames' \in Seq(FrameAccumulator) /\ StepTells(told, Grown(told, newFrames'))
    BY <1>1, <1>7, PacketTells
  <2>2. PICK qold : qold = Grown(told, newFrames')
    OBVIOUS
  <2>3. ClientSound(qold)'
    BY <1>1, <1>7, <2>1, <2>2, AssembleSound DEF WorkOnPacket
  <2> QED BY <2>1, <2>2, <2>3
<1>8. CASE WorkOn /\ UpdateMetrics
  <2>1. asm' = WithPacketCounted(asm) /\ pktProcessor' = pktProcessor /\ asm \in AssemblerType
    BY <1>8 DEF UpdateMetrics, IInv, SoundState
  <2>2. /\ asm'.currentFrame = asm.currentFrame
        /\ asm'.finished = asm.finished
        /\ asm'.metrics = WithPacketAdded(asm.metrics, asm.call)
    BY <2>1 DEF WithPacketCounted, AssemblerType
  <2>3. asm'.metrics.CompleteFrameCount = asm.metrics.CompleteFrameCount
    BY <2>1, <2>2 DEF WithPacketAdded, AssemblerType, MetricsType
  <2>4. Quiet(asm, asm')
    BY <2>2, <2>3 DEF Quiet
  <2> QED BY <1>2, <1>3, <1>4, <1>8, <2>1, <2>4 DEF WorkOn
<1>9. CASE WorkOn /\ ProcessWorkUnitDrain
  <2>1. \A p \in Packets : ~Consumes(p)
    BY <1>9 DEF ProcessWorkUnitDrain, IsPacket, Consumes, Unit
  <2> QED BY <1>2, <1>4, <1>5, <1>9, <2>1 DEF WorkOn, ProcessWorkUnitDrain
<1>10. CASE OnNewFrame
  <2>1. asm' = asm /\ pktProcessor' = pktProcessor
    BY <1>10 DEF OnNewFrame, vars
  <2> QED BY <1>1, <1>2, <1>3, <1>5, <1>10, <2>1, OnNewFrameSound
<1>11. CASE \E p \in Packets : ReceiveFramePart(p)
  BY <1>2, <1>3, <1>4, <1>5, <1>11 DEF ReceiveFramePart, Receive, ProcessPacket
<1>12. CASE ReceiveGarbage
  BY <1>2, <1>3, <1>4, <1>5, <1>12 DEF ReceiveGarbage, Receive, ProcessPacket
<1>13. CASE Drain
  BY <1>2, <1>3, <1>4, <1>5, <1>13 DEF Drain, DrainAsync
<1>14. CASE Deliver
  <2>1. Head(workQueue) \in WorkUnit
    BY <1>14 DEF Deliver, LinkDelivers, IInv, TypeOK
  <2> QED BY <1>2, <1>3, <1>4, <1>5, <1>14, <2>1 DEF Deliver, LinkDelivers
<1>15. CASE BeginDispose \/ CompleteSubject \/ ListenLoopEnds \/ UNCHANGED allVars
  <2>1. /\ asm' = asm /\ pktProcessor' = pktProcessor
        /\ UNCHANGED <<callVars, clientVars>>
        /\ disposing' = disposing \/ disposing' = TRUE
        /\ completed' = completed \/ (disposing /\ completed' = TRUE /\ disposing' = disposing)
    BY <1>15 DEF BeginDispose, CompleteSubject, ListenLoopEnds, allVars, vars, disposeVars
  <2>2. /\ Len(published) \in Nat
        /\ IF completed' /\ ~entered' THEN nextFrameIndex' - Len(published') \in {0, 1}
                                      ELSE nextFrameIndex' = Len(published')
    BY <1>1, <2>1 DEF ClientSound, Flags, callVars, clientVars
  <2>3. ClientSound(told)'
    BY <1>1, <2>1, <2>2 DEF ClientSound, IsNext, callVars, clientVars, Flags
  <2> QED BY <1>2, <1>3, <1>5, <2>1, <2>3
<1>16. CASE DisposeAssembler
  BY <1>2, <1>3, <1>4, <1>5, <1>16 DEF DisposeAssembler, DisposeCompletesQueue, DisposeDropsLink
<1> QED BY <1>6, <1>7, <1>8, <1>9, <1>10, <1>11, <1>12, <1>13, <1>14, <1>15, <1>16
        DEF StreamNext, Work, WorkOn

-----------------------------------------------------------------------------
\* Counting what onNewFrame is handed.

LEMMA StepCounted ==
    ASSUME NEW told, NEW qold, Counted(asm, told), StepTells(told, qold)
    PROVE  Counted(asm', qold)
<1>1. CASE KeepsQuiet(told, qold)
  BY <1>1 DEF KeepsQuiet, Quiet, Counted
<1>2. CASE ToldByFlush(told, qold)
  BY <1>2, TellsCounted DEF ToldByFlush
<1>3. ASSUME NEW p \in Packets, ToldByPart(p, told, qold) PROVE Counted(asm', qold)
  <2>1. PICK a, u, pub : /\ Flushes(asm, a)
                         /\ Tells(asm, a, told, pub)
                         /\ MayTake(a, u, p)
                         /\ Completes(u, asm', p)
                         /\ Tells(u, asm', pub, qold)
    BY <1>3 DEF ToldByPart
  <2>2. Counted(a, pub)
    BY <2>1, TellsCounted
  <2>3. Counted(u, pub)
    BY <2>1, <2>2, TakeCounted
  <2> QED BY <2>1, <2>3, TellsCounted, CompletesFlushes
<1> QED BY <1>1, <1>2, <1>3 DEF StepTells

-----------------------------------------------------------------------------
\* The order of the datagrams on a steady link.

IsIn(unit, queue) == \E k \in DOMAIN queue : queue[k] = unit

\* If both are datagrams of the sonar, v was sent before w.
Precedes(v, w) == \A p, q \in Packets : (v = Unit(p) /\ w = Unit(q)) => SentBefore(p, q)

IsOrdered(queue) == \A j, k \in DOMAIN queue : j < k => Precedes(queue[j], queue[k])

QueuesOrdered ==
    /\ IsOrdered(pktProcessor)
    /\ IsOrdered(workQueue)
    /\ \A v, w \in WorkUnit : (IsIn(v, pktProcessor) /\ IsIn(w, workQueue)) => Precedes(v, w)

Waiting(p) == IsIn(Unit(p), pktProcessor) \/ IsIn(Unit(p), workQueue)

WaitingWasDelivered == \A p \in Packets : Waiting(p) => p \in delivered

\* The datagram h came, and all that wait came after it.
Past(h) == h \in delivered /\ \A p \in Packets : Waiting(p) => SentBefore(h, p)

\* What a steady link has delivered and the worker has handled.
Done == {p \in Packets : p \in delivered /\ ~Waiting(p)}

LEMMA NotBeforeItself ==
    ASSUME NEW p \in Packets
    PROVE  ~SentBefore(p, p)
<1>1. p.frame \in Nat
  BY PacketFacts, StreamAssumption
<1> QED BY <1>1, PacketFacts DEF SentBefore

LEMMA AppendedUnit ==
    ASSUME NEW queue \in Seq(WorkUnit), NEW unit \in WorkUnit
    PROVE  /\ \A v \in WorkUnit : IsIn(v, Append(queue, unit)) <=> IsIn(v, queue) \/ v = unit
           /\ (IsOrdered(queue) /\ \A v \in WorkUnit : IsIn(v, queue) => Precedes(v, unit))
                  => IsOrdered(Append(queue, unit))
<1> DEFINE n == Len(queue)
           longer == Append(queue, unit)
<1>1. /\ n \in Nat
      /\ DOMAIN queue = 1 .. n
      /\ DOMAIN longer = 1 .. n + 1
      /\ \A k \in 1 .. n : longer[k] = queue[k] /\ queue[k] \in WorkUnit
      /\ longer[n + 1] = unit
  OBVIOUS
<1> HIDE DEF n, longer
<1>2. \A k \in 1 .. n + 1 : k \in 1 .. n \/ k = n + 1
  BY <1>1
<1>3. \A k \in 1 .. n : k \in 1 .. n + 1
  BY <1>1
<1>4. n + 1 \in 1 .. n + 1
  BY <1>1
<1>5. ASSUME NEW v \in WorkUnit PROVE IsIn(v, longer) <=> IsIn(v, queue) \/ v = unit
  BY <1>1, <1>2, <1>3, <1>4 DEF IsIn
<1>6. ASSUME IsOrdered(queue), \A v \in WorkUnit : IsIn(v, queue) => Precedes(v, unit),
             NEW j \in 1 .. n + 1, NEW k \in 1 .. n + 1, j < k
      PROVE  Precedes(longer[j], longer[k])
  <2>1. j \in 1 .. n
    BY <1>1, <1>6
  <2>2. CASE k \in 1 .. n
    BY <1>1, <1>6, <2>1, <2>2 DEF IsOrdered
  <2>3. CASE k = n + 1
    <3>1. IsIn(queue[j], queue)
      BY <1>1, <2>1 DEF IsIn
    <3> QED BY <1>1, <1>6, <2>1, <2>3, <3>1
  <2> QED BY <1>2, <2>2, <2>3
<1>7. (IsOrdered(queue) /\ \A v \in WorkUnit : IsIn(v, queue) => Precedes(v, unit))
          => IsOrdered(longer)
  BY <1>1, <1>6 DEF IsOrdered
<1> QED BY <1>5, <1>7 DEF longer

LEMMA FirstUnit ==
    ASSUME NEW queue \in Seq(WorkUnit), queue # <<>>
    PROVE  /\ Head(queue) \in WorkUnit
           /\ Tail(queue) \in Seq(WorkUnit)
           /\ IsIn(Head(queue), queue)
           /\ \A v \in WorkUnit : IsIn(v, queue) <=> v = Head(queue) \/ IsIn(v, Tail(queue))
           /\ IsOrdered(queue)
                  => /\ IsOrdered(Tail(queue))
                     /\ \A v \in WorkUnit : IsIn(v, Tail(queue)) => Precedes(Head(queue), v)
<1> DEFINE n == Len(queue)
           rest == Tail(queue)
<1>1. /\ n \in Nat \ {0}
      /\ DOMAIN queue = 1 .. n
      /\ DOMAIN rest = 1 .. n - 1
      /\ \A k \in 1 .. n - 1 : rest[k] = queue[k + 1]
      /\ Head(queue) = queue[1]
      /\ Head(queue) \in WorkUnit
      /\ rest \in Seq(WorkUnit)
  OBVIOUS
<1> HIDE DEF n, rest
<1>2. \A k \in 1 .. n - 1 : k + 1 \in 1 .. n /\ 1 < k + 1
  BY <1>1
<1>3. 1 \in 1 .. n
  BY <1>1
<1>4. IsIn(Head(queue), queue)
  BY <1>1, <1>3 DEF IsIn
<1>5. ASSUME NEW v, IsIn(v, rest) PROVE IsIn(v, queue)
  BY <1>1, <1>2, <1>5 DEF IsIn
<1>6. ASSUME NEW v, IsIn(v, queue), v # Head(queue) PROVE IsIn(v, rest)
  <2>1. PICK k \in 1 .. n : queue[k] = v
    BY <1>1, <1>6 DEF IsIn
  <2>2. k - 1 \in 1 .. n - 1 /\ (k - 1) + 1 = k
    BY <1>1, <1>6, <2>1
  <2> QED BY <1>1, <2>1, <2>2 DEF IsIn
<1>7. ASSUME IsOrdered(queue), NEW v, IsIn(v, rest) PROVE Precedes(Head(queue), v)
  BY <1>1, <1>2, <1>3, <1>7 DEF IsIn, IsOrdered
<1>8. ASSUME IsOrdered(queue), NEW j \in 1 .. n - 1, NEW k \in 1 .. n - 1, j < k
      PROVE  Precedes(rest[j], rest[k])
  <2>1. j + 1 \in 1 .. n /\ k + 1 \in 1 .. n /\ j + 1 < k + 1
    BY <1>1, <1>8
  <2> QED BY <1>1, <1>8, <2>1 DEF IsOrdered
<1>9. IsOrdered(queue) => IsOrdered(rest)
  BY <1>1, <1>8 DEF IsOrdered
<1> QED BY <1>1, <1>4, <1>5, <1>7, <1>9, <1>6 DEF rest

LinkSound == /\ delivered \subseteq Packets
             /\ steady => /\ QueuesOrdered
                          /\ WaitingWasDelivered
                          /\ \A p \in Done : Past(p)

\* What a step does to the queues of a steady link: whatever is past stays so.
KeepsOrder == /\ \A p \in Packets : p \in Done' <=> p \in Done \/ Consumes(p)
              /\ QueuesOrdered'
              /\ WaitingWasDelivered'
              /\ \A h \in Packets : Past(h) => Past(h)'
              /\ \A p \in Packets : Consumes(p) => Past(p)'

LEMMA PostKeepsOrder ==
    ASSUME TypeOK, steady, LinkSound, NEW unit \in WorkUnit,
           workQueue' = Append(workQueue, unit), pktProcessor' = pktProcessor,
           \A p \in Packets : p \in delivered' <=> p \in delivered \/ unit = Unit(p),
           \A p \in Packets : unit = Unit(p) => \A q \in delivered : SentBefore(q, p)
    PROVE  KeepsOrder
<1> USE DEF TypeOK
<1>1. \A v \in WorkUnit : IsIn(v, workQueue') <=> IsIn(v, workQueue) \/ v = unit
  BY AppendedUnit
<1>2. \A v \in WorkUnit : IsIn(v, pktProcessor') <=> IsIn(v, pktProcessor)
  OBVIOUS
<1>3. \A p \in Packets : Waiting(p)' <=> Waiting(p) \/ unit = Unit(p)
  BY <1>1, <1>2, UnitFacts DEF Waiting
<1>4. ASSUME NEW v \in WorkUnit, IsIn(v, pktProcessor) \/ IsIn(v, workQueue)
      PROVE  Precedes(v, unit)
  <2> SUFFICES ASSUME NEW p \in Packets, NEW q \in Packets, v = Unit(p), unit = Unit(q)
               PROVE  SentBefore(p, q)
    BY DEF Precedes
  <2>1. p \in delivered
    BY <1>4 DEF LinkSound, WaitingWasDelivered, Waiting
  <2> QED BY <2>1
<1>5. QueuesOrdered'
  <2>1. IsOrdered(workQueue')
    BY <1>4, AppendedUnit DEF LinkSound, QueuesOrdered
  <2>2. IsOrdered(pktProcessor')
    BY DEF LinkSound, QueuesOrdered
  <2>3. ASSUME NEW v \in WorkUnit, NEW w \in WorkUnit,
               IsIn(v, pktProcessor'), IsIn(w, workQueue')
        PROVE  Precedes(v, w)
    BY <1>1, <1>2, <1>4, <2>3 DEF LinkSound, QueuesOrdered
  <2> QED BY <2>1, <2>2, <2>3 DEF QueuesOrdered
<1>6. WaitingWasDelivered'
  BY <1>3 DEF WaitingWasDelivered, LinkSound
<1>7. ASSUME NEW h \in Packets, Past(h) PROVE Past(h)'
  BY <1>3, <1>7 DEF Past
<1>8. ASSUME NEW p \in Packets PROVE p \in Done' <=> p \in Done
  <2>1. p \in delivered => unit # Unit(p)
    BY NotBeforeItself
  <2> QED BY <1>3, <2>1 DEF Done
<1>9. \A p : ~Consumes(p)
  BY NothingConsumed
<1> QED BY <1>5, <1>6, <1>7, <1>8, <1>9 DEF KeepsOrder

LEMMA DeliverKeepsOrder ==
    ASSUME TypeOK, steady, LinkSound, LinkDelivers, UNCHANGED linkVars
    PROVE  KeepsOrder
<1> DEFINE unit == Head(workQueue)
<1>1. /\ workQueue \in Seq(WorkUnit) /\ workQueue # <<>> /\ pktProcessor \in Seq(WorkUnit)
      /\ workQueue' = Tail(workQueue)
      /\ pktProcessor' = Append(pktProcessor, unit)
  BY DEF TypeOK, LinkDelivers
<1>2. /\ unit \in WorkUnit
      /\ IsIn(unit, workQueue)
      /\ \A v \in WorkUnit : IsIn(v, workQueue) <=> v = unit \/ IsIn(v, workQueue')
  BY <1>1, FirstUnit
<1>3. /\ IsOrdered(workQueue')
      /\ \A v \in WorkUnit : IsIn(v, workQueue') => Precedes(unit, v)
  BY <1>1, FirstUnit DEF LinkSound, QueuesOrdered
<1> HIDE DEF unit
<1>4. /\ \A v \in WorkUnit : IsIn(v, pktProcessor') <=> IsIn(v, pktProcessor) \/ v = unit
      /\ IsOrdered(pktProcessor')
  <2>1. \A v \in WorkUnit : IsIn(v, pktProcessor) => Precedes(v, unit)
    BY <1>2 DEF LinkSound, QueuesOrdered
  <2> QED BY <1>1, <1>2, <2>1, AppendedUnit DEF LinkSound, QueuesOrdered
<1>5. \A p \in Packets : Waiting(p)' <=> Waiting(p)
  BY <1>2, <1>4, UnitFacts DEF Waiting
<1>6. QueuesOrdered'
  <2>1. ASSUME NEW v \in WorkUnit, NEW w \in WorkUnit,
               IsIn(v, pktProcessor'), IsIn(w, workQueue')
        PROVE  Precedes(v, w)
    BY <1>2, <1>3, <1>4, <2>1 DEF LinkSound, QueuesOrdered
  <2> QED BY <1>3, <1>4, <2>1 DEF QueuesOrdered
<1>7. WaitingWasDelivered' /\ delivered' = delivered
  BY <1>5 DEF WaitingWasDelivered, LinkSound, linkVars
<1>8. ASSUME NEW h \in Packets, Past(h) PROVE Past(h)'
  BY <1>5, <1>7, <1>8 DEF Past
<1>9. \A p \in Packets : p \in Done' <=> p \in Done
  BY <1>5, <1>7 DEF Done
<1>10. \A p : ~Consumes(p)
  BY <1>1, <1>2, NothingConsumed
<1> QED BY <1>6, <1>7, <1>8, <1>9, <1>10 DEF KeepsOrder

LEMMA HandlesKeepsOrder ==
    ASSUME TypeOK, steady, LinkSound, UNCHANGED <<workQueue, linkVars>>,
           pktProcessor # <<>>, pktProcessor' = Tail(pktProcessor)
    PROVE  /\ KeepsOrder
           /\ \A p \in Packets : Consumes(p) =>
                  \A h \in Packets : Past(h) => SentBefore(h, p)
<1> DEFINE unit == Head(pktProcessor)
<1>1. pktProcessor \in Seq(WorkUnit) /\ delivered' = delivered /\ workQueue' = workQueue
  BY DEF TypeOK, linkVars
<1>2. /\ unit \in WorkUnit
      /\ IsIn(unit, pktProcessor)
      /\ \A v \in WorkUnit : IsIn(v, pktProcessor) <=> v = unit \/ IsIn(v, pktProcessor')
  BY <1>1, FirstUnit
<1>3. /\ IsOrdered(pktProcessor')
      /\ \A v \in WorkUnit : IsIn(v, pktProcessor') => Precedes(unit, v)
  BY <1>1, FirstUnit DEF LinkSound, QueuesOrdered
<1> HIDE DEF unit
<1>4. ASSUME NEW p \in Packets, Waiting(p)' PROVE Waiting(p)
  BY <1>1, <1>2, <1>4, UnitFacts DEF Waiting
<1>5. QueuesOrdered'
  <2>1. ASSUME NEW v \in WorkUnit, NEW w \in WorkUnit,
               IsIn(v, pktProcessor'), IsIn(w, workQueue')
        PROVE  Precedes(v, w)
    BY <1>1, <1>2, <2>1 DEF LinkSound, QueuesOrdered
  <2>2. IsOrdered(workQueue')
    BY <1>1 DEF LinkSound, QueuesOrdered
  <2> QED BY <1>3, <2>1, <2>2 DEF QueuesOrdered
<1>6. WaitingWasDelivered'
  BY <1>1, <1>4 DEF WaitingWasDelivered, LinkSound
<1>7. ASSUME NEW h \in Packets, Past(h) PROVE Past(h)'
  BY <1>1, <1>4, <1>7 DEF Past
<1>8. ASSUME NEW p \in Packets, unit = Unit(p)
      PROVE  Past(p)' /\ \A h \in Packets : Past(h) => SentBefore(h, p)
  <2>1. Waiting(p)
    BY <1>2, <1>8 DEF Waiting
  <2>2. p \in delivered'
    BY <1>1, <2>1 DEF LinkSound, WaitingWasDelivered
  <2>3. ASSUME NEW q \in Packets, Waiting(q)' PROVE SentBefore(p, q)
    <3>1. IsIn(Unit(q), pktProcessor') \/ IsIn(Unit(q), workQueue)
      BY <1>1, <2>3 DEF Waiting
    <3>2. Precedes(unit, Unit(q))
      BY <1>2, <1>3, <3>1, UnitFacts DEF LinkSound, QueuesOrdered
    <3> QED BY <1>8, <3>2 DEF Precedes
  <2> QED BY <2>1, <2>2, <2>3 DEF Past
<1>9. \A p \in Packets : Consumes(p) <=> unit = Unit(p)
  BY DEF Consumes, unit
<1>10. ASSUME NEW p \in Packets PROVE p \in Done' <=> p \in Done \/ Consumes(p)
  <2>1. CASE unit = Unit(p)
    <3>1. p \in delivered' /\ ~Waiting(p)'
      BY <1>8, <2>1, NotBeforeItself DEF Past
    <3> QED BY <1>9, <2>1, <3>1 DEF Done
  <2>2. CASE unit # Unit(p)
    <3>1. Waiting(p)' <=> Waiting(p)
      BY <1>1, <1>2, <2>2, UnitFacts DEF Waiting
    <3> QED BY <1>1, <1>9, <2>2, <3>1 DEF Done
  <2> QED BY <2>1, <2>2
<1> QED BY <1>5, <1>6, <1>7, <1>8, <1>9, <1>10 DEF KeepsOrder

LEMMA StepLinkSound ==
    ASSUME TypeOK, LinkSound, [StreamNext]_allVars
    PROVE  LinkSound' /\ steady' = steady /\ (steady => KeepsOrder)
<1> DEFINE Kept == LinkSound' /\ steady' = steady /\ (steady => KeepsOrder)
<1>1. CASE UNCHANGED <<workQueue, pktProcessor, linkVars>>
  <2>1. \A p : ~Consumes(p)
    BY <1>1, NothingConsumed DEF TypeOK
  <2>2. /\ QueuesOrdered' <=> QueuesOrdered
        /\ WaitingWasDelivered' <=> WaitingWasDelivered
        /\ Done' = Done
        /\ \A p : Past(p)' <=> Past(p)
    BY <1>1 DEF linkVars, QueuesOrdered, WaitingWasDelivered, Past, Waiting, Done
  <2> QED BY <1>1, <2>1, <2>2 DEF linkVars, LinkSound, KeepsOrder
<1>2. ASSUME steady => KeepsOrder, steady' = steady, delivered' \subseteq Packets PROVE Kept
  <2>1. ASSUME steady, NEW p \in Done' PROVE Past(p)'
    BY <1>2, <2>1 DEF KeepsOrder, LinkSound, Done
  <2> QED BY <1>2, <2>1 DEF LinkSound, KeepsOrder
<1>3. ASSUME NEW p \in Packets, ReceiveFramePart(p)
      PROVE  LinkSound' /\ steady' = steady /\ (steady => KeepsOrder)
  <2>1. /\ workQueue' = Append(workQueue, Unit(p))
        /\ pktProcessor' = pktProcessor
        /\ Unit(p) \in WorkUnit
    BY <1>3, UnitFacts DEF ReceiveFramePart, Receive, ProcessPacket, Unit
  <2>2. /\ steady => \A q \in delivered : SentBefore(q, p)
        /\ delivered' = IF steady THEN delivered \cup {p} ELSE delivered
        /\ steady' = steady
    BY <1>3 DEF ReceiveFramePart, Transmit
  <2>3. steady => KeepsOrder
    BY <2>1, <2>2, UnitFacts, PostKeepsOrder
  <2> QED BY <1>2, <2>2, <2>3 DEF LinkSound
<1>4. CASE ReceiveGarbage
  <2> DEFINE unit == [kind |-> "Packet", packet |-> Garbage]
  <2>1. workQueue' = Append(workQueue, unit) /\ pktProcessor' = pktProcessor
    BY <1>4 DEF ReceiveGarbage, Receive, ProcessPacket
  <2>2. unit \in WorkUnit /\ \A p \in Packets : unit # Unit(p)
    BY UnitFacts DEF WorkUnit, Datagrams
  <2>3. delivered' = delivered /\ steady' = steady
    BY <1>4 DEF ReceiveGarbage, linkVars
  <2> HIDE DEF unit
  <2>4. steady => KeepsOrder
    BY <2>1, <2>2, <2>3, PostKeepsOrder
  <2> QED BY <1>2, <2>3, <2>4 DEF LinkSound
<1>5. CASE Drain
  <2> DEFINE unit == [kind |-> "Drain", posted |-> PostedPackets]
  <2>1. workQueue' = Append(workQueue, unit) /\ pktProcessor' = pktProcessor
    BY <1>5 DEF Drain, DrainAsync
  <2>2. unit \in WorkUnit /\ \A p \in Packets : unit # Unit(p)
    <3>1. PacketsIn(workQueue) \in Nat /\ PacketsIn(pktProcessor) \in Nat
      BY PacketsInType DEF TypeOK
    <3>2. asm.metrics.TotalPacketsReceived \in Nat
      BY DEF TypeOK, AssemblerType, MetricsType
    <3>3. PostedPackets \in Nat
      BY <3>1, <3>2 DEF PostedPackets
    <3> QED BY <3>3, UnitFacts DEF WorkUnit
  <2>3. delivered' = delivered /\ steady' = steady
    BY <1>5 DEF Drain, linkVars
  <2> HIDE DEF unit
  <2>4. steady => KeepsOrder
    BY <2>1, <2>2, <2>3, PostKeepsOrder
  <2> QED BY <1>2, <2>3, <2>4 DEF LinkSound
<1>6. CASE Deliver
  <2>1. LinkDelivers /\ UNCHANGED linkVars
    BY <1>6 DEF Deliver
  <2>2. steady => KeepsOrder
    BY <2>1, DeliverKeepsOrder
  <2> QED BY <1>2, <2>1, <2>2 DEF LinkSound, linkVars
<1>7. CASE WorkOnPacket \/ (WorkOn /\ ProcessWorkUnitDrain)
  <2>1. /\ UNCHANGED <<workQueue, linkVars>>
        /\ pktProcessor # <<>>
        /\ pktProcessor' = Tail(pktProcessor)
    BY <1>7 DEF WorkOnPacket, WorkOn, ProcessWorkUnitPacket, ProcessWorkUnitDrain
  <2>2. steady => KeepsOrder
    BY <2>1, HandlesKeepsOrder
  <2> QED BY <1>2, <2>1, <2>2 DEF LinkSound, linkVars
<1>8. CASE WorkOn /\ UpdateMetrics
  BY <1>1, <1>8 DEF UpdateMetrics, WorkOn
<1>9. CASE FlushListener
  BY <1>1, <1>9 DEF FlushListener, FlushMember
<1>10. CASE \/ OnNewFrame \/ BeginDispose \/ CompleteSubject \/ ListenLoopEnds
            \/ UNCHANGED allVars
  BY <1>1, <1>10 DEF OnNewFrame, BeginDispose, CompleteSubject, ListenLoopEnds, allVars, vars
<1>11. CASE DisposeAssembler
  BY <1>1, <1>11 DEF DisposeAssembler, DisposeCompletesQueue, DisposeDropsLink
<1> QED BY <1>3, <1>4, <1>5, <1>6, <1>7, <1>8, <1>9, <1>10, <1>11 DEF StreamNext, Work, WorkOn

-----------------------------------------------------------------------------
\* The frames handed over, pub, and the one in progress are in the order sent, and
\* their first parts are among those handled, past.

First(frame) == frame.fragments[1]

FirstTold(pub, k) == pub[k].parts[1]

InOrder(s, pub, past) ==
    /\ \A k \in DOMAIN pub : FirstTold(pub, k) \in past
    /\ \A j, k \in DOMAIN pub : j < k => FirstTold(pub, j).frame < FirstTold(pub, k).frame
    /\ InProgress(s) => /\ First(s.currentFrame) \in past
                        /\ \A k \in DOMAIN pub :
                              FirstTold(pub, k).frame < First(s.currentFrame).frame

LEMMA TellsInOrder ==
    ASSUME NEW s, NEW t, NEW pub \in Seq(Message), NEW qub, NEW past,
           Flushes(s, t), Tells(s, t, pub, qub), InOrder(s, pub, past)
    PROVE  InOrder(t, qub, past) /\ qub \in Seq(Message)
<1>1. CASE Quiet(s, t) /\ qub = pub
  BY <1>1 DEF Quiet, InOrder, InProgress
<1>2. CASE HandsOver(s, t) /\ qub = Told(pub, s.currentFrame)
  <2> DEFINE frame == s.currentFrame
             e == [number |-> Len(pub), parts |-> frame.fragments]
  <2>1. InProgress(s) /\ ~InProgress(t)
    BY <1>2 DEF HandsOver, InProgress
  <2>2. frame \in FrameAccumulator
    BY <2>1, FrameInProgressType DEF Flushes
  <2>3. e \in Message /\ e.parts[1] = First(frame)
    BY <2>2, MessageType DEF First
  <2>4. qub = IF IsComplete(frame) THEN Append(pub, e) ELSE pub
    BY <1>2 DEF Told
  <2> HIDE DEF e
  <2>5. CASE qub = pub
    BY <2>1, <2>5 DEF InOrder
  <2>6. CASE qub = Append(pub, e)
    <3> DEFINE n == Len(pub)
    <3>1. /\ n \in Nat
          /\ DOMAIN pub = 1 .. n
          /\ DOMAIN qub = 1 .. n + 1
          /\ \A k \in 1 .. n : qub[k] = pub[k]
          /\ qub[n + 1] = e
          /\ qub \in Seq(Message)
      BY <2>3, <2>6
    <3> HIDE DEF n
    <3>2. \A k \in 1 .. n + 1 : k \in 1 .. n \/ k = n + 1
      BY <3>1
    <3>3. /\ \A k \in 1 .. n : FirstTold(qub, k) = FirstTold(pub, k)
          /\ FirstTold(qub, n + 1) = First(frame)
      BY <2>3, <3>1 DEF FirstTold
    <3>4. \A k \in DOMAIN qub : FirstTold(qub, k) \in past
      BY <2>1, <3>1, <3>2, <3>3 DEF InOrder
    <3>5. ASSUME NEW j \in DOMAIN qub, NEW k \in DOMAIN qub, j < k
          PROVE  FirstTold(qub, j).frame < FirstTold(qub, k).frame
      <4>1. j \in 1 .. n
        BY <3>1, <3>5
      <4>2. CASE k \in 1 .. n
        BY <3>1, <3>3, <3>5, <4>1, <4>2 DEF InOrder
      <4>3. CASE k = n + 1
        BY <2>1, <3>1, <3>3, <4>1, <4>3 DEF InOrder
      <4> QED BY <3>1, <3>2, <4>2, <4>3
    <3> QED BY <2>1, <3>1, <3>4, <3>5 DEF InOrder
  <2> QED BY <2>4, <2>5, <2>6
<1> QED BY <1>1, <1>2 DEF Tells

LEMMA TakeInOrder ==
    ASSUME NEW s, NEW t, NEW p \in Packets, NEW pub, NEW past, NEW later,
           MayTake(s, t, p), InOrder(s, pub, past),
           past \subseteq Packets, past \subseteq later, p \in later,
           \A h \in past : SentBefore(h, p)
    PROVE  InOrder(t, pub, later)
<1>1. InOrder(s, pub, later)
  BY DEF InOrder
<1>2. CASE Quiet(s, t)
  BY <1>1, <1>2 DEF Quiet, InOrder, InProgress
<1>3. CASE Takes(s, t, p) /\ InProgress(s)
  <2>1. s.currentFrame.fragments \in Seq(Packets) /\ s.currentFrame.fragments # <<>>
    BY <1>3, FrameInProgressType DEF MayTake, FrameAccumulator
  <2>2. First(t.currentFrame) = First(s.currentFrame)
    BY <1>3, <2>1 DEF Takes, First
  <2> QED BY <1>1, <1>3, <2>2 DEF InOrder
<1>4. CASE Takes(s, t, p) /\ ~InProgress(s)
  <2>1. p.dataOffset = 0 /\ First(t.currentFrame) = p
    BY <1>4 DEF Takes, First
  <2>2. ASSUME NEW k \in DOMAIN pub PROVE FirstTold(pub, k).frame < p.frame
    <3>1. FirstTold(pub, k) \in past
      BY DEF InOrder
    <3>2. SentBefore(FirstTold(pub, k), p) /\ FirstTold(pub, k).dataOffset \in Nat
      BY <3>1, PacketFacts
    <3> QED BY <2>1, <3>2 DEF SentBefore
  <2> QED BY <1>1, <2>1, <2>2 DEF InOrder
<1> QED BY <1>2, <1>3, <1>4 DEF MayTake

ToldInOrder(told) == steady => InOrder(asm, told, Done)

LEMMA HandledAfterDone ==
    ASSUME TypeOK, LinkSound, steady, NEW p \in Packets, Handles(p)
    PROVE  /\ \A q \in Packets : q \in Done' <=> q \in Done \/ q = p
           /\ p \in Done'
           /\ \A h \in Done : SentBefore(h, p)
<1>1. /\ Consumes(p)
      /\ pktProcessor # <<>>
      /\ pktProcessor' = Tail(pktProcessor)
      /\ UNCHANGED <<workQueue, linkVars>>
  BY DEF Handles, Consumes
<1>2. \A q \in Packets : Consumes(q) <=> q = p
  BY <1>1, UnitFacts DEF Consumes
<1>3. KeepsOrder /\ \A h \in Packets : Past(h) => SentBefore(h, p)
  BY <1>1, HandlesKeepsOrder
<1>4. \A h \in Done : h \in Packets /\ Past(h)
  BY DEF LinkSound, Done
<1> QED BY <1>2, <1>3, <1>4 DEF KeepsOrder

LEMMA StepInOrder ==
    ASSUME TypeOK, LinkSound, NEW told \in Seq(Message), NEW qold,
           ToldInOrder(told), StepTells(told, qold), [StreamNext]_allVars
    PROVE  ToldInOrder(qold)'
<1> SUFFICES ASSUME steady PROVE InOrder(asm', qold, Done')
  BY StepLinkSound DEF ToldInOrder
<1>1. /\ KeepsOrder
      /\ Done \subseteq Packets
      /\ Done \subseteq Done'
      /\ InOrder(asm, told, Done)
  BY StepLinkSound DEF Done, KeepsOrder, ToldInOrder
<1>2. CASE KeepsQuiet(told, qold)
  <2>1. asm'.currentFrame = asm.currentFrame /\ qold = told
    BY <1>2 DEF KeepsQuiet, Quiet
  <2> QED BY <1>1, <2>1 DEF InOrder, InProgress
<1>3. ASSUME NEW p \in Packets, Handles(p), ToldByPart(p, told, qold)
      PROVE  InOrder(asm', qold, Done')
  <2>1. p \in Done' /\ \A h \in Done : SentBefore(h, p)
    BY <1>3, HandledAfterDone
  <2>2. PICK a, u, pub : /\ Flushes(asm, a)
                         /\ Tells(asm, a, told, pub)
                         /\ MayTake(a, u, p)
                         /\ Completes(u, asm', p)
                         /\ Tells(u, asm', pub, qold)
    BY <1>3 DEF ToldByPart
  <2>3. InOrder(a, pub, Done) /\ pub \in Seq(Message)
    BY <1>1, <2>2, TellsInOrder
  <2>4. InOrder(u, pub, Done')
    BY <1>1, <2>1, <2>2, <2>3, TakeInOrder
  <2>5. Flushes(u, asm')
    BY <2>2, CompletesFlushes
  <2> QED BY <2>2, <2>3, <2>4, <2>5, TellsInOrder
<1> QED BY <1>2, <1>3 DEF StepTells

-----------------------------------------------------------------------------
\* The frames handed over look whole and are made of what the receiver took.  A
\* frame with an index of its own is whole.

LEMMA OwnRunIsWhole ==
    ASSUME NEW parts \in Seq(Packets), LooksWhole(parts), HasOwnIndex(parts[1].frame)
    PROVE  IsWhole(parts)
<1> DEFINE f == parts[1].frame
           n == Len(parts)
<1>1. n \in Nat \ {0} /\ DOMAIN parts = 1 .. n /\ parts[1] \in Packets /\ n = Stream[f].size
  BY DEF LooksWhole, TotalDataSize
<1>2. ASSUME NEW k \in 1 .. n PROVE parts[k] = [frame |-> f, dataOffset |-> k - 1]
  <2>1. PICK g \in DOMAIN Stream : parts[k] \in [frame : {g}, dataOffset : 0 .. Stream[g].size - 1]
    BY <1>1, <1>2 DEF Packets
  <2>2. parts[k].dataOffset = k - 1 /\ Stream[g].index = Stream[f].index
    BY <1>1, <1>2, <2>1 DEF LooksWhole, IsRunOfOneIndex, FrameIndex
  <2>3. g = f
    BY <2>2 DEF HasOwnIndex
  <2> QED BY <2>1, <2>2, <2>3
<1>3. parts = [k \in 1 .. n |-> parts[k]]
  BY <1>1
<1>4. parts = AllPartsOf(f)
  BY <1>1, <1>2, <1>3 DEF AllPartsOf
<1> QED BY <1>4 DEF IsWhole, LooksWhole

PartsOf(frame) == {p \in Packets : \E k \in DOMAIN frame.fragments : frame.fragments[k] = p}

Taken(s) == {p \in Packets : \/ \E k \in DOMAIN s.currentFrame.fragments :
                                   s.currentFrame.fragments[k] = p
                             \/ \E f \in DOMAIN s.finished :
                                   \E k \in DOMAIN s.finished[f].fragments :
                                      s.finished[f].fragments[k] = p}

\* From pub to qub, only frames a client may be handed are added.
Delivers(pub, qub, taken) ==
    /\ Len(pub) =< Len(qub)
    /\ \A k \in DOMAIN pub : qub[k] = pub[k]
    /\ \A k \in (Len(pub) + 1) .. Len(qub) :
          /\ qub[k].number = k - 1
          /\ Client!IsDeliverable(qub[k], taken)

LEMMA DeliversChain ==
    ASSUME NEW pub \in Seq(Message), NEW qub \in Seq(Message), NEW rub \in Seq(Message),
           NEW taken, NEW more, taken \subseteq more,
           Delivers(pub, qub, taken), Delivers(qub, rub, more)
    PROVE  Delivers(pub, rub, more)
<1>1. /\ DOMAIN pub = 1 .. Len(pub) /\ Len(pub) \in Nat
      /\ DOMAIN qub = 1 .. Len(qub) /\ Len(qub) \in Nat
      /\ DOMAIN rub = 1 .. Len(rub) /\ Len(rub) \in Nat
      /\ Len(pub) =< Len(qub) /\ Len(qub) =< Len(rub)
  BY DEF Delivers
<1>2. \A k \in DOMAIN pub : rub[k] = pub[k]
  BY <1>1 DEF Delivers
<1>3. ASSUME NEW k \in (Len(pub) + 1) .. Len(rub)
      PROVE  rub[k].number = k - 1 /\ Client!IsDeliverable(rub[k], more)
  <2>1. CASE k =< Len(qub)
    <3>1. k \in DOMAIN qub /\ k \in (Len(pub) + 1) .. Len(qub)
      BY <1>1, <1>3, <2>1
    <3>2. rub[k] = qub[k] /\ qub[k].number = k - 1 /\ Client!IsDeliverable(qub[k], taken)
      BY <3>1 DEF Delivers
    <3> QED BY <3>2 DEF Client!IsDeliverable
  <2>2. CASE k > Len(qub)
    <3>1. k \in (Len(qub) + 1) .. Len(rub)
      BY <1>1, <1>3, <2>2
    <3> QED BY <3>1 DEF Delivers
  <2> QED BY <1>1, <1>3, <2>1, <2>2
<1> QED BY <1>1, <1>2, <1>3 DEF Delivers

LEMMA DeliversNothing ==
    ASSUME NEW pub \in Seq(Message), NEW taken
    PROVE  Delivers(pub, pub, taken)
  BY DEF Delivers

\* Handing the frame in progress over takes nothing back.
LEMMA HandsOverTaken ==
    ASSUME NEW s, NEW t, SoundState(s), HandsOver(s, t)
    PROVE  Taken(s) \subseteq Taken(t) /\ PartsOf(s.currentFrame) \subseteq Taken(t)
<1> DEFINE n == Len(s.finished)
           frame == Numbered(s)
<1>1. s.finished \in Seq(FrameAccumulator) /\ n \in Nat
  BY DEF SoundState, AssemblerType
<1>2. frame.fragments = s.currentFrame.fragments
  BY FrameInProgressType DEF HandsOver
<1>3. /\ DOMAIN s.finished = 1 .. n
      /\ DOMAIN t.finished = 1 .. n + 1
      /\ \A k \in 1 .. n : t.finished[k] = s.finished[k]
      /\ t.finished[n + 1] = frame
  BY <1>1 DEF HandsOver
<1> HIDE DEF n, frame
<1>4. n + 1 \in DOMAIN t.finished /\ \A k \in DOMAIN s.finished : k \in DOMAIN t.finished
  BY <1>1, <1>3
<1>5. PartsOf(s.currentFrame) \subseteq Taken(t)
  <2> SUFFICES ASSUME NEW p \in Packets, NEW k \in DOMAIN s.currentFrame.fragments,
                      s.currentFrame.fragments[k] = p
               PROVE  p \in Taken(t)
    BY DEF PartsOf
  <2>1. k \in DOMAIN t.finished[n + 1].fragments /\ t.finished[n + 1].fragments[k] = p
    BY <1>2, <1>3
  <2> QED BY <1>4, <2>1 DEF Taken
<1>6. ASSUME NEW p \in Packets, NEW f \in DOMAIN s.finished,
             NEW k \in DOMAIN s.finished[f].fragments, s.finished[f].fragments[k] = p
      PROVE  p \in Taken(t)
  <2>1. f \in DOMAIN t.finished /\ t.finished[f] = s.finished[f]
    BY <1>3, <1>4
  <2> QED BY <1>6, <2>1 DEF Taken
<1>7. ASSUME NEW p \in Taken(s) PROVE p \in Taken(t)
  BY <1>5, <1>6 DEF Taken, PartsOf
<1> QED BY <1>5, <1>7

LEMMA TellsDelivers ==
    ASSUME NEW s, NEW t, NEW pub \in Seq(Message), NEW qub,
           Flushes(s, t), Tells(s, t, pub, qub)
    PROVE  /\ qub \in Seq(Message)
           /\ Taken(s) \subseteq Taken(t)
           /\ Delivers(pub, qub, Taken(t))
<1>1. CASE Quiet(s, t) /\ qub = pub
  BY <1>1, DeliversNothing DEF Quiet, Taken
<1>2. CASE HandsOver(s, t) /\ qub = Told(pub, s.currentFrame)
  <2> DEFINE frame == s.currentFrame
             e == [number |-> Len(pub), parts |-> frame.fragments]
  <2>1. /\ Taken(s) \subseteq Taken(t)
        /\ PartsOf(frame) \subseteq Taken(t)
    BY <1>2, HandsOverTaken DEF Flushes
  <2>2. frame \in FrameAccumulator /\ IsSound(frame)
    BY <1>2, FrameInProgressType DEF Flushes, HandsOver
  <2>3. qub = IF IsComplete(frame) THEN Append(pub, e) ELSE pub
    BY <1>2 DEF Told
  <2>4. CASE qub = pub
    BY <2>1, <2>4, DeliversNothing
  <2>5. CASE qub = Append(pub, e) /\ IsComplete(frame)
    <3>1. e \in Message /\ e.number = Len(pub) /\ e.parts = frame.fragments
      BY <2>2, MessageType
    <3>2. /\ LooksWhole(frame.fragments)
          /\ HasOwnIndex(frame.fragments[1].frame) => IsWhole(frame.fragments)
      <4>1. frame.fragments \in Seq(Packets) /\ frame.fragments # <<>>
        BY <2>2 DEF FrameAccumulator
      <4>2. LooksWhole(frame.fragments)
        BY <2>2, <2>5, <4>1 DEF LooksWhole, IsSound, IsComplete, BytesReceived
      <4> QED BY <4>1, <4>2, OwnRunIsWhole
    <3>3. \A k \in DOMAIN frame.fragments : frame.fragments[k] \in Taken(t)
      <4>1. \A k \in DOMAIN frame.fragments : frame.fragments[k] \in Packets
        BY <2>2 DEF FrameAccumulator
      <4> QED BY <2>1, <4>1 DEF PartsOf
    <3>4. Client!IsDeliverable(e, Taken(t))
      <4>1. /\ Client!LooksWhole(e.parts)
            /\ Client!HasOwnIndex(e.parts[1].frame) => Client!IsWhole(e.parts)
        BY <3>1, <3>2 DEF LooksWhole, Client!LooksWhole, IsRunOfOneIndex,
           Client!IsRunOfOneIndex, FrameIndex, Client!FrameIndex, TotalDataSize,
           Client!TotalDataSize, HasOwnIndex, Client!HasOwnIndex, IsWhole, Client!IsWhole,
           AllPartsOf, Client!AllPartsOf
      <4> QED BY <3>1, <3>3, <4>1 DEF Client!IsDeliverable
    <3> HIDE DEF e
    <3> DEFINE n == Len(pub)
    <3>5. /\ n \in Nat
          /\ DOMAIN pub = 1 .. n
          /\ Len(qub) = n + 1
          /\ \A k \in 1 .. n : qub[k] = pub[k]
          /\ qub[n + 1] = e
          /\ qub \in Seq(Message)
      BY <2>5, <3>1
    <3> HIDE DEF n
    <3>6. \A k \in (n + 1) .. Len(qub) : k = n + 1 /\ (n + 1) - 1 = n
      BY <3>5
    <3>7. e.number = n
      BY <3>1 DEF n
    <3>8. Delivers(pub, qub, Taken(t))
      BY <3>4, <3>5, <3>6, <3>7 DEF Delivers, n
    <3> QED BY <2>1, <3>5, <3>8
  <2> QED BY <2>3, <2>4, <2>5
<1> QED BY <1>1, <1>2 DEF Tells

LEMMA TakeKeepsTaken ==
    ASSUME NEW s, NEW t, NEW p, MayTake(s, t, p)
    PROVE  Taken(s) \subseteq Taken(t)
<1>1. CASE Quiet(s, t)
  BY <1>1 DEF Quiet, Taken
<1>2. CASE Takes(s, t, p) /\ InProgress(s)
  <2> DEFINE parts == s.currentFrame.fragments
             n == Len(parts)
  <2>1. parts \in Seq(Packets)
    BY <1>2, FrameInProgressType DEF MayTake, FrameAccumulator
  <2>2. t.currentFrame.fragments = Append(parts, p) /\ t.finished = s.finished
    BY <1>2 DEF Takes
  <2>3. /\ DOMAIN parts = 1 .. n /\ n \in Nat
        /\ DOMAIN Append(parts, p) = 1 .. n + 1
        /\ \A k \in 1 .. n : Append(parts, p)[k] = parts[k]
    BY <2>1
  <2> HIDE DEF n
  <2>4. \A k \in DOMAIN parts : k \in DOMAIN t.currentFrame.fragments
                                /\ t.currentFrame.fragments[k] = parts[k]
    BY <2>2, <2>3
  <2> HIDE DEF parts
  <2> QED BY <2>2, <2>4 DEF Taken, parts
<1>3. CASE Takes(s, t, p) /\ ~InProgress(s)
  <2>1. s.currentFrame.fragments = <<>> /\ t.finished = s.finished
    BY <1>3 DEF InProgress, NoFrame, Takes
  <2> QED BY <2>1 DEF Taken
<1> QED BY <1>1, <1>2, <1>3 DEF MayTake

LEMMA StepDelivers ==
    ASSUME NEW told \in Seq(Message), NEW qold \in Seq(Message), StepTells(told, qold)
    PROVE  Taken(asm) \subseteq Taken(asm') /\ Delivers(told, qold, Taken(asm'))
<1>1. CASE KeepsQuiet(told, qold)
  BY <1>1, DeliversNothing DEF KeepsQuiet, Quiet, Taken
<1>2. CASE ToldByFlush(told, qold)
  BY <1>2, TellsDelivers DEF ToldByFlush
<1>3. ASSUME NEW p \in Packets, ToldByPart(p, told, qold)
      PROVE  Taken(asm) \subseteq Taken(asm') /\ Delivers(told, qold, Taken(asm'))
  <2>1. PICK a, u, pub : /\ Flushes(asm, a)
                         /\ Tells(asm, a, told, pub)
                         /\ MayTake(a, u, p)
                         /\ Completes(u, asm', p)
                         /\ Tells(u, asm', pub, qold)
    BY <1>3 DEF ToldByPart
  <2>2. /\ pub \in Seq(Message)
        /\ Taken(asm) \subseteq Taken(a)
        /\ Delivers(told, pub, Taken(a))
    BY <2>1, TellsDelivers
  <2>3. Taken(a) \subseteq Taken(u)
    BY <2>1, TakeKeepsTaken
  <2>4. Taken(u) \subseteq Taken(asm') /\ Delivers(pub, qold, Taken(asm'))
    BY <2>1, <2>2, TellsDelivers, CompletesFlushes
  <2> QED BY <2>2, <2>3, <2>4, DeliversChain
<1> QED BY <1>1, <1>2, <1>3 DEF StepTells

\* All that is handed over may be.
Deliverable(told) ==
    \A k \in DOMAIN told : told[k].number = k - 1 /\ Client!IsDeliverable(told[k], Taken(asm))

LEMMA StepDeliverable ==
    ASSUME NEW told \in Seq(Message), NEW qold \in Seq(Message), StepTells(told, qold),
           Deliverable(told)
    PROVE  Deliverable(qold)'
<1>1. Taken(asm) \subseteq Taken(asm') /\ Delivers(told, qold, Taken(asm'))
  BY StepDelivers
<1>2. /\ DOMAIN told = 1 .. Len(told) /\ Len(told) \in Nat
      /\ DOMAIN qold = 1 .. Len(qold) /\ Len(qold) \in Nat
  OBVIOUS
<1>3. ASSUME NEW k \in DOMAIN qold
      PROVE  qold[k].number = k - 1 /\ Client!IsDeliverable(qold[k], Taken(asm'))
  <2>1. CASE k \in DOMAIN told
    <3>1. qold[k] = told[k]
      BY <1>1, <2>1 DEF Delivers
    <3>2. told[k].number = k - 1 /\ Client!IsDeliverable(told[k], Taken(asm))
      BY <2>1 DEF Deliverable
    <3> QED BY <1>1, <3>1, <3>2 DEF Client!IsDeliverable
  <2>2. CASE k \notin DOMAIN told
    <3>1. k \in (Len(told) + 1) .. Len(qold)
      BY <1>2, <1>3, <2>2
    <3> QED BY <1>1, <3>1 DEF Delivers
  <2> QED BY <2>1, <2>2
<1> QED BY <1>3 DEF Deliverable

-----------------------------------------------------------------------------
\* On a steady link no frame is lost for the loss of another.

\* The first n parts of frame f.
FirstParts(f, n) == [k \in 1 .. n |-> [frame |-> f, dataOffset |-> k - 1]]

Size(f) == Stream[f].size

\* Of what was handled, something between f and g ends the first of them.
AreApart(f, g, done) == \E p \in done : /\ f < p.frame
                                        /\ p.frame < g
                                        /\ Ends(p, Stream[f].index)

\* Frame f can be told from all others of which something was handled, and can be
\* started.
IsDistinct(f, done) ==
    /\ f \in DOMAIN Stream /\ Stream[f].header
    /\ \A q \in done : FrameIndex(q) = Stream[f].index =>
          \/ q.frame = f
          \/ q.frame < f /\ AreApart(q.frame, f, done)
          \/ f < q.frame /\ AreApart(f, q.frame, done)

\* Nothing handled since the frame in progress was started ends it.
NotEnded(s, done) ==
    InProgress(s) => \A q \in done : First(s.currentFrame).frame < q.frame
                                       => ~Ends(q, FrameIndex(First(s.currentFrame)))

\* Of f, exactly the first n parts were handled, and, unless these are all, nothing
\* of a later frame.
FirstHandled(f, n, done) ==
    /\ n \in 1 .. Size(f)
    /\ \A p \in Packets : p.frame = f => (p \in done <=> p.dataOffset < n)
    /\ n < Size(f) => \A q \in done : q.frame =< f

IsKept(s, pub, f, n) ==
    \/ InProgress(s) /\ s.currentFrame.fragments = FirstParts(f, n)
    \/ n = Size(f) /\ \E k \in DOMAIN pub : pub[k].parts = AllPartsOf(f)

Collected(s, pub, done) ==
    \A f, n : (IsDistinct(f, done) /\ FirstHandled(f, n, done)) => IsKept(s, pub, f, n)

LEMMA PacketIs ==
    ASSUME NEW f \in DOMAIN Stream
    PROVE  /\ Size(f) \in Nat \ {0}
           /\ \A k \in Nat : k < Size(f) => [frame |-> f, dataOffset |-> k] \in Packets
           /\ \A p \in Packets : p.frame = f => p = [frame |-> f, dataOffset |-> p.dataOffset]
<1>1. Size(f) \in Nat \ {0}
  <2>1. Stream[f] \in RawFrame
    BY StreamAssumption
  <2> QED BY <2>1 DEF RawFrame, Size
<1>2. ASSUME NEW k \in Nat, k < Size(f) PROVE [frame |-> f, dataOffset |-> k] \in Packets
  <2>1. k \in 0 .. Stream[f].size - 1
    BY <1>1, <1>2 DEF Size
  <2>2. [frame |-> f, dataOffset |-> k] \in [frame : {f}, dataOffset : 0 .. Stream[f].size - 1]
    BY <2>1
  <2> QED BY <2>2 DEF Packets
<1>3. ASSUME NEW p \in Packets, p.frame = f PROVE p = [frame |-> f, dataOffset |-> p.dataOffset]
  <2>1. PICK g \in DOMAIN Stream : p \in [frame : {g}, dataOffset : 0 .. Stream[g].size - 1]
    BY DEF Packets
  <2> QED BY <1>3, <2>1
<1> QED BY <1>1, <1>2, <1>3

LEMMA FirstPartsFacts ==
    ASSUME NEW f \in DOMAIN Stream, NEW n \in 1 .. Size(f)
    PROVE  /\ FirstParts(f, n) \in Seq(Packets)
           /\ Len(FirstParts(f, n)) = n
           /\ FirstParts(f, n)[1] = [frame |-> f, dataOffset |-> 0]
           /\ FirstParts(f, Size(f)) = AllPartsOf(f)
<1>1. Size(f) \in Nat \ {0} /\ n \in Nat
  BY PacketIs
<1>2. \A k \in 1 .. n : [frame |-> f, dataOffset |-> k - 1] \in Packets
  <2> SUFFICES ASSUME NEW k \in 1 .. n PROVE [frame |-> f, dataOffset |-> k - 1] \in Packets
    OBVIOUS
  <2>1. k - 1 \in Nat /\ k - 1 < Size(f)
    BY <1>1
  <2> QED BY <2>1, PacketIs
<1>3. FirstParts(f, n) \in Seq(Packets) /\ Len(FirstParts(f, n)) = n
  BY <1>1, <1>2 DEF FirstParts
<1>4. FirstParts(f, n)[1] = [frame |-> f, dataOffset |-> 0]
  BY <1>1 DEF FirstParts
<1>5. FirstParts(f, Size(f)) = AllPartsOf(f)
  BY DEF FirstParts, AllPartsOf, Size
<1> QED BY <1>3, <1>4, <1>5

LEMMA SameSequence ==
    ASSUME NEW S, NEW a \in Seq(S), NEW b \in Seq(S), Len(a) = Len(b),
           \A k \in 1 .. Len(a) : a[k] = b[k]
    PROVE  a = b
  OBVIOUS

LEMMA NextPart ==
    ASSUME NEW f \in DOMAIN Stream, NEW n \in 2 .. Size(f)
    PROVE  Append(FirstParts(f, n - 1), [frame |-> f, dataOffset |-> n - 1]) = FirstParts(f, n)
<1> DEFINE parts == FirstParts(f, n - 1)
           p == [frame |-> f, dataOffset |-> n - 1]
           longer == Append(parts, p)
<1>1. /\ Size(f) \in Nat \ {0} /\ n \in Nat /\ (n - 1) + 1 = n
      /\ n \in 1 .. Size(f) /\ n - 1 \in 1 .. Size(f)
  BY PacketIs
<1>2. parts \in Seq(Packets) /\ Len(parts) = n - 1
  BY <1>1, FirstPartsFacts
<1>3. /\ \A k \in 1 .. n - 1 : parts[k] = [frame |-> f, dataOffset |-> k - 1]
      /\ p \in Packets
  <2>1. n - 1 \in Nat /\ n - 1 < Size(f)
    BY <1>1
  <2> QED BY <2>1, PacketIs DEF FirstParts
<1> HIDE DEF parts, p
<1>4. /\ DOMAIN longer = 1 .. n
      /\ \A k \in 1 .. n - 1 : longer[k] = parts[k]
      /\ longer[n] = p
      /\ longer \in Seq(Packets)
  BY <1>1, <1>2, <1>3
<1>5. \A k \in 1 .. n : longer[k] = [frame |-> f, dataOffset |-> k - 1]
  <2>1. \A k \in 1 .. n : k \in 1 .. n - 1 \/ k = n
    BY <1>1
  <2> QED BY <1>3, <1>4, <2>1 DEF p
<1>6. FirstParts(f, n) \in Seq(Packets) /\ Len(FirstParts(f, n)) = n
  BY <1>1, FirstPartsFacts
<1>7. \A k \in 1 .. n : longer[k] = FirstParts(f, n)[k]
  <2>1. \A k \in 1 .. n : FirstParts(f, n)[k] = [frame |-> f, dataOffset |-> k - 1]
    BY DEF FirstParts
  <2> HIDE DEF longer
  <2> QED BY <1>5, <2>1
<1>8. Len(longer) = n
  BY <1>2, <1>3, <1>1
<1> HIDE DEF longer
<1> QED BY <1>4, <1>6, <1>7, <1>8, SameSequence DEF longer, parts, p

\* What is whole stays whole while another frame's datagram is handled.
LEMMA TellsKeep ==
    ASSUME NEW s, NEW t, NEW pub \in Seq(Message), NEW qub, NEW f \in DOMAIN Stream,
           Flushes(s, t), Tells(s, t, pub, qub), IsKept(s, pub, f, Size(f))
    PROVE  IsKept(t, qub, f, Size(f))
<1>1. CASE \E k \in DOMAIN pub : pub[k].parts = AllPartsOf(f)
  <2>1. PICK k \in DOMAIN pub : pub[k].parts = AllPartsOf(f)
    BY <1>1
  <2>2. qub \in Seq(Message) /\ Delivers(pub, qub, Taken(t))
    BY TellsDelivers
  <2>3. k \in DOMAIN qub /\ qub[k] = pub[k]
    <3>1. qub[k] = pub[k] /\ Len(pub) =< Len(qub)
      BY <2>2 DEF Delivers
    <3>2. k \in 1 .. Len(pub) /\ Len(pub) \in Nat /\ Len(qub) \in Nat /\ DOMAIN qub = 1 .. Len(qub)
      BY <2>1, <2>2
    <3> QED BY <3>1, <3>2
  <2> QED BY <2>1, <2>3 DEF IsKept
<1>2. CASE InProgress(s) /\ s.currentFrame.fragments = FirstParts(f, Size(f))
  <2>1. CASE Quiet(s, t) /\ qub = pub
    BY <1>2, <2>1 DEF Quiet, IsKept, InProgress
  <2>2. CASE HandsOver(s, t) /\ qub = Told(pub, s.currentFrame)
    <3> DEFINE frame == s.currentFrame
               e == [number |-> Len(pub), parts |-> frame.fragments]
    <3>1. frame \in FrameAccumulator /\ IsSound(frame)
      BY <1>2, FrameInProgressType DEF Flushes
    <3>2. Size(f) \in 1 .. Size(f)
      BY PacketIs
    <3>3. /\ Len(frame.fragments) = Size(f)
          /\ frame.fragments[1] = [frame |-> f, dataOffset |-> 0]
          /\ frame.fragments = AllPartsOf(f)
      BY <1>2, <3>2, FirstPartsFacts
    <3>4. frame.totalDataSize = Size(f)
      BY <3>1, <3>3 DEF IsSound, TotalDataSize, Size
    <3>5. qub = Append(pub, e)
      BY <2>2, <3>3, <3>4 DEF Told, IsComplete, BytesReceived
    <3>6. e \in Message /\ e.parts = AllPartsOf(f)
      BY <3>1, <3>3, MessageType
    <3> HIDE DEF e
    <3>7. Len(pub) + 1 \in DOMAIN qub /\ qub[Len(pub) + 1] = e
      BY <3>5, <3>6
    <3> QED BY <3>6, <3>7 DEF IsKept
  <2> QED BY <2>1, <2>2 DEF Tells
<1> QED BY <1>1, <1>2 DEF IsKept

LEMMA TakeKeeps ==
    ASSUME NEW s, NEW t, NEW p \in Packets, NEW pub, NEW f \in DOMAIN Stream,
           FrameIndex(p) = Stream[f].index
               => ~(InProgress(s) /\ s.currentFrame.fragments = FirstParts(f, Size(f))),
           MayTake(s, t, p), IsKept(s, pub, f, Size(f))
    PROVE  IsKept(t, pub, f, Size(f))
<1>1. CASE \E k \in DOMAIN pub : pub[k].parts = AllPartsOf(f)
  BY <1>1 DEF IsKept
<1>2. CASE InProgress(s) /\ s.currentFrame.fragments = FirstParts(f, Size(f))
  <2>1. CASE Quiet(s, t)
    BY <1>2, <2>1 DEF Quiet, IsKept, InProgress
  <2>2. CASE Takes(s, t, p)
    <3> DEFINE parts == FirstParts(f, Size(f))
               n == Size(f)
    <3>1. f \in DOMAIN Stream /\ n \in Nat \ {0} /\ n \in 1 .. n
      BY PacketIs
    <3>2. /\ parts \in Seq(Packets) /\ Len(parts) = n
          /\ parts[1] = [frame |-> f, dataOffset |-> 0]
      BY <3>1, FirstPartsFacts
    <3>3. t.currentFrame.fragments = Append(parts, p)
      BY <1>2, <2>2 DEF Takes
    <3> HIDE DEF parts, n
    <3>4. /\ DOMAIN Append(parts, p) = 1 .. n + 1
          /\ Append(parts, p)[n + 1] = p
          /\ Append(parts, p)[1] = parts[1]
      BY <3>1, <3>2
    <3>5. t.currentFrame # NoFrame
      <4>1. Append(parts, p) # <<>>
        <5>1. Len(Append(parts, p)) = n + 1 /\ n + 1 # 0 /\ Len(<<>>) = 0
          BY <3>1, <3>2
        <5> QED BY <5>1
      <4> QED BY <3>3, <4>1 DEF NoFrame
    <3>6. IsSound(t.currentFrame)
      BY <3>5 DEF MayTake, SoundState, FramesSound, InProgress
    <3>7. FrameIndex(p) = FrameIndex(parts[1])
      <4>1. n + 1 \in DOMAIN Append(parts, p)
        BY <3>1, <3>4
      <4> QED BY <3>3, <3>4, <3>6, <4>1 DEF IsSound, IsRunOfOneIndex
    <3>8. FrameIndex(p) = Stream[f].index
      BY <3>2, <3>7 DEF FrameIndex
    <3> QED BY <1>2, <3>8
  <2> QED BY <2>1, <2>2 DEF MayTake
<1> QED BY <1>1, <1>2 DEF IsKept

\* Once the part came that makes the first n of f, they are kept.
LEMMA CompletesKeeps ==
    ASSUME NEW s, NEW t, NEW p \in Packets, NEW pub \in Seq(Message), NEW qub,
           NEW f \in DOMAIN Stream, NEW n \in 1 .. Size(f), p.frame = f,
           Completes(s, t, p), Tells(s, t, pub, qub),
           InProgress(s), s.currentFrame.fragments = FirstParts(f, n)
    PROVE  IsKept(t, qub, f, n)
<1>1. CASE Quiet(s, t)
  BY <1>1 DEF Quiet, IsKept, InProgress
<1>2. CASE HandsOver(s, t) /\ s.expectedDataOffset = TotalDataSize(p)
  <2>1. BytesReceived(s.currentFrame) = n
    BY FirstPartsFacts DEF BytesReceived
  <2>2. n = Size(f)
    BY <1>2, <2>1 DEF Completes, SoundState, FramesSound, TotalDataSize, Size
  <2>3. IsKept(s, pub, f, Size(f))
    BY <2>2 DEF IsKept
  <2> QED BY <2>2, <2>3, TellsKeep, CompletesFlushes
<1> QED BY <1>1, <1>2 DEF Completes

\* What is distinct after the datagram p was distinct before it.
LEMMA StillDistinct ==
    ASSUME NEW done \in SUBSET Packets, NEW p \in Packets, NEW f,
           \A h \in done : SentBefore(h, p), f =< p.frame, IsDistinct(f, done \cup {p})
    PROVE  IsDistinct(f, done)
<1>1. p.frame \in Nat /\ f \in Nat /\ \A q \in done : q.frame \in Nat /\ q.frame =< p.frame
  BY PacketFacts, StreamAssumption DEF SentBefore, IsDistinct
<1>2. ASSUME NEW q \in done, FrameIndex(q) = Stream[f].index
      PROVE  \/ q.frame = f
             \/ q.frame < f /\ AreApart(q.frame, f, done)
             \/ f < q.frame /\ AreApart(f, q.frame, done)
  <2>1. \/ q.frame = f
        \/ q.frame < f /\ AreApart(q.frame, f, done \cup {p})
        \/ f < q.frame /\ AreApart(f, q.frame, done \cup {p})
    BY <1>2 DEF IsDistinct
  <2> QED BY <1>1, <2>1 DEF AreApart
<1> QED BY <1>2 DEF IsDistinct

\* What the frame in progress was started with, and its index.
LEMMA FirstInProgress ==
    ASSUME NEW s, SoundState(s), InProgress(s)
    PROVE  /\ First(s.currentFrame) \in Packets
           /\ FrameIndex(First(s.currentFrame)) = s.currentFrameIndex
<1>1. s.currentFrame \in FrameAccumulator
  BY FrameInProgressType
<1> QED BY <1>1 DEF First, FrameAccumulator, SoundState, FramesSound

LEMMA HandledNotEnded ==
    ASSUME NEW done \in SUBSET Packets, NEW p \in Packets, \A h \in done : SentBefore(h, p),
           SoundState(asm), NotEnded(asm, done), NEW told, NEW qold, ToldByPart(p, told, qold)
    PROVE  NotEnded(asm', done \cup {p})
<1> SUFFICES ASSUME InProgress(asm'), NEW q \in done \cup {p},
                    First(asm'.currentFrame).frame < q.frame
             PROVE  ~Ends(q, FrameIndex(First(asm'.currentFrame)))
  BY DEF NotEnded
<1>1. PICK a, u, pub : /\ Flushes(asm, a)
                       /\ MayTake(a, u, p)
                       /\ Heeds(asm, a, u, p)
                       /\ Completes(u, asm', p)
  BY DEF ToldByPart
<1>2. u.currentFrame = asm'.currentFrame /\ InProgress(u)
  BY <1>1 DEF Completes, Quiet, HandsOver, InProgress
<1>3. CASE InProgress(a)
  <2>1. a.currentFrame = asm.currentFrame /\ InProgress(asm)
    BY <1>1, <1>3 DEF Flushes, Quiet, HandsOver, InProgress
  <2>2. First(u.currentFrame) = First(a.currentFrame)
    <3>1. CASE Quiet(a, u)
      BY <3>1 DEF Quiet
    <3>2. CASE Takes(a, u, p)
      <4>1. a.currentFrame.fragments \in Seq(Packets) /\ a.currentFrame.fragments # <<>>
        BY <1>1, <1>3, FrameInProgressType DEF MayTake, FrameAccumulator
      <4> QED BY <1>3, <3>2, <4>1 DEF Takes, First
    <3> QED BY <1>1, <3>1, <3>2 DEF MayTake
  <2>3. First(asm'.currentFrame) = First(asm.currentFrame)
    BY <1>2, <2>1, <2>2
  <2>4. CASE q \in done
    BY <2>1, <2>3, <2>4 DEF NotEnded
  <2>5. CASE q = p
    BY <1>1, <1>3, <2>1, <2>3, <2>5, FirstInProgress DEF Heeds
  <2> QED BY <2>4, <2>5
<1>4. CASE ~InProgress(a)
  <2>1. Takes(a, u, p)
    BY <1>1, <1>2, <1>4 DEF MayTake, Quiet, InProgress
  <2>2. First(asm'.currentFrame) = p
    BY <1>2, <1>4, <2>1 DEF Takes, First
  <2>3. q.frame =< p.frame /\ q.frame \in Nat /\ p.frame \in Nat
    BY PacketFacts, StreamAssumption DEF SentBefore
  <2> QED BY <2>2, <2>3
<1> QED BY <1>3, <1>4

LEMMA HandledCollects ==
    ASSUME TypeOK, LinkSound, steady, NEW told \in Seq(Message), NEW qold, ToldInOrder(told),
           SoundState(asm), Collected(asm, told, Done), NotEnded(asm, Done),
           NEW p \in Packets, Handles(p), ToldByPart(p, told, qold)
    PROVE  Collected(asm', qold, Done')
<1> SUFFICES ASSUME NEW f, NEW n, IsDistinct(f, Done'), FirstHandled(f, n, Done')
             PROVE  IsKept(asm', qold, f, n)
  BY DEF Collected
<1>1. /\ f \in DOMAIN Stream
      /\ Size(f) \in Nat \ {0}
      /\ n \in 1 .. Size(f)
      /\ n \in Nat
  BY PacketIs DEF IsDistinct, FirstHandled
<1>2. /\ \A q \in Packets : q \in Done' <=> q \in Done \/ q = p
      /\ p \in Done'
      /\ \A h \in Done : SentBefore(h, p)
      /\ Done \subseteq Packets
  BY HandledAfterDone DEF Done
<1>3. PICK a, u, pub : /\ Flushes(asm, a)
                       /\ Tells(asm, a, told, pub)
                       /\ MayTake(a, u, p)
                       /\ Heeds(asm, a, u, p)
                       /\ Completes(u, asm', p)
                       /\ Tells(u, asm', pub, qold)
  BY DEF ToldByPart
<1>4. pub \in Seq(Message)
  BY <1>3, TellsDelivers
<1>5. p.frame \in Nat /\ p.dataOffset \in Nat /\ f \in Nat
  BY <1>1, PacketFacts, StreamAssumption
<1>13. Done' = Done \cup {p}
  BY <1>2 DEF Done
<1>14. f =< p.frame
  <2>1. [frame |-> f, dataOffset |-> 0] \in Packets
    BY <1>1, PacketIs
  <2>2. [frame |-> f, dataOffset |-> 0] \in Done'
    BY <1>1, <2>1 DEF FirstHandled
  <2> QED BY <1>2, <1>5, <2>1, <2>2 DEF SentBefore
<1>15. IsDistinct(f, Done)
  BY <1>2, <1>13, <1>14, StillDistinct
\* A datagram between g and h, where h is no later than p, was handled before p.
<1>16. ASSUME NEW g, NEW h \in Nat, h =< p.frame, AreApart(g, h, Done')
       PROVE  AreApart(g, h, Done)
  BY <1>2, <1>5, <1>13, <1>16 DEF AreApart
<1>6. CASE p.frame # f
  <2>3. f < p.frame
    BY <1>5, <1>6, <1>14
  <2>4. n = Size(f)
    BY <1>1, <1>2, <1>5, <2>3 DEF FirstHandled
  <2>5. FirstHandled(f, n, Done)
    BY <1>1, <1>2, <1>6, <2>4 DEF FirstHandled
  <2>6. IsKept(asm, told, f, Size(f))
    BY <1>15, <2>4, <2>5 DEF Collected
  <2>7. IsKept(a, pub, f, Size(f))
    BY <1>1, <1>3, <1>4, <2>6, TellsKeep
  <2>10. ASSUME FrameIndex(p) = Stream[f].index, InProgress(a),
                a.currentFrame.fragments = FirstParts(f, Size(f))
         PROVE  FALSE
    <3>1. AreApart(f, p.frame, Done)
      BY <1>2, <1>5, <1>16, <2>3, <2>10 DEF IsDistinct
    <3>2. InProgress(asm) /\ asm.currentFrame = a.currentFrame
      BY <1>3, <2>10 DEF Flushes, Quiet, HandsOver, InProgress
    <3>3. First(asm.currentFrame) = [frame |-> f, dataOffset |-> 0]
      <4>1. Size(f) \in 1 .. Size(f)
        BY <1>1
      <4> QED BY <1>1, <2>10, <3>2, <4>1, FirstPartsFacts DEF First
    <3>4. First(asm.currentFrame).frame = f /\ FrameIndex(First(asm.currentFrame)) = Stream[f].index
      BY <3>3 DEF FrameIndex
    <3> QED BY <3>1, <3>2, <3>4 DEF AreApart, NotEnded
  <2>8. IsKept(u, pub, f, Size(f))
    BY <1>1, <1>3, <2>7, <2>10, TakeKeeps
  <2>9. IsKept(asm', qold, f, Size(f))
    BY <1>1, <1>3, <1>4, <2>8, TellsKeep, CompletesFlushes
  <2> QED BY <2>4, <2>9
<1>7. CASE p.frame = f
  <2>1. \A q \in Done : q.frame =< f /\ (q.frame = f => q.dataOffset < p.dataOffset)
    <3> SUFFICES ASSUME NEW q \in Done
                 PROVE  q.frame =< f /\ (q.frame = f => q.dataOffset < p.dataOffset)
      OBVIOUS
    <3>1. SentBefore(q, p) /\ q.frame \in Nat
      BY <1>2, PacketFacts, StreamAssumption
    <3> QED BY <1>5, <1>7, <3>1 DEF SentBefore
  <2>2. p.dataOffset = n - 1
    <3>1. p.dataOffset < n
      BY <1>2, <1>7 DEF FirstHandled
    <3>2. n - 1 \in Nat /\ n - 1 < Size(f) /\ n - 1 < n
      BY <1>1
    <3> DEFINE last == [frame |-> f, dataOffset |-> n - 1]
    <3>3. last \in Packets /\ last.frame = f /\ last.dataOffset = n - 1
      BY <1>1, <3>2, PacketIs
    <3> HIDE DEF last
    <3>4. last \in Done'
      BY <3>2, <3>3 DEF FirstHandled
    <3>5. last = p \/ n - 1 < p.dataOffset
      BY <1>2, <2>1, <3>3, <3>4
    <3> QED BY <1>1, <1>5, <3>1, <3>3, <3>5
  <2>3. p = [frame |-> f, dataOffset |-> n - 1]
    BY <1>1, <1>7, <2>2, PacketIs
  <2>4. InProgress(u) /\ u.currentFrame.fragments = FirstParts(f, n)
    <3>1. CASE n = 1
      <4>1. HasHeader(p)
        BY <1>7, <2>2, <3>1 DEF HasHeader, IsDistinct
      <4>2. ~IsCurrent(asm, p)
        <5> SUFFICES ASSUME IsCurrent(asm, p) PROVE FALSE
          OBVIOUS
        <5> DEFINE h == First(asm.currentFrame)
        <5>1. h \in Done
          BY DEF ToldInOrder, InOrder, IsCurrent
        <5>2. FrameIndex(h) = FrameIndex(p)
          BY DEF IsCurrent, SoundState, FramesSound, First
        <5> HIDE DEF h
        <5>3. FrameIndex(h) = Stream[f].index /\ h \in Packets /\ h \in Done'
          BY <1>2, <1>7, <5>1, <5>2 DEF FrameIndex
        <5>4. h.frame # f
          <6> SUFFICES ASSUME h.frame = f PROVE FALSE
            OBVIOUS
          <6>1. h.dataOffset < 0 /\ h.dataOffset \in Nat
            BY <1>2, <2>1, <2>2, <3>1, <5>1, <5>3, PacketFacts
          <6> QED BY <6>1
        <5>5. h.frame \in Nat /\ h.frame =< f
          BY <2>1, <5>1, <5>3, PacketFacts, StreamAssumption
        <5>6. AreApart(h.frame, f, Done')
          BY <1>5, <5>3, <5>4, <5>5 DEF IsDistinct
        <5>7. AreApart(h.frame, f, Done)
          BY <1>5, <1>7, <1>16, <5>6
        <5>8. FrameIndex(h) = Stream[h.frame].index
          BY DEF FrameIndex
        <5> QED BY <5>7, <5>8 DEF AreApart, NotEnded, IsCurrent, h
      <4>3. u.currentFrame.fragments = <<p>>
        BY <1>3, <4>1, <4>2 DEF Heeds, Takes
      <4>4. FirstParts(f, 1) = <<p>>
        <5>1. FirstParts(f, 1) \in Seq(Packets) /\ Len(FirstParts(f, 1)) = 1
          BY <1>1, <3>1, FirstPartsFacts
        <5>2. FirstParts(f, 1)[1] = p
          <6>1. 1 \in 1 .. Size(f)
            BY <1>1, <3>1
          <6>2. FirstParts(f, 1)[1] = [frame |-> f, dataOffset |-> 0]
            BY <1>1, <6>1, FirstPartsFacts
          <6>3. n - 1 = 0
            BY <3>1
          <6> QED BY <2>3, <6>2, <6>3
        <5>3. <<p>> \in Seq(Packets) /\ Len(<<p>>) = 1 /\ <<p>>[1] = p
          OBVIOUS
        <5>4. \A k \in 1 .. 1 : k = 1
          OBVIOUS
        <5> DEFINE one == FirstParts(f, 1)
                   other == <<p>>
        <5>5. /\ one \in Seq(Packets) /\ other \in Seq(Packets)
              /\ Len(one) = Len(other)
              /\ \A k \in 1 .. Len(one) : one[k] = other[k]
          BY <5>1, <5>2, <5>3, <5>4
        <5> HIDE DEF one, other
        <5>6. one = other
          BY <5>5, SameSequence
        <5> QED BY <5>6 DEF one, other
      <4>5. InProgress(u)
        <5>1. <<p>> # <<>>
          OBVIOUS
        <5>2. NoFrame.fragments = <<>>
          BY DEF NoFrame
        <5> QED BY <4>3, <5>1, <5>2 DEF InProgress
      <4> QED BY <3>1, <4>3, <4>4, <4>5
    <3>2. CASE n # 1
      <4>1. n - 1 \in 1 .. Size(f) /\ n \in 2 .. Size(f) /\ n - 1 < Size(f)
        BY <1>1, <3>2
      <4>2. FirstHandled(f, n - 1, Done)
        <5>1. ASSUME NEW q \in Packets, q.frame = f
              PROVE  q \in Done <=> q.dataOffset < n - 1
          <6>1. q \in Done' <=> q.dataOffset < n
            BY <5>1 DEF FirstHandled
          <6>2. q \in Done => q.dataOffset < n - 1
            BY <2>1, <2>2, <5>1
          <6>3. q.dataOffset < n - 1 => q # p /\ q.dataOffset < n
            BY <1>1, <2>2, PacketFacts
          <6> QED BY <1>2, <6>1, <6>2, <6>3
        <5>2. \A q \in Done : q.frame =< f
          BY <2>1
        <5> QED BY <4>1, <5>1, <5>2 DEF FirstHandled
      <4>3. IsKept(asm, told, f, n - 1)
        BY <1>15, <4>2 DEF Collected
      <4>4. InProgress(asm) /\ asm.currentFrame.fragments = FirstParts(f, n - 1)
        BY <1>1, <4>1, <4>3 DEF IsKept
      <4>5. /\ Len(FirstParts(f, n - 1)) = n - 1
            /\ FirstParts(f, n - 1)[1] = [frame |-> f, dataOffset |-> 0]
        BY <1>1, <4>1, FirstPartsFacts
      <4>6. FrameIndex(p) = FrameIndex(FirstParts(f, n - 1)[1])
        BY <1>7, <4>5 DEF FrameIndex
      <4>7. IsCurrent(asm, p) /\ p.dataOffset = asm.expectedDataOffset
        BY <2>2, <4>4, <4>5, <4>6 DEF SoundState, FramesSound, IsCurrent, BytesReceived
      <4>8. Quiet(asm, a) /\ Takes(a, u, p)
        BY <1>3, <4>7 DEF Heeds
      <4>9. u.currentFrame.fragments = Append(FirstParts(f, n - 1), p)
        BY <4>4, <4>8 DEF Quiet, Takes, InProgress
      <4>10. u.currentFrame.fragments = FirstParts(f, n)
        BY <1>1, <2>3, <4>1, <4>9, NextPart
      <4>11. InProgress(u)
        <5>1. Len(FirstParts(f, n)) = n
          BY <1>1, FirstPartsFacts
        <5>2. Len(<<>>) = 0
          OBVIOUS
        <5> QED BY <1>1, <4>10, <5>1, <5>2 DEF InProgress, NoFrame
      <4> QED BY <4>10, <4>11
    <3> QED BY <3>1, <3>2
  <2> QED BY <1>1, <1>3, <1>4, <1>7, <2>4, CompletesKeeps
<1> QED BY <1>6, <1>7

-----------------------------------------------------------------------------
\* The inductive invariant of the stream, on top of the assembler's.

NothingLost(told) == steady => Collected(asm, told, Done) /\ NotEnded(asm, Done)

StreamSound(told) == /\ ClientSound(told)
                     /\ Counted(asm, told)
                     /\ ToldInOrder(told)
                     /\ Deliverable(told)
                     /\ NothingLost(told)

StreamInv == LinkSound /\ \E told : StreamSound(told)

LEMMA InitStreamInv == StreamInit => StreamInv
<1> SUFFICES ASSUME StreamInit PROVE StreamInv
  OBVIOUS
<1>1. /\ workQueue = <<>> /\ pktProcessor = <<>> /\ published = <<>> /\ delivered = {}
      /\ nextFrameIndex = 0 /\ newFrames = <<>> /\ steady \in BOOLEAN
      /\ disposing = FALSE /\ listening = TRUE /\ completed = FALSE
      /\ entered = FALSE /\ workerCalls = FALSE
      /\ asm.currentFrame = NoFrame
      /\ asm.metrics = EmptyMetrics
  BY DEF StreamInit, Init, LinkInit
<1>2. ClientSound(<<>>)
  <2>1. <<>> \in Seq(Message) /\ <<>> \in Seq(FrameAccumulator) /\ Len(<<>>) = 0
    OBVIOUS
  <2>2. Flags
    BY <1>1 DEF Flags
  <2>3. \A k : k \notin DOMAIN <<>>
    OBVIOUS
  <2> QED BY <1>1, <2>1, <2>2, <2>3 DEF ClientSound
<1>3. Counted(asm, <<>>)
  BY <1>1 DEF Counted, EmptyMetrics
<1>4. LinkSound
  <2>1. \A v : ~IsIn(v, <<>>)
    BY DEF IsIn
  <2>2. IsOrdered(<<>>)
    BY DEF IsOrdered
  <2> QED BY <1>1, <2>1, <2>2 DEF LinkSound, QueuesOrdered, WaitingWasDelivered, Waiting, Done
<1>5. ToldInOrder(<<>>) /\ Deliverable(<<>>)
  BY <1>1 DEF ToldInOrder, InOrder, InProgress, Deliverable
<1>6. NothingLost(<<>>)
  <2>1. NotEnded(asm, Done)
    BY <1>1 DEF NotEnded, InProgress
  <2> SUFFICES ASSUME NEW f, NEW n, IsDistinct(f, Done), FirstHandled(f, n, Done) PROVE FALSE
    BY <2>1 DEF NothingLost, Collected
  <2>2. Done = {}
    BY <1>1 DEF Done
  <2>3. f \in DOMAIN Stream /\ Size(f) \in Nat \ {0} /\ n \in 1 .. Size(f)
    BY PacketIs DEF IsDistinct, FirstHandled
  <2>4. [frame |-> f, dataOffset |-> 0] \in Packets
    BY <2>3, PacketIs
  <2>5. [frame |-> f, dataOffset |-> 0] \in Done
    BY <2>3, <2>4 DEF FirstHandled
  <2> QED BY <2>2, <2>5
<1> QED BY <1>2, <1>3, <1>4, <1>5, <1>6 DEF StreamInv, StreamSound

LEMMA StepNothingLost ==
    ASSUME IInv, LinkSound, [StreamNext]_allVars, NEW told, NEW qold,
           StreamSound(told), StepTells(told, qold)
    PROVE  NothingLost(qold)'
<1> SUFFICES ASSUME steady' PROVE Collected(asm', qold, Done') /\ NotEnded(asm', Done')
  BY DEF NothingLost
<1>1. TypeOK /\ SoundState(asm)
  BY DEF IInv
<1>2. steady /\ KeepsOrder
  BY <1>1, StepLinkSound
<1>3. /\ told \in Seq(Message)
      /\ ToldInOrder(told)
      /\ Collected(asm, told, Done) /\ NotEnded(asm, Done)
  BY <1>2 DEF StreamSound, ClientSound, NothingLost
<1>4. CASE KeepsQuiet(told, qold) /\ \A p \in Packets : ~Consumes(p)
  <2>1. Done' = Done
    BY <1>2, <1>4 DEF KeepsOrder, Done
  <2>2. asm'.currentFrame = asm.currentFrame /\ qold = told
    BY <1>4 DEF KeepsQuiet, Quiet
  <2> QED BY <1>3, <2>1, <2>2 DEF Collected, IsKept, InProgress, NotEnded
<1>5. ASSUME NEW p \in Packets, Handles(p), ToldByPart(p, told, qold)
      PROVE  Collected(asm', qold, Done') /\ NotEnded(asm', Done')
  <2>1. Collected(asm', qold, Done')
    BY <1>1, <1>2, <1>3, <1>5, HandledCollects
  <2>2. /\ Done \in SUBSET Packets
        /\ \A h \in Done : SentBefore(h, p)
        /\ Done' = Done \cup {p}
    BY <1>1, <1>2, <1>5, HandledAfterDone DEF Done
  <2>3. NotEnded(asm', Done \cup {p})
    BY <1>1, <1>3, <1>5, <2>2, HandledNotEnded
  <2> QED BY <2>1, <2>2, <2>3
<1> QED BY <1>2, <1>4, <1>5 DEF StepTells

LEMMA NextStreamInv == IInv /\ IInv' /\ StreamInv /\ [StreamNext]_allVars => StreamInv'
<1> SUFFICES ASSUME IInv, IInv', LinkSound, NEW told, StreamSound(told), [StreamNext]_allVars
             PROVE  StreamInv'
  BY DEF StreamInv
<1>1. TypeOK /\ ClientSound(told) /\ told \in Seq(Message)
  BY DEF IInv, StreamSound, ClientSound
<1>2. PICK qold : ClientSound(qold)' /\ StepTells(told, qold)
  BY <1>1, StreamTells
<1>3. qold \in Seq(Message)
  BY <1>2 DEF ClientSound
<1>4. Counted(asm', qold)
  BY <1>2, StepCounted DEF StreamSound
<1>5. ToldInOrder(qold)'
  BY <1>1, <1>2, StepInOrder DEF StreamSound
<1>6. Deliverable(qold)'
  BY <1>1, <1>2, <1>3, StepDeliverable DEF StreamSound
<1>7. NothingLost(qold)'
  BY <1>2, StepNothingLost
<1>8. StreamSound(qold)'
  BY <1>2, <1>4, <1>5, <1>6, <1>7 DEF StreamSound
<1>9. LinkSound'
  BY <1>1, StepLinkSound
<1> QED BY <1>8, <1>9 DEF StreamInv

LEMMA SpecStreamInv == StreamSpec => [](IInv /\ StreamInv)
<1>1. StreamSpec => []IInv
  BY StreamRunsAssembler, SpecIInv, PTL
<1>2. [](IInv) /\ StreamSpec => []StreamInv
  BY InitStreamInv, NextStreamInv, PTL DEF StreamSpec
<1> QED BY <1>1, <1>2, PTL

-----------------------------------------------------------------------------

\* Every variable of the composition holds what its declaration says; until Dispose
\* the client has been handed, or is about to be, as many frames as are counted
\* complete; they are numbered without a gap, and on a link that only loses
\* datagrams in the order they were sent and none twice, whenever the worker
\* handles what was received and whoever disposes meanwhile.
THEOREM PublishedStaysSound == StreamSpec => []PublishedSound
<1>1. IInv /\ StreamInv => PublishedSound
  <2> SUFFICES ASSUME IInv, LinkSound, NEW told, StreamSound(told) PROVE PublishedSound
    BY DEF StreamInv
  <2>1. ClientSound(told) /\ Counted(asm, told) /\ ToldInOrder(told)
    BY DEF StreamSound
  <2>2. StreamTypeOK
    BY <2>1 DEF ClientSound, Message, IInv, LinkSound, Flags, StreamTypeOK
  <2>3. /\ Len(newFrames) \in Nat /\ nextFrameIndex \in Nat
        /\ published \in Seq(Message) /\ Len(published) \in Nat
    BY <2>1 DEF ClientSound
  <2>4. PublishedAreCounted
    <3>1. IF disposing THEN nextFrameIndex =< asm.metrics.CompleteFrameCount
                       ELSE nextFrameIndex + Len(newFrames) = asm.metrics.CompleteFrameCount
      BY <2>1, <2>3 DEF ClientSound, Counted
    <3>2. nextFrameIndex - Len(published) \in IF completed THEN {0, 1} ELSE {0}
      BY <2>1, <2>3 DEF ClientSound
    <3> QED BY <3>1, <3>2 DEF PublishedAreCounted
  <2>5. PublishedInOrder
    <3> SUFFICES ASSUME steady, NEW j \in DOMAIN published, NEW k \in DOMAIN published, j < k
                 PROVE  published[j].parts[1].frame < published[k].parts[1].frame
      BY DEF PublishedInOrder
    <3>1. /\ j \in DOMAIN told /\ published[j] = told[j]
          /\ k \in DOMAIN told /\ published[k] = told[k]
      BY <2>1 DEF ClientSound
    <3> QED BY <2>1, <3>1 DEF ToldInOrder, InOrder, FirstTold
  <2> QED BY <2>2, <2>4, <2>5 DEF PublishedSound
<1> QED BY <1>1, SpecStreamInv, PTL

\* On a link that only loses datagrams, and while nobody disposes, a frame all of
\* whose parts arrived is handed over whole, or is whole in progress, whatever was
\* lost of other frames, and also after the sonar restarted, unless it meets
\* another frame of the same index in progress that nothing ended in between.
THEOREM NoOtherFrameIsLost == StreamSpec => []NothingElseLost
<1>1. IInv /\ StreamInv => NothingElseLost
  <2> SUFFICES ASSUME LinkSound, NEW told, StreamSound(told), steady, ~disposing, Idle,
                      NEW f \in DOMAIN Stream,
                      IsToldApart(f), Stream[f].header, AllDelivered(f)
               PROVE  IsKept(asm, published, f, Size(f))
    <3>1. ASSUME NEW f \in DOMAIN Stream, IsKept(asm, published, f, Size(f))
          PROVE  \/ \E k \in DOMAIN published : published[k].parts = AllPartsOf(f)
                 \/ asm.currentFrame.fragments = AllPartsOf(f)
      BY <3>1 DEF IsKept, FirstParts, AllPartsOf, Size
    <3> QED BY <3>1 DEF NothingElseLost, StreamInv
  <2>1. Size(f) \in Nat \ {0} /\ Size(f) \in 1 .. Size(f)
    BY PacketIs
  <2>2. Done = delivered
    <3>1. \A p : ~Waiting(p)
      BY DEF Idle, Waiting, IsIn
    <3> QED BY <3>1 DEF Done, LinkSound
  <2>3. ASSUME NEW p \in Packets, p.frame = f
        PROVE  p \in Done /\ p.dataOffset < Size(f)
    BY <2>2, <2>3, PacketFacts DEF AllDelivered, TotalDataSize, Size
  <2>4. FirstHandled(f, Size(f), Done)
    BY <2>1, <2>3 DEF FirstHandled
  <2>5. IsDistinct(f, Done)
    BY <2>2 DEF IsToldApart, AreToldApart, IsDistinct, AreApart
  <2>6. IsKept(asm, told, f, Size(f))
    BY <2>4, <2>5 DEF StreamSound, NothingLost, Collected
  <2>7. /\ Len(newFrames) = 0 /\ nextFrameIndex = Len(told)
        /\ nextFrameIndex = Len(published)
        /\ DOMAIN told = DOMAIN published
        /\ \A k \in DOMAIN published : published[k] = told[k]
    <3>1. newFrames = <<>> /\ ~completed
      BY DEF Idle, StreamSound, ClientSound
    <3>2. Len(told) \in Nat /\ nextFrameIndex \in Nat
          /\ DOMAIN told = 1 .. Len(told) /\ DOMAIN published = 1 .. Len(published)
      BY DEF StreamSound, ClientSound
    <3> QED BY <3>1, <3>2 DEF StreamSound, ClientSound
  <2> QED BY <2>6, <2>7 DEF IsKept
<1> QED BY <1>1, SpecStreamInv, PTL

\* Once Dispose has begun, at most the one frame is published whose onNewFrame had
\* found nobody disposing, and nothing once the subject is completed, although the
\* worker goes on with what was received before.
THEOREM DisposedStaysSilent == StreamSpec => SilentAfterDispose
<1> DEFINE AtMost(n) == Len(published) + (IF entered /\ ~completed THEN 1 ELSE 0) =< n + 1
<1>1. ASSUME StreamInv, [StreamNext]_allVars
      PROVE  /\ completed => published' = published
             /\ \A n \in Nat : disposing /\ AtMost(n) => disposing' /\ AtMost(n)'
  <2>1. PICK told : ClientSound(told)
    BY <1>1 DEF StreamInv, StreamSound
  <2>2. /\ Flags /\ newFrames \in Seq(FrameAccumulator)
        /\ published \in Seq(Message) /\ Len(published) \in Nat
    BY <2>1 DEF ClientSound
  <2>3. CASE OnNewFrame
    <3>1. CASE PassesTest \/ FailsTest
      BY <2>2, <2>3, <3>1 DEF OnNewFrame, PassesTest, FailsTest, LeaveOnNewFrame, clientVars,
         disposeVars
    <3>2. CASE Publish
      <4> DEFINE e == [number |-> nextFrameIndex, parts |-> Head(newFrames).fragments]
      <4>1. /\ entered /\ ~entered' /\ disposing' = disposing /\ completed' = completed
            /\ published' = IF completed THEN published ELSE Append(published, e)
        BY <2>3, <3>2 DEF OnNewFrame, Publish, LeaveOnNewFrame, disposeVars
      <4>2. e \in Message
        <5>1. newFrames # <<>> /\ nextFrameIndex \in Nat
          BY <2>1, <4>1 DEF ClientSound
        <5>2. Head(newFrames) \in FrameAccumulator
          BY <2>2, <5>1
        <5> QED BY <5>1, <5>2, MessageType
      <4> HIDE DEF e
      <4>3. ~completed => Len(published') = Len(published) + 1
        BY <2>2, <4>1, <4>2
      <4> QED BY <2>2, <4>1, <4>3
    <3> QED BY <2>3, <3>1, <3>2 DEF OnNewFrame
  <2>4. CASE ~OnNewFrame
    <3>1. published' = published /\ entered' = entered
      <4>1. \/ UNCHANGED clientVars /\ UNCHANGED callVars
            \/ \E b : Assemble(b)
        BY <1>1, <2>4, Zenon DEF StreamNext, ReceiveFramePart, ReceiveGarbage, Receive, Drain,
           Deliver, Work, WorkOnPacket, WorkOn, FlushListener, BeginDispose, CompleteSubject,
           ListenLoopEnds, DisposeAssembler, allVars
      <4> QED BY <4>1 DEF Assemble, clientVars, callVars
    <3>2. (disposing => disposing') /\ (completed => completed')
      <4>1. \/ UNCHANGED disposeVars
            \/ BeginDispose \/ CompleteSubject \/ ListenLoopEnds
        BY <1>1, <2>4, Zenon DEF StreamNext, ReceiveFramePart, ReceiveGarbage, Receive, Drain,
           Deliver, Work, WorkOnPacket, WorkOn, FlushListener, DisposeAssembler, allVars
      <4> QED BY <4>1 DEF BeginDispose, CompleteSubject, ListenLoopEnds, disposeVars
    <3>3. (IF entered' /\ ~completed' THEN 1 ELSE 0) =< (IF entered /\ ~completed THEN 1 ELSE 0)
      BY <3>1, <3>2
    <3>4. ASSUME NEW n \in Nat, AtMost(n) PROVE AtMost(n)'
      BY <2>2, <3>1, <3>3, <3>4
    <3> QED BY <3>1, <3>2, <3>4
  <2> QED BY <2>3, <2>4
<1>2. StreamSpec => [][completed => published' = published]_allVars
  <2>1. StreamInv /\ [StreamNext]_allVars => [completed => published' = published]_allVars
    BY <1>1
  <2> QED BY <2>1, SpecStreamInv, PTL DEF StreamSpec
<1>3. ASSUME NEW n \in 0 .. MaxPackets
      PROVE  StreamSpec => []((disposing /\ Len(published) = n) => [](Len(published) =< n + 1))
  <2>1. n \in Nat
    BY BoundsAssumption
  <2>2. StreamInv /\ disposing /\ AtMost(n) /\ [StreamNext]_allVars => disposing' /\ AtMost(n)'
    BY <1>1, <2>1
  <2>3. disposing /\ Len(published) = n => AtMost(n)
    BY <2>1
  <2>4. StreamInv /\ AtMost(n) => Len(published) =< n + 1
    <3>1. StreamInv => Len(published) \in Nat
      BY DEF StreamInv, StreamSound, ClientSound
    <3> QED BY <2>1, <3>1
  <2> HIDE DEF AtMost
  <2> QED BY <2>2, <2>3, <2>4, SpecStreamInv, PTL DEF StreamSpec
<1> QED BY <1>2, <1>3 DEF SilentAfterDispose

\* The stream implements WholeFrames: whatever the link does to the datagrams, the
\* client is handed frames numbered without a gap and never taken back, none with
\* a hole or a part of a frame with another index, each made of what was received,
\* and each exactly one raw frame unless another frame had its index.
THEOREM StreamDeliversWholeFrames == StreamSpec => DeliversWholeFrames
<1>1. StreamInit => Client!Init
  <2> SUFFICES ASSUME StreamInit PROVE Client!Init
    OBVIOUS
  <2>1. /\ asm.currentFrame.fragments = <<>>
        /\ asm.finished = <<>>
        /\ published = <<>>
    BY DEF StreamInit, Init, NoFrame
  <2> QED BY <2>1 DEF Client!Init, Accepted
<1>2. IInv /\ IInv' /\ StreamInv /\ StreamInv' /\ [StreamNext]_allVars
          => [Client!Next]_(Client!vars)
  <2> SUFFICES ASSUME IInv, IInv', StreamInv, StreamInv', [StreamNext]_allVars
               PROVE  Client!Next
    OBVIOUS
  <2>1. PICK told : ClientSound(told)
    BY DEF StreamInv, StreamSound
  <2>2. PICK qold : StepTells(told, qold) /\ told \in Seq(Message) /\ qold \in Seq(Message)
    BY <2>1, StreamTells DEF ClientSound
  <2>3. Accepted = Taken(asm) /\ Accepted' = Taken(asm')
    BY DEF Accepted, Taken
  <2>4. Taken(asm) \subseteq Taken(asm')
    BY <2>2, StepDelivers
  <2>5. Accepted' \subseteq Client!Packets
    BY DEF Accepted, Packets, Client!Packets
  <2>6. Client!Take
    BY <2>3, <2>4, <2>5 DEF Client!Take
  <2>7. published' = published \/ \E e : published' = Append(published, e)
    BY DEF StreamNext, ReceiveFramePart, ReceiveGarbage, Receive, Drain, Deliver, Work,
       WorkOnPacket, WorkOn, Assemble, OnNewFrame, PassesTest, FailsTest, Publish, FlushListener,
       BeginDispose, CompleteSubject, ListenLoopEnds, DisposeAssembler, allVars, clientVars
  <2>8. published \in Seq(Message) /\ published' \in Seq(Message)
    BY DEF StreamInv, StreamSound, ClientSound
  <2>9. /\ Len(published) =< Len(published')
        /\ \A k \in DOMAIN published : published'[k] = published[k]
    BY <2>7, <2>8
  <2>10. \A k \in DOMAIN published' : /\ published'[k].number = k - 1
                                      /\ Client!IsDeliverable(published'[k], Taken(asm'))
    <3>1. PICK rold : ClientSound(rold)' /\ Deliverable(rold)'
      BY DEF StreamInv, StreamSound
    <3> QED BY <3>1 DEF ClientSound, Deliverable
  <2>11. \A k \in (Len(published) + 1) .. Len(published') : k \in DOMAIN published'
    BY <2>8
  <2>12. Client!HandOver
    BY <2>3, <2>9, <2>10, <2>11 DEF Client!HandOver
  <2> QED BY <2>6, <2>12 DEF Client!Next
<1> QED BY <1>1, <1>2, SpecStreamInv, PTL DEF StreamSpec, DeliversWholeFrames, Client!Spec
=============================================================================
