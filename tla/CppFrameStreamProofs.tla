------------------------- MODULE CppFrameStreamProofs -------------------------
(***************************************************************************)
(* Proofs about the C++ frame stream, for every stream of frames and every *)
(* number of datagrams: what the client gets and what the metrics say.     *)
(***************************************************************************)
EXTENDS CppFrameStream, TLAPS

-----------------------------------------------------------------------------
\* What every step preserves, of what the assembler holds, s.

\* dataReceived says no more than was appended, and the size is the first part's.
SoundFrame(frame) == /\ HasNoHole(frame)
                     /\ frame.dataReceived =< Len(frame.fragments)
                     /\ frame.totalDataSize = TotalDataSize(frame.fragments[1])
                     /\ frame.frameIndex = FrameIndex(frame.fragments[1])

Accepted(s) == s.metrics.totalPacketsAccepted + (IF s.call.acceptedPacket THEN 1 ELSE 0)

Counted(s) == s.metrics.totalReceivedFrameSize + s.currentFrame.dataReceived

\* Finished frames are sound and rise up to the index finished last.
FinishedSound(s) ==
    /\ \A k \in DOMAIN s.finished : /\ SoundFrame(s.finished[k])
                                    /\ s.finished[k].frameIndex =< s.lastFinishedFrameIndex
    /\ \A j, k \in DOMAIN s.finished :
           j < k => s.finished[j].frameIndex < s.finished[k].frameIndex

\* The frame in progress is above it and not above the index the sender came to.
InProgressSound(s) ==
    InProgress(s) => /\ SoundFrame(s.currentFrame)
                     /\ s.lastFinishedFrameIndex < s.currentFrame.frameIndex
                     /\ s.currentFrame.frameIndex =< s.currentFrameIndex
                     /\ s.expectedDataOffset = Len(s.currentFrame.fragments)

SoundState(s) == /\ s \in AssemblerType
                 /\ s.lastFinishedFrameIndex =< s.currentFrameIndex
                 /\ FinishedSound(s)
                 /\ InProgressSound(s)
                 /\ Counted(s) =< Accepted(s)

-----------------------------------------------------------------------------
\* What every step preserves on a steady link, which delivered what is in received.

\* The parts of frames sent before the sonar restarted are of one frame.
Pure(frame) ==
    \A j \in DOMAIN frame.fragments :
        ~IsRetrograde(frame.fragments[j].frame)
            => frame.fragments[j].frame = frame.fragments[1].frame

\* The index the sender came to is the highest that was delivered.
HighestIndex(s, received) ==
    /\ \A q \in received : FrameIndex(q) =< s.currentFrameIndex
    /\ \/ s.currentFrameIndex = -1
       \/ \E q \in received : FrameIndex(q) = s.currentFrameIndex

\* No part that was sent before the restart is newer than the frame in progress.
SteadyProgress(s, received) ==
    InProgress(s) =>
        /\ Pure(s.currentFrame)
        /\ \A j \in DOMAIN s.currentFrame.fragments : s.currentFrame.fragments[j] \in received
        /\ \A q \in received :
               ~IsRetrograde(q.frame) => q.frame =< s.currentFrame.fragments[1].frame

SteadyState(s, received) ==
    /\ HighestIndex(s, received)
    /\ SteadyProgress(s, received)
    /\ \A k \in DOMAIN s.finished : Pure(s.finished[k])
    /\ (\A q \in received : ~IsRetrograde(q.frame)) => Counted(s) = Accepted(s)

\* The first n parts of the raw frame f.
FirstParts(f, n) == [k \in 1 .. n |-> [frame |-> f, dataOffset |-> k - 1]]

\* Nothing but the first n parts of f has been delivered since f began.
CameTo(f, n, received) ==
    /\ \A o \in 0 .. n - 1 : [frame |-> f, dataOffset |-> o] \in received
    /\ \A q \in received : SentBefore(q, [frame |-> f, dataOffset |-> n])

IsFinishedWhole(f, s) == \E k \in DOMAIN s.finished : s.finished[k].fragments = AllPartsOf(f)

\* A frame of which nothing was lost yet is in progress, or finished.
Collected(s, received) ==
    \A f \in DOMAIN Stream :
        ~IsRetrograde(f) =>
            /\ \A n \in 1 .. Stream[f].size - 1 :
                   CameTo(f, n, received) => /\ InProgress(s)
                                             /\ s.currentFrame.fragments = FirstParts(f, n)
            /\ (\A p \in Packets : p.frame = f => p \in received) => IsFinishedWhole(f, s)

\* The inductive invariant.
IInv == /\ TypeOK
        /\ SoundState(asm)
        /\ ~asm.call.active => ~asm.call.acceptedPacket
        /\ steady => SteadyState(asm, delivered)
        /\ (steady /\ receiving) => Collected(asm, delivered)

-----------------------------------------------------------------------------
\* What a datagram, and a frame made of some, say about themselves.

LEMMA PacketFacts ==
    ASSUME NEW p \in Packets
    PROVE  /\ p.frame \in DOMAIN Stream
           /\ p.frame \in Nat
           /\ p.dataOffset \in Nat
           /\ FrameIndex(p) \in Nat
           /\ TotalDataSize(p) \in Nat \ {0}
           /\ p.dataOffset < TotalDataSize(p)
           /\ p = [frame |-> p.frame, dataOffset |-> p.dataOffset]
<1>1. PICK f \in DOMAIN Stream : p \in [frame : {f}, dataOffset : 0 .. Stream[f].size - 1]
  BY DEF Packets
<1>2. Stream[f] \in RawFrame
  BY StreamAssumption
<1>3. Stream[f].size \in Nat \ {0} /\ Stream[f].index \in Nat
  BY <1>2 DEF RawFrame
<1>4. p.frame = f /\ p.dataOffset \in 0 .. Stream[f].size - 1
  BY <1>1
<1>5. p = [frame |-> p.frame, dataOffset |-> p.dataOffset]
  BY <1>1
<1>6. DOMAIN Stream \subseteq Nat
  BY StreamAssumption
<1> QED BY <1>3, <1>4, <1>5, <1>6 DEF FrameIndex, TotalDataSize

LEMMA BuilderFacts ==
    ASSUME NEW frame \in FrameBuilder
    PROVE  /\ frame.frameIndex \in Nat
           /\ frame.totalDataSize \in Nat \ {0}
           /\ frame.dataReceived \in Nat
           /\ frame.fragments \in Seq(Packets)
           /\ Len(frame.fragments) \in Nat \ {0}
           /\ DOMAIN frame.fragments = 1 .. Len(frame.fragments)
           /\ frame.fragments[1] \in Packets
           /\ frame # NoFrame
<1>1. frame.fragments \in Seq(Packets) /\ frame.fragments # <<>>
  BY DEF FrameBuilder
<1>2. Len(frame.fragments) \in Nat \ {0}
  BY <1>1
<1> QED BY <1>1, <1>2 DEF FrameBuilder, NoFrame

\* The frame in progress is a frame.
LEMMA InProgressType ==
    ASSUME NEW s \in AssemblerType, InProgress(s)
    PROVE  s.currentFrame \in FrameBuilder
BY DEF AssemblerType, InProgress

LEMMA StateFacts ==
    ASSUME NEW s \in AssemblerType
    PROVE  /\ s.currentFrameIndex \in Int
           /\ s.lastFinishedFrameIndex \in Int
           /\ s.lastFinishedFrameIndex >= -1
           /\ s.expectedDataOffset \in Nat
           /\ s.finished \in Seq(FrameBuilder)
           /\ s.metrics.totalReceivedFrameSize \in Nat
           /\ s.currentFrame.dataReceived \in Nat
           /\ Counted(s) \in Nat
           /\ Accepted(s) \in Nat
<1>1. s.metrics \in MetricsType /\ s.call \in CallType
  BY DEF AssemblerType
<1>2. s.metrics.totalReceivedFrameSize \in Nat /\ s.metrics.totalPacketsAccepted \in Nat
  BY <1>1 DEF MetricsType
<1>3. s.currentFrame.dataReceived \in Nat
  <2>1. CASE InProgress(s)
    BY <2>1, InProgressType, BuilderFacts
  <2>2. CASE ~InProgress(s)
    BY <2>2 DEF InProgress, NoFrame
  <2> QED BY <2>1, <2>2
<1> QED BY <1>2, <1>3 DEF AssemblerType, Counted, Accepted

-----------------------------------------------------------------------------
\* Flush and MoveOn.

LEMMA MetricsOfFinished ==
    ASSUME NEW m \in MetricsType, NEW frame \in FrameBuilder
    PROVE  /\ WithFinishedFrame(m, frame) \in MetricsType
           /\ WithFinishedFrame(m, frame).totalPacketsAccepted = m.totalPacketsAccepted
           /\ WithFinishedFrame(m, frame).totalReceivedFrameSize
                  = m.totalReceivedFrameSize + frame.dataReceived
<1> DEFINE completed == IF IsComplete(frame) THEN m.completeFrameCount + 1
                                             ELSE m.completeFrameCount
<1>1. completed \in Nat
  BY DEF MetricsType
<1>2. WithFinishedFrame(m, frame) =
        [m EXCEPT !.finishedFrameCount     = m.finishedFrameCount + 1,
                  !.completeFrameCount     = completed,
                  !.totalExpectedFrameSize = m.totalExpectedFrameSize + frame.totalDataSize,
                  !.totalReceivedFrameSize = m.totalReceivedFrameSize + frame.dataReceived]
  BY Zenon DEF WithFinishedFrame
<1> HIDE DEF completed
<1>3. /\ m.finishedFrameCount + 1 \in Nat
      /\ m.totalExpectedFrameSize + frame.totalDataSize \in Nat
      /\ m.totalReceivedFrameSize + frame.dataReceived \in Nat
  <2>1. frame.totalDataSize \in Nat /\ frame.dataReceived \in Nat
    BY BuilderFacts
  <2>2. /\ m.finishedFrameCount \in Nat
        /\ m.totalExpectedFrameSize \in Nat
        /\ m.totalReceivedFrameSize \in Nat
    BY DEF MetricsType
  <2> QED BY <2>1, <2>2
<1>4. WithFinishedFrame(m, frame) \in MetricsType
  BY <1>1, <1>2, <1>3 DEF MetricsType
<1> QED BY <1>2, <1>4 DEF MetricsType

\* A frame flushed is the newest finished one; nothing is counted twice.
LEMMA FlushFacts ==
    ASSUME NEW s \in AssemblerType, InProgress(s)
    PROVE  LET t == Flush(s)
           IN  /\ t \in AssemblerType
               /\ ~InProgress(t)
               /\ t.finished = Append(s.finished, s.currentFrame)
               /\ t.lastFinishedFrameIndex = s.currentFrame.frameIndex
               /\ t.currentFrameIndex = s.currentFrameIndex
               /\ t.call = s.call
               /\ Counted(t) = Counted(s)
               /\ Accepted(t) = Accepted(s)
<1> DEFINE t == Flush(s)
<1>1. s.currentFrame \in FrameBuilder /\ s.metrics \in MetricsType
  BY InProgressType DEF AssemblerType
<1>2. t = [s EXCEPT !.currentFrame           = NoFrame,
                    !.metrics                = WithFinishedFrame(s.metrics, s.currentFrame),
                    !.lastFinishedFrameIndex = s.currentFrame.frameIndex,
                    !.finished               = Append(s.finished, s.currentFrame)]
  BY DEF Flush
<1>3. /\ t.currentFrame = NoFrame
      /\ t.metrics = WithFinishedFrame(s.metrics, s.currentFrame)
      /\ t.lastFinishedFrameIndex = s.currentFrame.frameIndex
      /\ t.finished = Append(s.finished, s.currentFrame)
      /\ t.currentFrameIndex = s.currentFrameIndex
      /\ t.call = s.call
  BY <1>2 DEF AssemblerType
<1>4. Append(s.finished, s.currentFrame) \in Seq(FrameBuilder)
  BY <1>1 DEF AssemblerType
<1>5. WithFinishedFrame(s.metrics, s.currentFrame) \in MetricsType
  BY <1>1, MetricsOfFinished
<1>6. t \in AssemblerType
  BY <1>1, <1>2, <1>4, <1>5, BuilderFacts DEF AssemblerType
<1>7. Accepted(t) = Accepted(s)
  BY <1>1, <1>3, MetricsOfFinished DEF Accepted
<1>8. Counted(t) = Counted(s)
  <2>1. NoFrame.dataReceived = 0
    BY DEF NoFrame
  <2> QED BY <1>1, <1>3, <2>1, MetricsOfFinished, StateFacts DEF Counted
<1>9. ~InProgress(t)
  BY <1>3 DEF InProgress
<1> HIDE DEF t
<1> QED BY <1>3, <1>6, <1>7, <1>8, <1>9 DEF t

LEMMA FlushSound ==
    ASSUME NEW s, SoundState(s)
    PROVE  SoundState(Flush(s)) /\ ~InProgress(Flush(s)) /\ Flush(s).call = s.call
           /\ Flush(s).currentFrameIndex = s.currentFrameIndex
<1> DEFINE t == Flush(s)
<1>1. CASE ~InProgress(s)
  BY <1>1 DEF Flush
<1>2. CASE InProgress(s)
  <2>1. s \in AssemblerType
    BY DEF SoundState
  <2>2. /\ t \in AssemblerType
        /\ ~InProgress(t)
        /\ t.finished = Append(s.finished, s.currentFrame)
        /\ t.lastFinishedFrameIndex = s.currentFrame.frameIndex
        /\ t.currentFrameIndex = s.currentFrameIndex
        /\ t.call = s.call
        /\ Counted(t) = Counted(s)
        /\ Accepted(t) = Accepted(s)
    BY <1>2, <2>1, FlushFacts
  <2> HIDE DEF t
  <2>3. /\ SoundFrame(s.currentFrame)
        /\ s.lastFinishedFrameIndex < s.currentFrame.frameIndex
        /\ s.currentFrame.frameIndex =< s.currentFrameIndex
    BY <1>2 DEF SoundState, InProgressSound
  <2>4. /\ \A k \in DOMAIN s.finished : /\ SoundFrame(s.finished[k])
                                        /\ s.finished[k].frameIndex =< s.lastFinishedFrameIndex
        /\ \A j, k \in DOMAIN s.finished :
               j < k => s.finished[j].frameIndex < s.finished[k].frameIndex
    BY DEF SoundState, FinishedSound
  <2>5. /\ s.finished \in Seq(FrameBuilder)
        /\ s.currentFrame \in FrameBuilder
        /\ s.currentFrame.frameIndex \in Nat
        /\ s.lastFinishedFrameIndex \in Int
        /\ \A k \in DOMAIN s.finished : s.finished[k].frameIndex \in Nat
    BY <1>2, <2>1, InProgressType, BuilderFacts, StateFacts
  <2>6. /\ DOMAIN t.finished = 1 .. Len(s.finished) + 1
        /\ DOMAIN s.finished = 1 .. Len(s.finished)
        /\ Len(s.finished) \in Nat
        /\ \A k \in DOMAIN s.finished : t.finished[k] = s.finished[k]
        /\ t.finished[Len(s.finished) + 1] = s.currentFrame
    BY <2>2, <2>5
  <2>7. ASSUME NEW k \in DOMAIN t.finished
        PROVE  /\ SoundFrame(t.finished[k])
               /\ t.finished[k].frameIndex =< t.lastFinishedFrameIndex
    <3>1. CASE k \in DOMAIN s.finished
      BY <2>2, <2>3, <2>4, <2>5, <2>6, <3>1
    <3>2. CASE k = Len(s.finished) + 1
      BY <2>2, <2>3, <2>5, <2>6, <3>2
    <3> QED BY <2>6, <3>1, <3>2
  <2>8. ASSUME NEW j \in DOMAIN t.finished, NEW k \in DOMAIN t.finished, j < k
        PROVE  t.finished[j].frameIndex < t.finished[k].frameIndex
    <3>1. j \in DOMAIN s.finished
      BY <2>6, <2>8
    <3>2. CASE k \in DOMAIN s.finished
      BY <2>4, <2>6, <2>8, <3>1, <3>2
    <3>3. CASE k = Len(s.finished) + 1
      <4>1. s.finished[j].frameIndex =< s.lastFinishedFrameIndex
        BY <2>4, <3>1
      <4>2. s.finished[j].frameIndex \in Nat
        BY <2>5, <3>1
      <4>3. s.finished[j].frameIndex < s.currentFrame.frameIndex
        BY <4>1, <4>2, <2>3, <2>5
      <4> QED BY <2>6, <3>1, <3>3, <4>3
    <3> QED BY <2>6, <3>2, <3>3
  <2>9. SoundState(t)
    BY <2>2, <2>3, <2>7, <2>8 DEF SoundState, FinishedSound, InProgressSound
  <2> QED BY <2>2, <2>9 DEF t
<1> QED BY <1>1, <1>2

\* The state in which ReceivePart comes to the frame: nothing is in progress if
\* the sender moved on.
LEMMA MovedSound ==
    ASSUME NEW s, SoundState(s), NEW p \in Packets
    PROVE  LET t == Moved(s, p)
           IN  /\ SoundState(t)
               /\ FrameIndex(p) =< t.currentFrameIndex
               /\ t.call.acceptedPacket = s.call.acceptedPacket
               /\ t.call.active = s.call.active
               /\ FrameIndex(p) > s.currentFrameIndex =>
                      /\ ~IsFinished(t, p)
                      /\ ~InProgress(t)
                      /\ t.currentFrameIndex = FrameIndex(p)
                      /\ t.finished = Flush(s).finished
                      /\ Counted(t) = Counted(Flush(s))
                      /\ Accepted(t) = Accepted(Flush(s))
<1>1. CASE ~(FrameIndex(p) > s.currentFrameIndex)
  <2>1. FrameIndex(p) \in Nat /\ s.currentFrameIndex \in Int
    BY PacketFacts, StateFacts DEF SoundState
  <2> QED BY <1>1, <2>1 DEF Moved
<1>2. CASE FrameIndex(p) > s.currentFrameIndex
  <2> DEFINE r == Flush(s)
             gap == FrameIndex(p) - s.currentFrameIndex - 1
             t == [r EXCEPT !.currentFrameIndex      = FrameIndex(p),
                            !.expectedDataOffset     = 0,
                            !.call.skippedFrameCount = gap]
  <2>1. /\ SoundState(r)
        /\ ~InProgress(r)
        /\ r.call = s.call
        /\ r.currentFrameIndex = s.currentFrameIndex
    BY FlushSound
  <2>2. /\ FrameIndex(p) \in Nat
        /\ s.currentFrameIndex \in Int
        /\ gap \in Nat
    BY <1>2, PacketFacts, StateFacts DEF SoundState
  <2>3. Moved(s, p) = t
    BY <1>2 DEF Moved, MoveOn
  <2>4. r \in AssemblerType
    BY <2>1 DEF SoundState
  <2> HIDE DEF r, gap
  <2>5. r.call \in CallType
    BY <2>4 DEF AssemblerType
  <2>6. /\ t.currentFrameIndex = FrameIndex(p)
        /\ t.expectedDataOffset = 0
        /\ t.call = [r.call EXCEPT !.skippedFrameCount = gap]
        /\ t.lastFinishedFrameIndex = r.lastFinishedFrameIndex
        /\ t.currentFrame = r.currentFrame
        /\ t.finished = r.finished
        /\ t.metrics = r.metrics
    BY <2>4 DEF AssemblerType
  <2>7. /\ t.call \in CallType
        /\ t.call.acceptedPacket = r.call.acceptedPacket
        /\ t.call.active = r.call.active
    BY <2>2, <2>5, <2>6 DEF CallType
  <2>8. t \in AssemblerType
    BY <2>2, <2>4, <2>6, <2>7 DEF AssemblerType
  <2> HIDE DEF t
  <2>9. ~InProgress(t)
    BY <2>1, <2>6 DEF InProgress
  <2>10. FinishedSound(t) /\ InProgressSound(t)
    BY <2>1, <2>6, <2>9 DEF SoundState, FinishedSound, InProgressSound
  <2>11. /\ Counted(t) = Counted(r)
         /\ Accepted(t) = Accepted(r)
         /\ Counted(t) =< Accepted(t)
    BY <2>1, <2>6, <2>7 DEF SoundState, Counted, Accepted
  <2>12. t.lastFinishedFrameIndex =< t.currentFrameIndex /\ ~IsFinished(t, p)
    <3>1. r.lastFinishedFrameIndex \in Int /\ r.lastFinishedFrameIndex =< s.currentFrameIndex
      BY <2>1, <2>4, StateFacts DEF SoundState
    <3> QED BY <1>2, <2>2, <2>6, <3>1 DEF IsFinished
  <2>13. SoundState(t)
    BY <2>8, <2>10, <2>11, <2>12 DEF SoundState
  <2>14. FrameIndex(p) =< t.currentFrameIndex
    BY <2>2, <2>6
  <2> QED BY <2>1, <2>3, <2>6, <2>7, <2>9, <2>11, <2>12, <2>13, <2>14 DEF r
<1> QED BY <1>1, <1>2

-----------------------------------------------------------------------------
\* Taking a part.

\* What taking a part changes: the frame in progress and the count of accepted
\* parts, by one.
Took(s, t) ==
    /\ t \in AssemblerType
    /\ InProgress(t)
    /\ t.currentFrameIndex = s.currentFrameIndex
    /\ t.lastFinishedFrameIndex = s.lastFinishedFrameIndex
    /\ t.finished = s.finished
    /\ t.call.acceptedPacket
    /\ t.call.active = s.call.active
    /\ ~s.call.acceptedPacket => Accepted(t) = Accepted(s) + 1

LEMMA AcceptedCall ==
    ASSUME NEW call \in CallType
    PROVE  /\ [call EXCEPT !.acceptedPacket = TRUE] \in CallType
           /\ [call EXCEPT !.acceptedPacket = TRUE].acceptedPacket
           /\ [call EXCEPT !.acceptedPacket = TRUE].active = call.active
<1>1. [call EXCEPT !.acceptedPacket = TRUE] \in CallType
  BY DEF CallType
<1>2. [call EXCEPT !.acceptedPacket = TRUE].acceptedPacket
  BY Zenon DEF CallType
<1>3. [call EXCEPT !.acceptedPacket = TRUE].active = call.active
  BY DEF CallType
<1> QED BY <1>1, <1>2, <1>3

LEMMA StartFacts ==
    ASSUME NEW s \in AssemblerType, NEW p \in Packets, ~InProgress(s)
    PROVE  LET t == StartFrame(s, p)
           IN  /\ Took(s, t)
               /\ t.currentFrame.fragments = <<p>>
               /\ t.currentFrame.frameIndex = FrameIndex(p)
               /\ t.currentFrame.totalDataSize = TotalDataSize(p)
               /\ t.currentFrame.dataReceived = 1
               /\ t.expectedDataOffset = 1
               /\ Counted(t) = Counted(s) + 1
<1> DEFINE begun == [frameIndex |-> FrameIndex(p), totalDataSize |-> TotalDataSize(p),
                     fragments |-> <<p>>, dataReceived |-> 1]
           t == [s EXCEPT !.currentFrame        = begun,
                          !.expectedDataOffset  = 1,
                          !.call.acceptedPacket = TRUE]
<1>1. t = StartFrame(s, p)
  BY DEF StartFrame
<1>2. /\ begun \in FrameBuilder
      /\ begun.fragments = <<p>>
      /\ begun.frameIndex = FrameIndex(p)
      /\ begun.totalDataSize = TotalDataSize(p)
      /\ begun.dataReceived = 1
  BY PacketFacts DEF FrameBuilder
<1> HIDE DEF begun
<1>3. /\ t.currentFrame = begun
      /\ t.expectedDataOffset = 1
      /\ t.call = [s.call EXCEPT !.acceptedPacket = TRUE]
      /\ t.currentFrameIndex = s.currentFrameIndex
      /\ t.lastFinishedFrameIndex = s.lastFinishedFrameIndex
      /\ t.finished = s.finished
      /\ t.metrics = s.metrics
  BY DEF AssemblerType
<1>4. s.call \in CallType
  BY DEF AssemblerType
<1>5. t.call \in CallType /\ t.call.acceptedPacket /\ t.call.active = s.call.active
  BY <1>3, <1>4, AcceptedCall
<1>6. t \in AssemblerType
  BY <1>2, <1>3, <1>5 DEF AssemblerType
<1> HIDE DEF t
<1>7. InProgress(t)
  BY <1>2, <1>3, BuilderFacts DEF InProgress
<1>8. /\ s.metrics.totalPacketsAccepted \in Nat
      /\ s.metrics.totalReceivedFrameSize \in Nat
  BY DEF AssemblerType, MetricsType
<1>9. ~s.call.acceptedPacket => Accepted(t) = Accepted(s) + 1
  BY <1>3, <1>5, <1>8 DEF Accepted
<1>10. Counted(t) = Counted(s) + 1
  <2>1. s.currentFrame.dataReceived = 0
    BY DEF InProgress, NoFrame
  <2> QED BY <1>2, <1>3, <1>8, <2>1 DEF Counted
<1> QED BY <1>1, <1>2, <1>3, <1>5, <1>6, <1>7, <1>9, <1>10 DEF Took

LEMMA AppendFacts ==
    ASSUME NEW s \in AssemblerType, NEW p \in Packets, InProgress(s)
    PROVE  LET t == AppendPart(s, p)
           IN  /\ Took(s, t)
               /\ t.currentFrame.fragments = Append(s.currentFrame.fragments, p)
               /\ t.currentFrame.frameIndex = s.currentFrame.frameIndex
               /\ t.currentFrame.totalDataSize = s.currentFrame.totalDataSize
               /\ t.currentFrame.dataReceived - s.currentFrame.dataReceived
                      = (IF p.dataOffset = s.currentFrame.totalDataSize THEN 0 ELSE 1)
               /\ t.expectedDataOffset = s.expectedDataOffset + 1
               /\ Counted(t) - Counted(s)
                      = (IF p.dataOffset = s.currentFrame.totalDataSize THEN 0 ELSE 1)
<1> DEFINE frame == s.currentFrame
           copied == IF p.dataOffset = frame.totalDataSize THEN 0 ELSE 1
           longer == [frame EXCEPT !.fragments = Append(frame.fragments, p),
                                   !.dataReceived = frame.dataReceived + copied]
           t == AppendPart(s, p)
<1>1. frame \in FrameBuilder
  BY InProgressType
<1>2. /\ frame.frameIndex \in Nat
      /\ frame.totalDataSize \in Nat \ {0}
      /\ frame.dataReceived \in Nat
      /\ frame.fragments \in Seq(Packets)
  BY <1>1, BuilderFacts
<1>3. copied \in {0, 1}
  OBVIOUS
<1>4. /\ t.currentFrame.fragments = Append(frame.fragments, p)
      /\ t.currentFrame.dataReceived = frame.dataReceived + copied
      /\ t.currentFrame.frameIndex = frame.frameIndex
      /\ t.currentFrame.totalDataSize = frame.totalDataSize
      /\ t.currentFrame \in FrameBuilder
  <2>1. t.currentFrame = longer
    <3> DEFINE received == IF p.dataOffset = frame.totalDataSize THEN frame.dataReceived
                                                               ELSE frame.dataReceived + 1
    <3>1. received = frame.dataReceived + copied
      BY <1>2
    <3>2. t.currentFrame = [[frame EXCEPT !.fragments = Append(frame.fragments, p)]
                               EXCEPT !.dataReceived = received]
      BY Zenon DEF AppendPart, AssemblerType
    <3> HIDE DEF t, frame, copied, received
    <3> QED BY <1>1, <3>1, <3>2 DEF FrameBuilder
  <2> HIDE DEF t, frame, copied
  <2>2. /\ longer.fragments = Append(frame.fragments, p)
        /\ longer.dataReceived = frame.dataReceived + copied
        /\ longer.frameIndex = frame.frameIndex
        /\ longer.totalDataSize = frame.totalDataSize
    BY <1>1 DEF FrameBuilder
  <2>3. Append(frame.fragments, p) \in Seq(Packets) \ {<<>>}
    BY <1>2
  <2>4. frame.dataReceived + copied \in Nat
    BY <1>2, <1>3
  <2>5. longer \in FrameBuilder
    BY <1>1, <2>3, <2>4 DEF FrameBuilder
  <2> QED BY <2>1, <2>2, <2>5
<1>5. /\ t.expectedDataOffset = s.expectedDataOffset + 1
      /\ t.call = [s.call EXCEPT !.acceptedPacket = TRUE]
      /\ t.currentFrameIndex = s.currentFrameIndex
      /\ t.lastFinishedFrameIndex = s.lastFinishedFrameIndex
      /\ t.finished = s.finished
      /\ t.metrics = s.metrics
      /\ DOMAIN t = DOMAIN s
  BY DEF AppendPart, AssemblerType
<1>6. s.call \in CallType
  BY DEF AssemblerType
<1>7. t.call \in CallType /\ t.call.acceptedPacket /\ t.call.active = s.call.active
  BY <1>5, <1>6, AcceptedCall
<1>8. t \in AssemblerType
  <2>1. s.expectedDataOffset + 1 \in Nat
    BY DEF AssemblerType
  <2>2. t = [s EXCEPT !.currentFrame = t.currentFrame,
                      !.expectedDataOffset = t.expectedDataOffset, !.call = t.call]
    BY DEF AppendPart, AssemblerType
  <2> HIDE DEF t
  <2> QED BY <1>4, <1>5, <1>7, <2>1, <2>2 DEF AssemblerType
<1> HIDE DEF t
<1>9. InProgress(t)
  BY <1>4, BuilderFacts DEF InProgress
<1>10. /\ s.metrics.totalPacketsAccepted \in Nat
       /\ s.metrics.totalReceivedFrameSize \in Nat
  BY DEF AssemblerType, MetricsType
<1>11. ~s.call.acceptedPacket => Accepted(t) = Accepted(s) + 1
  BY <1>5, <1>7, <1>10 DEF Accepted
<1>12. t.currentFrame.dataReceived - frame.dataReceived = copied
  BY <1>2, <1>3, <1>4
<1>13. Counted(t) - Counted(s) = copied
  BY <1>2, <1>3, <1>4, <1>5, <1>10 DEF Counted
<1> QED BY <1>4, <1>5, <1>7, <1>8, <1>9, <1>11, <1>12, <1>13 DEF Took, t

LEMMA StartSound ==
    ASSUME NEW s, SoundState(s), ~s.call.acceptedPacket, ~InProgress(s),
           NEW p \in Packets, p.dataOffset = 0,
           FrameIndex(p) =< s.currentFrameIndex, ~IsFinished(s, p)
    PROVE  SoundState(StartFrame(s, p))
<1> DEFINE t == StartFrame(s, p)
<1>1. s \in AssemblerType
  BY DEF SoundState
<1>2. /\ Took(s, t)
      /\ t.currentFrame.fragments = <<p>>
      /\ t.currentFrame.frameIndex = FrameIndex(p)
      /\ t.currentFrame.totalDataSize = TotalDataSize(p)
      /\ t.currentFrame.dataReceived = 1
      /\ t.expectedDataOffset = 1
      /\ Counted(t) = Counted(s) + 1
  BY <1>1, StartFacts
<1> HIDE DEF t
<1>3. SoundFrame(t.currentFrame)
  BY <1>2 DEF SoundFrame, HasNoHole
<1>4. s.lastFinishedFrameIndex < FrameIndex(p)
  BY <1>1, PacketFacts, StateFacts DEF IsFinished
<1>5. InProgressSound(t)
  BY <1>2, <1>3, <1>4 DEF InProgressSound, Took
<1>6. FinishedSound(t)
  BY <1>2 DEF SoundState, FinishedSound, Took
<1>7. Counted(t) =< Accepted(t)
  BY <1>1, <1>2, StateFacts DEF SoundState, Took
<1> QED BY <1>2, <1>5, <1>6, <1>7 DEF SoundState, Took, t

LEMMA AppendSound ==
    ASSUME NEW s, SoundState(s), ~s.call.acceptedPacket, InProgress(s),
           NEW p \in Packets, p.dataOffset = s.expectedDataOffset
    PROVE  SoundState(AppendPart(s, p))
<1> DEFINE t == AppendPart(s, p)
           frame == s.currentFrame
<1>1. s \in AssemblerType
  BY DEF SoundState
<1>2. /\ Took(s, t)
      /\ t.currentFrame.fragments = Append(frame.fragments, p)
      /\ t.currentFrame.frameIndex = frame.frameIndex
      /\ t.currentFrame.totalDataSize = frame.totalDataSize
      /\ t.currentFrame.dataReceived - frame.dataReceived \in {0, 1}
      /\ t.expectedDataOffset = s.expectedDataOffset + 1
      /\ Counted(t) - Counted(s) \in {0, 1}
  BY <1>1, AppendFacts
<1>3. t \in AssemblerType
  BY <1>2 DEF Took
<1>4. /\ SoundFrame(frame)
      /\ s.lastFinishedFrameIndex < frame.frameIndex
      /\ frame.frameIndex =< s.currentFrameIndex
      /\ s.expectedDataOffset = Len(frame.fragments)
  BY DEF SoundState, InProgressSound
<1> HIDE DEF t
<1>5. /\ frame.fragments \in Seq(Packets)
      /\ Len(frame.fragments) \in Nat \ {0}
      /\ frame.dataReceived \in Nat
      /\ t.currentFrame.dataReceived \in Nat
  BY <1>1, <1>2, <1>3, InProgressType, BuilderFacts DEF Took
<1>6. /\ DOMAIN t.currentFrame.fragments = 1 .. Len(frame.fragments) + 1
      /\ Len(t.currentFrame.fragments) = Len(frame.fragments) + 1
      /\ \A k \in 1 .. Len(frame.fragments) : t.currentFrame.fragments[k] = frame.fragments[k]
      /\ t.currentFrame.fragments[Len(frame.fragments) + 1] = p
  BY <1>2, <1>5
<1>7. HasNoHole(t.currentFrame)
  <2> SUFFICES ASSUME NEW k \in DOMAIN t.currentFrame.fragments
               PROVE  t.currentFrame.fragments[k].dataOffset = k - 1
    BY DEF HasNoHole
  <2>1. CASE k \in 1 .. Len(frame.fragments)
    BY <1>4, <1>5, <1>6, <2>1 DEF SoundFrame, HasNoHole
  <2>2. CASE k = Len(frame.fragments) + 1
    BY <1>4, <1>5, <1>6, <2>2
  <2>3. Len(frame.fragments) \in Nat /\ k \in 1 .. Len(frame.fragments) + 1
    BY <1>5, <1>6
  <2>4. k \in 1 .. Len(frame.fragments) \/ k = Len(frame.fragments) + 1
    BY <2>3
  <2> QED BY <2>1, <2>2, <2>4
<1>8. SoundFrame(t.currentFrame)
  <2>1. frame.dataReceived =< Len(frame.fragments)
    BY <1>4 DEF SoundFrame
  <2>2. t.currentFrame.dataReceived =< Len(frame.fragments) + 1
    <3>1. /\ frame.dataReceived \in Nat
          /\ t.currentFrame.dataReceived \in Nat
          /\ Len(frame.fragments) \in Nat
      BY <1>5
    <3>2. t.currentFrame.dataReceived - frame.dataReceived \in {0, 1}
      BY <1>2
    <3> QED BY <2>1, <3>1, <3>2
  <2>3. 1 \in 1 .. Len(frame.fragments)
    BY <1>5
  <2>4. t.currentFrame.fragments[1] = frame.fragments[1]
    BY <1>6, <2>3
  <2>5. /\ frame.totalDataSize = TotalDataSize(frame.fragments[1])
        /\ frame.frameIndex = FrameIndex(frame.fragments[1])
    BY <1>4 DEF SoundFrame
  <2> QED BY <1>2, <1>6, <1>7, <2>2, <2>4, <2>5 DEF SoundFrame
<1>9. InProgressSound(t)
  BY <1>2, <1>4, <1>6, <1>8 DEF InProgressSound, Took
<1>10. FinishedSound(t)
  BY <1>2 DEF SoundState, FinishedSound, Took
<1>11. Counted(t) =< Accepted(t)
  BY <1>1, <1>2, <1>3, StateFacts DEF SoundState, Took
<1> QED BY <1>2, <1>9, <1>10, <1>11 DEF SoundState, Took, t

\* What AcceptPart does: nothing, or it takes the part, and finishes the frame
\* when the part's frame has that many.
Taken(s, p) == IF InProgress(s) THEN AppendPart(s, p) ELSE StartFrame(s, p)

LEMMA AcceptPartCases ==
    ASSUME NEW s, NEW p
    PROVE  LET expected == IF InProgress(s) THEN s.expectedDataOffset ELSE 0
           IN  \/ AcceptPart(s, p) = s
               \/ AcceptPart(s, p) = Flush(s)
               \/ /\ p.dataOffset = expected
                  /\ AcceptPart(s, p) = (IF Taken(s, p).expectedDataOffset = TotalDataSize(p)
                                         THEN Flush(Taken(s, p)) ELSE Taken(s, p))
BY Zenon DEF AcceptPart, TakePart, Taken

LEMMA AcceptSound ==
    ASSUME NEW s, SoundState(s), ~s.call.acceptedPacket, NEW p \in Packets,
           FrameIndex(p) =< s.currentFrameIndex, ~IsFinished(s, p)
    PROVE  SoundState(AcceptPart(s, p))
<1> DEFINE expected == IF InProgress(s) THEN s.expectedDataOffset ELSE 0
<1>1. CASE AcceptPart(s, p) = s \/ AcceptPart(s, p) = Flush(s)
  BY <1>1, FlushSound
<1>2. CASE p.dataOffset = expected
  <2>1. SoundState(Taken(s, p))
    BY <1>2, StartSound, AppendSound DEF Taken
  <2>2. SoundState(Flush(Taken(s, p)))
    BY <2>1, FlushSound
  <2> QED BY <1>1, <2>1, <2>2, AcceptPartCases
<1> QED BY <1>1, <1>2, AcceptPartCases

LEMMA ReceivePartCases ==
    ASSUME NEW s, SoundState(s), NEW p \in Packets
    PROVE  \/ ReceivePart(s, p) = s /\ Moved(s, p) = s
           \/ /\ ReceivePart(s, p) = AcceptPart(Moved(s, p), p)
              /\ ~IsFinished(Moved(s, p), p)
<1>1. CASE FrameIndex(p) > s.currentFrameIndex
  <2>1. ~IsFinished(Moved(s, p), p)
    BY <1>1, MovedSound
  <2> QED BY <1>1, <2>1 DEF ReceivePart, Moved
<1>2. CASE ~(FrameIndex(p) > s.currentFrameIndex)
  BY <1>2, Zenon DEF ReceivePart, Moved
<1> QED BY <1>1, <1>2

LEMMA ReceiveSound ==
    ASSUME NEW s, SoundState(s), ~s.call.acceptedPacket, NEW p \in Packets
    PROVE  SoundState(ReceivePart(s, p))
<1> DEFINE t == Moved(s, p)
<1>1. /\ SoundState(t)
      /\ FrameIndex(p) =< t.currentFrameIndex
      /\ ~t.call.acceptedPacket
  BY MovedSound
<1> HIDE DEF t
<1>2. ~IsFinished(t, p) => SoundState(AcceptPart(t, p))
  BY <1>1, AcceptSound
<1> QED BY <1>2, ReceivePartCases DEF t

\* The call goes on.
LEMMA ReceiveActive ==
    ASSUME NEW s, SoundState(s), s.call.active, NEW p \in Packets
    PROVE  ReceivePart(s, p).call.active
<1> DEFINE t == Moved(s, p)
           u == Taken(t, p)
<1>1. SoundState(t) /\ t \in AssemblerType /\ t.call.active
  BY MovedSound DEF SoundState
<1> HIDE DEF t
<1>2. u \in AssemblerType /\ InProgress(u) /\ u.call.active
  BY <1>1, StartFacts, AppendFacts DEF Taken, Took
<1> HIDE DEF u
<1>3. Flush(t).call = t.call /\ Flush(u).call = u.call
  BY <1>1, <1>2, FlushSound, FlushFacts
<1>4. AcceptPart(t, p) \in {t, Flush(t), u, Flush(u)}
  BY AcceptPartCases DEF u
<1> QED BY <1>1, <1>2, <1>3, <1>4, ReceivePartCases DEF t

-----------------------------------------------------------------------------
\* The same functions on a steady link.

LEMMA FlushSteady ==
    ASSUME NEW s, SoundState(s), NEW received, SteadyState(s, received)
    PROVE  SteadyState(Flush(s), received)
<1> DEFINE t == Flush(s)
<1>1. CASE ~InProgress(s)
  BY <1>1 DEF Flush
<1>2. CASE InProgress(s)
  <2>1. s \in AssemblerType
    BY DEF SoundState
  <2>2. /\ ~InProgress(t)
        /\ t.finished = Append(s.finished, s.currentFrame)
        /\ t.currentFrameIndex = s.currentFrameIndex
        /\ Counted(t) = Counted(s)
        /\ Accepted(t) = Accepted(s)
    BY <1>2, <2>1, FlushFacts
  <2> HIDE DEF t
  <2>3. s.finished \in Seq(FrameBuilder) /\ s.currentFrame \in FrameBuilder
    BY <1>2, <2>1, InProgressType, StateFacts
  <2>4. Pure(s.currentFrame) /\ \A k \in DOMAIN s.finished : Pure(s.finished[k])
    BY <1>2 DEF SteadyState, SteadyProgress
  <2>5. \A k \in DOMAIN t.finished :
            \/ k \in DOMAIN s.finished /\ t.finished[k] = s.finished[k]
            \/ t.finished[k] = s.currentFrame
    BY <2>2, <2>3
  <2>6. \A k \in DOMAIN t.finished : Pure(t.finished[k])
    BY <2>4, <2>5
  <2>7. HighestIndex(t, received)
    BY <2>2 DEF SteadyState, HighestIndex
  <2>8. SteadyProgress(t, received)
    BY <2>2 DEF SteadyProgress
  <2>9. (\A q \in received : ~IsRetrograde(q.frame)) => Counted(t) = Accepted(t)
    BY <2>2 DEF SteadyState
  <2> QED BY <2>6, <2>7, <2>8, <2>9 DEF SteadyState, t
<1> QED BY <1>1, <1>2

\* A part of a frame sent before the restart does not lag behind the frames
\* delivered.
LEMMA FrameOfHighestIndex ==
    ASSUME NEW s \in AssemblerType, NEW received \in SUBSET Packets, HighestIndex(s, received),
           NEW p \in Packets, \A q \in received : SentBefore(q, p),
           ~IsRetrograde(p.frame)
    PROVE  /\ s.currentFrameIndex =< FrameIndex(p)
           /\ FrameIndex(p) =< s.currentFrameIndex => \E q \in received : q.frame = p.frame
<1>1. FrameIndex(p) \in Nat /\ p.frame \in Nat /\ s.currentFrameIndex \in Int
  BY PacketFacts, StateFacts
<1>2. CASE s.currentFrameIndex = -1
  BY <1>1, <1>2
<1>3. ASSUME NEW q \in received, FrameIndex(q) = s.currentFrameIndex
      PROVE  /\ s.currentFrameIndex =< FrameIndex(p)
             /\ FrameIndex(p) =< s.currentFrameIndex => q.frame = p.frame
  <2>1. q.frame \in DOMAIN Stream /\ q.frame \in Nat /\ FrameIndex(q) \in Nat
    BY PacketFacts
  <2>2. DOMAIN Stream = 1 .. Len(Stream)
    BY StreamAssumption
  <2>3. q.frame < p.frame \/ q.frame = p.frame
    BY DEF SentBefore
  <2>4. CASE q.frame < p.frame
    <3>1. q.frame \in 1 .. p.frame - 1
      BY <1>1, <2>1, <2>2, <2>4
    <3>2. ~(FrameIndex(q) >= FrameIndex(p))
      BY <3>1 DEF IsRetrograde, FrameIndex
    <3> QED BY <1>1, <1>3, <2>1, <3>2
  <2>5. CASE q.frame = p.frame
    BY <1>1, <1>3, <2>1, <2>5 DEF FrameIndex
  <2> QED BY <2>3, <2>4, <2>5
<1> QED BY <1>2, <1>3 DEF HighestIndex

LEMMA MovedSteady ==
    ASSUME NEW s, SoundState(s), NEW received \in SUBSET Packets, SteadyState(s, received),
           NEW p \in Packets, \A q \in received : SentBefore(q, p)
    PROVE  SteadyState(Moved(s, p), received \cup {p})
<1> DEFINE t == Moved(s, p)
           all == received \cup {p}
<1>1. s \in AssemblerType /\ FrameIndex(p) \in Nat /\ s.currentFrameIndex \in Int
  BY PacketFacts, StateFacts DEF SoundState
<1>2. HighestIndex(s, received)
  BY DEF SteadyState
<1>3. CASE ~(FrameIndex(p) > s.currentFrameIndex)
  <2>1. t = s
    BY <1>3 DEF Moved
  <2>2. HighestIndex(s, all)
    BY <1>1, <1>2, <1>3 DEF HighestIndex
  <2>3. SteadyProgress(s, all)
    <3> SUFFICES ASSUME InProgress(s)
                 PROVE  ~IsRetrograde(p.frame) => p.frame =< s.currentFrame.fragments[1].frame
      BY DEF SteadyState, SteadyProgress
    <3> SUFFICES ASSUME ~IsRetrograde(p.frame)
                 PROVE  p.frame =< s.currentFrame.fragments[1].frame
      OBVIOUS
    <3>1. PICK q \in received : q.frame = p.frame
      BY <1>1, <1>2, <1>3, FrameOfHighestIndex
    <3> QED BY <3>1 DEF SteadyState, SteadyProgress
  <2>4. (\A q \in all : ~IsRetrograde(q.frame)) => Counted(s) = Accepted(s)
    BY DEF SteadyState
  <2> QED BY <2>1, <2>2, <2>3, <2>4 DEF SteadyState
<1>4. CASE FrameIndex(p) > s.currentFrameIndex
  <2>1. /\ ~InProgress(t)
        /\ t.currentFrameIndex = FrameIndex(p)
        /\ t.finished = Flush(s).finished
        /\ Counted(t) = Counted(Flush(s))
        /\ Accepted(t) = Accepted(Flush(s))
    BY <1>4, MovedSound
  <2>2. SteadyState(Flush(s), received)
    BY FlushSteady
  <2> HIDE DEF t
  <2>3. \A q \in received : FrameIndex(q) \in Nat /\ FrameIndex(q) =< s.currentFrameIndex
    BY <1>2, PacketFacts DEF HighestIndex
  <2>4. HighestIndex(t, all)
    BY <1>1, <1>4, <2>1, <2>3 DEF HighestIndex
  <2>5. SteadyProgress(t, all)
    BY <2>1 DEF SteadyProgress
  <2>6. /\ \A k \in DOMAIN t.finished : Pure(t.finished[k])
        /\ (\A q \in all : ~IsRetrograde(q.frame)) => Counted(t) = Accepted(t)
    BY <2>1, <2>2 DEF SteadyState
  <2> QED BY <2>4, <2>5, <2>6 DEF SteadyState, t
<1> QED BY <1>3, <1>4

LEMMA StartSteady ==
    ASSUME NEW s, SoundState(s), ~s.call.acceptedPacket, ~InProgress(s),
           NEW received \in SUBSET Packets, SteadyState(s, received),
           NEW p \in received, \A q \in received : q.frame =< p.frame
    PROVE  SteadyState(StartFrame(s, p), received)
<1> DEFINE t == StartFrame(s, p)
<1>1. /\ Took(s, t)
      /\ t.currentFrame.fragments = <<p>>
      /\ Counted(t) = Counted(s) + 1
  BY StartFacts DEF SoundState
<1> HIDE DEF t
<1>2. SteadyProgress(t, received)
  BY <1>1 DEF SteadyProgress, Pure
<1>3. HighestIndex(t, received) /\ \A k \in DOMAIN t.finished : Pure(t.finished[k])
  BY <1>1 DEF SteadyState, HighestIndex, Took
<1>4. (\A q \in received : ~IsRetrograde(q.frame)) => Counted(t) = Accepted(t)
  BY <1>1 DEF SteadyState, Took
<1> QED BY <1>2, <1>3, <1>4 DEF SteadyState, t

LEMMA AppendSteady ==
    ASSUME NEW s, SoundState(s), ~s.call.acceptedPacket, InProgress(s),
           NEW received \in SUBSET Packets, SteadyState(s, received),
           NEW p \in received, \A q \in received : q.frame =< p.frame
    PROVE  SteadyState(AppendPart(s, p), received)
<1> DEFINE t == AppendPart(s, p)
           frame == s.currentFrame
           first == frame.fragments[1]
<1>1. s \in AssemblerType
  BY DEF SoundState
<1>2. /\ Took(s, t)
      /\ t.currentFrame.fragments = Append(frame.fragments, p)
      /\ Counted(t) - Counted(s) = (IF p.dataOffset = frame.totalDataSize THEN 0 ELSE 1)
  BY <1>1, AppendFacts
<1>3. t \in AssemblerType
  BY <1>2 DEF Took
<1> HIDE DEF t
<1>4. /\ frame.fragments \in Seq(Packets)
      /\ Len(frame.fragments) \in Nat \ {0}
      /\ frame.totalDataSize = TotalDataSize(first)
  BY <1>1, InProgressType, BuilderFacts DEF SoundState, InProgressSound, SoundFrame
<1>5. /\ Pure(frame)
      /\ \A j \in DOMAIN frame.fragments : frame.fragments[j] \in received
      /\ \A q \in received : ~IsRetrograde(q.frame) => q.frame =< first.frame
  BY DEF SteadyState, SteadyProgress
<1>6. /\ t.currentFrame.fragments[1] = first
      /\ \A j \in DOMAIN t.currentFrame.fragments :
             \/ j \in DOMAIN frame.fragments /\ t.currentFrame.fragments[j] = frame.fragments[j]
             \/ t.currentFrame.fragments[j] = p
  BY <1>2, <1>4
<1>7. ~IsRetrograde(p.frame) => p.frame = first.frame
  <2>1. first \in received
    BY <1>4, <1>5
  <2>2. first.frame \in Nat /\ p.frame \in Nat /\ first.frame =< p.frame
    BY <2>1, PacketFacts
  <2> QED BY <1>5, <2>2
<1>8. SteadyProgress(t, received)
  <2>1. Pure(t.currentFrame)
    BY <1>5, <1>6, <1>7 DEF Pure
  <2>2. \A j \in DOMAIN t.currentFrame.fragments : t.currentFrame.fragments[j] \in received
    BY <1>5, <1>6
  <2> QED BY <1>5, <1>6, <2>1, <2>2 DEF SteadyProgress
<1>9. HighestIndex(t, received) /\ \A k \in DOMAIN t.finished : Pure(t.finished[k])
  BY <1>2 DEF SteadyState, HighestIndex, Took
<1>10. (\A q \in received : ~IsRetrograde(q.frame)) => Counted(t) = Accepted(t)
  <2> SUFFICES ASSUME \A q \in received : ~IsRetrograde(q.frame)
               PROVE  Counted(t) = Accepted(t)
    OBVIOUS
  <2>1. TotalDataSize(p) = frame.totalDataSize
    BY <1>4, <1>7 DEF TotalDataSize
  <2>2. p.dataOffset < TotalDataSize(p) /\ p.dataOffset \in Nat /\ TotalDataSize(p) \in Nat
    BY PacketFacts
  <2>3. Counted(t) - Counted(s) = 1
    BY <1>2, <2>1, <2>2
  <2>4. Counted(t) \in Nat /\ Counted(s) \in Nat /\ Accepted(s) \in Nat
    BY <1>1, <1>3, StateFacts
  <2>5. Counted(s) = Accepted(s) /\ Accepted(t) = Accepted(s) + 1
    BY <1>2 DEF SteadyState, Took
  <2> QED BY <2>3, <2>4, <2>5
<1> QED BY <1>8, <1>9, <1>10 DEF SteadyState, t

LEMMA AcceptSteady ==
    ASSUME NEW s, SoundState(s), ~s.call.acceptedPacket,
           NEW received \in SUBSET Packets, SteadyState(s, received),
           NEW p \in received, \A q \in received : q.frame =< p.frame,
           FrameIndex(p) =< s.currentFrameIndex, ~IsFinished(s, p)
    PROVE  SteadyState(AcceptPart(s, p), received)
<1> DEFINE expected == IF InProgress(s) THEN s.expectedDataOffset ELSE 0
<1>1. CASE AcceptPart(s, p) = s \/ AcceptPart(s, p) = Flush(s)
  BY <1>1, FlushSteady
<1>2. CASE p.dataOffset = expected
  <2>1. SoundState(Taken(s, p))
    BY <1>2, StartSound, AppendSound DEF Taken
  <2>2. SteadyState(Taken(s, p), received)
    BY <1>2, StartSteady, AppendSteady DEF Taken
  <2>3. SteadyState(Flush(Taken(s, p)), received)
    BY <2>1, <2>2, FlushSteady
  <2> QED BY <1>1, <2>2, <2>3, AcceptPartCases
<1> QED BY <1>1, <1>2, AcceptPartCases

LEMMA ReceiveSteady ==
    ASSUME NEW s, SoundState(s), ~s.call.acceptedPacket,
           NEW received \in SUBSET Packets, SteadyState(s, received),
           NEW p \in Packets, \A q \in received : SentBefore(q, p)
    PROVE  SteadyState(ReceivePart(s, p), received \cup {p})
<1> DEFINE t == Moved(s, p)
           all == received \cup {p}
<1>1. /\ SoundState(t)
      /\ FrameIndex(p) =< t.currentFrameIndex
      /\ ~t.call.acceptedPacket
  BY MovedSound
<1>2. SteadyState(t, all)
  BY MovedSteady
<1>3. all \in SUBSET Packets /\ p \in all /\ \A q \in all : q.frame =< p.frame
  <2>1. p.frame \in Nat /\ \A q \in received : q.frame \in Nat
    BY PacketFacts
  <2> QED BY <2>1 DEF SentBefore
<1> HIDE DEF t, all
<1>4. ~IsFinished(t, p) => SteadyState(AcceptPart(t, p), all)
  BY <1>1, <1>2, <1>3, AcceptSteady
<1>5. CASE ReceivePart(s, p) = s /\ t = s
  BY <1>2, <1>5 DEF all
<1>6. CASE ReceivePart(s, p) = AcceptPart(t, p) /\ ~IsFinished(t, p)
  BY <1>4, <1>6 DEF all
<1> QED BY <1>5, <1>6, ReceivePartCases DEF t

-----------------------------------------------------------------------------
\* No frame is lost on a steady link but by losing its own packets.

LEMMA PacketOf ==
    ASSUME NEW f \in DOMAIN Stream, NEW o \in 0 .. Stream[f].size - 1
    PROVE  [frame |-> f, dataOffset |-> o] \in Packets
BY DEF Packets

LEMMA FlushKeeps ==
    ASSUME NEW s \in AssemblerType, NEW f, IsFinishedWhole(f, s)
    PROVE  IsFinishedWhole(f, Flush(s))
<1>1. CASE ~InProgress(s)
  BY <1>1 DEF Flush
<1>2. CASE InProgress(s)
  <2>1. Flush(s).finished = Append(s.finished, s.currentFrame)
    BY <1>2, FlushFacts
  <2>2. s.finished \in Seq(FrameBuilder)
    BY StateFacts
  <2>3. PICK k \in DOMAIN s.finished : s.finished[k].fragments = AllPartsOf(f)
    BY DEF IsFinishedWhole
  <2>4. k \in DOMAIN Flush(s).finished /\ Flush(s).finished[k] = s.finished[k]
    BY <2>1, <2>2
  <2> QED BY <2>3, <2>4 DEF IsFinishedWhole
<1> QED BY <1>1, <1>2

\* What was finished whole stays so.
LEMMA ReceiveKeeps ==
    ASSUME NEW s, SoundState(s), ~s.call.acceptedPacket, NEW p \in Packets,
           NEW f, IsFinishedWhole(f, s)
    PROVE  IsFinishedWhole(f, ReceivePart(s, p))
<1> DEFINE t == Moved(s, p)
           u == Taken(t, p)
<1>1. s \in AssemblerType
  BY DEF SoundState
<1>2. SoundState(t) /\ t \in AssemblerType
  BY MovedSound DEF SoundState
<1>3. IsFinishedWhole(f, t)
  <2>1. t = s \/ t.finished = Flush(s).finished
    BY MovedSound DEF Moved
  <2> QED BY <1>1, <2>1, FlushKeeps DEF IsFinishedWhole
<1> HIDE DEF t
<1>4. u \in AssemblerType /\ u.finished = t.finished
  BY <1>2, StartFacts, AppendFacts DEF Taken, Took
<1> HIDE DEF u
<1>5. IsFinishedWhole(f, u)
  BY <1>3, <1>4 DEF IsFinishedWhole
<1>6. IsFinishedWhole(f, Flush(t)) /\ IsFinishedWhole(f, Flush(u))
  BY <1>2, <1>3, <1>4, <1>5, FlushKeeps
<1>7. AcceptPart(t, p) \in {t, Flush(t), u, Flush(u)}
  BY AcceptPartCases DEF u
<1> QED BY <1>3, <1>5, <1>6, <1>7, ReceivePartCases DEF t

\* A part that is the next one of the frame it belongs to.
LEMMA TakesNext ==
    ASSUME NEW s \in AssemblerType, NEW p \in Packets, ~Throws(s, p),
           \/ ~InProgress(s) /\ p.dataOffset = 0
           \/ /\ InProgress(s)
              /\ s.currentFrame.fragments = FirstParts(p.frame, p.dataOffset)
              /\ s.expectedDataOffset = p.dataOffset
    PROVE  LET t == AcceptPart(s, p)
               n == p.dataOffset + 1
           IN  /\ n < TotalDataSize(p) => /\ InProgress(t)
                                          /\ t.currentFrame.fragments = FirstParts(p.frame, n)
               /\ n = TotalDataSize(p) => IsFinishedWhole(p.frame, t)
<1> DEFINE u == Taken(s, p)
           n == p.dataOffset + 1
<1>1. /\ p.dataOffset \in Nat
      /\ p.frame \in DOMAIN Stream
      /\ p = [frame |-> p.frame, dataOffset |-> p.dataOffset]
      /\ TotalDataSize(p) \in Nat
  BY PacketFacts
<1>2. /\ u \in AssemblerType
      /\ InProgress(u)
      /\ u.currentFrame.fragments = FirstParts(p.frame, n)
      /\ u.expectedDataOffset = n
  <2>1. CASE ~InProgress(s) /\ p.dataOffset = 0
    <3>1. /\ Took(s, u)
          /\ u.currentFrame.fragments = <<p>>
          /\ u.expectedDataOffset = 1
      BY <2>1, StartFacts DEF Taken
    <3>2. <<p>> = FirstParts(p.frame, 1)
      BY <1>1, <2>1 DEF FirstParts
    <3> QED BY <2>1, <3>1, <3>2 DEF Took
  <2>2. CASE /\ InProgress(s)
             /\ s.currentFrame.fragments = FirstParts(p.frame, p.dataOffset)
             /\ s.expectedDataOffset = p.dataOffset
    <3>1. /\ Took(s, u)
          /\ u.currentFrame.fragments = Append(s.currentFrame.fragments, p)
          /\ u.expectedDataOffset = s.expectedDataOffset + 1
      BY <2>2, AppendFacts DEF Taken
    <3>2. s.currentFrame.fragments \in Seq(Packets)
      BY <2>2, InProgressType, BuilderFacts
    <3>3. Append(FirstParts(p.frame, p.dataOffset), p) = FirstParts(p.frame, n)
      BY <1>1, <2>2, <3>2 DEF FirstParts
    <3> QED BY <2>2, <3>1, <3>3 DEF Took
  <2> QED BY <2>1, <2>2
<1>3. AcceptPart(s, p) = (IF u.expectedDataOffset = TotalDataSize(p) THEN Flush(u) ELSE u)
  <2>1. TakePart(s, p) = u
    BY Zenon DEF TakePart, Taken
  <2> QED BY <2>1 DEF AcceptPart
<1> HIDE DEF u
<1>4. CASE n < TotalDataSize(p)
  BY <1>1, <1>2, <1>3, <1>4
<1>5. CASE n = TotalDataSize(p)
  <2>1. Flush(u).finished = Append(u.finished, u.currentFrame)
    BY <1>2, FlushFacts
  <2>2. u.finished \in Seq(FrameBuilder)
    BY <1>2, StateFacts
  <2>3. u.currentFrame \in FrameBuilder
    BY <1>2, InProgressType
  <2>4. /\ Len(u.finished) + 1 \in DOMAIN Flush(u).finished
        /\ Flush(u).finished[Len(u.finished) + 1] = u.currentFrame
    BY <2>1, <2>2, <2>3
  <2>5. u.currentFrame.fragments = AllPartsOf(p.frame)
    BY <1>2, <1>5 DEF FirstParts, AllPartsOf, TotalDataSize
  <2>6. IsFinishedWhole(p.frame, Flush(u))
    BY <2>4, <2>5 DEF IsFinishedWhole
  <2> QED BY <1>1, <1>2, <1>3, <1>5, <2>6
<1> QED BY <1>4, <1>5

\* A part that comes after all parts before it, and no other, is taken.
LEMMA NextPartCollected ==
    ASSUME NEW s, SoundState(s), ~s.call.acceptedPacket,
           NEW received \in SUBSET Packets, SteadyState(s, received), Collected(s, received),
           NEW p \in Packets, \A q \in received : SentBefore(q, p),
           ~Throws(Moved(s, p), p) \/ IsFinished(s, p), ~IsRetrograde(p.frame),
           CameTo(p.frame, p.dataOffset + 1, received \cup {p})
    PROVE  LET t == ReceivePart(s, p)
               n == p.dataOffset + 1
           IN  /\ n < TotalDataSize(p) => /\ InProgress(t)
                                          /\ t.currentFrame.fragments = FirstParts(p.frame, n)
               /\ n = TotalDataSize(p) => IsFinishedWhole(p.frame, t)
<1> DEFINE m == Moved(s, p)
           f == p.frame
           o == p.dataOffset
<1>1. /\ s \in AssemblerType
      /\ f \in DOMAIN Stream /\ f \in Nat /\ o \in Nat
      /\ TotalDataSize(p) = Stream[f].size /\ TotalDataSize(p) \in Nat /\ o < TotalDataSize(p)
      /\ FrameIndex(p) \in Nat
      /\ p = [frame |-> f, dataOffset |-> o]
  BY PacketFacts DEF SoundState, TotalDataSize
<1>2. /\ s.currentFrameIndex =< FrameIndex(p)
      /\ FrameIndex(p) =< s.currentFrameIndex => \E q \in received : q.frame = f
      /\ s.currentFrameIndex \in Int
  BY <1>1, FrameOfHighestIndex, StateFacts DEF SteadyState
<1>3. SoundState(m)
  BY MovedSound
<1>4. CASE o = 0
  <2>1. \A q \in received : q.frame # f
    BY <1>1, <1>4, PacketFacts DEF SentBefore
  <2>2. FrameIndex(p) > s.currentFrameIndex
    BY <1>1, <1>2, <2>1
  <2>3. ~InProgress(m) /\ ~IsFinished(m, p)
    BY <2>2, MovedSound
  <2>4. ReceivePart(s, p) = AcceptPart(m, p)
    BY <2>2 DEF ReceivePart, Moved
  <2>5. ~Throws(m, p)
    BY <1>1, <1>2, <2>2, StateFacts DEF SoundState, IsFinished
  <2> HIDE DEF m
  <2>6. m \in AssemblerType
    BY <1>3 DEF SoundState
  <2> QED BY <1>4, <2>3, <2>4, <2>5, <2>6, TakesNext DEF m
<1>5. CASE o > 0
  <2>1. CameTo(f, o, received)
    <3>1. \A i \in 0 .. o - 1 : [frame |-> f, dataOffset |-> i] \in received
      <4> SUFFICES ASSUME NEW i \in 0 .. o - 1
                   PROVE  [frame |-> f, dataOffset |-> i] \in received
        OBVIOUS
      <4>1. [frame |-> f, dataOffset |-> i] \in received \cup {p}
        BY <1>1 DEF CameTo
      <4>2. [frame |-> f, dataOffset |-> i] # p
        BY <1>1
      <4> QED BY <4>1, <4>2
    <3> QED BY <1>1, <3>1 DEF CameTo
  <2>2. o \in 1 .. Stream[f].size - 1
    BY <1>1, <1>5
  <2>3. InProgress(s) /\ s.currentFrame.fragments = FirstParts(f, o)
    BY <1>1, <2>1, <2>2 DEF Collected
  <2>4. /\ Len(s.currentFrame.fragments) = o
        /\ FrameIndex(s.currentFrame.fragments[1]) = FrameIndex(p)
    BY <1>1, <1>5, <2>3 DEF FirstParts, FrameIndex
  <2>5. /\ s.expectedDataOffset = o
        /\ s.currentFrame.frameIndex = FrameIndex(p)
        /\ s.lastFinishedFrameIndex < FrameIndex(p)
        /\ FrameIndex(p) =< s.currentFrameIndex
    BY <2>3, <2>4 DEF SoundState, InProgressSound, SoundFrame
  <2>6. ~(FrameIndex(p) > s.currentFrameIndex) /\ ~IsFinished(s, p)
    BY <1>1, <1>2, <2>5, StateFacts DEF IsFinished
  <2>7. ReceivePart(s, p) = AcceptPart(s, p) /\ m = s
    BY <2>6 DEF ReceivePart, Moved
  <2>8. ~Throws(s, p)
    BY <2>3 DEF Throws
  <2> QED BY <1>1, <2>3, <2>5, <2>7, <2>8, TakesNext
<1> QED BY <1>1, <1>4, <1>5

LEMMA CollectedStep ==
    ASSUME NEW s, SoundState(s), ~s.call.acceptedPacket,
           NEW received \in SUBSET Packets, SteadyState(s, received), Collected(s, received),
           NEW p \in Packets, \A q \in received : SentBefore(q, p),
           ~Throws(Moved(s, p), p) \/ IsFinished(s, p)
    PROVE  Collected(ReceivePart(s, p), received \cup {p})
<1> DEFINE t == ReceivePart(s, p)
           all == received \cup {p}
<1> SUFFICES ASSUME NEW f \in DOMAIN Stream, ~IsRetrograde(f)
             PROVE  /\ \A n \in 1 .. Stream[f].size - 1 :
                           CameTo(f, n, all) => /\ InProgress(t)
                                                /\ t.currentFrame.fragments = FirstParts(f, n)
                    /\ (\A q \in Packets : q.frame = f => q \in all) => IsFinishedWhole(f, t)
  BY Zenon DEF Collected
<1>1. /\ p.frame \in Nat /\ p.dataOffset \in Nat
      /\ p = [frame |-> p.frame, dataOffset |-> p.dataOffset]
      /\ TotalDataSize(p) = Stream[p.frame].size
      /\ TotalDataSize(p) \in Nat \ {0}
      /\ p.dataOffset < TotalDataSize(p)
  BY PacketFacts DEF TotalDataSize
<1>2. f \in Nat /\ Stream[f].size \in Nat \ {0}
  <2>1. Stream[f] \in RawFrame /\ DOMAIN Stream \subseteq Nat
    BY StreamAssumption
  <2> QED BY <2>1 DEF RawFrame
<1>3. ASSUME NEW n \in 1 .. Stream[f].size - 1, CameTo(f, n, all)
      PROVE  InProgress(t) /\ t.currentFrame.fragments = FirstParts(f, n)
  <2> DEFINE last == [frame |-> f, dataOffset |-> n - 1]
  <2>1. last \in all
    BY <1>2, <1>3 DEF CameTo
  <2>2. SentBefore(p, [frame |-> f, dataOffset |-> n])
    BY <1>3 DEF CameTo
  <2>3. last \in received => SentBefore(last, p)
    OBVIOUS
  <2>4. p.frame = f /\ p.dataOffset + 1 = n
    <3>1. CASE last = p
      BY <1>2, <3>1
    <3>2. CASE SentBefore(last, p)
      BY <1>1, <1>2, <2>2, <3>2 DEF SentBefore
    <3> QED BY <2>1, <2>3, <3>1, <3>2
  <2>5. CameTo(p.frame, p.dataOffset + 1, received \cup {p})
    BY <1>3, <2>4
  <2>6. p.dataOffset + 1 < TotalDataSize(p)
    BY <1>1, <1>2, <2>4
  <2> QED BY <2>4, <2>5, <2>6, NextPartCollected
<1>4. ASSUME \A q \in Packets : q.frame = f => q \in all
      PROVE  IsFinishedWhole(f, t)
  <2>1. CASE \A q \in Packets : q.frame = f => q \in received
    <3>1. IsFinishedWhole(f, s)
      BY <2>1 DEF Collected
    <3> QED BY <3>1, ReceiveKeeps
  <2>2. CASE p.frame = f
    <3> DEFINE last == [frame |-> f, dataOffset |-> Stream[f].size - 1]
    <3>1. last \in all
      <4>1. Stream[f].size - 1 \in 0 .. Stream[f].size - 1
        BY <1>2
      <4>2. last \in Packets
        BY <4>1, PacketOf
      <4> QED BY <1>4, <4>2
    <3>2. p.dataOffset + 1 = TotalDataSize(p)
      <4>1. CASE last = p
        BY <1>1, <1>2, <2>2, <4>1
      <4>2. CASE last \in received
        <5>1. f < p.frame \/ Stream[f].size - 1 < p.dataOffset
          BY <4>2 DEF SentBefore
        <5>2. p.dataOffset \in Nat /\ p.dataOffset < Stream[f].size
          BY <1>1, <2>2
        <5>3. Stream[f].size \in Nat /\ f \in Nat
          BY <1>2
        <5> QED BY <2>2, <5>1, <5>2, <5>3
      <4> QED BY <3>1, <4>1, <4>2
    <3>3. CameTo(p.frame, p.dataOffset + 1, received \cup {p})
      <4>1. \A o \in 0 .. (p.dataOffset + 1) - 1 : [frame |-> f, dataOffset |-> o] \in all
        <5> SUFFICES ASSUME NEW o \in 0 .. Stream[f].size - 1
                     PROVE  [frame |-> f, dataOffset |-> o] \in all
          BY <1>1, <2>2, <3>2
        <5>1. [frame |-> f, dataOffset |-> o] \in Packets
          BY PacketOf
        <5> QED BY <1>4, <5>1
      <4>2. \A q \in all : SentBefore(q, [frame |-> f, dataOffset |-> p.dataOffset + 1])
        <5> SUFFICES ASSUME NEW q \in all
                     PROVE  SentBefore(q, [frame |-> f, dataOffset |-> p.dataOffset + 1])
          OBVIOUS
        <5>1. q = p \/ SentBefore(q, p)
          OBVIOUS
        <5>2. q.frame \in Nat /\ q.dataOffset \in Nat
          BY PacketFacts
        <5> QED BY <1>1, <2>2, <5>1, <5>2 DEF SentBefore
      <4>3. CameTo(f, p.dataOffset + 1, all)
        BY <4>1, <4>2, Zenon DEF CameTo
      <4> QED BY <2>2, <4>3
    <3> QED BY <2>2, <3>2, <3>3, NextPartCollected
  <2> QED BY <1>4, <2>1, <2>2
<1> QED BY <1>3, <1>4

-----------------------------------------------------------------------------
\* The steps.

\* Steps about the call and the metrics only.
Same(s, t) == /\ t.currentFrameIndex = s.currentFrameIndex
              /\ t.lastFinishedFrameIndex = s.lastFinishedFrameIndex
              /\ t.expectedDataOffset = s.expectedDataOffset
              /\ t.currentFrame = s.currentFrame
              /\ t.finished = s.finished
              /\ Counted(t) = Counted(s)
              /\ Accepted(t) = Accepted(s)

LEMMA SameSound ==
    ASSUME NEW s, SoundState(s), NEW t \in AssemblerType, Same(s, t), NEW received
    PROVE  /\ SoundState(t)
           /\ InProgress(t) = InProgress(s)
           /\ SteadyState(s, received) => SteadyState(t, received)
           /\ Collected(s, received) => Collected(t, received)
<1>1. InProgress(t) = InProgress(s)
  BY DEF InProgress, Same
<1>2. SoundState(t)
  BY <1>1 DEF Same, SoundState, FinishedSound, InProgressSound
<1>3. SteadyState(s, received) => SteadyState(t, received)
  BY <1>1 DEF Same, SteadyState, HighestIndex, SteadyProgress
<1>4. Collected(s, received) => Collected(t, received)
  BY <1>1 DEF Same, Collected, IsFinishedWhole
<1> QED BY <1>1, <1>2, <1>3, <1>4

LEMMA BegunSame ==
    ASSUME NEW s \in AssemblerType, ~s.call.acceptedPacket, NEW valid \in BOOLEAN
    PROVE  LET t == Begun(s, valid)
           IN  /\ t \in AssemblerType
               /\ Same(s, t)
               /\ ~t.call.acceptedPacket
               /\ t.call.active
<1> DEFINE invalid == ~valid
           begun == [NoCall EXCEPT !.active = TRUE, !.invalidPacket = invalid]
           t == Begun(s, valid)
<1>1. invalid \in BOOLEAN
  OBVIOUS
<1>2. begun \in CallType /\ begun.acceptedPacket = FALSE /\ begun.active = TRUE
  <2> HIDE DEF invalid
  <2> QED BY <1>1 DEF NoCall, CallType
<1>3. t = [s EXCEPT !.call = begun]
  BY DEF Begun
<1> HIDE DEF begun
<1>4. /\ t.call = begun
      /\ t.currentFrameIndex = s.currentFrameIndex
      /\ t.lastFinishedFrameIndex = s.lastFinishedFrameIndex
      /\ t.expectedDataOffset = s.expectedDataOffset
      /\ t.currentFrame = s.currentFrame
      /\ t.finished = s.finished
      /\ t.metrics = s.metrics
  BY <1>3 DEF AssemblerType
<1>5. t \in AssemblerType
  BY <1>2, <1>3 DEF AssemblerType
<1> HIDE DEF t
<1>6. Same(s, t)
  BY <1>2, <1>4 DEF Same, Counted, Accepted
<1> QED BY <1>2, <1>4, <1>5, <1>6 DEF t

LEMMA InitIInv == Init => IInv
<1> SUFFICES ASSUME Init PROVE IInv
  OBVIOUS
<1>1. /\ asm.currentFrameIndex = -1
      /\ asm.lastFinishedFrameIndex = -1
      /\ asm.expectedDataOffset = 0
      /\ asm.currentFrame = NoFrame
      /\ asm.finished = <<>>
      /\ asm.metrics = EmptyMetrics
      /\ asm.call = NoCall
      /\ delivered = {} /\ steady \in BOOLEAN /\ receiving = TRUE
  BY DEF Init, LinkInit
<1>2. EmptyMetrics \in MetricsType /\ NoCall \in CallType
  BY DEF EmptyMetrics, MetricsType, NoCall, CallType
<1>3. asm \in AssemblerType
  BY <1>2 DEF Init, AssemblerType
<1>4. TypeOK
  BY <1>1, <1>3 DEF TypeOK
<1>5. ~asm.call.acceptedPacket
  BY <1>1 DEF NoCall
<1>6. Counted(asm) = 0 /\ Accepted(asm) = 0
  BY <1>1, <1>5 DEF Counted, Accepted, EmptyMetrics, NoFrame
<1>7. ~InProgress(asm)
  BY <1>1 DEF InProgress
<1>8. SoundState(asm)
  BY <1>1, <1>3, <1>6, <1>7 DEF SoundState, FinishedSound, InProgressSound
<1>9. SteadyState(asm, delivered)
  BY <1>1, <1>6, <1>7 DEF SteadyState, HighestIndex, SteadyProgress
<1>10. Collected(asm, delivered)
  <2> SUFFICES ASSUME NEW f \in DOMAIN Stream
               PROVE  /\ \A n \in 1 .. Stream[f].size - 1 : ~CameTo(f, n, {})
                      /\ \E p \in Packets : p.frame = f
    BY <1>1 DEF Collected
  <2>1. Stream[f].size \in Nat \ {0}
    <3>1. Stream[f] \in RawFrame
      BY StreamAssumption
    <3> QED BY <3>1 DEF RawFrame
  <2>2. \A n \in 1 .. Stream[f].size - 1 : 0 \in 0 .. n - 1
    BY <2>1
  <2>3. [frame |-> f, dataOffset |-> 0] \in Packets
    BY <2>1, PacketOf
  <2> QED BY <2>2, <2>3 DEF CameTo
<1> QED BY <1>4, <1>5, <1>8, <1>9, <1>10 DEF IInv

LEMMA HandlePacketIInv ==
    ASSUME IInv, NEW p \in Packets, HandlePacketFrom(p)
    PROVE  IInv'
<1> DEFINE b == Begun(asm, TRUE)
<1>1. /\ asm \in AssemblerType /\ SoundState(asm) /\ ~asm.call.acceptedPacket
      /\ delivered \in SUBSET Packets /\ steady \in BOOLEAN /\ receiving
      /\ UNCHANGED steady
  BY DEF IInv, TypeOK, HandlePacketFrom, CanReceive, Transmit
<1>2. b \in AssemblerType /\ Same(asm, b) /\ ~b.call.acceptedPacket /\ b.call.active
  BY <1>1, BegunSame
<1> HIDE DEF b
<1>3. SoundState(b) /\ InProgress(b) = InProgress(asm)
  BY <1>1, <1>2, SameSound
<1>4. asm' = ReceivePart(b, p)
  BY DEF HandlePacketFrom, b
<1>5. SoundState(asm')
  BY <1>2, <1>3, <1>4, ReceiveSound
<1>6. TypeOK'
  <2>1. delivered' \subseteq Packets
    BY <1>1 DEF HandlePacketFrom, Transmit
  <2>2. receiving' \in BOOLEAN
    BY DEF HandlePacketFrom
  <2> QED BY <1>1, <1>5, <2>1, <2>2 DEF TypeOK, SoundState
<1>7. asm'.call.active
  BY <1>2, <1>3, <1>4, ReceiveActive
<1>8. steady => SteadyState(asm', delivered')
  <2> SUFFICES ASSUME steady PROVE SteadyState(asm', delivered')
    OBVIOUS
  <2>1. /\ delivered' = delivered \cup {p}
        /\ \A q \in delivered : SentBefore(q, p)
    BY DEF HandlePacketFrom, Transmit
  <2>2. SteadyState(asm, delivered)
    BY DEF IInv
  <2>3. SteadyState(b, delivered)
    BY <1>1, <1>2, <2>2, SameSound
  <2> QED BY <1>1, <1>2, <1>3, <1>4, <2>1, <2>3, ReceiveSteady
<1>9. (steady /\ receiving') => Collected(asm', delivered')
  <2> SUFFICES ASSUME steady, receiving' PROVE Collected(asm', delivered')
    OBVIOUS
  <2>1. /\ delivered' = delivered \cup {p}
        /\ \A q \in delivered : SentBefore(q, p)
    BY DEF HandlePacketFrom, Transmit
  <2>2. SteadyState(asm, delivered) /\ Collected(asm, delivered)
    BY <1>1 DEF IInv
  <2>3. SteadyState(b, delivered) /\ Collected(b, delivered)
    BY <1>1, <1>2, <2>2, SameSound
  <2>4. ~Throws(Moved(asm, p), p) \/ IsFinished(asm, p)
    BY DEF HandlePacketFrom
  <2>5. ~Throws(Moved(b, p), p) \/ IsFinished(b, p)
    <3>1. InProgress(Moved(b, p)) = InProgress(Moved(asm, p))
      <4>1. CASE FrameIndex(p) > asm.currentFrameIndex
        <5>1. FrameIndex(p) > b.currentFrameIndex
          BY <1>2, <4>1 DEF Same
        <5>2. ~InProgress(Moved(asm, p))
          BY <1>1, <4>1, MovedSound
        <5>3. ~InProgress(Moved(b, p))
          BY <1>3, <5>1, MovedSound
        <5> QED BY <5>2, <5>3 DEF InProgress
      <4>2. CASE ~(FrameIndex(p) > asm.currentFrameIndex)
        <5>1. ~(FrameIndex(p) > b.currentFrameIndex)
          BY <1>2, <4>2 DEF Same
        <5>2. Moved(asm, p) = asm /\ Moved(b, p) = b
          BY <4>2, <5>1 DEF Moved
        <5> QED BY <1>3, <5>2
      <4> QED BY <4>1, <4>2
    <3>2. Throws(Moved(b, p), p) = Throws(Moved(asm, p), p)
      BY <3>1 DEF Throws
    <3>3. IsFinished(b, p) = IsFinished(asm, p)
      BY <1>2 DEF Same, IsFinished
    <3> QED BY <2>4, <3>2, <3>3
  <2> QED BY <1>1, <1>2, <1>3, <1>4, <2>1, <2>3, <2>5, CollectedStep
<1> QED BY <1>1, <1>5, <1>6, <1>7, <1>8, <1>9 DEF IInv

LEMMA UpdateMetricsIInv ==
    ASSUME IInv, UpdateMetrics
    PROVE  IInv'
<1> DEFINE call == asm.call
           m == asm.metrics
           accepted == IF call.acceptedPacket THEN 1 ELSE 0
           accepts == IF call.acceptedPacket THEN m.totalPacketsAccepted + 1
                                             ELSE m.totalPacketsAccepted
           ignores == IF call.acceptedPacket THEN m.totalPacketsIgnored
                                             ELSE m.totalPacketsIgnored + 1
           invalids == IF call.invalidPacket THEN m.invalidPacketCount + 1
                                             ELSE m.invalidPacketCount
           skips == m.skippedFrameCount + call.skippedFrameCount
           updated == [m EXCEPT !.skippedFrameCount    = skips,
                                !.totalPacketsReceived = m.totalPacketsReceived + 1,
                                !.totalPacketsAccepted = accepts,
                                !.totalPacketsIgnored  = ignores,
                                !.invalidPacketCount   = invalids]
<1>1. asm \in AssemblerType /\ SoundState(asm) /\ m \in MetricsType /\ call \in CallType
  BY DEF IInv, TypeOK, AssemblerType
<1>2. asm' = [asm EXCEPT !.call = NoCall, !.metrics = updated]
  <2>1. asm' = [asm EXCEPT !.call = NoCall,
              !.metrics.skippedFrameCount    = m.skippedFrameCount + call.skippedFrameCount,
              !.metrics.totalPacketsReceived = m.totalPacketsReceived + 1,
              !.metrics.totalPacketsAccepted = accepts,
              !.metrics.totalPacketsIgnored  = ignores,
              !.metrics.invalidPacketCount   = invalids]
    BY <1>1, Zenon DEF UpdateMetrics, AssemblerType, MetricsType
  <2> HIDE DEF accepts, ignores, invalids
  <2> QED BY <1>1, <2>1 DEF AssemblerType
<1>3. accepts \in Nat /\ ignores \in Nat /\ invalids \in Nat
      /\ m.skippedFrameCount + call.skippedFrameCount \in Nat
      /\ m.totalPacketsReceived + 1 \in Nat
      /\ accepts = m.totalPacketsAccepted + accepted
  BY <1>1 DEF MetricsType, CallType
<1> HIDE DEF accepts, ignores, invalids
<1>4. /\ updated \in MetricsType
      /\ updated.totalPacketsAccepted = accepts
      /\ updated.totalReceivedFrameSize = m.totalReceivedFrameSize
  BY <1>1, <1>3 DEF MetricsType
<1> HIDE DEF updated
<1>5. /\ NoCall \in CallType
      /\ NoCall.acceptedPacket = FALSE
  BY DEF NoCall, CallType
<1>6. /\ asm'.call = NoCall
      /\ asm'.metrics = updated
      /\ asm'.currentFrameIndex = asm.currentFrameIndex
      /\ asm'.lastFinishedFrameIndex = asm.lastFinishedFrameIndex
      /\ asm'.expectedDataOffset = asm.expectedDataOffset
      /\ asm'.currentFrame = asm.currentFrame
      /\ asm'.finished = asm.finished
  BY <1>1, <1>2 DEF AssemblerType
<1>7. asm' \in AssemblerType
  BY <1>1, <1>2, <1>4, <1>5 DEF AssemblerType
<1>8. Same(asm, asm')
  <2>1. Counted(asm') = Counted(asm)
    BY <1>4, <1>6 DEF Counted
  <2>2. Accepted(asm') = Accepted(asm)
    BY <1>1, <1>3, <1>4, <1>5, <1>6 DEF Accepted, MetricsType
  <2> QED BY <1>6, <2>1, <2>2 DEF Same
<1>9. UNCHANGED <<steady, delivered, receiving>>
  BY DEF UpdateMetrics, linkVars
<1>10. /\ SoundState(asm')
       /\ SteadyState(asm, delivered) => SteadyState(asm', delivered)
       /\ Collected(asm, delivered) => Collected(asm', delivered)
  BY <1>1, <1>7, <1>8, SameSound
<1> QED BY <1>5, <1>6, <1>7, <1>9, <1>10 DEF IInv, TypeOK

LEMMA NextIInv == IInv /\ [Next]_vars => IInv'
<1> SUFFICES ASSUME IInv, [Next]_vars PROVE IInv'
  OBVIOUS
<1>1. CASE \E p \in Packets : HandlePacketFrom(p)
  BY <1>1, HandlePacketIInv
<1>2. CASE HandleInvalidPacket
  <2>1. /\ asm \in AssemblerType /\ SoundState(asm) /\ ~asm.call.acceptedPacket
        /\ asm' = Begun(asm, FALSE)
        /\ UNCHANGED <<steady, delivered, receiving>>
    BY <1>2 DEF IInv, TypeOK, HandleInvalidPacket, CanReceive, linkVars
  <2>2. /\ asm' \in AssemblerType
        /\ Same(asm, asm')
        /\ asm'.call.active
    BY <2>1, BegunSame
  <2>3. /\ SoundState(asm')
        /\ SteadyState(asm, delivered) => SteadyState(asm', delivered)
        /\ Collected(asm, delivered) => Collected(asm', delivered)
    BY <2>1, <2>2, SameSound
  <2> QED BY <2>1, <2>2, <2>3 DEF IInv, TypeOK
<1>3. CASE UpdateMetrics
  BY <1>3, UpdateMetricsIInv
<1>4. CASE UNCHANGED vars
  BY <1>4 DEF IInv, TypeOK, vars, linkVars
<1> QED BY <1>1, <1>2, <1>3, <1>4 DEF Next

-----------------------------------------------------------------------------
\* What follows from the invariant.

\* A complete frame of one raw frame's parts has them all: as many as its size came
\* without a hole, and there are no more.
LEMMA CompleteIsWhole ==
    ASSUME NEW frame \in FrameBuilder, SoundFrame(frame), Pure(frame), IsComplete(frame),
           \A j \in DOMAIN frame.fragments : ~IsRetrograde(frame.fragments[j].frame)
    PROVE  IsWhole(frame.fragments)
<1> DEFINE parts == frame.fragments
<1>1. /\ parts \in Seq(Packets) /\ parts # <<>>
      /\ Len(parts) \in Nat \ {0}
      /\ DOMAIN parts = 1 .. Len(parts)
      /\ parts[1] \in Packets
  BY BuilderFacts
<1>2. \A k \in DOMAIN parts : /\ parts[k].dataOffset = k - 1
                              /\ parts[k].frame = parts[1].frame
  BY DEF SoundFrame, HasNoHole, Pure
<1>4. TotalDataSize(parts[1]) =< Len(parts)
  BY DEF SoundFrame, IsComplete
<1>5. Len(parts) =< TotalDataSize(parts[1])
  <2>1. Len(parts) \in DOMAIN parts /\ parts[Len(parts)] \in Packets
    BY <1>1
  <2>2. TotalDataSize(parts[Len(parts)]) = TotalDataSize(parts[1])
    BY <1>2, <2>1 DEF TotalDataSize
  <2>3. Len(parts) - 1 < TotalDataSize(parts[1])
    BY <1>2, <2>1, <2>2, PacketFacts
  <2>4. TotalDataSize(parts[1]) \in Nat
    BY <1>1, PacketFacts
  <2> QED BY <1>1, <2>3, <2>4
<1>6. TotalDataSize(parts[1]) \in Nat
  BY <1>1, PacketFacts
<1> DEFINE f == parts[1].frame
           n == Len(parts)
<1>7. n = Stream[f].size
  BY <1>1, <1>4, <1>5, <1>6 DEF TotalDataSize
<1>8. \A k \in 1 .. n : parts[k] = [frame |-> f, dataOffset |-> k - 1]
  <2> SUFFICES ASSUME NEW k \in 1 .. n PROVE parts[k] = [frame |-> f, dataOffset |-> k - 1]
    OBVIOUS
  <2>1. parts[k] \in Packets /\ parts[k].frame = f /\ parts[k].dataOffset = k - 1
    BY <1>1, <1>2
  <2>2. PICK g \in DOMAIN Stream : parts[k] \in [frame : {g}, dataOffset : 0 .. Stream[g].size - 1]
    BY <2>1 DEF Packets
  <2> QED BY <2>1, <2>2
<1>9. parts = [k \in 1 .. n |-> parts[k]]
  BY <1>1
<1> QED BY <1>1, <1>7, <1>8, <1>9 DEF IsWhole, AllPartsOf

LEMMA FramesSound == IInv => FinishedFramesSound
<1> SUFFICES ASSUME IInv PROVE FinishedFramesSound
  OBVIOUS
<1>1. SoundState(asm) /\ asm \in AssemblerType /\ (steady => SteadyState(asm, delivered))
  BY DEF IInv, TypeOK
<1>2. FinishedInOrder
  BY <1>1 DEF SoundState, FinishedSound, FinishedInOrder
<1>3. FramesHaveNoHoles
  <2>1. HasNoHole(NoFrame)
    BY DEF HasNoHole, NoFrame
  <2>2. HasNoHole(asm.currentFrame)
    BY <1>1, <2>1 DEF SoundState, InProgressSound, InProgress, SoundFrame
  <2> QED BY <1>1, <2>2 DEF SoundState, FinishedSound, SoundFrame, FramesHaveNoHoles
<1>4. SteadyCompleteMeansAllPackets
  <2> SUFFICES ASSUME steady, NEW k \in DOMAIN asm.finished, IsComplete(asm.finished[k]),
                      \A j \in DOMAIN asm.finished[k].fragments :
                          ~IsRetrograde(asm.finished[k].fragments[j].frame)
               PROVE  IsWhole(asm.finished[k].fragments)
    BY DEF SteadyCompleteMeansAllPackets
  <2>1. asm.finished[k] \in FrameBuilder
    BY <1>1, StateFacts
  <2>2. SoundFrame(asm.finished[k]) /\ Pure(asm.finished[k])
    BY <1>1 DEF SoundState, FinishedSound, SteadyState
  <2> QED BY <2>1, <2>2, CompleteIsWhole
<1> QED BY <1>2, <1>3, <1>4 DEF FinishedFramesSound

\* However datagrams are lost, repeated and reordered, the frames handed over rise in
\* index and have no holes; what is called complete on a steady link is whole, until
\* the sonar restarts.
THEOREM FinishedFramesStaySound == Spec => []FinishedFramesSound
BY InitIInv, NextIInv, FramesSound, PTL DEF Spec

\* The metrics count no byte that was not accepted, and on a steady link, until the
\* sonar restarts, every one.
THEOREM MetricsStaySound == Spec => []MetricsSound
<1>1. IInv => MetricsSound
  <2> SUFFICES ASSUME IInv PROVE AcceptedBytesAccounted
    BY DEF IInv, MetricsSound
  <2>1. /\ Counted(asm) =< Accepted(asm)
        /\ (steady /\ \A q \in delivered : ~IsRetrograde(q.frame))
               => Counted(asm) = Accepted(asm)
    BY DEF IInv, SoundState, SteadyState
  <2> QED BY <2>1, Zenon DEF AcceptedBytesAccounted, Counted, Accepted
<1> QED BY <1>1, InitIInv, NextIInv, PTL DEF Spec

\* On a steady link, and until the sonar restarts, a frame all of whose packets arrive
\* is handed over whole, whatever is lost of the others.
THEOREM NoOtherFrameIsLost == Spec => []NothingElseLost
<1>1. IInv => NothingElseLost
  BY DEF IInv, Collected, IsFinishedWhole, AllDelivered, NothingElseLost
<1> QED BY <1>1, InitIInv, NextIInv, PTL DEF Spec
=============================================================================
