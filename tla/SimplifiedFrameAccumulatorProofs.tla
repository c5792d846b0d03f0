------------------- MODULE SimplifiedFrameAccumulatorProofs -------------------
(***************************************************************************)
(* Proofs about the simplified protocol's accumulator, for every stream of *)
(* frames: the pieces of its state never come apart, and it implements     *)
(* WholeFrames, the promise made to clients of any receiver.               *)
(***************************************************************************)
EXTENDS SimplifiedFrameAccumulator, TLAPS

PublishedFrame == [number : Nat, parts : Seq(Packets)]

Work == [currentPartNumber : Nat \cup {NoNumber}, frameIndex : Nat \cup {NoNumber},
         expectedSampleCount : Nat, samplesReceived : Nat]

Buffer == [isNull : BOOLEAN, samples : Seq(Packets)]

\* The inductive invariant: the state is sound, frames are numbered as they are
\* published, and a frame in progress has its header.
IInv == /\ FrameStateSound
        /\ nextFrameIndex = Len(frames)
        /\ ~nativeBuffer.isNull => frameHeader \in Packets

\* What a datagram is made of.
LEMMA PacketFacts ==
    ASSUME NEW p \in Packets
    PROVE  /\ FrameIndex(p) \in Nat
           /\ p.dataOffset \in Nat
           /\ TotalDataSize(p) \in Nat
           /\ TotalDataSize(p) >= 2
<1>1. PICK f \in DOMAIN Stream : p \in [frame : {f}, dataOffset : 0 .. Stream[f].size - 1]
  BY DEF Packets
<1>2. Stream[f] \in RawFrame
  BY StreamAssumption
<1>3. Stream[f].size \in Nat /\ Stream[f].index \in Nat
  BY <1>2 DEF RawFrame
<1>4. p.frame = f /\ p.dataOffset \in 0 .. Stream[f].size - 1
  BY <1>1
<1> QED BY <1>1, <1>3, <1>4, SamplesAssumption DEF TotalDataSize, FrameIndex

\* The header and its samples, and one sample more, are a run when the sample is
\* the next one of a frame with that index.
LEMMA RunExtended ==
    ASSUME NEW h \in Packets, NEW samples \in Seq(Packets), NEW p \in Packets,
           IsRunOfOneIndex(<<h>> \o samples), FrameIndex(p) = FrameIndex(h),
           p.dataOffset = Len(samples) + 1
    PROVE  /\ <<h>> \o Append(samples, p) \in Seq(Packets)
           /\ (<<h>> \o Append(samples, p))[1] = h
           /\ Len(<<h>> \o Append(samples, p)) = Len(samples) + 2
           /\ IsRunOfOneIndex(<<h>> \o Append(samples, p))
<1> DEFINE short == <<h>> \o samples
           long == <<h>> \o Append(samples, p)
<1>1. /\ short \in Seq(Packets) /\ DOMAIN short = 1 .. Len(samples) + 1 /\ short[1] = h
      /\ long \in Seq(Packets) /\ Len(long) = Len(samples) + 2
      /\ DOMAIN long = 1 .. Len(samples) + 2 /\ long[1] = h
      /\ long[Len(samples) + 2] = p
      /\ Len(samples) \in Nat
  OBVIOUS
<1>2. \A k \in DOMAIN short : long[k] = short[k]
  OBVIOUS
<1> HIDE DEF short, long
<1>3. \A k \in DOMAIN short : /\ short[k].dataOffset = k - 1
                              /\ FrameIndex(short[k]) = FrameIndex(short[1])
  BY DEF IsRunOfOneIndex, short
<1>4. ASSUME NEW k \in DOMAIN long
      PROVE  long[k].dataOffset = k - 1 /\ FrameIndex(long[k]) = FrameIndex(long[1])
  <2>1. CASE k \in DOMAIN short
    BY <2>1, <1>1, <1>2, <1>3
  <2>2. CASE k = Len(samples) + 2
    BY <2>2, <1>1
  <2> QED BY <2>1, <2>2, <1>1
<1>5. IsRunOfOneIndex(long)
  BY <1>4 DEF IsRunOfOneIndex
<1> QED BY <1>1, <1>5 DEF long

LEMMA NewWorkType == NewWork \in Work /\ NoBuffer \in Buffer /\ NewBuffer \in Buffer
BY DEF NewWork, Work, NoNumber, NoBuffer, NewBuffer, Buffer

LEMMA InitIInv == Init => IInv
<1> SUFFICES ASSUME Init PROVE IInv
  OBVIOUS
<1>1. TypeOK
  BY NewWorkType DEF Init, LinkInit, TypeOK, Work, Buffer
<1> QED BY <1>1 DEF Init, IInv, FrameStateSound, WorkMatchesBuffer, NoBuffer

LEMMA ResetSound ==
    ASSUME IInv, Reset, steady' \in BOOLEAN, delivered' \subseteq Packets
    PROVE  IInv'
<1>1. /\ wip' = NewWork
      /\ nativeBuffer' = NoBuffer
      /\ UNCHANGED <<frameHeader, nextFrameIndex, frames>>
  BY DEF Reset
<1>2. TypeOK'
  BY <1>1, NewWorkType DEF IInv, FrameStateSound, TypeOK, Work, Buffer
<1>3. nativeBuffer'.isNull
  BY <1>1 DEF NoBuffer
<1> QED BY <1>1, <1>2, <1>3 DEF IInv, FrameStateSound, WorkMatchesBuffer

LEMMA StartFrameSound ==
    ASSUME IInv, NEW p \in Packets, HasHeader(p), StartFrame(p),
           steady' \in BOOLEAN, delivered' \subseteq Packets
    PROVE  IInv'
<1>1. /\ wip' = [currentPartNumber |-> 0, frameIndex |-> FrameIndex(p),
                 expectedSampleCount |-> FrameSize(p), samplesReceived |-> 0]
      /\ frameHeader' = p
      /\ nativeBuffer' = [isNull |-> FALSE, samples |-> <<>>]
      /\ UNCHANGED <<nextFrameIndex, frames>>
  BY DEF StartFrame, NewWork, NewBuffer
<1>2. /\ FrameIndex(p) \in Nat
      /\ FrameSize(p) \in Nat /\ FrameSize(p) > 0
      /\ p.dataOffset = 0
  BY PacketFacts DEF FrameSize, HasHeader
<1>3. wip' \in Work
  BY <1>1, <1>2 DEF Work
<1>4. nativeBuffer' \in Buffer
  BY <1>1 DEF Buffer
<1>5. TypeOK'
  BY <1>1, <1>3, <1>4 DEF IInv, FrameStateSound, TypeOK, Work, Buffer
<1>6. IsRunOfOneIndex(<<p>> \o <<>>)
  BY <1>2 DEF IsRunOfOneIndex
<1>7. /\ nativeBuffer'.isNull = FALSE /\ nativeBuffer'.samples = <<>>
      /\ wip'.currentPartNumber = 0 /\ wip'.frameIndex = FrameIndex(p)
      /\ wip'.expectedSampleCount = FrameSize(p) /\ wip'.samplesReceived = 0
  BY <1>1
<1>8. WorkMatchesBuffer'
  BY <1>1, <1>2, <1>6, <1>7
     DEF WorkMatchesBuffer, IsRunOfOneIndex, FrameIndex, FrameSize, TotalDataSize
<1> QED BY <1>1, <1>5, <1>8 DEF IInv, FrameStateSound

\* Parts that look whole are, if no other frame has the index they have.
LEMMA OwnRunIsWhole ==
    ASSUME NEW parts \in Seq(Packets), LooksWhole(parts), HasOwnIndex(parts[1].frame)
    PROVE  IsWhole(parts)
<1> DEFINE f == parts[1].frame
           n == Len(parts)
<1>1. /\ n \in Nat \ {0}
      /\ DOMAIN parts = 1 .. n
      /\ parts[1] \in Packets
      /\ n = Stream[f].size
  BY DEF LooksWhole, TotalDataSize
<1>2. \A k \in 1 .. n : parts[k] = [frame |-> f, dataOffset |-> k - 1]
  <2> SUFFICES ASSUME NEW k \in 1 .. n PROVE parts[k] = [frame |-> f, dataOffset |-> k - 1]
    OBVIOUS
  <2>1. PICK g \in DOMAIN Stream : parts[k] \in [frame : {g}, dataOffset : 0 .. Stream[g].size - 1]
    BY <1>1 DEF Packets
  <2>2. parts[k].dataOffset = k - 1 /\ Stream[g].index = Stream[f].index
    BY <1>1, <2>1 DEF LooksWhole, IsRunOfOneIndex, FrameIndex
  <2>3. g = f
    BY <2>2 DEF HasOwnIndex
  <2> QED BY <2>1, <2>2, <2>3
<1>3. parts = [k \in 1 .. n |-> parts[k]]
  BY <1>1
<1>4. parts = AllPartsOf(f)
  BY <1>1, <1>2, <1>3 DEF AllPartsOf
<1> QED BY <1>4 DEF IsWhole, LooksWhole

\* What a frame is when it is published.
Published(frame, number) == /\ frame \in PublishedFrame
                            /\ frame.number = number
                            /\ LooksWhole(frame.parts)

LEMMA AddSamplesSound ==
    ASSUME IInv, NEW p \in Packets, FrameIndex(p) = wip.frameIndex,
           PartNumber(p) = GetNextPartNumber, AddSamples(p),
           steady' \in BOOLEAN, delivered' \subseteq Packets
    PROVE  /\ IInv'
           /\ \/ frames' = frames
              \/ \E frame : Published(frame, Len(frames)) /\ frames' = Append(frames, frame)
<1>1. /\ wip \in Work
      /\ nativeBuffer \in Buffer
      /\ frames \in Seq(PublishedFrame)
      /\ nextFrameIndex \in Nat
  BY DEF IInv, FrameStateSound, TypeOK, Work, Buffer, PublishedFrame
<1>2. FrameIndex(p) \in Nat
  BY PacketFacts
<1>3. nativeBuffer.isNull = FALSE
  BY <1>1, <1>2 DEF IInv, FrameStateSound, WorkMatchesBuffer, NewWork, NoNumber, Buffer
<1> DEFINE samples == nativeBuffer.samples
           more == Append(samples, p)
           parts == <<frameHeader>> \o more
           frame == [number |-> nextFrameIndex, parts |-> parts]
<1>4. /\ FrameIndex(frameHeader) = wip.frameIndex
      /\ FrameSize(frameHeader) = wip.expectedSampleCount
      /\ Len(samples) = wip.samplesReceived
      /\ wip.currentPartNumber = wip.samplesReceived
      /\ wip.samplesReceived < wip.expectedSampleCount
      /\ IsRunOfOneIndex(<<frameHeader>> \o samples)
      /\ frameHeader \in Packets
  BY <1>3 DEF IInv, FrameStateSound, WorkMatchesBuffer
<1>5. /\ samples \in Seq(Packets)
      /\ wip.samplesReceived \in Nat /\ wip.expectedSampleCount \in Nat
  BY <1>1 DEF Buffer, Work
<1>6. p.dataOffset = Len(samples) + 1
  BY <1>4 DEF PartNumber, GetNextPartNumber
<1>7. /\ parts \in Seq(Packets)
      /\ parts[1] = frameHeader
      /\ Len(parts) = Len(samples) + 2
      /\ IsRunOfOneIndex(parts)
  BY <1>4, <1>5, <1>6, RunExtended
<1>8. more \in Seq(Packets) /\ Len(more) = Len(samples) + 1
  BY <1>5
<1>9. CASE wip.samplesReceived + 1 = wip.expectedSampleCount
  <2>1. /\ frames' = Append(frames, frame)
        /\ nextFrameIndex' = nextFrameIndex + 1
        /\ wip' = NewWork
        /\ nativeBuffer' = NoBuffer
        /\ frameHeader' = frameHeader
    BY <1>9 DEF AddSamples, PackageFrame
  <2>2. frame \in PublishedFrame /\ frame.number = nextFrameIndex /\ frame.parts = parts
    BY <1>1, <1>7 DEF PublishedFrame
  <2>3. LooksWhole(parts)
    <3>1. Len(parts) = TotalDataSize(parts[1])
      BY <1>4, <1>5, <1>7, <1>9, PacketFacts DEF FrameSize
    <3>2. parts # <<>>
      BY <1>5, <1>7
    <3> QED BY <3>1, <3>2, <1>7 DEF LooksWhole
  <2> HIDE DEF frame, parts
  <2>4. Published(frame, Len(frames))
    BY <2>2, <2>3 DEF Published, IInv
  <2>5. frames' \in Seq(PublishedFrame) /\ Len(frames') = Len(frames) + 1
    BY <2>1, <2>2, <1>1
  <2>6. TypeOK'
    BY <2>1, <2>5, <1>1, NewWorkType DEF IInv, FrameStateSound, TypeOK, Work, Buffer, PublishedFrame
  <2>7. nativeBuffer'.isNull
    BY <2>1 DEF NoBuffer
  <2> QED BY <2>1, <2>4, <2>5, <2>6, <2>7 DEF IInv, FrameStateSound, WorkMatchesBuffer
<1>10. CASE wip.samplesReceived + 1 # wip.expectedSampleCount
  <2>1. /\ wip' = [wip EXCEPT !.currentPartNumber = wip.currentPartNumber + 1,
                              !.samplesReceived = wip.samplesReceived + 1]
        /\ nativeBuffer' = [nativeBuffer EXCEPT !.samples = more]
        /\ UNCHANGED <<frameHeader, nextFrameIndex, frames>>
    BY <1>10 DEF AddSamples, GetNextPartNumber
  <2>2. /\ wip' \in Work
        /\ wip'.currentPartNumber = wip.samplesReceived + 1
        /\ wip'.samplesReceived = wip.samplesReceived + 1
        /\ wip'.frameIndex = wip.frameIndex
        /\ wip'.expectedSampleCount = wip.expectedSampleCount
    <3>1. wip.samplesReceived + 1 \in Nat
      BY <1>5
    <3>2. wip' \in Work
      BY <2>1, <3>1, <1>1, <1>4 DEF Work
    <3>3. /\ wip'.currentPartNumber = wip.currentPartNumber + 1
          /\ wip'.samplesReceived = wip.samplesReceived + 1
          /\ wip'.frameIndex = wip.frameIndex
          /\ wip'.expectedSampleCount = wip.expectedSampleCount
      BY <2>1, <1>1 DEF Work
    <3> QED BY <3>2, <3>3, <1>4
  <2>3. nativeBuffer' \in Buffer /\ nativeBuffer'.isNull = FALSE /\ nativeBuffer'.samples = more
    BY <2>1, <1>1, <1>3, <1>8 DEF Buffer
  <2>4. TypeOK'
    BY <2>1, <2>2, <2>3 DEF IInv, FrameStateSound, TypeOK, Work, Buffer
  <2>5. WorkMatchesBuffer'
    <3>1. wip.samplesReceived + 1 < wip.expectedSampleCount
      BY <1>4, <1>5, <1>10
    <3>2. /\ FrameIndex(frameHeader') = wip'.frameIndex
          /\ FrameSize(frameHeader') = wip'.expectedSampleCount
          /\ Len(nativeBuffer'.samples) = wip'.samplesReceived
          /\ wip'.currentPartNumber = wip'.samplesReceived
          /\ wip'.samplesReceived < wip'.expectedSampleCount
      BY <2>1, <2>2, <2>3, <3>1, <1>4, <1>8
    <3>3. IsRunOfOneIndex(<<frameHeader'>> \o nativeBuffer'.samples)
      BY <2>1, <2>3, <1>7
    <3> QED BY <2>3, <3>2, <3>3 DEF WorkMatchesBuffer
  <2> QED BY <2>1, <2>4, <2>5, <1>4 DEF IInv, FrameStateSound
<1> QED BY <1>9, <1>10

LEMMA IgnoreSound ==
    ASSUME IInv, Ignore, steady' \in BOOLEAN, delivered' \subseteq Packets
    PROVE  IInv'
<1>1. UNCHANGED <<wip, frameHeader, nativeBuffer, nextFrameIndex, frames>>
  BY DEF Ignore, accumulatorVars
<1>2. TypeOK'
  BY <1>1 DEF IInv, FrameStateSound, TypeOK
<1> QED BY <1>1, <1>2 DEF IInv, FrameStateSound, WorkMatchesBuffer, IsRunOfOneIndex,
                          FrameIndex, FrameSize, TotalDataSize

\* A step keeps the invariant and publishes at most one frame, a whole one.
LEMMA StepSound ==
    ASSUME IInv, [Next]_vars
    PROVE  /\ IInv'
           /\ \/ frames' = frames
              \/ \E frame : Published(frame, Len(frames)) /\ frames' = Append(frames, frame)
<1>1. ASSUME NEW p \in Packets, ReceivePacket(p)
      PROVE  /\ IInv'
             /\ \/ frames' = frames
                \/ \E frame : Published(frame, Len(frames)) /\ frames' = Append(frames, frame)
  <2>1. steady' \in BOOLEAN /\ delivered' \subseteq Packets
    BY <1>1 DEF ReceivePacket, Transmit, IInv, FrameStateSound, TypeOK
  <2>2. CASE Reset
    BY <2>1, <2>2, ResetSound DEF Reset
  <2>3. CASE HasHeader(p) /\ StartFrame(p)
    BY <2>1, <2>3, StartFrameSound DEF StartFrame
  <2>4. CASE FrameIndex(p) = wip.frameIndex /\ PartNumber(p) = GetNextPartNumber /\ AddSamples(p)
    BY <2>1, <2>4, AddSamplesSound
  <2>5. CASE Ignore
    BY <2>1, <2>5, IgnoreSound DEF Ignore, accumulatorVars
  <2> QED BY <1>1, <2>2, <2>3, <2>4, <2>5 DEF ReceivePacket, ReceivePacketPayload, ReceiveSamples
<1>2. CASE ReceiveInvalidPacket
  <2>1. steady' \in BOOLEAN /\ delivered' \subseteq Packets
    BY <1>2 DEF ReceiveInvalidPacket, linkVars, IInv, FrameStateSound, TypeOK
  <2> QED BY <1>2, <2>1, ResetSound DEF ReceiveInvalidPacket, Reset
<1>3. CASE UNCHANGED vars
  <2>1. steady' \in BOOLEAN /\ delivered' \subseteq Packets
    BY <1>3 DEF vars, linkVars, IInv, FrameStateSound, TypeOK
  <2> QED BY <1>3, <2>1, IgnoreSound DEF vars, Ignore, accumulatorVars
<1> QED BY <1>1, <1>2, <1>3 DEF Next

\* The buffer, the work, the header and the count of samples never come apart,
\* whatever comes of the datagrams.
THEOREM StateStaysSound == Spec => []FrameStateSound
<1>1. IInv => FrameStateSound
  BY DEF IInv
<1>2. IInv /\ [Next]_vars => IInv'
  BY StepSound
<1> QED BY <1>1, <1>2, InitIInv, PTL DEF Spec

-----------------------------------------------------------------------------
\* The accumulator implements WholeFrames.

LEMMA InitImplements == Init => Client!Init
BY DEF Init, Client!Init, PublishedParts

LEMMA StepImplements ==
    ASSUME IInv, [Next]_vars
    PROVE  [Client!Next]_(Client!vars)
<1>1. CASE frames' = frames
  BY <1>1 DEF Client!vars, PublishedParts
<1>2. ASSUME NEW frame, Published(frame, Len(frames)), frames' = Append(frames, frame)
      PROVE  Client!Next
  <2>1. frames \in Seq(PublishedFrame) /\ frame \in PublishedFrame
    BY <1>2 DEF IInv, FrameStateSound, TypeOK, PublishedFrame, Published
  <2>2. /\ frames' \in Seq(PublishedFrame)
        /\ Len(frames') = Len(frames) + 1
        /\ Len(frames) \in Nat
        /\ DOMAIN frames = 1 .. Len(frames)
        /\ DOMAIN frames' = 1 .. Len(frames) + 1
        /\ \A k \in DOMAIN frames : frames'[k] = frames[k]
        /\ frames'[Len(frames) + 1] = frame
    BY <1>2, <2>1
  <2>3. PublishedParts \subseteq PublishedParts'
    BY <2>2 DEF PublishedParts
  <2>4. PublishedParts' \subseteq Packets
    <3>1. ASSUME NEW k \in DOMAIN frames', NEW j \in DOMAIN frames'[k].parts
          PROVE  frames'[k].parts[j] \in Packets
      <4>1. frames'[k] \in PublishedFrame
        BY <2>2
      <4>2. frames'[k].parts \in Seq(Packets)
        BY <4>1 DEF PublishedFrame
      <4> QED BY <4>2
    <3> QED BY <3>1 DEF PublishedParts
  <2>5. \A j \in DOMAIN frame.parts : frame.parts[j] \in PublishedParts'
    BY <2>2 DEF PublishedParts
  <2>6. Client!IsDeliverable(frame, PublishedParts')
    <3>1. /\ LooksWhole(frame.parts)
          /\ HasOwnIndex(frame.parts[1].frame) => IsWhole(frame.parts)
      BY <1>2, OwnRunIsWhole DEF Published, PublishedFrame
    <3>2. /\ Client!LooksWhole(frame.parts)
          /\ Client!HasOwnIndex(frame.parts[1].frame) => Client!IsWhole(frame.parts)
      BY <3>1 DEF LooksWhole, Client!LooksWhole, IsRunOfOneIndex, Client!IsRunOfOneIndex,
         FrameIndex, Client!FrameIndex, TotalDataSize, Client!TotalDataSize, HasOwnIndex,
         Client!HasOwnIndex, IsWhole, Client!IsWhole, AllPartsOf, Client!AllPartsOf
    <3> QED BY <2>5, <3>2 DEF Client!IsDeliverable
  <2>7. frame.number = Len(frames)
    BY <1>2 DEF Published
  <2>8. Client!HandOver
    <3>1. \A k \in (Len(frames) + 1) .. Len(frames') : k = Len(frames) + 1
      BY <2>2
    <3> QED BY <2>2, <2>6, <2>7, <3>1 DEF Client!HandOver
  <2>9. Client!Take
    BY <2>3, <2>4 DEF Client!Take, Packets, Client!Packets
  <2> QED BY <2>8, <2>9 DEF Client!Next
<1> QED BY <1>1, <1>2, StepSound

\* What the client sees of the accumulator is what WholeFrames promises: frames
\* numbered without a gap and never taken back, none of them with a hole, and each
\* exactly the parts of one raw frame unless another frame had its index.
THEOREM ClientSeesWholeFrames == Spec => DeliversWholeFrames
<1>1. IInv /\ [Next]_vars => IInv' /\ [Client!Next]_(Client!vars)
  BY StepSound, StepImplements
<1> QED BY <1>1, InitIInv, InitImplements, PTL DEF Spec, DeliversWholeFrames, Client!Spec

-----------------------------------------------------------------------------
\* What a link that only loses datagrams has delivered of a frame.

\* The first n parts of the raw frame f came, and nothing that is sent later.
CameTo(f, n, received) ==
    /\ \A o \in 0 .. n - 1 : [frame |-> f, dataOffset |-> o] \in received
    /\ \A q \in received : SentBefore(q, [frame |-> f, dataOffset |-> n])

LEMMA PacketOf ==
    ASSUME NEW f \in DOMAIN Stream, NEW o \in 0 .. Stream[f].size - 1
    PROVE  [frame |-> f, dataOffset |-> o] \in Packets
BY DEF Packets

LEMMA FrameFacts ==
    ASSUME NEW f \in DOMAIN Stream
    PROVE  f \in Nat /\ Stream[f].size \in Nat /\ Stream[f].size >= 2
<1>1. Stream[f] \in RawFrame /\ DOMAIN Stream \subseteq Nat
  BY StreamAssumption
<1> QED BY <1>1, SamplesAssumption DEF RawFrame

LEMMA PacketFields ==
    ASSUME NEW p \in Packets
    PROVE  /\ p.frame \in DOMAIN Stream /\ p.frame \in Nat
           /\ p.dataOffset \in Nat /\ p.dataOffset < Stream[p.frame].size
           /\ p = [frame |-> p.frame, dataOffset |-> p.dataOffset]
<1>1. PICK f \in DOMAIN Stream : p \in [frame : {f}, dataOffset : 0 .. Stream[f].size - 1]
  BY DEF Packets
<1> QED BY <1>1, FrameFacts

\* What came last is the n-th part, if the first n parts came and nothing later.
LEMMA LastCame ==
    ASSUME NEW received \in SUBSET Packets, NEW p \in Packets,
           \A q \in received : SentBefore(q, p),
           NEW f \in DOMAIN Stream, NEW n \in 1 .. Stream[f].size,
           CameTo(f, n, received \cup {p})
    PROVE  /\ p = [frame |-> f, dataOffset |-> n - 1]
           /\ n > 1 => CameTo(f, n - 1, received)
<1>1. /\ f \in Nat /\ Stream[f].size \in Nat /\ n \in Nat
      /\ p.frame \in Nat /\ p.dataOffset \in Nat
      /\ p = [frame |-> p.frame, dataOffset |-> p.dataOffset]
  BY FrameFacts, PacketFields
<1> DEFINE last == [frame |-> f, dataOffset |-> n - 1]
<1>2. last \in received \cup {p}
  BY <1>1 DEF CameTo
<1>3. SentBefore(p, [frame |-> f, dataOffset |-> n])
  BY DEF CameTo
<1>4. p = last
  <2>1. CASE last \in received
    <3>1. SentBefore(last, p)
      BY <2>1
    <3> QED BY <1>1, <1>3, <3>1 DEF SentBefore
  <2> QED BY <1>2, <2>1
<1>5. ASSUME n > 1 PROVE CameTo(f, n - 1, received)
  <2>1. ASSUME NEW o \in 0 .. (n - 1) - 1
        PROVE  [frame |-> f, dataOffset |-> o] \in received
    <3>1. o \in 0 .. n - 1 /\ o # n - 1
      BY <1>1
    <3>2. [frame |-> f, dataOffset |-> o] \in received \cup {p}
      BY <3>1 DEF CameTo
    <3> QED BY <1>4, <3>1, <3>2
  <2>2. \A q \in received : SentBefore(q, last)
    BY <1>4
  <2> HIDE DEF last
  <2>3. \A q \in received : SentBefore(q, [frame |-> f, dataOffset |-> n - 1])
    BY <2>2 DEF last
  <2> QED BY <2>1, <2>3 DEF CameTo
<1> QED BY <1>4, <1>5

\* When the last part of a frame completes it, all of it came and nothing later.
LEMMA AllCame ==
    ASSUME NEW received \in SUBSET Packets, NEW p \in Packets,
           \A q \in received : SentBefore(q, p),
           NEW f \in DOMAIN Stream, p.frame = f,
           \A q \in Packets : q.frame = f => q \in received \cup {p}
    PROVE  CameTo(f, Stream[f].size, received \cup {p})
<1>1. /\ f \in Nat /\ Stream[f].size \in Nat /\ Stream[f].size >= 2
      /\ p.dataOffset \in Nat /\ p.dataOffset < Stream[f].size
  BY FrameFacts, PacketFields
<1>2. ASSUME NEW o \in 0 .. Stream[f].size - 1
      PROVE  [frame |-> f, dataOffset |-> o] \in received \cup {p}
  <2> DEFINE q == [frame |-> f, dataOffset |-> o]
  <2>1. q \in Packets /\ q.frame = f
    BY PacketOf
  <2> HIDE DEF q
  <2>2. q \in received \cup {p}
    BY <2>1
  <2> QED BY <2>2 DEF q
<1>3. ASSUME NEW q \in received \cup {p}
      PROVE  SentBefore(q, [frame |-> f, dataOffset |-> Stream[f].size])
  <2>1. q = p \/ SentBefore(q, p)
    OBVIOUS
  <2>2. q.frame \in Nat /\ q.dataOffset \in Nat
    BY PacketFields
  <2> QED BY <1>1, <2>1, <2>2 DEF SentBefore
<1> QED BY <1>2, <1>3 DEF CameTo

-----------------------------------------------------------------------------
\* The losses of one frame cost no other.

SamplesOf(f, n) == [k \in 1 .. n |-> [frame |-> f, dataOffset |-> k]]

IsCollected(f, n) == /\ ~nativeBuffer.isNull
                     /\ frameHeader = [frame |-> f, dataOffset |-> 0]
                     /\ nativeBuffer.samples = SamplesOf(f, n)

IsPublished(f) == \E k \in DOMAIN frames : frames[k].parts = AllPartsOf(f)

\* A frame of which nothing was lost yet is in progress, or published.
Collected ==
    steady => \A f \in DOMAIN Stream :
        Stream[f].header =>
            /\ \A n \in 1 .. Stream[f].size - 1 : CameTo(f, n, delivered) => IsCollected(f, n - 1)
            /\ AllDelivered(f) => IsPublished(f)

LEMMA InitCollected == Init => Collected
<1> SUFFICES ASSUME Init, NEW f \in DOMAIN Stream
             PROVE  /\ \A n \in 1 .. Stream[f].size - 1 : ~CameTo(f, n, delivered)
                    /\ ~AllDelivered(f)
  BY DEF Collected
<1>1. delivered = {}
  BY DEF Init, LinkInit
<1>2. Stream[f].size \in Nat /\ Stream[f].size >= 2
  BY FrameFacts
<1>3. ~AllDelivered(f)
  <2> DEFINE first == [frame |-> f, dataOffset |-> 0]
  <2>1. first \in Packets /\ first.frame = f
    BY <1>2, PacketOf
  <2> HIDE DEF first
  <2> QED BY <1>1, <2>1 DEF AllDelivered
<1>4. ASSUME NEW n \in 1 .. Stream[f].size - 1, CameTo(f, n, delivered) PROVE FALSE
  <2>1. 0 \in 0 .. n - 1
    BY <1>2
  <2> QED BY <1>1, <1>4, <2>1 DEF CameTo
<1> QED BY <1>3, <1>4

\* What is published stays so.
LEMMA PublishedStays ==
    ASSUME IInv, [Next]_vars, NEW f \in DOMAIN Stream, IsPublished(f)
    PROVE  IsPublished(f)'
<1>1. PICK k \in DOMAIN frames : frames[k].parts = AllPartsOf(f)
  BY DEF IsPublished
<1>2. frames \in Seq(PublishedFrame)
  BY DEF IInv, FrameStateSound, TypeOK, PublishedFrame
<1>3. k \in DOMAIN frames' /\ frames'[k] = frames[k]
  <2>1. CASE frames' = frames
    BY <2>1
  <2>2. ASSUME NEW frame, frames' = Append(frames, frame)
        PROVE  k \in DOMAIN frames' /\ frames'[k] = frames[k]
    BY <1>2, <2>2
  <2> QED BY <2>1, <2>2, StepSound
<1> QED BY <1>1, <1>3 DEF IsPublished, AllPartsOf

\* The header of a frame, when the frames before it are over or cut short.
LEMMA HeaderCollected ==
    ASSUME NEW f \in DOMAIN Stream, Stream[f].header,
           NEW p \in Packets, p = [frame |-> f, dataOffset |-> 0],
           ReceivePacketPayload(p)
    PROVE  IsCollected(f, 0)'
<1>1. PartNumber(p) = 0 /\ HasHeader(p)
  BY DEF PartNumber, HasHeader
<1>2. frameHeader' = p /\ nativeBuffer' = NewBuffer
  BY <1>1 DEF ReceivePacketPayload, StartFrame
<1>3. SamplesOf(f, 0) = <<>>
  BY DEF SamplesOf
<1> QED BY <1>2, <1>3 DEF IsCollected, NewBuffer, SamplesOf

\* One more part of a frame of which nothing was lost.
LEMMA NextPartCollected ==
    ASSUME IInv, NEW f \in DOMAIN Stream, NEW n \in 2 .. Stream[f].size, IsCollected(f, n - 2),
           NEW p \in Packets, p = [frame |-> f, dataOffset |-> n - 1],
           ReceivePacketPayload(p)
    PROVE  /\ n < Stream[f].size => IsCollected(f, n - 1)'
           /\ n = Stream[f].size => IsPublished(f)'
<1> DEFINE samples == nativeBuffer.samples
           more == Append(samples, p)
<1>1. /\ f \in Nat /\ n \in Nat /\ Stream[f].size \in Nat
      /\ p.frame = f /\ p.dataOffset = n - 1 /\ n - 1 # 0
  BY FrameFacts
<1>2. /\ nativeBuffer.isNull = FALSE
      /\ frameHeader = [frame |-> f, dataOffset |-> 0]
      /\ samples = SamplesOf(f, n - 2)
      /\ Len(samples) = n - 2
  BY <1>1 DEF IsCollected, SamplesOf, IInv, FrameStateSound, TypeOK
<1>3. /\ wip.frameIndex = Stream[f].index
      /\ wip.expectedSampleCount = Stream[f].size - 1
      /\ wip.samplesReceived = n - 2
      /\ wip.currentPartNumber = n - 2
  BY <1>2 DEF IInv, FrameStateSound, WorkMatchesBuffer, FrameIndex, FrameSize, TotalDataSize
<1>4. AddSamples(p)
  BY <1>1, <1>3 DEF ReceivePacketPayload, ReceiveSamples, PartNumber, FrameIndex, GetNextPartNumber
<1>5. more = SamplesOf(f, n - 1)
  <2>1. more = [k \in 1 .. n - 1 |-> IF k = n - 1 THEN p ELSE samples[k]]
    BY <1>1, <1>2 DEF SamplesOf
  <2>2. \A k \in 1 .. n - 1 : (IF k = n - 1 THEN p ELSE samples[k]) = [frame |-> f, dataOffset |-> k]
    BY <1>1, <1>2 DEF SamplesOf
  <2> QED BY <2>1, <2>2 DEF SamplesOf
<1> HIDE DEF more
<1>6. ASSUME n < Stream[f].size PROVE IsCollected(f, n - 1)'
  <2>1. frameHeader' = frameHeader /\ nativeBuffer' = [nativeBuffer EXCEPT !.samples = more]
    BY <1>1, <1>3, <1>4, <1>6 DEF AddSamples, more
  <2>2. nativeBuffer'.isNull = FALSE /\ nativeBuffer'.samples = more
    BY <1>2, <2>1 DEF IInv, FrameStateSound, TypeOK
  <2> QED BY <1>2, <1>5, <2>1, <2>2 DEF IsCollected, SamplesOf
<1>7. ASSUME n = Stream[f].size PROVE IsPublished(f)'
  <2> DEFINE frame == [number |-> nextFrameIndex, parts |-> <<frameHeader>> \o more]
  <2>1. frames' = Append(frames, frame)
    BY <1>1, <1>3, <1>4, <1>7 DEF AddSamples, PackageFrame, more
  <2>2. frames \in Seq(PublishedFrame)
    BY DEF IInv, FrameStateSound, TypeOK, PublishedFrame
  <2>3. frame.parts = <<frameHeader>> \o more
    OBVIOUS
  <2> HIDE DEF frame
  <2>4. Len(frames) + 1 \in DOMAIN frames' /\ frames'[Len(frames) + 1] = frame
    BY <2>1, <2>2
  <2>5. <<frameHeader>> \o more = AllPartsOf(f)
    <3>1. <<frameHeader>> \o more = [k \in 1 .. n |-> IF k = 1 THEN frameHeader ELSE more[k - 1]]
      BY <1>1, <1>5 DEF SamplesOf
    <3>2. \A k \in 1 .. n : (IF k = 1 THEN frameHeader ELSE more[k - 1])
                               = [frame |-> f, dataOffset |-> k - 1]
      BY <1>1, <1>2, <1>5 DEF SamplesOf
    <3> QED BY <1>7, <3>1, <3>2 DEF AllPartsOf
  <2> QED BY <2>3, <2>4, <2>5 DEF IsPublished, AllPartsOf
<1> QED BY <1>6, <1>7

\* What a datagram does to the frame it is the next part of.
LEMMA PartCollected ==
    ASSUME IInv, Collected, steady, NEW p \in Packets, ReceivePacket(p),
           NEW f \in DOMAIN Stream, Stream[f].header, NEW n \in 1 .. Stream[f].size,
           CameTo(f, n, delivered \cup {p})
    PROVE  /\ n < Stream[f].size => IsCollected(f, n - 1)'
           /\ n = Stream[f].size => IsPublished(f)'
<1>1. /\ \A q \in delivered : SentBefore(q, p)
      /\ ReceivePacketPayload(p)
      /\ delivered \in SUBSET Packets
  BY DEF ReceivePacket, Transmit, IInv, FrameStateSound, TypeOK
<1>2. /\ p = [frame |-> f, dataOffset |-> n - 1]
      /\ n > 1 => CameTo(f, n - 1, delivered)
  BY <1>1, LastCame
<1>3. Stream[f].size \in Nat /\ Stream[f].size >= 2
  BY FrameFacts
<1>4. CASE n = 1
  BY <1>1, <1>2, <1>3, <1>4, HeaderCollected
<1>5. CASE n > 1
  <2>1. n - 1 \in 1 .. Stream[f].size - 1 /\ n \in 2 .. Stream[f].size /\ (n - 1) - 1 = n - 2
    BY <1>3, <1>5
  <2>2. IsCollected(f, n - 2)
    BY <1>2, <1>5, <2>1 DEF Collected
  <2> QED BY <1>1, <1>2, <2>1, <2>2, NextPartCollected
<1> QED BY <1>4, <1>5

LEMMA StepCollected == IInv /\ Collected /\ [Next]_vars => Collected'
<1> SUFFICES ASSUME IInv, Collected, [Next]_vars PROVE Collected'
  OBVIOUS
<1>1. ASSUME NEW p \in Packets, ReceivePacket(p) PROVE Collected'
  <2>1. steady' = steady /\ (steady => delivered' = delivered \cup {p})
    BY <1>1 DEF ReceivePacket, Transmit
  <2> SUFFICES ASSUME steady, NEW f \in DOMAIN Stream, Stream[f].header
               PROVE  /\ \A n \in 1 .. Stream[f].size - 1 :
                             CameTo(f, n, delivered') => IsCollected(f, n - 1)'
                      /\ AllDelivered(f)' => IsPublished(f)'
    BY <2>1 DEF Collected, CameTo, SentBefore
  <2>2. Stream[f].size \in Nat /\ Stream[f].size >= 2
    BY FrameFacts
  <2>3. ASSUME NEW n \in 1 .. Stream[f].size - 1, CameTo(f, n, delivered')
        PROVE  IsCollected(f, n - 1)'
    <3>1. n \in 1 .. Stream[f].size /\ n < Stream[f].size
      BY <2>2
    <3> QED BY <1>1, <2>1, <2>3, <3>1, PartCollected
  <2>4. ASSUME AllDelivered(f)' PROVE IsPublished(f)'
    <3>1. CASE AllDelivered(f)
      BY <3>1, PublishedStays DEF Collected
    <3>2. CASE ~AllDelivered(f)
      <4>1. \A q \in Packets : q.frame = f => q \in delivered \cup {p}
        BY <2>1, <2>4 DEF AllDelivered
      <4>2. p.frame = f
        BY <3>2, <4>1 DEF AllDelivered
      <4>3. CameTo(f, Stream[f].size, delivered \cup {p})
        BY <1>1, <4>1, <4>2, AllCame DEF ReceivePacket, Transmit, IInv, FrameStateSound, TypeOK
      <4> QED BY <1>1, <2>2, <4>3, PartCollected
    <3> QED BY <3>1, <3>2
  <2> QED BY <2>3, <2>4
<1>2. CASE ReceiveInvalidPacket
  BY <1>2 DEF ReceiveInvalidPacket, linkVars, Collected
<1>3. CASE UNCHANGED vars
  BY <1>3 DEF vars, linkVars, accumulatorVars, Collected, CameTo, SentBefore, IsCollected,
              IsPublished, AllDelivered, SamplesOf, AllPartsOf
<1> QED BY <1>1, <1>2, <1>3 DEF Next

\* On a link that only loses datagrams, a frame with a valid header all of whose
\* parts arrive is published, whatever became of the frames before it.
THEOREM NoOtherFrameIsLost == Spec => []NothingElseLost
<1>1. Collected => NothingElseLost
  BY DEF Collected, NothingElseLost, IsPublished
<1>2. IInv /\ [Next]_vars => IInv'
  BY StepSound
<1> QED BY <1>1, <1>2, InitIInv, InitCollected, StepCollected, PTL DEF Spec
=============================================================================
