---------------------- MODULE SimplifiedFrameAccumulator ----------------------
(***************************************************************************)
(* FrameAccumulator of SoundMetrics.Aris.SimplifiedProtocol (C#).          *)
(*                                                                         *)
(* The simplified protocol numbers the parts of a frame: part 0 is the     *)
(* frame header alone, parts 1, 2, ... carry the samples.  Here part k is  *)
(* the k-th unit of the frame, so a frame of size n has n - 1 sample       *)
(* parts, each of unit size: what a part of another size does to a spliced *)
(* frame, whose samples may then never add up, is not modelled.  Its       *)
(* header flag says whether ValidateFrameHeader accepts it.                *)
(*                                                                         *)
(* A datagram of the wrong payload size changes nothing: that step is a    *)
(* stutter.                                                                *)
(***************************************************************************)
EXTENDS SonarLink

CONSTANT MaxFrames  \* bound: how many frames come out in a behaviour

ASSUME MaxFramesAssumption == MaxFrames \in Nat

\* Every frame has samples.
ASSUME SamplesAssumption == \A f \in DOMAIN Stream : Stream[f].size >= 2

VARIABLES wip,             \* the WorkInProgress
          frameHeader,     \* the header received last, as the part it came in
          nativeBuffer,    \* the samples of the frame in progress
          nextFrameIndex,  \* the number the next frame will get
          frames           \* what frameSubject has published

accumulatorVars == <<wip, frameHeader, nativeBuffer, nextFrameIndex, frames>>

vars == <<linkVars, accumulatorVars>>

PartNumber(p) == p.dataOffset

FrameSize(p) == TotalDataSize(p) - 1

\* C#'s null: of an index or part number, of the buffer, of the header.
NoNumber == -1
NoBuffer == [isNull |-> TRUE, samples |-> <<>>]
NoHeader == [frame |-> 0, dataOffset |-> 0]

NewBuffer == [isNull |-> FALSE, samples |-> <<>>]

NewWork == [currentPartNumber |-> NoNumber, frameIndex |-> NoNumber,
            expectedSampleCount |-> 0, samplesReceived |-> 0]

GetNextPartNumber == wip.currentPartNumber + 1

Init == /\ LinkInit
        /\ wip = NewWork
        /\ frameHeader = NoHeader
        /\ nativeBuffer = NoBuffer
        /\ nextFrameIndex = 0
        /\ frames = <<>>

-----------------------------------------------------------------------------

Ignore == UNCHANGED accumulatorVars

\* Mutant: the samples are dropped, the work is not.
ResetBufferOnly ==
    /\ nativeBuffer' = NoBuffer
    /\ UNCHANGED <<wip, frameHeader, nextFrameIndex, frames>>

Reset == /\ wip' = NewWork
         /\ nativeBuffer' = NoBuffer
         /\ UNCHANGED <<frameHeader, nextFrameIndex, frames>>

\* Mutant: a frame in progress is not abandoned for a new one.
StartFrameWhenIdle(p) ==
    IF ~nativeBuffer.isNull THEN Ignore
    ELSE /\ wip' = [NewWork EXCEPT !.currentPartNumber = 0, !.frameIndex = FrameIndex(p),
                                   !.expectedSampleCount = FrameSize(p)]
         /\ frameHeader' = p
         /\ nativeBuffer' = NewBuffer
         /\ UNCHANGED <<nextFrameIndex, frames>>

\* Part 0 starts a frame, whatever was in progress.
StartFrame(p) ==
    /\ wip' = [NewWork EXCEPT !.currentPartNumber = 0, !.frameIndex = FrameIndex(p),
                              !.expectedSampleCount = FrameSize(p)]
    /\ frameHeader' = p
    /\ nativeBuffer' = NewBuffer
    /\ UNCHANGED <<nextFrameIndex, frames>>

PackageFrame(samples) ==
    /\ frames' = Append(frames, [number |-> nextFrameIndex,
                                 parts  |-> <<frameHeader>> \o samples])
    /\ nextFrameIndex' = nextFrameIndex + 1

AddSamples(p) ==
    LET samples == Append(nativeBuffer.samples, p)
    IN  IF wip.samplesReceived + 1 = wip.expectedSampleCount
        THEN /\ PackageFrame(samples)
             /\ wip' = NewWork
             /\ nativeBuffer' = NoBuffer
             /\ UNCHANGED frameHeader
        ELSE /\ wip' = [wip EXCEPT !.currentPartNumber = GetNextPartNumber,
                                   !.samplesReceived   = @ + 1]
             /\ nativeBuffer' = [nativeBuffer EXCEPT !.samples = samples]
             /\ UNCHANGED <<frameHeader, nextFrameIndex, frames>>

\* Mutant: a part of another frame is taken if its number fits.
ReceiveSamplesOfAnyFrame(p) ==
    IF wip.frameIndex = NoNumber THEN Reset
    ELSE IF PartNumber(p) = GetNextPartNumber THEN AddSamples(p)
    ELSE Ignore

ReceiveSamples(p) ==
    IF FrameIndex(p) # wip.frameIndex THEN Reset
    ELSE IF PartNumber(p) = GetNextPartNumber THEN AddSamples(p)
    ELSE Ignore

ReceivePacketPayload(p) ==
    IF PartNumber(p) # 0 THEN ReceiveSamples(p)
    ELSE IF HasHeader(p) THEN StartFrame(p)
    ELSE Ignore

ReceivePacket(p) ==
    /\ nextFrameIndex < MaxFrames
    /\ Transmit(p)
    /\ ReceivePacketPayload(p)

\* A datagram whose packet header cannot be read resets the accumulator.
ReceiveInvalidPacket ==
    /\ ~steady
    /\ Reset
    /\ UNCHANGED linkVars

Next == \/ \E p \in Packets : ReceivePacket(p)
        \/ ReceiveInvalidPacket

Spec == Init /\ [][Next]_vars

-----------------------------------------------------------------------------
\* Properties.

\* Every variable holds what its declaration says.
TypeOK == /\ steady \in BOOLEAN
          /\ delivered \subseteq Packets
          /\ wip \in [currentPartNumber : Nat \cup {NoNumber}, frameIndex : Nat \cup {NoNumber},
                      expectedSampleCount : Nat, samplesReceived : Nat]
          /\ frameHeader \in Packets \cup {NoHeader}
          /\ nativeBuffer \in [isNull : BOOLEAN, samples : Seq(Packets)]
          /\ nextFrameIndex \in Nat
          /\ frames \in Seq([number : Nat, parts : Seq(Packets)])

\* The four pieces of state that together say where a frame stands never come
\* apart: the buffer is there exactly while a frame is in progress, it holds as
\* many samples as were counted, they are its first parts, the header is that
\* of the same frame, and a complete frame never stays behind.
WorkMatchesBuffer ==
    IF nativeBuffer.isNull
    THEN wip = NewWork
    ELSE /\ FrameIndex(frameHeader) = wip.frameIndex
         /\ FrameSize(frameHeader) = wip.expectedSampleCount
         /\ Len(nativeBuffer.samples) = wip.samplesReceived
         /\ wip.currentPartNumber = wip.samplesReceived
         /\ wip.samplesReceived < wip.expectedSampleCount
         /\ IsRunOfOneIndex(<<frameHeader>> \o nativeBuffer.samples)

\* The state of the accumulator, in type and in agreement.
FrameStateSound == TypeOK /\ WorkMatchesBuffer

\* On a link that only loses datagrams, a valid frame all of whose parts arrived
\* is published, whatever became of the frames before it.
NothingElseLost ==
    steady => \A f \in DOMAIN Stream :
                 (Stream[f].header /\ AllDelivered(f))
                     => \E k \in DOMAIN frames : frames[k].parts = AllPartsOf(f)

\* The client sees frames numbered without a gap; none has a hole or a part of a
\* frame with another index.  A frame with an index of its own is whole.  Frames
\* of two runs of the sonar that share an index are spliced.
PublishedParts == UNION {{frames[k].parts[j] : j \in DOMAIN frames[k].parts} : k \in DOMAIN frames}

Client == INSTANCE WholeFrames WITH accepted <- PublishedParts, published <- frames

DeliversWholeFrames == Client!Spec
=============================================================================
