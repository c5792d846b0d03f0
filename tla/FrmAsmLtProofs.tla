---------------------------- MODULE FrmAsmLtProofs ----------------------------
(***************************************************************************)
(* Proofs about the lite assembler, for every stream of frames, however    *)
(* large their parts, and every number of allocations: none is leaked,     *)
(* freed twice or owned by two, and what the client is handed is a frame   *)
(* without a hole, of one frame's parts while the headers arrive.          *)
(***************************************************************************)
EXTENDS FrmAsmLt, TLAPS

Owners == {"assembler", "client", "nobody"}

CompletedFrame == [number : Nat, header : {Self}, samples : DOMAIN owner,
                   size : Nat, written : Nat, parts : Seq(Packets)]

\* The frame in progress has its header and parts that follow it but do not fill
\* its buffer; if they are its own, as much is copied as they hold.  Between frames
\* there is no buffer.
WorkInv ==
    /\ state = "Start" => pSamples = NULL
    /\ state = "Assembling" =>
           /\ frameHeader \in Packets
           /\ HasHeader(frameHeader)
           /\ samplesExpected = SampleCount(frameHeader)
           /\ nextExpectedPartNumber = Len(inserted) + 1
           /\ pSampleInsert < samplesExpected
           /\ \A j \in DOMAIN inserted : inserted[j].dataOffset = j
           /\ (\A j \in DOMAIN inserted : inserted[j].frame = frameHeader.frame)
                  => pSampleInsert = SamplesTo[frameHeader.frame][Len(inserted)]
           /\ pSamples \in DOMAIN owner \ {Self}

\* The inductive invariant.
IInv == TypeOK /\ WorkInv /\ AllocationsHaveOneOwner /\ CompletedFramesHaveNoHoles

\* What a datagram is made of.
LEMMA PacketFacts ==
    ASSUME NEW p \in Packets
    PROVE  /\ p.frame \in Nat
           /\ p.dataOffset \in Nat
           /\ TotalDataSize(p) \in Nat
           /\ TotalDataSize(p) >= 2
           /\ p.dataOffset < TotalDataSize(p)
           /\ p = [frame |-> p.frame, dataOffset |-> p.dataOffset]
<1>1. PICK f \in DOMAIN Stream : p \in [frame : {f}, dataOffset : 0 .. Stream[f].size - 1]
  BY DEF Packets
<1>2. Stream[f] \in RawFrame
  BY StreamAssumption
<1>3. Stream[f].size \in Nat
  BY <1>2 DEF RawFrame
<1>4. p.frame = f /\ p.dataOffset \in 0 .. Stream[f].size - 1
  BY <1>1
<1>5. DOMAIN Stream \subseteq Nat
  BY StreamAssumption
<1> QED BY <1>1, <1>3, <1>4, <1>5, SamplesAssumption DEF TotalDataSize

\* How many samples frames and parts have.
LEMMA SampleFacts ==
    ASSUME NEW p \in Packets
    PROVE  /\ SampleCount(p) \in Nat \ {0}
           /\ SampleCount(p) = SamplesTo[p.frame][Stream[p.frame].size - 1]
           /\ SamplesTo[p.frame][0] = 0
           /\ p.dataOffset # 0 =>
                  /\ PartSize(p) \in Nat
                  /\ SamplesTo[p.frame][p.dataOffset - 1] \in Nat
                  /\ SamplesTo[p.frame][p.dataOffset] \in Nat
                  /\ SamplesTo[p.frame][p.dataOffset - 1] + PartSize(p)
                         = SamplesTo[p.frame][p.dataOffset]
                  /\ p.dataOffset < Stream[p.frame].size - 1
                         <=> SamplesTo[p.frame][p.dataOffset] < SampleCount(p)
<1>1. PICK f \in DOMAIN Stream : p \in [frame : {f}, dataOffset : 0 .. Stream[f].size - 1]
  BY DEF Packets
<1> DEFINE last == Stream[f].size - 1
           to   == SamplesTo[f]
           o    == p.dataOffset
<1>2. /\ Stream[f].size \in Nat /\ Stream[f].size >= 2
      /\ to \in [0 .. last -> Nat] /\ to[0] = 0
      /\ \A m, n \in 0 .. last : m < n => to[m] < to[n]
  <2>1. Stream[f] \in RawFrame
    BY StreamAssumption
  <2> QED BY <2>1, SamplesAssumption DEF RawFrame
<1>3. /\ p.frame = f /\ o \in 0 .. last
      /\ SampleCount(p) = to[last]
      /\ PartSize(p) = to[o] - to[o - 1]
  BY <1>1 DEF SampleCount, PartSize
<1>4. /\ last \in Nat \ {0} /\ last \in 0 .. last /\ 0 \in 0 .. last /\ 0 < last
  BY <1>2
<1> HIDE DEF last, to, o
<1>5. to[last] \in Nat /\ to[last] # 0
  BY <1>2, <1>4
<1>6. ASSUME o # 0
      PROVE  /\ PartSize(p) \in Nat /\ to[o - 1] \in Nat /\ to[o] \in Nat
             /\ to[o - 1] + PartSize(p) = to[o]
             /\ o < last <=> to[o] < to[last]
  <2>1. o - 1 \in 0 .. last /\ o \in 0 .. last /\ o - 1 < o
    BY <1>3, <1>4, <1>6
  <2>2. to[o - 1] \in Nat /\ to[o] \in Nat /\ to[o - 1] < to[o]
    BY <1>2, <2>1
  <2>3. o < last => to[o] < to[last]
    BY <1>2, <1>4, <2>1
  <2>4. o < last \/ o = last
    BY <1>4, <2>1
  <2> QED BY <1>3, <1>5, <2>2, <2>3, <2>4
<1> QED BY <1>2, <1>3, <1>5, <1>6 DEF last, to, o

LEMMA InitIInv == Init => IInv
BY DEF Init, LinkInit, SmcInitFrameAssembler, IInv, TypeOK, WorkInv, NULL, NoHeader, Self,
       AllocationsHaveOneOwner, CompletedFramesHaveNoHoles

\* Freeing its buffer leaves the assembler with itself, and the client's alone.
LEMMA FreedFacts ==
    ASSUME TypeOK, WorkInv, AllocationsHaveOneOwner, state # "freed"
    PROVE  /\ Freed(pSamples) \in Seq(Owners)
           /\ DOMAIN Freed(pSamples) = DOMAIN owner
           /\ Self \in DOMAIN owner
           /\ \A a \in DOMAIN owner : Freed(pSamples)[a] = "assembler" <=> a = Self
           /\ \A a \in DOMAIN owner : Freed(pSamples)[a] = "client" <=> owner[a] = "client"
<1>1. owner \in Seq(Owners)
  BY DEF TypeOK, Owners
<1>2. CASE state = "Start"
  <2>1. Freed(pSamples) = owner
    BY <1>2 DEF WorkInv, Freed
  <2>2. {a \in DOMAIN owner : owner[a] = "assembler"} = {Self}
    BY <1>2 DEF AllocationsHaveOneOwner
  <2> QED BY <1>1, <2>1, <2>2
<1>3. CASE state = "Assembling"
  <2>1. {a \in DOMAIN owner : owner[a] = "assembler"} = {Self, pSamples} /\ pSamples # Self
    BY <1>3 DEF WorkInv, AllocationsHaveOneOwner
  <2>2. pSamples \in DOMAIN owner /\ owner[pSamples] = "assembler" /\ Self \in DOMAIN owner
    BY <2>1
  <2>3. pSamples # NULL
    BY <1>1, <2>2 DEF NULL
  <2>4. Freed(pSamples) = [owner EXCEPT ![pSamples] = "nobody"]
    BY <2>3 DEF Freed
  <2>5. [owner EXCEPT ![pSamples] = "nobody"] \in Seq(Owners)
    BY <1>1, <2>2 DEF Owners
  <2> QED BY <2>1, <2>2, <2>4, <2>5
<1> QED BY <1>2, <1>3 DEF TypeOK

\* What was completed stays so when the allocations grow.
LEMMA CompletedStays ==
    ASSUME TypeOK, UNCHANGED completed, DOMAIN owner \subseteq DOMAIN owner'
    PROVE  completed' \in Seq(CompletedFrame')
<1>1. CompletedFrame \subseteq CompletedFrame'
  BY DEF CompletedFrame
<1>2. completed \in Seq(CompletedFrame)
  BY DEF TypeOK, CompletedFrame
<1> QED BY <1>1, <1>2

LEMMA HeaderIsOwn ==
    ASSUME TypeOK, NEW k \in DOMAIN completed
    PROVE  completed[k].header = Self /\ completed[k].parts \in Seq(Packets)
<1>1. completed \in Seq(CompletedFrame)
  BY DEF TypeOK, CompletedFrame
<1>2. completed[k] \in CompletedFrame
  BY <1>1
<1> QED BY <1>2 DEF CompletedFrame

LEMMA SameCompleted ==
    ASSUME UNCHANGED completed, CompletedFramesHaveNoHoles
    PROVE  CompletedFramesHaveNoHoles'
BY DEF CompletedFramesHaveNoHoles, HasHeader, SampleCount, PartNumber, IsOfOneFrame, AllPartsOf

\* Part 0 with a header begins a frame, whatever the assembler owned before.
LEMMA BeginFrameSound ==
    ASSUME IInv, NEW p \in Packets, HasHeader(p), NEW owners \in Seq(Owners),
           DOMAIN owners = DOMAIN owner,
           Self \in DOMAIN owner,
           \A a \in DOMAIN owner : owners[a] = "assembler" <=> a = Self,
           \A a \in DOMAIN owner : owners[a] = "client" <=> owner[a] = "client",
           BeginFrame(p, owners), steady' \in BOOLEAN, delivered' \subseteq Packets
    PROVE  IInv'
<1>1. /\ state' = "Assembling"
      /\ frameHeader' = p
      /\ samplesExpected' = SampleCount(p)
      /\ pSampleInsert' = 0
      /\ owner' = Append(owners, "assembler")
      /\ pSamples' = Len(owners) + 1
      /\ inserted' = <<>>
      /\ nextExpectedPartNumber' = 1
      /\ UNCHANGED <<nextFrameNumber, completed>>
  BY DEF BeginFrame
<1>2. /\ owner' \in Seq(Owners)
      /\ DOMAIN owner' = DOMAIN owner \cup {pSamples'}
      /\ pSamples' \notin DOMAIN owner /\ pSamples' # Self
      /\ owner'[pSamples'] = "assembler"
      /\ \A a \in DOMAIN owner : owner'[a] = owners[a]
  BY <1>1 DEF Owners
<1>3. completed' \in Seq(CompletedFrame')
  BY <1>1, <1>2, CompletedStays DEF IInv
<1>4. SampleCount(p) \in Nat \ {0} /\ SamplesTo[p.frame][0] = 0
  BY SampleFacts
<1>5. TypeOK'
  BY <1>1, <1>2, <1>3, <1>4 DEF IInv, TypeOK, Owners, CompletedFrame
<1>6. WorkInv'
  BY <1>1, <1>2, <1>4 DEF WorkInv, HasHeader, SampleCount
<1>7. AllocationsHaveOneOwner'
  <2>1. {a \in DOMAIN owner : owner[a] = "client"} = {a \in DOMAIN owner' : owner'[a] = "client"}
    BY <1>2
  <2>2. {a \in DOMAIN owner' : owner'[a] = "assembler"} = {Self, pSamples'}
    BY <1>2
  <2>3. \A k \in DOMAIN completed : completed[k].header = Self
    BY HeaderIsOwn DEF IInv
  <2>4. owner'[Self] # "client"
    BY <2>2
  <2> QED BY <1>1, <2>1, <2>2, <2>3, <2>4 DEF IInv, AllocationsHaveOneOwner
<1>8. CompletedFramesHaveNoHoles'
  BY <1>1, SameCompleted DEF IInv
<1> QED BY <1>5, <1>6, <1>7, <1>8 DEF IInv

\* An allocation changes hands with the last part; the frame has no hole.
LEMMA CompleteFrameSound ==
    ASSUME IInv, state = "Assembling", NEW p \in Packets, p.dataOffset = nextExpectedPartNumber,
           Completes(p), CompleteFrame(p),
           steady' \in BOOLEAN, delivered' \subseteq Packets
    PROVE  IInv'
<1> DEFINE parts == <<frameHeader>> \o Append(inserted, p)
           frame == [number  |-> nextFrameNumber,
                     header  |-> Self,
                     samples |-> pSamples,
                     size    |-> samplesExpected,
                     written |-> pSampleInsert + PartSize(p),
                     parts   |-> parts]
<1>1. /\ state' = "Start"
      /\ nextExpectedPartNumber' = 0
      /\ pSamples' = NULL
      /\ pSampleInsert' = 0
      /\ inserted' = <<>>
      /\ samplesExpected' = NoSamples
      /\ frameHeader' = frameHeader
      /\ completed' = Append(completed, frame)
      /\ nextFrameNumber' = nextFrameNumber + 1
      /\ owner' = [owner EXCEPT ![pSamples] = "client"]
  BY DEF CompleteFrame, ClearWork, HandOver
<1>2. /\ inserted \in Seq(Packets)
      /\ frameHeader \in Packets
      /\ HasHeader(frameHeader)
      /\ frameHeader.dataOffset = 0
      /\ samplesExpected = SampleCount(frameHeader)
      /\ p.dataOffset = Len(inserted) + 1
      /\ \A j \in DOMAIN inserted : inserted[j].dataOffset = j
      /\ pSamples \in DOMAIN owner /\ pSamples # Self
      /\ pSampleInsert \in Nat
  BY DEF IInv, TypeOK, WorkInv, HasHeader
<1>3. /\ parts \in Seq(Packets)
      /\ Len(parts) = Len(inserted) + 2
      /\ DOMAIN parts = 1 .. Len(inserted) + 2
      /\ parts[1] = frameHeader
      /\ parts[Len(inserted) + 2] = p
      /\ \A j \in DOMAIN inserted : parts[j + 1] = inserted[j]
  BY <1>2
<1>4. \A j \in DOMAIN parts : parts[j].dataOffset = j - 1
  <2>1. SUFFICES ASSUME NEW j \in DOMAIN parts PROVE parts[j].dataOffset = j - 1
    OBVIOUS
  <2>2. CASE j = 1
    BY <2>2, <1>2, <1>3
  <2>3. CASE j = Len(inserted) + 2
    BY <2>3, <1>2, <1>3
  <2>4. CASE j \in 2 .. Len(inserted) + 1
    <3>1. j - 1 \in DOMAIN inserted
      BY <2>4, <1>2
    <3>2. parts[j] = inserted[j - 1]
      BY <3>1, <2>4, <1>3
    <3> QED BY <3>1, <3>2, <1>2
  <2> QED BY <2>2, <2>3, <2>4, <1>2, <1>3
<1>5. /\ owner' \in Seq(Owners)
      /\ DOMAIN owner' = DOMAIN owner
      /\ owner'[pSamples] = "client"
      /\ \A a \in DOMAIN owner : a # pSamples => owner'[a] = owner[a]
  BY <1>1, <1>2 DEF IInv, TypeOK, Owners
<1>6. /\ completed \in Seq(CompletedFrame)
      /\ nextFrameNumber \in Nat
  BY DEF IInv, TypeOK, CompletedFrame
<1>7. frame \in CompletedFrame
  <2>1. samplesExpected \in Nat
    BY <1>2, SampleFacts
  <2>2. pSampleInsert + PartSize(p) \in Nat
    <3>1. PartSize(p) \in Nat
      BY <1>2, SampleFacts
    <3> QED BY <1>2, <3>1
  <2> QED BY <1>2, <1>3, <1>6, <2>1, <2>2 DEF CompletedFrame
<1>8. /\ completed' \in Seq(CompletedFrame)
      /\ DOMAIN completed' = 1 .. Len(completed) + 1
      /\ DOMAIN completed = 1 .. Len(completed)
      /\ Len(completed) \in Nat
      /\ completed'[Len(completed) + 1] = frame
      /\ \A k \in DOMAIN completed : completed'[k] = completed[k]
  BY <1>1, <1>6, <1>7
<1> HIDE DEF parts, frame
<1>9. /\ frame.samples = pSamples
      /\ frame.header = Self
      /\ frame.size = samplesExpected
      /\ frame.written = pSampleInsert + PartSize(p)
      /\ frame.parts = parts
  BY DEF frame
<1>10. TypeOK'
  <2>1. CompletedFrame' = CompletedFrame
    BY <1>5 DEF CompletedFrame
  <2>2. completed' \in Seq([number : Nat, header : {Self}, samples : DOMAIN owner',
                            size : Nat, written : Nat, parts : Seq(Packets)])
    BY <2>1, <1>8 DEF CompletedFrame
  <2>3. nextFrameNumber' \in Nat
    BY <1>1, <1>6
  <2> QED BY <1>1, <1>2, <1>5, <2>2, <2>3 DEF TypeOK, Owners
<1>11. WorkInv'
  BY <1>1 DEF WorkInv
<1>12. AllocationsHaveOneOwner'
  <2>1. /\ {a \in DOMAIN owner : owner[a] = "assembler"} = {Self, pSamples}
        /\ {a \in DOMAIN owner : owner[a] = "client"}
               = {completed[k].samples : k \in DOMAIN completed}
        /\ \A j, k \in DOMAIN completed : completed[j].samples = completed[k].samples => j = k
    BY DEF IInv, AllocationsHaveOneOwner
  <2>2. \A k \in DOMAIN completed : completed[k].samples # pSamples
    <3>1. owner[pSamples] = "assembler"
      BY <2>1
    <3>2. \A k \in DOMAIN completed : owner[completed[k].samples] = "client"
      BY <2>1
    <3> QED BY <3>1, <3>2
  <2>3. {a \in DOMAIN owner' : owner'[a] = "assembler"} = {Self}
    BY <2>1, <1>2, <1>5
  <2>4. {a \in DOMAIN owner' : owner'[a] = "client"}
            = {a \in DOMAIN owner : owner[a] = "client"} \cup {pSamples}
    BY <1>2, <1>5
  <2>5. {completed'[k].samples : k \in DOMAIN completed'}
            = {completed[k].samples : k \in DOMAIN completed} \cup {pSamples}
    BY <1>8, <1>9
  <2>6. \A j, k \in DOMAIN completed' : completed'[j].samples = completed'[k].samples => j = k
    BY <2>1, <2>2, <1>8, <1>9
  <2>7. \A k \in DOMAIN completed' : completed'[k].header = Self
    BY <1>8, <1>9, HeaderIsOwn DEF IInv
  <2>8. owner'[Self] # "client"
    BY <2>3
  <2> QED BY <2>1, <2>3, <2>4, <2>5, <2>6, <2>7, <2>8, <1>1 DEF AllocationsHaveOneOwner
<1>13. CompletedFramesHaveNoHoles'
  <2>1. ASSUME IsOfOneFrame(parts)
        PROVE  parts = AllPartsOf(parts[1].frame) /\ frame.written = frame.size
    <3> DEFINE f == frameHeader.frame
    <3>1. p.frame = f /\ \A j \in DOMAIN inserted : inserted[j].frame = f
      BY <1>2, <1>3, <2>1 DEF IsOfOneFrame
    <3>2. pSampleInsert = SamplesTo[f][p.dataOffset - 1]
      BY <1>2, <3>1 DEF IInv, WorkInv
    <3>3. /\ SampleCount(p) = samplesExpected
          /\ SampleCount(p) = SamplesTo[p.frame][Stream[p.frame].size - 1]
          /\ p.dataOffset \in Nat /\ p.dataOffset < Stream[f].size /\ Stream[f].size \in Nat
      BY <1>2, <3>1, SampleFacts, PacketFacts DEF SampleCount, TotalDataSize
    <3>4. /\ pSampleInsert + PartSize(p) = SamplesTo[f][p.dataOffset]
          /\ p.dataOffset < Stream[f].size - 1 <=> SamplesTo[f][p.dataOffset] < samplesExpected
          /\ SamplesTo[f][p.dataOffset] \in Nat
      <4>1. p.dataOffset # 0
        BY <1>2
      <4>2. /\ SamplesTo[p.frame][p.dataOffset - 1] + PartSize(p)
                   = SamplesTo[p.frame][p.dataOffset]
            /\ p.dataOffset < Stream[p.frame].size - 1
                   <=> SamplesTo[p.frame][p.dataOffset] < SampleCount(p)
            /\ SamplesTo[p.frame][p.dataOffset] \in Nat
        BY <4>1, SampleFacts
      <4> HIDE DEF f
      <4> QED BY <3>1, <3>2, <3>3, <4>2
    <3>5. samplesExpected \in Nat
      BY <1>2, SampleFacts
    <3>6. pSampleInsert + PartSize(p) >= samplesExpected
      BY DEF Completes
    <3>7. p.dataOffset = Stream[f].size - 1
      BY <3>3, <3>4, <3>5, <3>6
    <3>8. frame.written = frame.size
      BY <1>9, <3>1, <3>3, <3>4, <3>7
    <3>9. Len(parts) = Stream[f].size
      BY <1>2, <1>3, <3>3, <3>7
    <3>10. ASSUME NEW j \in DOMAIN parts
           PROVE  parts[j] = [frame |-> f, dataOffset |-> j - 1]
      <4>1. parts[j] \in Packets /\ parts[j].frame = f /\ parts[j].dataOffset = j - 1
        BY <1>2, <1>3, <1>4, <2>1 DEF IsOfOneFrame
      <4> QED BY <4>1, PacketFacts
    <3>11. parts = AllPartsOf(f)
      BY <1>3, <3>9, <3>10 DEF AllPartsOf
    <3> QED BY <1>3, <3>8, <3>11
  <2>2. /\ frame.parts # <<>> /\ HasHeader(frame.parts[1])
        /\ frame.size = SampleCount(frame.parts[1])
        /\ \A j \in DOMAIN frame.parts : PartNumber(frame.parts[j]) = j - 1
        /\ frame.written >= frame.size
    BY <1>2, <1>3, <1>4, <1>9 DEF PartNumber, Completes
  <2>3. /\ frame.parts # <<>> /\ HasHeader(frame.parts[1])
        /\ frame.size = SampleCount(frame.parts[1])
        /\ \A j \in DOMAIN frame.parts : PartNumber(frame.parts[j]) = j - 1
        /\ frame.written >= frame.size
        /\ IsOfOneFrame(frame.parts) => /\ frame.parts = AllPartsOf(frame.parts[1].frame)
                                        /\ frame.written = frame.size
    BY <2>1, <2>2, <1>9
  <2>4. \A k \in DOMAIN completed' : k \in DOMAIN completed \/ completed'[k] = frame
    BY <1>8
  <2>5. SUFFICES ASSUME NEW k \in DOMAIN completed'
                 PROVE  LET done == completed'[k]
                        IN  /\ done.parts # <<>> /\ HasHeader(done.parts[1])
                            /\ done.size = SampleCount(done.parts[1])
                            /\ \A j \in DOMAIN done.parts : PartNumber(done.parts[j]) = j - 1
                            /\ done.written >= done.size
                            /\ IsOfOneFrame(done.parts) =>
                                   /\ done.parts = AllPartsOf(done.parts[1].frame)
                                   /\ done.written = done.size
    BY DEF CompletedFramesHaveNoHoles, HasHeader, SampleCount, PartNumber, IsOfOneFrame,
           AllPartsOf
  <2>6. CASE k \in DOMAIN completed
    BY <2>6, <1>8 DEF IInv, CompletedFramesHaveNoHoles
  <2>7. CASE completed'[k] = frame
    BY <2>3, <2>7
  <2> QED BY <2>4, <2>6, <2>7
<1> QED BY <1>10, <1>11, <1>12, <1>13 DEF IInv

LEMMA InsertSamplesSound ==
    ASSUME IInv, state = "Assembling", NEW p \in Packets, p.dataOffset = nextExpectedPartNumber,
           ~Completes(p), InsertSamples(p),
           steady' \in BOOLEAN, delivered' \subseteq Packets
    PROVE  IInv'
<1>1. /\ inserted' = Append(inserted, p)
      /\ pSampleInsert' = pSampleInsert + PartSize(p)
      /\ nextExpectedPartNumber' = nextExpectedPartNumber + 1
      /\ UNCHANGED <<state, frameHeader, samplesExpected, pSamples, nextFrameNumber,
                     owner, completed>>
  BY DEF InsertSamples
<1>2. /\ inserted \in Seq(Packets) /\ nextExpectedPartNumber \in Nat /\ samplesExpected \in Int
      /\ pSampleInsert \in Nat
      /\ nextExpectedPartNumber = Len(inserted) + 1
  BY DEF IInv, TypeOK, NoSamples, WorkInv
<1>3. /\ inserted' \in Seq(Packets)
      /\ Len(inserted') = Len(inserted) + 1
      /\ \A j \in DOMAIN inserted' : inserted'[j] = IF j = Len(inserted) + 1 THEN p ELSE inserted[j]
      /\ DOMAIN inserted' = DOMAIN inserted \cup {Len(inserted) + 1}
  BY <1>1, <1>2
<1>4. PartSize(p) \in Nat
  BY <1>2, SampleFacts
<1>5. TypeOK'
  BY <1>1, <1>2, <1>3, <1>4 DEF IInv, TypeOK
<1>6. WorkInv'
  <2>1. \A j \in DOMAIN inserted' : inserted'[j].dataOffset = j
    BY <1>2, <1>3 DEF IInv, WorkInv
  <2>2. pSampleInsert' < samplesExpected'
    BY <1>1, <1>2, <1>4 DEF Completes
  <2>3. ASSUME \A j \in DOMAIN inserted' : inserted'[j].frame = frameHeader'.frame
        PROVE  pSampleInsert' = SamplesTo[frameHeader'.frame][Len(inserted')]
    <3>1. p.frame = frameHeader.frame
      BY <1>1, <1>3, <2>3
    <3>2. \A j \in DOMAIN inserted : inserted[j].frame = frameHeader.frame
      <4>1. \A j \in DOMAIN inserted : j # Len(inserted) + 1
        BY <1>2
      <4> QED BY <1>1, <1>3, <2>3, <4>1
    <3>3. pSampleInsert = SamplesTo[p.frame][p.dataOffset - 1]
      BY <1>2, <3>1, <3>2 DEF IInv, WorkInv
    <3>4. SamplesTo[p.frame][p.dataOffset - 1] + PartSize(p) = SamplesTo[p.frame][p.dataOffset]
      <4>1. p.dataOffset # 0
        BY <1>2
      <4> QED BY <4>1, SampleFacts
    <3>5. p.dataOffset = Len(inserted')
      BY <1>2, <1>3
    <3> QED BY <1>1, <3>1, <3>3, <3>4, <3>5
  <2> QED BY <1>1, <1>2, <1>3, <2>1, <2>2, <2>3 DEF IInv, WorkInv, HasHeader, SampleCount
<1>7. AllocationsHaveOneOwner'
  BY <1>1 DEF IInv, AllocationsHaveOneOwner
<1>8. CompletedFramesHaveNoHoles'
  BY <1>1, SameCompleted DEF IInv
<1> QED BY <1>5, <1>6, <1>7, <1>8 DEF IInv

LEMMA SameAssemblerSound ==
    ASSUME IInv, UNCHANGED assemblerVars, steady' \in BOOLEAN, delivered' \subseteq Packets
    PROVE  IInv'
<1>1. TypeOK'
  BY DEF IInv, TypeOK, assemblerVars
<1>2. CompletedFramesHaveNoHoles'
  BY SameCompleted DEF IInv, assemblerVars
<1>3. AllocationsHaveOneOwner'
  <2>1. /\ UNCHANGED <<state, pSamples>>
        /\ owner' = owner
        /\ completed' = completed
    BY DEF assemblerVars
  <2>2. CASE state = "Start"
    BY <2>1, <2>2 DEF IInv, AllocationsHaveOneOwner
  <2>3. CASE state = "Assembling"
    BY <2>1, <2>3 DEF IInv, AllocationsHaveOneOwner
  <2>4. CASE state = "freed"
    BY <2>1, <2>4 DEF IInv, AllocationsHaveOneOwner
  <2> QED BY <2>2, <2>3, <2>4 DEF IInv, TypeOK
<1>4. WorkInv'
  BY DEF IInv, WorkInv, assemblerVars, SampleCount, HasHeader
<1> QED BY <1>1, <1>2, <1>3, <1>4 DEF IInv

\* Part 0 without a header drops the frame in progress.
LEMMA DropSound ==
    ASSUME IInv, state = "Assembling", ClearWork, owner' = Freed(pSamples),
           UNCHANGED <<nextFrameNumber, completed>>,
           steady' \in BOOLEAN, delivered' \subseteq Packets
    PROVE  IInv'
<1>1. /\ owner' \in Seq(Owners)
      /\ DOMAIN owner' = DOMAIN owner
      /\ Self \in DOMAIN owner
      /\ \A a \in DOMAIN owner : owner'[a] = "assembler" <=> a = Self
      /\ \A a \in DOMAIN owner : owner'[a] = "client" <=> owner[a] = "client"
  BY FreedFacts DEF IInv
<1>2. completed' \in Seq(CompletedFrame')
  BY <1>1, CompletedStays DEF IInv
<1>3. TypeOK'
  BY <1>1, <1>2 DEF IInv, TypeOK, ClearWork, Owners, CompletedFrame
<1>4. AllocationsHaveOneOwner'
  <2>1. {a \in DOMAIN owner' : owner'[a] = "assembler"} = {Self}
    BY <1>1
  <2>2. {a \in DOMAIN owner' : owner'[a] = "client"} = {a \in DOMAIN owner : owner[a] = "client"}
    BY <1>1
  <2>3. \A k \in DOMAIN completed : owner'[completed[k].header] # "client"
    BY <1>1, HeaderIsOwn DEF IInv
  <2> QED BY <2>1, <2>2, <2>3 DEF IInv, AllocationsHaveOneOwner, ClearWork
<1>5. CompletedFramesHaveNoHoles'
  BY SameCompleted DEF IInv
<1> QED BY <1>3, <1>4, <1>5 DEF IInv, WorkInv, ClearWork

LEMMA FreeSound == ASSUME IInv, SmcFreeFrameAssembler PROVE IInv'
<1>1. /\ owner' \in Seq(Owners)
      /\ DOMAIN owner' = DOMAIN owner
      /\ \A a \in DOMAIN owner : owner'[a] # "assembler"
      /\ \A a \in DOMAIN owner : owner'[a] = "client" <=> owner[a] = "client"
  <2> DEFINE freed == Freed(pSamples)
  <2>1. /\ freed \in Seq(Owners) /\ DOMAIN freed = DOMAIN owner /\ Self \in DOMAIN freed
        /\ \A a \in DOMAIN owner : freed[a] = "assembler" <=> a = Self
        /\ \A a \in DOMAIN owner : freed[a] = "client" <=> owner[a] = "client"
    BY FreedFacts DEF IInv, SmcFreeFrameAssembler
  <2>2. owner' = [freed EXCEPT ![Self] = "nobody"]
    BY DEF SmcFreeFrameAssembler
  <2> HIDE DEF freed
  <2> QED BY <2>1, <2>2 DEF Owners
<1>2. completed' \in Seq(CompletedFrame')
  BY <1>1, CompletedStays DEF IInv, SmcFreeFrameAssembler
<1>3. TypeOK'
  BY <1>1, <1>2 DEF IInv, TypeOK, SmcFreeFrameAssembler, linkVars, Owners, CompletedFrame
<1>4. AllocationsHaveOneOwner'
  <2>1. {a \in DOMAIN owner' : owner'[a] = "assembler"} = {}
    BY <1>1
  <2>2. {a \in DOMAIN owner' : owner'[a] = "client"} = {a \in DOMAIN owner : owner[a] = "client"}
    BY <1>1
  <2>3. Self \in DOMAIN owner
    BY FreedFacts DEF IInv, SmcFreeFrameAssembler
  <2>4. \A k \in DOMAIN completed : owner'[completed[k].header] # "client"
    BY <1>1, <2>3, HeaderIsOwn DEF IInv, AllocationsHaveOneOwner
  <2> QED BY <2>1, <2>2, <2>4 DEF IInv, AllocationsHaveOneOwner, SmcFreeFrameAssembler
<1>5. CompletedFramesHaveNoHoles'
  BY SameCompleted DEF IInv, SmcFreeFrameAssembler
<1> QED BY <1>3, <1>4, <1>5 DEF IInv, WorkInv, SmcFreeFrameAssembler

LEMMA AddFramePartSound ==
    ASSUME IInv, NEW p \in Packets, SmcAddFramePart(p)
    PROVE  IInv'
<1>1. state # "freed" /\ steady' \in BOOLEAN /\ delivered' \subseteq Packets
  BY DEF SmcAddFramePart, Transmit, IInv, TypeOK
<1>2. CASE UNCHANGED assemblerVars
  BY <1>1, <1>2, SameAssemblerSound
<1>3. CASE state = "Start" /\ HasHeader(p) /\ BeginFrame(p, owner)
  <2>1. Self \in DOMAIN owner /\ \A a \in DOMAIN owner : owner[a] = "assembler" <=> a = Self
    BY <1>3 DEF IInv, AllocationsHaveOneOwner
  <2>2. owner \in Seq(Owners)
    BY DEF IInv, TypeOK, Owners
  <2> QED BY <1>1, <1>3, <2>1, <2>2, BeginFrameSound
<1>4. CASE state = "Assembling" /\ HasHeader(p) /\ BeginFrame(p, Freed(pSamples))
  BY <1>1, <1>4, FreedFacts, BeginFrameSound DEF IInv
<1>5. CASE state = "Assembling" /\ ClearWork /\ owner' = Freed(pSamples)
           /\ UNCHANGED <<nextFrameNumber, completed>>
  BY <1>1, <1>5, DropSound
<1>6. CASE /\ state = "Assembling" /\ p.dataOffset = nextExpectedPartNumber
           /\ Completes(p) /\ CompleteFrame(p)
  BY <1>1, <1>6, CompleteFrameSound
<1>7. CASE /\ state = "Assembling" /\ p.dataOffset = nextExpectedPartNumber
           /\ ~Completes(p) /\ InsertSamples(p)
  BY <1>1, <1>7, InsertSamplesSound
<1>8. state \in {"Start", "Assembling"}
  BY <1>1 DEF IInv, TypeOK
<1> QED BY <1>2, <1>3, <1>4, <1>5, <1>6, <1>7, <1>8
        DEF SmcAddFramePart, HandleStart, HandleAssembling, Restart, PartNumber

LEMMA NextIInv == IInv /\ [Next]_vars => IInv'
<1> SUFFICES ASSUME IInv, [Next]_vars PROVE IInv'
  OBVIOUS
<1>1. CASE \E p \in Packets : SmcAddFramePart(p)
  BY <1>1, AddFramePartSound
<1>2. CASE SmcFreeFrameAssembler
  BY <1>2, FreeSound
<1>3. CASE UNCHANGED vars
  BY <1>3, SameAssemblerSound DEF vars, linkVars, IInv, TypeOK
<1> QED BY <1>1, <1>2, <1>3 DEF Next

\* However datagrams are lost, repeated and reordered and whenever the assembler
\* is freed, every allocation has its one owner: nothing leaks, nothing is freed
\* twice, and the client owns what it was handed.
THEOREM AllocationsStaySound == Spec => []AllocationsSound
<1>1. IInv => AllocationsSound
  BY DEF IInv, AllocationsSound
<1> QED BY <1>1, InitIInv, NextIInv, PTL DEF Spec

-----------------------------------------------------------------------------
\* While headers arrive.

\* On a steady link every header that came is that of the frame in progress or of
\* an earlier one, and the parts that came later are of frames whose header did
\* not come.
SteadyWork ==
    (steady /\ state = "Assembling") =>
        /\ frameHeader \in delivered
        /\ \A q \in delivered : HasHeader(q) => q.frame <= frameHeader.frame
        /\ \A j \in DOMAIN inserted : /\ inserted[j] \in delivered
                                      /\ inserted[j].frame >= frameHeader.frame

\* A part of another frame in a frame's place is delivered, but not its header.
Headerless(p, received) == \A q \in received : HasHeader(q) => q.frame # p.frame

SteadyCompleted ==
    steady => \A k \in DOMAIN completed :
        LET parts == completed[k].parts
        IN  \A j \in DOMAIN parts : /\ parts[j] \in delivered
                                    /\ \/ parts[j].frame = parts[1].frame
                                       \/ Headerless(parts[j], delivered)

SteadyInv == SteadyWork /\ SteadyCompleted

LEMMA InitSteady == Init => SteadyInv
BY DEF Init, SmcInitFrameAssembler, SteadyInv, SteadyWork, SteadyCompleted

\* What was completed stays sound, as no header follows its frame's parts.
LEMMA CompletedStaysSteady ==
    ASSUME IInv, SteadyInv, NEW p \in Packets, Transmit(p), steady,
           NEW k \in DOMAIN completed, NEW j \in DOMAIN completed[k].parts
    PROVE  LET parts == completed[k].parts
           IN  /\ parts[j] \in delivered'
               /\ parts[j].frame = parts[1].frame \/ Headerless(parts[j], delivered')
<1> DEFINE parts == completed[k].parts
<1>1. /\ parts[j] \in delivered
      /\ parts[j].frame = parts[1].frame \/ Headerless(parts[j], delivered)
  BY DEF SteadyInv, SteadyCompleted
<1>2. delivered' = delivered \cup {p} /\ \A q \in delivered : SentBefore(q, p)
  BY DEF Transmit
<1>3. parts[j].dataOffset \in Nat
  BY <1>1, PacketFacts DEF IInv, TypeOK
<1>4. HasHeader(p) => p.frame # parts[j].frame
  <2>1. parts[j].dataOffset = j - 1
    BY DEF IInv, CompletedFramesHaveNoHoles, PartNumber
  <2>2. SentBefore(parts[j], p)
    BY <1>1, <1>2
  <2>3. p.frame \in Nat /\ p.dataOffset \in Nat
    BY PacketFacts
  <2>4. parts[j].frame \in Nat
    BY <1>1, PacketFacts DEF IInv, TypeOK
  <2>5. j \in Nat
    <3>1. completed \in Seq(CompletedFrame)
      BY DEF IInv, TypeOK, CompletedFrame
    <3>2. completed[k] \in CompletedFrame
      BY <3>1
    <3>3. parts \in Seq(Packets)
      BY <3>2 DEF CompletedFrame
    <3> QED BY <3>3
  <2>6. SUFFICES ASSUME p.dataOffset = 0, p.frame = parts[j].frame PROVE FALSE
    BY DEF HasHeader
  <2> QED BY <2>1, <2>2, <2>3, <2>4, <2>5, <2>6, <1>3 DEF SentBefore
<1>5. Headerless(parts[j], delivered) => Headerless(parts[j], delivered')
  BY <1>2, <1>4 DEF Headerless
<1> QED BY <1>1, <1>2, <1>5
LEMMA SteadyWorkStep ==
    ASSUME IInv, SteadyWork, NEW p \in Packets, SmcAddFramePart(p)
    PROVE  SteadyWork'
<1> SUFFICES ASSUME steady, state' = "Assembling" PROVE SteadyWork'
  BY DEF SteadyWork, SmcAddFramePart, Transmit
<1>1. /\ state # "freed"
      /\ delivered' = delivered \cup {p}
      /\ \A q \in delivered : SentBefore(q, p)
      /\ p.frame \in Nat
      /\ \A q \in delivered : q.frame \in Nat
  BY PacketFacts DEF SmcAddFramePart, Transmit, IInv, TypeOK
<1>2. \A q \in delivered : q.frame <= p.frame
  BY <1>1 DEF SentBefore
<1>3. CASE HasHeader(p) /\ frameHeader' = p /\ inserted' = <<>>
  <2>1. \A q \in delivered' : q.frame <= frameHeader'.frame
    BY <1>1, <1>2, <1>3
  <2> QED BY <1>1, <1>3, <2>1 DEF SteadyWork
<1>4. CASE /\ state = "Assembling" /\ frameHeader' = frameHeader /\ ~HasHeader(p)
           /\ inserted' \in {inserted, Append(inserted, p)}
  <2>1. /\ frameHeader \in delivered
        /\ \A q \in delivered : HasHeader(q) => q.frame <= frameHeader.frame
        /\ \A j \in DOMAIN inserted : /\ inserted[j] \in delivered
                                      /\ inserted[j].frame >= frameHeader.frame
    BY <1>4 DEF SteadyWork
  <2>2. \A q \in delivered' : HasHeader(q) => q.frame <= frameHeader'.frame
    BY <1>1, <1>4, <2>1
  <2>3. p.frame >= frameHeader.frame
    BY <1>1, <1>2, <2>1
  <2>4. inserted \in Seq(Packets)
    BY DEF IInv, TypeOK
  <2>5. \A j \in DOMAIN inserted' :
            \/ inserted'[j] = p
            \/ j \in DOMAIN inserted /\ inserted'[j] = inserted[j]
    <3>1. CASE inserted' = inserted
      BY <3>1
    <3>2. CASE inserted' = Append(inserted, p)
      BY <3>2, <2>4
    <3>3. inserted' = inserted \/ inserted' = Append(inserted, p)
      BY <1>4
    <3> QED BY <3>1, <3>2, <3>3
  <2>6. \A j \in DOMAIN inserted' : /\ inserted'[j] \in delivered'
                                    /\ inserted'[j].frame >= frameHeader'.frame
    BY <1>1, <1>4, <2>1, <2>3, <2>5
  <2> QED BY <1>1, <1>4, <2>1, <2>2, <2>6 DEF SteadyWork, HasHeader
<1>5. CASE state = "Start"
  BY <1>5, <1>3 DEF SmcAddFramePart, HandleStart, BeginFrame, assemblerVars
<1>6. CASE state = "Assembling"
  <2>1. nextExpectedPartNumber \in Nat /\ nextExpectedPartNumber # 0
    BY <1>6 DEF IInv, TypeOK, WorkInv
  <2>2. CASE PartNumber(p) = nextExpectedPartNumber
    BY <1>4, <1>6, <2>1, <2>2 DEF SmcAddFramePart, HandleAssembling, CompleteFrame, ClearWork,
                                  InsertSamples, HasHeader, PartNumber
  <2>3. CASE PartNumber(p) # nextExpectedPartNumber /\ PartNumber(p) = 0
    BY <1>3, <1>6, <2>3 DEF SmcAddFramePart, HandleAssembling, Restart, BeginFrame, ClearWork
  <2>4. CASE PartNumber(p) # nextExpectedPartNumber /\ PartNumber(p) # 0
    BY <1>4, <1>6, <2>4 DEF SmcAddFramePart, HandleAssembling, assemblerVars, HasHeader, PartNumber
  <2> QED BY <2>2, <2>3, <2>4
<1> QED BY <1>1, <1>5, <1>6 DEF IInv, TypeOK

\* A frame that is completed has, of other frames, only parts without a header.
LEMMA CompletesSteady ==
    ASSUME IInv, SteadyWork, steady, state = "Assembling", NEW p \in Packets, Transmit(p),
           p.dataOffset = nextExpectedPartNumber
    PROVE  LET parts == <<frameHeader>> \o Append(inserted, p)
           IN  \A j \in DOMAIN parts :
                   /\ parts[j] \in delivered'
                   /\ parts[j].frame = parts[1].frame \/ Headerless(parts[j], delivered')
<1> DEFINE parts == <<frameHeader>> \o Append(inserted, p)
<1>1. /\ delivered' = delivered \cup {p}
      /\ \A q \in delivered : SentBefore(q, p)
      /\ p.frame \in Nat
      /\ \A q \in delivered : q.frame \in Nat
  BY PacketFacts DEF Transmit, IInv, TypeOK
<1>2. /\ frameHeader \in delivered
      /\ \A q \in delivered : HasHeader(q) => q.frame <= frameHeader.frame
      /\ \A j \in DOMAIN inserted : /\ inserted[j] \in delivered
                                    /\ inserted[j].frame >= frameHeader.frame
  BY DEF SteadyWork
<1>3. ~HasHeader(p)
  BY DEF HasHeader, IInv, TypeOK, WorkInv
<1>4. p.frame >= frameHeader.frame
  BY <1>1, <1>2 DEF SentBefore
<1>5. inserted \in Seq(Packets) /\ frameHeader \in Packets
  BY DEF IInv, TypeOK, WorkInv
<1>6. /\ parts[1] = frameHeader
      /\ \A j \in DOMAIN parts : \/ parts[j] \in {frameHeader, p}
                                 \/ \E i \in DOMAIN inserted : parts[j] = inserted[i]
  <2>1. SUFFICES ASSUME NEW j \in DOMAIN parts
                 PROVE  \/ parts[j] \in {frameHeader, p}
                        \/ \E i \in DOMAIN inserted : parts[j] = inserted[i]
    BY <1>5
  <2>2. j \in 1 .. Len(inserted) + 2
    BY <1>5
  <2>3. CASE j = 1
    BY <2>3, <1>5
  <2>4. CASE j = Len(inserted) + 2
    BY <2>4, <1>5
  <2>5. CASE j \in 2 .. Len(inserted) + 1
    <3>1. j - 1 \in DOMAIN inserted
      BY <2>5, <1>5
    <3>2. parts[j] = inserted[j - 1]
      BY <2>5, <1>5
    <3> QED BY <3>1, <3>2
  <2> QED BY <2>2, <2>3, <2>4, <2>5, <1>5
<1> HIDE DEF parts
<1>7. \A j \in DOMAIN parts : parts[j] \in delivered' /\ parts[j].frame >= frameHeader.frame
  BY <1>1, <1>2, <1>4, <1>6
<1>8. \A q \in delivered' : HasHeader(q) => q.frame <= frameHeader.frame
  BY <1>1, <1>2, <1>3
<1>9. \A q \in delivered' : q.frame \in Nat
  BY <1>1
<1>10. ASSUME NEW j \in DOMAIN parts, parts[j].frame # frameHeader.frame
       PROVE  Headerless(parts[j], delivered')
  BY <1>7, <1>8, <1>9, <1>10, <1>1, <1>2 DEF Headerless
<1> QED BY <1>6, <1>7, <1>10 DEF parts

LEMMA SteadyCompletedStep ==
    ASSUME IInv, SteadyInv, NEW p \in Packets, SmcAddFramePart(p)
    PROVE  SteadyCompleted'
<1>1. Transmit(p) /\ state # "freed" /\ UNCHANGED steady
  BY DEF SmcAddFramePart, Transmit
<1> SUFFICES ASSUME steady, NEW k \in DOMAIN completed', NEW j \in DOMAIN completed'[k].parts
             PROVE  LET parts == completed'[k].parts
                    IN  /\ parts[j] \in delivered'
                        /\ parts[j].frame = parts[1].frame \/ Headerless(parts[j], delivered')
  BY <1>1 DEF SteadyCompleted
<1>2. CASE completed' = completed
  BY <1>1, <1>2, CompletedStaysSteady
<1>3. CASE CompleteFrame(p) /\ state = "Assembling" /\ p.dataOffset = nextExpectedPartNumber
  <2> DEFINE frame == [number  |-> nextFrameNumber,
                       header  |-> Self,
                       samples |-> pSamples,
                       size    |-> samplesExpected,
                       written |-> pSampleInsert + PartSize(p),
                       parts   |-> <<frameHeader>> \o Append(inserted, p)]
  <2>1. completed' = Append(completed, frame)
    BY <1>3 DEF CompleteFrame, HandOver
  <2>2. completed \in Seq(CompletedFrame)
    BY DEF IInv, TypeOK, CompletedFrame
  <2>5. frame.parts = <<frameHeader>> \o Append(inserted, p)
    OBVIOUS
  <2> HIDE DEF frame
  <2>3. CASE k \in DOMAIN completed
    <3>1. completed'[k] = completed[k]
      BY <2>1, <2>2, <2>3
    <3> QED BY <3>1, <2>3, <1>1, CompletedStaysSteady
  <2>4. CASE k = Len(completed) + 1
    <3>1. completed'[k].parts = <<frameHeader>> \o Append(inserted, p)
      BY <2>1, <2>2, <2>4, <2>5
    <3> QED BY <3>1, <1>1, <1>3, CompletesSteady DEF SteadyInv
  <2> QED BY <2>1, <2>2, <2>3, <2>4
<1>4. state \in {"Start", "Assembling"}
  BY <1>1 DEF IInv, TypeOK
<1> QED BY <1>2, <1>3, <1>4
        DEF SmcAddFramePart, HandleStart, HandleAssembling, Restart, PartNumber, BeginFrame,
            InsertSamples, assemblerVars

LEMMA NextSteady == IInv /\ SteadyInv /\ [Next]_vars => SteadyInv'
<1> SUFFICES ASSUME IInv, SteadyInv, [Next]_vars PROVE SteadyInv'
  OBVIOUS
<1>1. CASE \E p \in Packets : SmcAddFramePart(p)
  BY <1>1, SteadyWorkStep, SteadyCompletedStep DEF SteadyInv
<1>2. CASE SmcFreeFrameAssembler
  BY <1>2 DEF SmcFreeFrameAssembler, linkVars, SteadyInv, SteadyWork, SteadyCompleted,
              Headerless, HasHeader
<1>3. CASE UNCHANGED vars
  BY <1>3 DEF vars, linkVars, assemblerVars, SteadyInv, SteadyWork, SteadyCompleted,
              Headerless, HasHeader
<1> QED BY <1>1, <1>2, <1>3 DEF Next

LEMMA SteadyFramesAreSafe ==
    ASSUME IInv, SteadyInv
    PROVE  SafeWhileHeadersArrive
<1> SUFFICES ASSUME \A p \in delivered : /\ Stream[p.frame].header
                                         /\ [frame |-> p.frame, dataOffset |-> 0] \in delivered,
                    steady, NEW k \in DOMAIN completed
             PROVE  IsWhole(completed[k].parts) /\ completed[k].written = completed[k].size
  BY DEF SafeWhileHeadersArrive, MissingPartsLoseTheFrame
<1> DEFINE parts == completed[k].parts
<1>1. ASSUME NEW j \in DOMAIN parts PROVE parts[j].frame = parts[1].frame
  <2>1. /\ parts[j] \in delivered
        /\ parts[j].frame = parts[1].frame \/ Headerless(parts[j], delivered)
    BY DEF SteadyInv, SteadyCompleted
  <2> DEFINE first == [frame |-> parts[j].frame, dataOffset |-> 0]
  <2>2. first \in delivered /\ HasHeader(first) /\ first.frame = parts[j].frame
    BY <2>1 DEF HasHeader
  <2> QED BY <2>1, <2>2 DEF Headerless
<1>2. IsOfOneFrame(parts)
  BY <1>1 DEF IsOfOneFrame
<1>3. /\ parts # <<>>
      /\ parts = AllPartsOf(parts[1].frame)
      /\ completed[k].written = completed[k].size
  BY <1>2 DEF IInv, CompletedFramesHaveNoHoles
<1> QED BY <1>3 DEF IsWhole

\* Whatever the link does the client gets no frame with a hole; a buffer is overrun,
\* or its frame has another number of parts, only with parts of several frames.  On
\* a link that only loses, and no frame's header, every frame is whole.
THEOREM CompletedFramesStaySound == Spec => []CompletedFramesSound
<1>1. IInv /\ SteadyInv => CompletedFramesSound
  BY SteadyFramesAreSafe DEF IInv, CompletedFramesSound
<1> QED BY <1>1, InitIInv, NextIInv, InitSteady, NextSteady, PTL DEF Spec

-----------------------------------------------------------------------------
\* What a link that only loses datagrams has delivered of a frame.

\* The first n parts of the raw frame f came, and nothing that is sent later.
CameTo(f, n, received) ==
    /\ \A o \in 0 .. n - 1 : [frame |-> f, dataOffset |-> o] \in received
    /\ \A q \in received : SentBefore(q, [frame |-> f, dataOffset |-> n])

LEMMA PacketOf ==
    ASSUME NEW f \in DOMAIN Stream, NEW o \in 0 .. Stream[f].size - 1
    PROVE  [frame |-> f, dataOffset |-> o] \in Packets
BY DEF Packets

LEMMA FrameFacts ==
    ASSUME NEW f \in DOMAIN Stream
    PROVE  f \in Nat /\ Stream[f].size \in Nat /\ Stream[f].size >= 2
<1>1. Stream[f] \in RawFrame /\ DOMAIN Stream \subseteq Nat
  BY StreamAssumption
<1> QED BY <1>1, SamplesAssumption DEF RawFrame

LEMMA PacketFields ==
    ASSUME NEW p \in Packets
    PROVE  /\ p.frame \in DOMAIN Stream /\ p.frame \in Nat
           /\ p.dataOffset \in Nat /\ p.dataOffset < Stream[p.frame].size
           /\ p = [frame |-> p.frame, dataOffset |-> p.dataOffset]
<1>1. PICK f \in DOMAIN Stream : p \in [frame : {f}, dataOffset : 0 .. Stream[f].size - 1]
  BY DEF Packets
<1> QED BY <1>1, FrameFacts

\* What came last is the n-th part, if the first n parts came and nothing later.
LEMMA LastCame ==
    ASSUME NEW received \in SUBSET Packets, NEW p \in Packets,
           \A q \in received : SentBefore(q, p),
           NEW f \in DOMAIN Stream, NEW n \in 1 .. Stream[f].size,
           CameTo(f, n, received \cup {p})
    PROVE  /\ p = [frame |-> f, dataOffset |-> n - 1]
           /\ n > 1 => CameTo(f, n - 1, received)
<1>1. /\ f \in Nat /\ Stream[f].size \in Nat /\ n \in Nat
      /\ p.frame \in Nat /\ p.dataOffset \in Nat
      /\ p = [frame |-> p.frame, dataOffset |-> p.dataOffset]
  BY FrameFacts, PacketFields
<1> DEFINE last == [frame |-> f, dataOffset |-> n - 1]
<1>2. last \in received \cup {p}
  BY <1>1 DEF CameTo
<1>3. SentBefore(p, [frame |-> f, dataOffset |-> n])
  BY DEF CameTo
<1>4. p = last
  <2>1. CASE last \in received
    <3>1. SentBefore(last, p)
      BY <2>1
    <3> QED BY <1>1, <1>3, <3>1 DEF SentBefore
  <2> QED BY <1>2, <2>1
<1>5. ASSUME n > 1 PROVE CameTo(f, n - 1, received)
  <2>1. ASSUME NEW o \in 0 .. (n - 1) - 1
        PROVE  [frame |-> f, dataOffset |-> o] \in received
    <3>1. o \in 0 .. n - 1 /\ o # n - 1
      BY <1>1
    <3>2. [frame |-> f, dataOffset |-> o] \in received \cup {p}
      BY <3>1 DEF CameTo
    <3> QED BY <1>4, <3>1, <3>2
  <2>2. \A q \in received : SentBefore(q, last)
    BY <1>4
  <2> HIDE DEF last
  <2>3. \A q \in received : SentBefore(q, [frame |-> f, dataOffset |-> n - 1])
    BY <2>2 DEF last
  <2> QED BY <2>1, <2>3 DEF CameTo
<1> QED BY <1>4, <1>5

\* When the last part of a frame completes it, all of it came and nothing later.
LEMMA AllCame ==
    ASSUME NEW received \in SUBSET Packets, NEW p \in Packets,
           \A q \in received : SentBefore(q, p),
           NEW f \in DOMAIN Stream, p.frame = f,
           \A q \in Packets : q.frame = f => q \in received \cup {p}
    PROVE  CameTo(f, Stream[f].size, received \cup {p})
<1>1. /\ f \in Nat /\ Stream[f].size \in Nat /\ Stream[f].size >= 2
      /\ p.dataOffset \in Nat /\ p.dataOffset < Stream[f].size
  BY FrameFacts, PacketFields
<1>2. ASSUME NEW o \in 0 .. Stream[f].size - 1
      PROVE  [frame |-> f, dataOffset |-> o] \in received \cup {p}
  <2> DEFINE q == [frame |-> f, dataOffset |-> o]
  <2>1. q \in Packets /\ q.frame = f
    BY PacketOf
  <2> HIDE DEF q
  <2>2. q \in received \cup {p}
    BY <2>1
  <2> QED BY <2>2 DEF q
<1>3. ASSUME NEW q \in received \cup {p}
      PROVE  SentBefore(q, [frame |-> f, dataOffset |-> Stream[f].size])
  <2>1. q = p \/ SentBefore(q, p)
    OBVIOUS
  <2>2. q.frame \in Nat /\ q.dataOffset \in Nat
    BY PacketFields
  <2> QED BY <1>1, <2>1, <2>2 DEF SentBefore
<1> QED BY <1>2, <1>3 DEF CameTo

-----------------------------------------------------------------------------
\* The losses of one frame cost no other.

SamplesOf(f, n) == [k \in 1 .. n |-> [frame |-> f, dataOffset |-> k]]

IsCollected(f, n) == /\ state = "Assembling"
                     /\ frameHeader = [frame |-> f, dataOffset |-> 0]
                     /\ inserted = SamplesOf(f, n)

IsCompleted(f) == \E k \in DOMAIN completed : completed[k].parts = AllPartsOf(f)

\* A frame of which nothing was lost yet is in progress, or completed.
Collected ==
    (steady /\ state # "freed") => \A f \in DOMAIN Stream :
        Stream[f].header =>
            /\ \A n \in 1 .. Stream[f].size - 1 : CameTo(f, n, delivered) => IsCollected(f, n - 1)
            /\ AllDelivered(f) => IsCompleted(f)

LEMMA InitCollected == Init => Collected
<1> SUFFICES ASSUME Init, NEW f \in DOMAIN Stream
             PROVE  /\ \A n \in 1 .. Stream[f].size - 1 : ~CameTo(f, n, delivered)
                    /\ ~AllDelivered(f)
  BY DEF Collected
<1>1. delivered = {}
  BY DEF Init, LinkInit
<1>2. Stream[f].size \in Nat /\ Stream[f].size >= 2
  BY FrameFacts
<1>3. ~AllDelivered(f)
  <2> DEFINE first == [frame |-> f, dataOffset |-> 0]
  <2>1. first \in Packets /\ first.frame = f
    BY <1>2, PacketOf
  <2> HIDE DEF first
  <2> QED BY <1>1, <2>1 DEF AllDelivered
<1>4. ASSUME NEW n \in 1 .. Stream[f].size - 1, CameTo(f, n, delivered) PROVE FALSE
  <2>1. 0 \in 0 .. n - 1
    BY <1>2
  <2> QED BY <1>1, <1>4, <2>1 DEF CameTo
<1> QED BY <1>3, <1>4

\* What was completed stays so.
LEMMA CompletedIsKept ==
    ASSUME IInv, NEW p \in Packets, SmcAddFramePart(p), NEW f \in DOMAIN Stream, IsCompleted(f)
    PROVE  IsCompleted(f)'
<1>1. PICK k \in DOMAIN completed : completed[k].parts = AllPartsOf(f)
  BY DEF IsCompleted
<1>2. completed \in Seq(CompletedFrame)
  BY DEF IInv, TypeOK, CompletedFrame
<1>3. completed' = completed \/ \E frame : completed' = Append(completed, frame)
  BY DEF SmcAddFramePart, HandleStart, HandleAssembling, Restart, BeginFrame, CompleteFrame,
         HandOver, InsertSamples, assemblerVars
<1>4. k \in DOMAIN completed' /\ completed'[k] = completed[k]
  <2>1. CASE completed' = completed
    BY <2>1
  <2>2. ASSUME NEW frame, completed' = Append(completed, frame)
        PROVE  k \in DOMAIN completed' /\ completed'[k] = completed[k]
    BY <1>2, <2>2
  <2> QED BY <1>3, <2>1, <2>2
<1> QED BY <1>1, <1>4 DEF IsCompleted, AllPartsOf

\* The header of a frame begins it, whatever was in progress.
LEMMA HeaderCollected ==
    ASSUME IInv, NEW f \in DOMAIN Stream, Stream[f].header,
           NEW p \in Packets, p = [frame |-> f, dataOffset |-> 0],
           SmcAddFramePart(p)
    PROVE  IsCollected(f, 0)'
<1>1. PartNumber(p) = 0 /\ HasHeader(p)
  BY DEF PartNumber, HasHeader
<1>2. state = "Assembling" => PartNumber(p) # nextExpectedPartNumber
  BY <1>1 DEF IInv, TypeOK, WorkInv
<1>3. PICK owners : BeginFrame(p, owners)
  BY <1>1, <1>2 DEF SmcAddFramePart, HandleStart, HandleAssembling, Restart, IInv, TypeOK
<1>4. SamplesOf(f, 0) = <<>>
  BY DEF SamplesOf
<1> QED BY <1>3, <1>4 DEF BeginFrame, IsCollected, SamplesOf

\* One more part of a frame of which nothing was lost.
LEMMA NextPartCollected ==
    ASSUME IInv, NEW f \in DOMAIN Stream, NEW n \in 2 .. Stream[f].size, IsCollected(f, n - 2),
           NEW p \in Packets, p = [frame |-> f, dataOffset |-> n - 1],
           SmcAddFramePart(p)
    PROVE  /\ n < Stream[f].size => IsCollected(f, n - 1)'
           /\ n = Stream[f].size => IsCompleted(f)'
<1> DEFINE more == Append(inserted, p)
<1>1. /\ f \in Nat /\ n \in Nat /\ Stream[f].size \in Nat
      /\ p.frame = f /\ p.dataOffset = n - 1 /\ n - 1 # 0
  BY FrameFacts
<1>2. /\ state = "Assembling"
      /\ frameHeader = [frame |-> f, dataOffset |-> 0]
      /\ inserted = SamplesOf(f, n - 2)
      /\ Len(inserted) = n - 2
  BY <1>1 DEF IsCollected, SamplesOf, IInv, TypeOK
<1>3. /\ samplesExpected = SampleCount(p)
      /\ nextExpectedPartNumber = n - 1
      /\ pSampleInsert = SamplesTo[f][n - 2]
  <2>1. \A j \in DOMAIN inserted : inserted[j].frame = frameHeader.frame
    BY <1>2 DEF SamplesOf
  <2> QED BY <1>1, <1>2, <2>1 DEF IInv, WorkInv, SampleCount
<1>4. /\ Completes(p) <=> n = Stream[f].size
      /\ IF Completes(p) THEN CompleteFrame(p) ELSE InsertSamples(p)
  <2>1. /\ SampleCount(p) \in Nat
        /\ SamplesTo[f][n - 2] + PartSize(p) = SamplesTo[f][n - 1]
        /\ n - 1 < Stream[f].size - 1 <=> SamplesTo[f][n - 1] < SampleCount(p)
        /\ SamplesTo[f][n - 1] \in Nat
    <3>1. p.dataOffset - 1 = n - 2
      BY <1>1
    <3> QED BY <1>1, <3>1, SampleFacts
  <2>2. Completes(p) <=> n = Stream[f].size
    BY <1>1, <1>3, <2>1 DEF Completes
  <2> QED BY <1>1, <1>2, <1>3, <2>2 DEF SmcAddFramePart, HandleAssembling, PartNumber
<1>5. more = SamplesOf(f, n - 1)
  <2>1. more = [k \in 1 .. n - 1 |-> IF k = n - 1 THEN p ELSE inserted[k]]
    BY <1>1, <1>2 DEF SamplesOf
  <2>2. \A k \in 1 .. n - 1 : (IF k = n - 1 THEN p ELSE inserted[k]) = [frame |-> f, dataOffset |-> k]
    BY <1>1, <1>2 DEF SamplesOf
  <2> QED BY <2>1, <2>2 DEF SamplesOf
<1> HIDE DEF more
<1>6. ASSUME n < Stream[f].size PROVE IsCollected(f, n - 1)'
  <2>1. inserted' = more /\ UNCHANGED <<state, frameHeader>>
    BY <1>1, <1>3, <1>4, <1>6 DEF InsertSamples, more
  <2> QED BY <1>2, <1>5, <2>1 DEF IsCollected, SamplesOf
<1>7. ASSUME n = Stream[f].size PROVE IsCompleted(f)'
  <2> DEFINE frame == [number  |-> nextFrameNumber,
                       header  |-> Self,
                       samples |-> pSamples,
                       size    |-> samplesExpected,
                       written |-> pSampleInsert + PartSize(p),
                       parts   |-> <<frameHeader>> \o more]
  <2>1. completed' = Append(completed, frame)
    BY <1>1, <1>3, <1>4, <1>7 DEF CompleteFrame, HandOver, more
  <2>2. completed \in Seq(CompletedFrame)
    BY DEF IInv, TypeOK, CompletedFrame
  <2>3. frame.parts = <<frameHeader>> \o more
    OBVIOUS
  <2> HIDE DEF frame
  <2>4. Len(completed) + 1 \in DOMAIN completed' /\ completed'[Len(completed) + 1] = frame
    BY <2>1, <2>2
  <2>5. <<frameHeader>> \o more = AllPartsOf(f)
    <3>1. <<frameHeader>> \o more = [k \in 1 .. n |-> IF k = 1 THEN frameHeader ELSE more[k - 1]]
      BY <1>1, <1>5 DEF SamplesOf
    <3>2. \A k \in 1 .. n : (IF k = 1 THEN frameHeader ELSE more[k - 1])
                               = [frame |-> f, dataOffset |-> k - 1]
      BY <1>1, <1>2, <1>5 DEF SamplesOf
    <3> QED BY <1>7, <3>1, <3>2 DEF AllPartsOf
  <2> QED BY <2>3, <2>4, <2>5 DEF IsCompleted, AllPartsOf
<1> QED BY <1>6, <1>7

\* What a datagram does to the frame it is the next part of.
LEMMA PartCollected ==
    ASSUME IInv, Collected, steady, NEW p \in Packets, SmcAddFramePart(p),
           NEW f \in DOMAIN Stream, Stream[f].header, NEW n \in 1 .. Stream[f].size,
           CameTo(f, n, delivered \cup {p})
    PROVE  /\ n < Stream[f].size => IsCollected(f, n - 1)'
           /\ n = Stream[f].size => IsCompleted(f)'
<1>1. /\ \A q \in delivered : SentBefore(q, p)
      /\ state # "freed"
      /\ delivered \in SUBSET Packets
  BY DEF SmcAddFramePart, Transmit, IInv, TypeOK
<1>2. /\ p = [frame |-> f, dataOffset |-> n - 1]
      /\ n > 1 => CameTo(f, n - 1, delivered)
  BY <1>1, LastCame
<1>3. Stream[f].size \in Nat /\ Stream[f].size >= 2
  BY FrameFacts
<1>4. CASE n = 1
  BY <1>2, <1>3, <1>4, HeaderCollected
<1>5. CASE n > 1
  <2>1. n - 1 \in 1 .. Stream[f].size - 1 /\ n \in 2 .. Stream[f].size /\ (n - 1) - 1 = n - 2
    BY <1>3, <1>5
  <2>2. IsCollected(f, n - 2)
    BY <1>1, <1>2, <1>5, <2>1 DEF Collected
  <2> QED BY <1>2, <2>1, <2>2, NextPartCollected
<1> QED BY <1>4, <1>5

LEMMA StepCollected == IInv /\ Collected /\ [Next]_vars => Collected'
<1> SUFFICES ASSUME IInv, Collected, [Next]_vars PROVE Collected'
  OBVIOUS
<1>1. ASSUME NEW p \in Packets, SmcAddFramePart(p) PROVE Collected'
  <2>1. steady' = steady /\ (steady => delivered' = delivered \cup {p}) /\ state # "freed"
    BY <1>1 DEF SmcAddFramePart, Transmit
  <2> SUFFICES ASSUME steady, NEW f \in DOMAIN Stream, Stream[f].header
               PROVE  /\ \A n \in 1 .. Stream[f].size - 1 :
                             CameTo(f, n, delivered') => IsCollected(f, n - 1)'
                      /\ AllDelivered(f)' => IsCompleted(f)'
    BY <2>1 DEF Collected, CameTo, SentBefore
  <2>2. Stream[f].size \in Nat /\ Stream[f].size >= 2
    BY FrameFacts
  <2>3. ASSUME NEW n \in 1 .. Stream[f].size - 1, CameTo(f, n, delivered')
        PROVE  IsCollected(f, n - 1)'
    <3>1. n \in 1 .. Stream[f].size /\ n < Stream[f].size
      BY <2>2
    <3> QED BY <1>1, <2>1, <2>3, <3>1, PartCollected
  <2>4. ASSUME AllDelivered(f)' PROVE IsCompleted(f)'
    <3>1. CASE AllDelivered(f)
      BY <1>1, <2>1, <3>1, CompletedIsKept DEF Collected
    <3>2. CASE ~AllDelivered(f)
      <4>1. \A q \in Packets : q.frame = f => q \in delivered \cup {p}
        BY <2>1, <2>4 DEF AllDelivered
      <4>2. p.frame = f
        BY <3>2, <4>1 DEF AllDelivered
      <4>3. CameTo(f, Stream[f].size, delivered \cup {p})
        BY <1>1, <4>1, <4>2, AllCame DEF SmcAddFramePart, Transmit, IInv, TypeOK
      <4> QED BY <1>1, <2>2, <4>3, PartCollected
    <3> QED BY <3>1, <3>2
  <2> QED BY <2>3, <2>4
<1>2. CASE SmcFreeFrameAssembler
  BY <1>2 DEF SmcFreeFrameAssembler, Collected
<1>3. CASE UNCHANGED vars
  BY <1>3 DEF vars, linkVars, assemblerVars, Collected, CameTo, SentBefore, IsCollected,
              IsCompleted, AllDelivered, SamplesOf, AllPartsOf
<1> QED BY <1>1, <1>2, <1>3 DEF Next

\* On a link that only loses datagrams and until the assembler is freed, a frame
\* with a header all of whose parts arrive is completed, whatever was in progress
\* when it began.
THEOREM NoOtherFrameIsLost == Spec => []NothingElseLost
<1>1. Collected => NothingElseLost
  BY DEF Collected, NothingElseLost, IsCompleted
<1> QED BY <1>1, InitIInv, NextIInv, InitCollected, StepCollected, PTL DEF Spec
=============================================================================
