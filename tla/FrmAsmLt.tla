------------------------------ MODULE FrmAsmLt ------------------------------
(***************************************************************************)
(* The "lite" frame assembler for C clients.  It is told the number of a   *)
(* frame part and its data, nothing else: it does not know which frame a   *)
(* part was cut from.  As in the simplified protocol, part 0 is the header *)
(* alone and the others carry samples; a frame of size n has n - 1 sample  *)
(* parts, and its header flag says whether part 0 has a header's size (it  *)
(* is never empty).                                                        *)
(*                                                                         *)
(* Parts carry different numbers of samples, one byte each.  The assembler *)
(* copies them behind one another without looking at the size of the       *)
(* buffer, so it may write beyond its end when it was sized for another    *)
(* frame.  The model counts the bytes; what else such a write destroys is  *)
(* not modelled.                                                           *)
(*                                                                         *)
(* The client provides the memory: first that of the assembler itself,     *)
(* which also holds the header, then a buffer for each frame.  An          *)
(* allocation has one owner at a time: the assembler, the client after     *)
(* onFrameComplete, or nobody once freed.  Allocations are taken to        *)
(* succeed.                                                                *)
(***************************************************************************)
EXTENDS SonarLink

CONSTANTS SamplesTo,       \* SamplesTo[f][n]: the samples in parts 1 .. n of frame f
          MaxAllocations   \* bound: how many allocations a behaviour makes

ASSUME MaxAllocationsAssumption == MaxAllocations \in Nat \ {0}

\* Every frame has samples, and so has every sample part.
ASSUME SamplesAssumption ==
    \A f \in DOMAIN Stream :
        /\ Stream[f].size >= 2
        /\ SamplesTo[f] \in [0 .. Stream[f].size - 1 -> Nat]
        /\ SamplesTo[f][0] = 0
        /\ \A m, n \in 0 .. Stream[f].size - 1 : m < n => SamplesTo[f][m] < SamplesTo[f][n]

VARIABLES state,                   \* "Start", "Assembling", or "freed"
          frameHeader,             \* the part whose header was copied last
          nextExpectedPartNumber,
          samplesExpected,         \* NoSamples after a reset
          pSamples,                \* the allocation for the frame in progress
          pSampleInsert,           \* how far behind pSamples the next part goes
          inserted,                \* what has been copied to pSamples
          nextFrameNumber,
          owner,                   \* of every allocation made
          completed                \* the frames handed to onFrameComplete

assemblerVars == <<state, frameHeader, nextExpectedPartNumber, samplesExpected,
                   pSamples, pSampleInsert, inserted, nextFrameNumber, owner, completed>>

vars == <<linkVars, assemblerVars>>

PartNumber(p) == p.dataOffset

\* How many samples p carries, and how many p's frame has by its header.
PartSize(p) == SamplesTo[p.frame][p.dataOffset] - SamplesTo[p.frame][p.dataOffset - 1]

SampleCount(p) == SamplesTo[p.frame][Stream[p.frame].size - 1]

NULL == 0

\* The allocation the assembler lives in.
Self == 1

NoHeader == [frame |-> 0, dataOffset |-> 0]

\* ~0u of a reset, which nothing reads.
NoSamples == -1

SmcInitFrameAssembler ==
    /\ state = "Start"
    /\ frameHeader = NoHeader
    /\ nextExpectedPartNumber = 0
    /\ samplesExpected = 0
    /\ pSamples = NULL
    /\ pSampleInsert = 0
    /\ inserted = <<>>
    /\ nextFrameNumber = 0
    /\ owner = <<"assembler">>
    /\ completed = <<>>

Init == LinkInit /\ SmcInitFrameAssembler

-----------------------------------------------------------------------------

\* What the owners are once the assembler has freed the allocation a, which
\* may be NULL.
Freed(a) == IF a = NULL THEN owner ELSE [owner EXCEPT ![a] = "nobody"]

\* What SmcFrameAssembler_Reset does besides freeing the samples.
ClearWork == /\ state' = "Start"
             /\ nextExpectedPartNumber' = 0
             /\ pSamples' = NULL
             /\ pSampleInsert' = 0
             /\ inserted' = <<>>
             /\ samplesExpected' = NoSamples
             /\ UNCHANGED frameHeader

\* onFrameComplete is called with the samples, p's the last of them, and with
\* the header where it is, within the assembler's own allocation.
HandOver(p) ==
    /\ completed' = Append(completed, [number  |-> nextFrameNumber,
                                       header  |-> Self,
                                       samples |-> pSamples,
                                       size    |-> samplesExpected,
                                       written |-> pSampleInsert + PartSize(p),
                                       parts   |-> <<frameHeader>> \o Append(inserted, p)])
    /\ nextFrameNumber' = nextFrameNumber + 1

BeginFrame(p, owners) ==
    /\ Len(owners) < MaxAllocations
    /\ frameHeader' = p
    /\ samplesExpected' = SampleCount(p)
    /\ owner' = Append(owners, "assembler")
    /\ pSamples' = Len(owners) + 1
    /\ pSampleInsert' = 0
    /\ inserted' = <<>>
    /\ state' = "Assembling"
    /\ nextExpectedPartNumber' = 1
    /\ UNCHANGED <<nextFrameNumber, completed>>

HandleStart(p) ==
    IF PartNumber(p) = 0 /\ HasHeader(p) THEN BeginFrame(p, owner)
                                         ELSE UNCHANGED assemblerVars

\* Mutant: a restart forgets to free the samples of the frame it drops.
RestartWithoutFree(p) == HandleStart(p)

\* An unexpected part 0: SmcFrameAssembler_Reset, then HandleStart.
Restart(p) ==
    IF HasHeader(p) THEN BeginFrame(p, Freed(pSamples))
    ELSE /\ ClearWork
         /\ owner' = Freed(pSamples)
         /\ UNCHANGED <<nextFrameNumber, completed>>

\* The last sample part: the samples become the client's, and the reset finds
\* nothing to free.
CompleteFrame(p) ==
    /\ HandOver(p)
    /\ ClearWork
    /\ owner' = [owner EXCEPT ![pSamples] = "client"]

InsertSamples(p) ==
    /\ inserted' = Append(inserted, p)
    /\ pSampleInsert' = pSampleInsert + PartSize(p)
    /\ nextExpectedPartNumber' = nextExpectedPartNumber + 1
    /\ UNCHANGED <<state, frameHeader, samplesExpected, pSamples, nextFrameNumber,
                   owner, completed>>

\* The frame is taken to be complete once as many samples as it has, or more,
\* have been copied.
Completes(p) == pSampleInsert + PartSize(p) >= samplesExpected

\* Mutants: a part that is not the expected one is taken too; part 0 does not
\* restart.
HandleAssemblingAnyPart(p) ==
    IF PartNumber(p) = 0 THEN Restart(p)
    ELSE IF Completes(p) THEN CompleteFrame(p)
    ELSE InsertSamples(p)

HandleAssemblingNoRestart(p) ==
    IF PartNumber(p) = nextExpectedPartNumber
    THEN IF Completes(p) THEN CompleteFrame(p)
                              ELSE InsertSamples(p)
    ELSE UNCHANGED assemblerVars

HandleAssembling(p) ==
    IF PartNumber(p) = nextExpectedPartNumber
    THEN IF Completes(p) THEN CompleteFrame(p)
                              ELSE InsertSamples(p)
    ELSE IF PartNumber(p) = 0 THEN Restart(p)
    ELSE UNCHANGED assemblerVars

SmcAddFramePart(p) ==
    /\ state # "freed"
    /\ Transmit(p)
    /\ IF state = "Start" THEN HandleStart(p) ELSE HandleAssembling(p)

\* The samples are freed, then the assembler.
SmcFreeFrameAssembler ==
    /\ state # "freed"
    /\ state' = "freed"
    /\ owner' = [Freed(pSamples) EXCEPT ![Self] = "nobody"]
    /\ UNCHANGED <<linkVars, frameHeader, nextExpectedPartNumber, samplesExpected,
                   pSamples, pSampleInsert, inserted, nextFrameNumber, completed>>

Next == \/ \E p \in Packets : SmcAddFramePart(p)
        \/ SmcFreeFrameAssembler

Spec == Init /\ [][Next]_vars

-----------------------------------------------------------------------------
\* Properties.

\* Every variable holds what its declaration says.
TypeOK == /\ steady \in BOOLEAN
          /\ delivered \subseteq Packets
          /\ state \in {"Start", "Assembling", "freed"}
          /\ frameHeader \in Packets \cup {NoHeader}
          /\ nextExpectedPartNumber \in Nat
          /\ samplesExpected \in Nat \cup {NoSamples}
          /\ pSamples \in DOMAIN owner \cup {NULL}
          /\ pSampleInsert \in Nat
          /\ inserted \in Seq(Packets)
          /\ nextFrameNumber \in Nat
          /\ owner \in Seq({"assembler", "client", "nobody"})
          /\ completed \in Seq([number : Nat, header : {Self}, samples : DOMAIN owner,
                               size : Nat, written : Nat, parts : Seq(Packets)])

\* No allocation is lost or has two owners.  Until it is freed the assembler owns
\* itself and the buffer it is filling, then nothing; the client owns exactly the
\* buffers of the frames it was handed, each of them once.  The header it was
\* handed with them is never its own: it lies in the assembler's allocation and is
\* gone when the assembler is freed.  (FrmAsmLt.h:77 gives it to the client, who
\* would free the assembler with it.)
AllocationsHaveOneOwner ==
    /\ {a \in DOMAIN owner : owner[a] = "assembler"} =
           CASE state = "Start"      -> {Self}
             [] state = "Assembling" -> {Self, pSamples}
             [] state = "freed"      -> {}
    /\ {a \in DOMAIN owner : owner[a] = "client"} =
           {completed[k].samples : k \in DOMAIN completed}
    /\ \A k \in DOMAIN completed : owner[completed[k].header] # "client"
    /\ \A j, k \in DOMAIN completed :
           completed[j].samples = completed[k].samples => j = k

\* Memory is sound: the state is of its type and every allocation has its owner.
AllocationsSound == TypeOK /\ AllocationsHaveOneOwner

IsOfOneFrame(parts) == \A j \in DOMAIN parts : parts[j].frame = parts[1].frame

\* Whatever the link did, a completed frame begins with a header part, has sample
\* parts 1, 2, ... without a hole, and fills its buffer, which is as large as the
\* header says.  If all are parts of one raw frame they are all its parts and just
\* fill the buffer: only a mixture of frames, whose parts differ in size, writes
\* beyond its end or has another number of parts.
CompletedFramesHaveNoHoles ==
    \A k \in DOMAIN completed :
        LET frame == completed[k]
            parts == frame.parts
        IN  /\ parts # <<>> /\ HasHeader(parts[1])
            /\ frame.size = SampleCount(parts[1])
            /\ \A j \in DOMAIN parts : PartNumber(parts[j]) = j - 1
            /\ frame.written >= frame.size
            /\ IsOfOneFrame(parts) => /\ parts = AllPartsOf(parts[1].frame)
                                      /\ frame.written = frame.size

\* "Missing frame parts cause an entire frame to be lost": what is completed is
\* all of one raw frame, and nothing is written beyond the end of its buffer.
MissingPartsLoseTheFrame ==
    steady => \A k \in DOMAIN completed : /\ IsWhole(completed[k].parts)
                                          /\ completed[k].written = completed[k].size

\* That is so on a link that only loses datagrams as long as no frame loses its
\* part 0, or what stands for its header.
SafeWhileHeadersArrive ==
    (\A p \in delivered : /\ Stream[p.frame].header
                          /\ [frame |-> p.frame, dataOffset |-> 0] \in delivered)
        => MissingPartsLoseTheFrame

\* What the client is handed: no hole ever, no part of another frame and no overrun
\* while headers arrive.
CompletedFramesSound == CompletedFramesHaveNoHoles /\ SafeWhileHeadersArrive

\* On such a link, a frame with a header all of whose parts arrived is completed,
\* whatever was in progress when it began.
NothingElseLost ==
    (steady /\ state # "freed") =>
        \A f \in DOMAIN Stream :
            (Stream[f].header /\ AllDelivered(f))
                => \E k \in DOMAIN completed : completed[k].parts = AllPartsOf(f)
=============================================================================
