---------------------------- MODULE RecordingProofs ----------------------------
(***************************************************************************)
(* Proofs about the recorder, for any requests, frame sizes, retries and   *)
(* failures of storage: what is in the files and what the client is told   *)
(* of it agree, no open file is forgotten, and no client is.               *)
(***************************************************************************)
EXTENDS Recording, TLAPS

Commands == {StartRecording(r) : r \in Requests} \cup {StopRecording(r) : r \in Requests}

Work == FrameData \cup {Quit} \cup Commands

File == [frames : Seq(FrameData), open : BOOLEAN, failed : BOOLEAN]

Job == [step : {"start", "write"}, frame : FrameData, currents : SUBSET Requests,
        restarted : SUBSET Requests, badRestarts : SUBSET Requests, todo : SUBSET Requests,
        failed : SUBSET Requests, gaveUp : SUBSET Requests, attempts : [Requests -> Nat],
        wrote : Requests \cup {NoRequest}, offset : Int]

Told == {"unknown", "asked", "asked again", "stopped", "told of one", "told", "replaced"}

\* Which requests a frame is being handled for: those to restart have no recorder
\* yet, those to write to have one, and the one whose offset is to be reported has
\* been written to.
JobSound ==
    job # NoJob =>
        /\ job.step = "start" =>
               /\ Unreported = NoRequest
               /\ job.todo = {} /\ job.failed = {} /\ job.gaveUp = {}
               /\ job.currents \cap job.restarted = {}
               /\ (job.currents \cup job.restarted) \cap (reqInfos \cup job.badRestarts) = {}
        /\ job.step = "write" =>
               /\ job.currents = {} /\ job.restarted = {}
               /\ job.todo \cup job.failed \cup job.gaveUp \subseteq reqInfos
               /\ job.todo \cap (job.failed \cup job.gaveUp) = {}
               /\ job.failed \cap job.gaveUp = {}
               /\ Unreported # NoRequest =>
                      Unreported \in reqInfos \ (job.todo \cup job.failed \cup job.gaveUp)

TypeInv ==
    /\ work \in Seq(Work)
    /\ reqInfos \subseteq Requests
    /\ startRecordRequest \in Requests \cup {NoRequest}
    /\ frameSize \in Sizes \cup {NoSize}
    /\ files \in [Requests -> Seq(File)]
    /\ job \in Job \cup {NoJob}
    /\ DOMAIN entryMap \subseteq Requests /\ \A r \in DOMAIN entryMap : entryMap[r] \in Int
    /\ recorder \in {"up", "faulted"}
    /\ graph \in {"open", "quitting", "completing", "done"}
    /\ fate \in [Requests -> Told]
    /\ framesSent \in Nat /\ failures \in Nat
    /\ recorder = "faulted" => job = NoJob /\ work = <<>>
    /\ \A r \in reqInfos \cup Restarted : files[r] # <<>>
    /\ JobSound

-----------------------------------------------------------------------------
\* The files of one request, fs.

\* As FilesAreReadable says, with each frame compared to the first.
IsReadable(file) ==
    \A i \in DOMAIN file.frames : /\ file.frames[i].size = file.frames[1].size
                                  /\ file.frames[i].index = file.frames[1].index + i - 1

Readable(fs) == \A i \in DOMAIN fs : IsReadable(fs[i])

\* The files but the last are closed, or one that failed.
Older(fs) == fs # <<>> /\ \A i \in 1 .. Len(fs) - 1 : fs[i].open => fs[i].failed

\* So is the last.
Closed(fs) == \A i \in DOMAIN fs : fs[i].open => fs[i].failed

\* The last file is being written to.
InUse(fs) == Older(fs) /\ Last(fs).open /\ ~Last(fs).failed

\* The last file ends with the frame of that index and size.
EndsWith(fs, index, size) == /\ Last(fs).frames # <<>>
                             /\ Last(Last(fs).frames).index = index
                             /\ Last(Last(fs).frames).size = size

Fits(fs, offset) == \A i \in DOMAIN Last(fs).frames : Last(fs).frames[i].index + offset = i - 1

-----------------------------------------------------------------------------
\* What the files follow: the frames in the order in which they came.

IsFrame(w) == w.kind = "Frame"

\* The frames that wait are those after the h-th, in order.
FramesFrom(h) ==
    /\ h \in Nat /\ h =< framesSent
    /\ \A i \in DOMAIN work :
           IsFrame(work[i]) => h < work[i].index /\ work[i].index =< framesSent
    /\ \A i, j \in DOMAIN work :
           IsFrame(work[i]) /\ IsFrame(work[j]) /\ i < j => work[i].index < work[j].index
    /\ \A n \in h + 1 .. framesSent : \E i \in DOMAIN work : IsFrame(work[i]) /\ work[i].index = n

\* A recording between frames h and h + 1.
UpTo(r, h) == InUse(files[r]) /\ EndsWith(files[r], h, frameSize)

\* The frame being handled is to be written to r's file.
Awaits(r) == /\ InUse(files[r])
             /\ \/ Last(files[r]).frames = <<>>
                \/ EndsWith(files[r], job.frame.index - 1, job.frame.size)

OpenSound ==
    recorder = "up" => \A r \in Requests :
        IF r \in reqInfos \cup Restarted THEN Older(files[r]) ELSE Closed(files[r])

\* Frame h is the last that was taken.  Between frames, the files in use end with
\* it; while it is handled those that have been written to do, and those to be
\* written to end with the frame before it.
Follow(h) ==
    /\ job = NoJob => \A r \in reqInfos : UpTo(r, h)
    /\ job # NoJob =>
           /\ job.frame.index = h /\ job.frame.size = frameSize
           /\ \A r \in job.restarted : InUse(files[r]) /\ Last(files[r]).frames = <<>>
           /\ job.step = "start" => \A r \in reqInfos : Awaits(r)
           /\ job.step = "write" => \A r \in reqInfos :
                  /\ r \in job.todo => Awaits(r)
                  /\ r \in job.failed \cup job.gaveUp => Last(files[r]).failed
                  /\ r \notin job.todo \cup job.failed \cup job.gaveUp => UpTo(r, h)

FilesSound == recorder = "up" => \E h \in Nat : FramesFrom(h) /\ Follow(h)

ToReport == job # NoJob /\ Unreported # NoRequest

\* The first frame of r's file is written and its offset is not reported.
IsNew(r) == job # NoJob /\ Unreported = r /\ Len(Last(files[r]).frames) = 1

MappingSound ==
    /\ \A r \in Requests : Readable(files[r])
    /\ \A r \in reqInfos \cap DOMAIN entryMap : Fits(files[r], entryMap[r]) \/ IsNew(r)
    /\ ToReport => Fits(files[Unreported], job.offset)

-----------------------------------------------------------------------------
\* The clients.

IsServed(r) == \/ r \in reqInfos \cup {startRecordRequest}
               \/ StartIsPending(r)
               \/ InHandling(r)

IsQueuedOnce(r) ==
    \A i, j \in DOMAIN work : work[i] = StartRecording(r) /\ work[j] = StartRecording(r) => i = j

IsQueuedTwice(r) ==
    \A i, j, k \in DOMAIN work :
        work[i] = StartRecording(r) /\ work[j] = StartRecording(r) /\ work[k] = StartRecording(r)
            => i = j \/ i = k \/ j = k

\* In how many places a request is: in the queue, in the slot, with a recorder, or
\* being restarted.
IsPlacedOnce(r) ==
    /\ IsQueuedOnce(r)
    /\ StartIsPending(r) => r # startRecordRequest /\ r \notin reqInfos /\ ~InHandling(r)
    /\ r = startRecordRequest => r \notin reqInfos /\ ~InHandling(r)
    /\ r \in reqInfos => ~InHandling(r)

IsPlacedTwice(r) ==
    /\ IsQueuedTwice(r)
    /\ ~IsQueuedOnce(r) => r # startRecordRequest /\ r \notin reqInfos /\ ~InHandling(r)
    /\ StartIsPending(r) =>
           /\ r = startRecordRequest => r \notin reqInfos /\ ~InHandling(r)
           /\ r \in reqInfos => ~InHandling(r)
    /\ r = startRecordRequest /\ r \in reqInfos => ~InHandling(r)

\* A request is in no more places than there are starts its client heard nothing of.
KnowsItsFate(r) ==
    /\ fate[r] \in {"asked", "asked again"} => IsServed(r)
    /\ fate[r] = "asked again" => IsPlacedTwice(r)
    /\ fate[r] \in {"asked", "told of one"} => IsPlacedOnce(r)
    /\ fate[r] \in {"unknown", "told"} => ~IsServed(r)
    /\ StopIsPending(r) => fate[r] = "stopped"

ClientSound == recorder = "up" /\ graph = "open" => \A r \in Requests : KnowsItsFate(r)

FilesInv == TypeInv /\ OpenSound /\ FilesSound /\ MappingSound

IInv == FilesInv /\ ClientSound

-----------------------------------------------------------------------------
\* Lemmas on the files of one request.

LEMMA NewFileTyped == NewFile \in File /\ IsReadable(NewFile)
BY DEF NewFile, File, IsReadable

\* A new file after closed ones is in use, and empty.
LEMMA CreatedFiles ==
    ASSUME NEW fs \in Seq(File), Closed(fs), Readable(fs)
    PROVE  LET g == Append(fs, NewFile) IN
           /\ g \in Seq(File) /\ Last(g) = NewFile /\ Last(g).frames = <<>>
           /\ InUse(g) /\ Readable(g) /\ (\A offset \in Int : Fits(g, offset))
<1> DEFINE g == Append(fs, NewFile)
<1>1. NewFile \in File /\ IsReadable(NewFile) /\ NewFile.frames = <<>> /\ NewFile.open /\ ~NewFile.failed
  BY NewFileTyped DEF NewFile
<1>2. g \in Seq(File) /\ Len(g) = Len(fs) + 1 /\ g[Len(g)] = NewFile /\ g # <<>>
  BY <1>1
<1>3. \A i \in 1 .. Len(fs) : g[i] = fs[i]
  BY <1>1
<1>4. Last(g) = NewFile
  BY <1>2 DEF Last
<1>5. InUse(g)
  BY <1>1, <1>2, <1>3, <1>4 DEF InUse, Older, Closed
<1>6. Readable(g)
  BY <1>1, <1>2, <1>3 DEF Readable
<1>7. \A offset \in Int : Fits(g, offset)
  BY <1>1, <1>4 DEF Fits
<1> QED BY <1>1, <1>2, <1>4, <1>5, <1>6, <1>7

\* What replacing the last file changes.
LEMMA LastReplaced ==
    ASSUME NEW fs \in Seq(File), fs # <<>>, NEW file \in File
    PROVE  /\ OfLast(fs, file) \in Seq(File) /\ OfLast(fs, file) # <<>>
           /\ Len(OfLast(fs, file)) = Len(fs) /\ Last(OfLast(fs, file)) = file
           /\ \A i \in 1 .. Len(fs) - 1 : OfLast(fs, file)[i] = fs[i]
           /\ OfLast(fs, file)[Len(fs)] = file
           /\ Last(fs) \in File /\ Last(fs) = fs[Len(fs)]
BY DEF OfLast, Last

LEMMA LastOrBefore == \A n \in Nat : \A i \in 1 .. n : i = n \/ i \in 1 .. n - 1
OBVIOUS

LEMMA LastReplacedIsReadable ==
    ASSUME NEW fs \in Seq(File), fs # <<>>, Readable(fs), NEW file \in File, IsReadable(file)
    PROVE  Readable(OfLast(fs, file))
<1> DEFINE g == OfLast(fs, file)
<1>1. /\ g \in Seq(File) /\ Len(g) = Len(fs) /\ g[Len(fs)] = file
      /\ \A i \in 1 .. Len(fs) - 1 : g[i] = fs[i]
  BY LastReplaced
<1>2. Len(fs) \in Nat /\ DOMAIN fs = 1 .. Len(fs) /\ DOMAIN g = 1 .. Len(fs)
  BY <1>1
<1> HIDE DEF g
<1>3. \A i \in 1 .. Len(fs) : i = Len(fs) \/ i \in 1 .. Len(fs) - 1
  BY <1>2, LastOrBefore
<1>4. ASSUME NEW i \in 1 .. Len(fs) PROVE IsReadable(g[i])
  <2>1. CASE i = Len(fs)
    BY <1>1, <2>1
  <2>2. CASE i \in 1 .. Len(fs) - 1
    BY <1>1, <1>2, <2>2 DEF Readable
  <2> QED BY <1>3, <2>1, <2>2
<1>5. Readable(g)
  BY <1>2, <1>4 DEF Readable
<1> QED BY <1>5 DEF g

LEMMA LastReplacedIsOlder ==
    ASSUME NEW fs \in Seq(File), Older(fs), NEW file \in File
    PROVE  Older(OfLast(fs, file))
<1> DEFINE g == OfLast(fs, file)
<1>1. fs # <<>> /\ \A i \in 1 .. Len(fs) - 1 : fs[i].open => fs[i].failed
  BY DEF Older
<1>2. /\ g # <<>> /\ Len(g) = Len(fs)
      /\ \A i \in 1 .. Len(fs) - 1 : g[i] = fs[i]
  BY <1>1, LastReplaced
<1> QED BY <1>1, <1>2 DEF Older

LEMMA LastFile ==
    ASSUME NEW fs \in Seq(File), Older(fs)
    PROVE  /\ fs # <<>> /\ Len(fs) \in Nat /\ Len(fs) > 0 /\ DOMAIN fs = 1 .. Len(fs)
           /\ Last(fs) = fs[Len(fs)] /\ Last(fs) \in File
           /\ Readable(fs) => IsReadable(Last(fs))
<1>1. fs # <<>>
  BY DEF Older
<1>2. Len(fs) \in Nat /\ Len(fs) > 0 /\ DOMAIN fs = 1 .. Len(fs)
  BY <1>1
<1>3. Last(fs) = fs[Len(fs)] /\ Last(fs) \in File
  BY <1>2 DEF Last
<1> QED BY <1>1, <1>2, <1>3 DEF Readable

\* The files of a request whose recorder is disposed.
LEMMA DisposedFiles ==
    ASSUME NEW fs \in Seq(File), Older(fs), Readable(fs)
    PROVE  LET g == OfLast(fs, [Last(fs) EXCEPT !.open = FALSE]) IN
           /\ g \in Seq(File) /\ g # <<>> /\ Closed(g) /\ Readable(g)
           /\ Last(g).frames = Last(fs).frames
<1> DEFINE file == [Last(fs) EXCEPT !.open = FALSE]
           g == OfLast(fs, file)
<1>1. fs # <<>> /\ Last(fs) \in File /\ IsReadable(Last(fs))
  BY LastFile
<1>2. file \in File /\ ~file.open /\ file.frames = Last(fs).frames
  BY <1>1 DEF File
<1>3. IsReadable(file)
  BY <1>1, <1>2 DEF IsReadable
<1>4. Readable(g)
  BY <1>1, <1>2, <1>3, LastReplacedIsReadable
<1>5. /\ g \in Seq(File) /\ g # <<>> /\ Last(g) = file /\ Len(g) = Len(fs)
      /\ \A i \in 1 .. Len(fs) - 1 : g[i] = fs[i]
      /\ g[Len(fs)] = file
  BY <1>1, <1>2, LastReplaced
<1>6. Closed(g)
  <2> HIDE DEF g, file
  <2>1. \A i \in 1 .. Len(fs) - 1 : g[i].open => g[i].failed
    BY <1>5 DEF Older
  <2>2. DOMAIN g = 1 .. Len(fs) /\ Len(fs) \in Nat
    BY <1>5
  <2> QED BY <1>2, <1>5, <2>1, <2>2 DEF Closed
<1> QED BY <1>2, <1>4, <1>5, <1>6

LEMMA AppendedFrame ==
    ASSUME NEW s \in Seq(FrameData), NEW frame \in FrameData
    PROVE  LET t == Append(s, frame) IN
           /\ Len(t) = Len(s) + 1 /\ t[Len(s) + 1] = frame
           /\ \A i \in 1 .. Len(s) : t[i] = s[i]
           /\ DOMAIN t = 1 .. Len(s) + 1
           /\ t # <<>> /\ Last(t) = frame
<1> DEFINE t == Append(s, frame)
<1>1. /\ Len(t) = Len(s) + 1 /\ t[Len(s) + 1] = frame
      /\ \A i \in 1 .. Len(s) : t[i] = s[i]
      /\ DOMAIN t = 1 .. Len(s) + 1
  OBVIOUS
<1>2. t # <<>>
  <2>1. Len(t) # 0
    BY <1>1
  <2>2. Len(<<>>) = 0
    OBVIOUS
  <2> HIDE DEF t
  <2> QED BY <2>1, <2>2
<1>3. Last(t) = frame
  BY <1>1 DEF Last
<1> QED BY <1>1, <1>2, <1>3

\* The next frame, or the first, is written to the file in use.
LEMMA WrittenFiles ==
    ASSUME NEW fs \in Seq(File), InUse(fs), Readable(fs), NEW frame \in FrameData,
           Last(fs).frames = <<>> \/ EndsWith(fs, frame.index - 1, frame.size)
    PROVE  LET g == OfLast(fs, Written(Last(fs), frame)) IN
           /\ g \in Seq(File) /\ g # <<>> /\ InUse(g) /\ Readable(g)
           /\ EndsWith(g, frame.index, frame.size)
           /\ Fits(g, FrameIndexOffset(Last(fs), frame))
           /\ FrameIndexOffset(Last(fs), frame) \in Int
           /\ \A o \in Int : Fits(fs, o) => Fits(g, o) \/ Len(Last(g).frames) = 1
<1> DEFINE file == Written(Last(fs), frame)
           g == OfLast(fs, file)
           old == Last(fs).frames
           offset == FrameIndexOffset(Last(fs), frame)
<1>1. fs # <<>> /\ Last(fs) \in File /\ IsReadable(Last(fs)) /\ Older(fs)
  BY LastFile DEF InUse
<1>2. old \in Seq(FrameData) /\ frame.index \in Nat
  BY <1>1 DEF File, FrameData
<1>3. /\ file \in File /\ file.frames = Append(old, frame)
      /\ file.open /\ ~file.failed
  <2>1. /\ file = [Last(fs) EXCEPT !.frames = Append(@, frame)]
        /\ Last(fs).open /\ ~Last(fs).failed
    BY DEF Written, InUse
  <2>2. Append(old, frame) \in Seq(FrameData)
    BY <1>2
  <2> QED BY <1>1, <2>1, <2>2 DEF File
<1>4. /\ Len(file.frames) = Len(old) + 1 /\ file.frames[Len(old) + 1] = frame
      /\ \A i \in 1 .. Len(old) : file.frames[i] = old[i]
      /\ DOMAIN file.frames = 1 .. Len(old) + 1
      /\ file.frames # <<>> /\ Last(file.frames) = frame
  BY <1>2, <1>3, AppendedFrame
<1>5. offset = Len(old) - frame.index /\ offset \in Int
  BY <1>2 DEF FrameIndexOffset
<1>6. /\ IsReadable(file)
      /\ \A i \in DOMAIN file.frames : file.frames[i].index + offset = i - 1
  <2>1. CASE old = <<>>
    BY <1>2, <1>4, <1>5, <2>1 DEF IsReadable
  <2>2. CASE EndsWith(fs, frame.index - 1, frame.size)
    <3>1. /\ Len(old) \in Nat /\ Len(old) > 0
          /\ old[Len(old)].index = frame.index - 1 /\ old[Len(old)].size = frame.size
      BY <1>2, <2>2 DEF EndsWith, Last
    <3>2. \A i \in 1 .. Len(old) : /\ old[i].size = old[1].size
                                   /\ old[i].index = old[1].index + i - 1
      <4>1. DOMAIN old = 1 .. Len(old)
        BY <1>2
      <4> QED BY <1>1, <4>1 DEF IsReadable
    <3>3. old[1].index \in Nat
      <4>1. old[1] \in FrameData
        BY <1>2, <3>1
      <4> QED BY <4>1 DEF FrameData
    <3>4. old[1].size = frame.size /\ old[1].index = frame.index - Len(old)
      <4>1. old[Len(old)].size = old[1].size /\ old[Len(old)].index = old[1].index + Len(old) - 1
        BY <3>1, <3>2
      <4> HIDE DEF old
      <4> QED BY <1>2, <3>1, <3>3, <4>1
    <3>5. \A i \in 1 .. Len(old) + 1 : /\ file.frames[i].size = frame.size
                                       /\ file.frames[i].index = frame.index - Len(old) + i - 1
      <4> TAKE i \in 1 .. Len(old) + 1
      <4>1. CASE i = Len(old) + 1
        BY <1>2, <1>4, <4>1, <3>1
      <4>2. CASE i \in 1 .. Len(old)
        BY <1>2, <1>4, <4>2, <3>2, <3>4, <3>1
      <4> QED BY <4>1, <4>2, <3>1
    <3>6. IsReadable(file)
      <4>1. file.frames[1].size = frame.size /\ file.frames[1].index = frame.index - Len(old)
        BY <1>2, <3>1, <3>5
      <4> QED BY <1>2, <1>4, <3>1, <3>5, <4>1 DEF IsReadable
    <3>7. \A i \in DOMAIN file.frames : file.frames[i].index + offset = i - 1
      <4> SUFFICES ASSUME NEW i \in 1 .. Len(old) + 1
                   PROVE  file.frames[i].index + offset = i - 1
        BY <1>4
      <4>1. file.frames[i].index = frame.index - Len(old) + i - 1
        BY <3>5
      <4> HIDE DEF file, old, offset
      <4> QED BY <1>2, <1>5, <3>1, <4>1
    <3> QED BY <3>6, <3>7
  <2> QED BY <2>1, <2>2
<1>7. /\ g \in Seq(File) /\ g # <<>> /\ Last(g) = file
  BY <1>1, <1>3, LastReplaced
<1>8. Readable(g) /\ Older(g)
  BY <1>1, <1>3, <1>6, LastReplacedIsReadable, LastReplacedIsOlder
<1>9. InUse(g)
  BY <1>3, <1>7, <1>8 DEF InUse
<1>10. EndsWith(g, frame.index, frame.size)
  BY <1>4, <1>7 DEF EndsWith
<1>11. Fits(g, offset)
  BY <1>6, <1>7 DEF Fits
<1>12. ASSUME NEW o \in Int, Fits(fs, o) PROVE Fits(g, o) \/ Len(Last(g).frames) = 1
  <2>1. CASE old = <<>>
    BY <1>4, <1>7, <2>1
  <2>2. CASE EndsWith(fs, frame.index - 1, frame.size) /\ old # <<>>
    <3>1. Len(old) \in DOMAIN old /\ Len(old) \in Nat /\ old[Len(old)].index = frame.index - 1
      BY <1>2, <2>2 DEF EndsWith, Last
    <3>2. old[Len(old)].index + o = Len(old) - 1
      BY <1>12, <3>1 DEF Fits
    <3> HIDE DEF old, offset
    <3>3. o = offset
      BY <1>2, <1>5, <3>1, <3>2
    <3> QED BY <1>11, <3>3
  <2> QED BY <2>1, <2>2
<1> QED BY <1>5, <1>7, <1>8, <1>9, <1>10, <1>11, <1>12

\* A write to the file fails.
LEMMA FailedFiles ==
    ASSUME NEW fs \in Seq(File), Older(fs), Readable(fs)
    PROVE  LET g == OfLast(fs, WriteFails(Last(fs))) IN
           /\ g \in Seq(File) /\ g # <<>> /\ Older(g) /\ Closed(g) /\ Readable(g)
           /\ Last(g).failed /\ Last(g).frames = Last(fs).frames
<1> DEFINE file == WriteFails(Last(fs))
           g == OfLast(fs, file)
<1>1. fs # <<>> /\ Last(fs) \in File /\ IsReadable(Last(fs))
  BY LastFile
<1>2. file \in File /\ file.failed /\ file.frames = Last(fs).frames
  BY <1>1 DEF File, WriteFails
<1>3. IsReadable(file)
  BY <1>1, <1>2 DEF IsReadable
<1>4. Readable(g) /\ Older(g)
  BY <1>1, <1>2, <1>3, LastReplacedIsReadable, LastReplacedIsOlder
<1>5. /\ g \in Seq(File) /\ g # <<>> /\ Last(g) = file /\ Len(g) = Len(fs)
      /\ g[Len(fs)] = file
  BY <1>1, <1>2, LastReplaced
<1>6. Closed(g)
  BY <1>2, <1>4, <1>5 DEF Closed, Older
<1> QED BY <1>2, <1>4, <1>5, <1>6

\* When the last file has failed nothing good is open.
LEMMA FailedIsClosed ==
    ASSUME NEW fs \in Seq(File), Older(fs), Last(fs).failed
    PROVE  Closed(fs)
BY DEF Older, Closed, Last

LEMMA NoFiles == <<>> \in Seq(File) /\ Closed(<<>>) /\ Readable(<<>>)
BY DEF Closed, Readable

-----------------------------------------------------------------------------
\* Lemmas on the work that waits.

LEMMA WorkKinds ==
    /\ \A w \in Work : IsFrame(w) => w \in FrameData
    /\ \A w \in Work : w.kind = "StartRecording" =>
                           w.request \in Requests /\ w = StartRecording(w.request)
    /\ \A w \in Work : w.kind = "StopRecording" =>
                           w.request \in Requests /\ w = StopRecording(w.request)
BY DEF Work, Commands, IsFrame, FrameData, Quit, StartRecording, StopRecording

LEMMA PostedKinds ==
    /\ \A r \in Requests : StartRecording(r) \in Work /\ ~IsFrame(StartRecording(r))
    /\ \A r \in Requests : StopRecording(r) \in Work /\ ~IsFrame(StopRecording(r))
    /\ Quit \in Work /\ ~IsFrame(Quit)
    /\ \A size \in Sizes, n \in Nat :
           FrameOf(size, n) \in Work /\ IsFrame(FrameOf(size, n)) /\ FrameOf(size, n).index = n
BY DEF Work, Commands, IsFrame, FrameData, FrameOf, Quit, StartRecording, StopRecording

\* Commands are told apart.
LEMMA CommandsDiffer ==
    /\ \A r, q : StartRecording(r) = StartRecording(q) => r = q
    /\ \A r, q : StopRecording(r) = StopRecording(q) => r = q
    /\ \A r, q : StartRecording(r) # StopRecording(q)
    /\ \A r : StartRecording(r) # Quit /\ StopRecording(r) # Quit
    /\ \A r, size, n : StartRecording(r) # FrameOf(size, n) /\ StopRecording(r) # FrameOf(size, n)
    /\ \A r : StartRecording(r).kind = "StartRecording" /\ StopRecording(r).kind = "StopRecording"
<1>1. \A r : StartRecording(r).kind = "StartRecording" /\ StartRecording(r).request = r
  BY DEF StartRecording
<1>2. \A r : StopRecording(r).kind = "StopRecording" /\ StopRecording(r).request = r
  BY DEF StopRecording
<1>3. Quit.kind = "Quit" /\ \A size, n : FrameOf(size, n).kind = "Frame"
  BY DEF Quit, FrameOf
<1>4. \A r, q : StartRecording(r) = StartRecording(q) => r = q
  BY <1>1
<1>5. \A r, q : StopRecording(r) = StopRecording(q) => r = q
  BY <1>2
<1>6. \A r, q : StartRecording(r) # StopRecording(q)
  BY <1>1, <1>2
<1>7. \A r : StartRecording(r) # Quit /\ StopRecording(r) # Quit
  BY <1>1, <1>2, <1>3
<1>8. \A r, size, n : StartRecording(r) # FrameOf(size, n) /\ StopRecording(r) # FrameOf(size, n)
  BY <1>1, <1>2, <1>3
<1> QED BY <1>1, <1>2, <1>4, <1>5, <1>6, <1>7, <1>8

\* What waits after a unit of work was posted, and after one was taken.
LEMMA PostedWork ==
    ASSUME NEW s \in Seq(Work), NEW w \in Work
    PROVE  /\ Append(s, w) \in Seq(Work)
           /\ DOMAIN Append(s, w) = 1 .. Len(s) + 1 /\ DOMAIN s = 1 .. Len(s) /\ Len(s) \in Nat
           /\ \A i \in 1 .. Len(s) : Append(s, w)[i] = s[i]
           /\ Append(s, w)[Len(s) + 1] = w
OBVIOUS

LEMMA TakenWork ==
    ASSUME NEW s \in Seq(Work), s # <<>>
    PROVE  /\ Tail(s) \in Seq(Work)
           /\ DOMAIN Tail(s) = 1 .. Len(s) - 1 /\ DOMAIN s = 1 .. Len(s)
           /\ Len(s) \in Nat /\ Len(s) > 0
           /\ \A i \in 1 .. Len(s) - 1 : Tail(s)[i] = s[i + 1]
           /\ Head(s) = s[1] /\ Head(s) \in Work
OBVIOUS

\* Posting a command leaves the frames that wait as they are; a frame is the next.
LEMMA FramesWhenPosted ==
    ASSUME work \in Seq(Work), framesSent \in Nat, NEW h, FramesFrom(h), NEW w \in Work,
           work' = Append(work, w),
           \/ ~IsFrame(w) /\ framesSent' = framesSent
           \/ IsFrame(w) /\ framesSent' = framesSent + 1 /\ w.index = framesSent'
    PROVE  FramesFrom(h)'
<1> DEFINE n == Len(work)
<1>1. /\ n \in Nat /\ DOMAIN work = 1 .. n /\ DOMAIN work' = 1 .. n + 1
      /\ \A i \in 1 .. n : work'[i] = work[i]
      /\ work'[n + 1] = w
  BY PostedWork
<1>2. /\ h \in Nat /\ h =< framesSent
      /\ \A i \in 1 .. n : IsFrame(work[i]) => h < work[i].index /\ work[i].index =< framesSent
      /\ \A i, j \in 1 .. n :
             IsFrame(work[i]) /\ IsFrame(work[j]) /\ i < j => work[i].index < work[j].index
      /\ \A k \in h + 1 .. framesSent : \E i \in 1 .. n : IsFrame(work[i]) /\ work[i].index = k
  BY <1>1 DEF FramesFrom
<1>3. ASSUME NEW i \in 1 .. n, IsFrame(work[i])
      PROVE  work[i].index \in Nat
  <2>1. work[i] \in Work
    OBVIOUS
  <2>2. work[i] \in FrameData
    BY <1>3, <2>1, WorkKinds
  <2> QED BY <2>2 DEF FrameData
<1> HIDE DEF n
<1>4. h =< framesSent'
  BY <1>2
<1>5. ASSUME NEW i \in 1 .. n + 1, IsFrame(work'[i])
      PROVE  h < work'[i].index /\ work'[i].index =< framesSent'
  <2>1. CASE i = n + 1
    BY <1>1, <1>2, <1>5, <2>1
  <2>2. CASE i \in 1 .. n
    BY <1>1, <1>2, <1>3, <1>5, <2>2
  <2> QED BY <1>1, <2>1, <2>2
<1>6. ASSUME NEW i \in 1 .. n + 1, NEW j \in 1 .. n + 1,
             IsFrame(work'[i]), IsFrame(work'[j]), i < j
      PROVE  work'[i].index < work'[j].index
  <2>1. i \in 1 .. n /\ work'[i] = work[i]
    BY <1>1, <1>6
  <2>2. work[i].index =< framesSent /\ work[i].index \in Nat
    BY <1>2, <1>3, <1>6, <2>1
  <2>3. CASE j = n + 1
    BY <1>1, <1>6, <2>1, <2>2, <2>3
  <2>4. CASE j \in 1 .. n
    BY <1>1, <1>2, <1>6, <2>1, <2>4
  <2> QED BY <1>1, <2>3, <2>4
<1>7. ASSUME NEW k \in h + 1 .. framesSent'
      PROVE  \E i \in 1 .. n + 1 : IsFrame(work'[i]) /\ work'[i].index = k
  <2>1. CASE k \in h + 1 .. framesSent
    <3>1. PICK i \in 1 .. n : IsFrame(work[i]) /\ work[i].index = k
      BY <1>2, <2>1
    <3>2. i \in 1 .. n + 1 /\ work'[i] = work[i]
      BY <1>1
    <3> QED BY <3>1, <3>2
  <2>2. CASE k \notin h + 1 .. framesSent
    <3>1. IsFrame(w) /\ w.index = k
      BY <1>2, <2>2
    <3>2. n + 1 \in 1 .. n + 1
      BY <1>1
    <3> QED BY <1>1, <3>1, <3>2
  <2> QED BY <2>1, <2>2
<1> QED BY <1>1, <1>2, <1>4, <1>5, <1>6, <1>7 DEF FramesFrom

\* A frame that is taken is the next.
LEMMA FramesWhenTaken ==
    ASSUME work \in Seq(Work), framesSent \in Nat, NEW h, FramesFrom(h), work # <<>>,
           work' = Tail(work), framesSent' = framesSent
    PROVE  /\ IsFrame(Head(work)) => Head(work).index = h + 1 /\ FramesFrom(h + 1)'
           /\ ~IsFrame(Head(work)) => FramesFrom(h)'
<1> DEFINE n == Len(work)
<1>1. /\ n \in Nat /\ n > 0 /\ DOMAIN work = 1 .. n /\ DOMAIN work' = 1 .. n - 1
      /\ \A i \in 1 .. n - 1 : work'[i] = work[i + 1]
      /\ Head(work) = work[1]
  BY TakenWork
<1>2. /\ h \in Nat /\ h =< framesSent
      /\ \A i \in 1 .. n : IsFrame(work[i]) => h < work[i].index /\ work[i].index =< framesSent
      /\ \A i, j \in 1 .. n :
             IsFrame(work[i]) /\ IsFrame(work[j]) /\ i < j => work[i].index < work[j].index
      /\ \A k \in h + 1 .. framesSent : \E i \in 1 .. n : IsFrame(work[i]) /\ work[i].index = k
  BY <1>1 DEF FramesFrom
<1>3. \A i \in 1 .. n : IsFrame(work[i]) => work[i].index \in Nat
  <2> SUFFICES ASSUME NEW i \in 1 .. n, IsFrame(work[i]) PROVE work[i].index \in Nat
    OBVIOUS
  <2>1. work[i] \in Work
    OBVIOUS
  <2>2. work[i] \in FrameData
    BY <2>1, WorkKinds
  <2> QED BY <2>2 DEF FrameData
<1> HIDE DEF n
<1>4. \A i \in 1 .. n - 1 : i + 1 \in 1 .. n
  BY <1>1
<1>5. ASSUME NEW g \in Nat, g =< framesSent, h =< g,
             \A i \in 1 .. n : IsFrame(work[i]) /\ i > 1 => g < work[i].index,
             \A k \in g + 1 .. framesSent : ~(IsFrame(work[1]) /\ work[1].index = k)
      PROVE  FramesFrom(g)'
  <2>1. ASSUME NEW i \in 1 .. n - 1, IsFrame(work'[i])
        PROVE  g < work'[i].index /\ work'[i].index =< framesSent'
    <3>1. i + 1 \in 1 .. n /\ i + 1 > 1 /\ work'[i] = work[i + 1]
      BY <1>1, <1>4
    <3> QED BY <1>2, <1>5, <2>1, <3>1
  <2>2. ASSUME NEW i \in 1 .. n - 1, NEW j \in 1 .. n - 1,
               IsFrame(work'[i]), IsFrame(work'[j]), i < j
        PROVE  work'[i].index < work'[j].index
    <3>1. /\ i + 1 \in 1 .. n /\ work'[i] = work[i + 1]
          /\ j + 1 \in 1 .. n /\ work'[j] = work[j + 1]
          /\ i + 1 < j + 1
      BY <1>1, <1>4, <2>2
    <3> QED BY <1>2, <2>2, <3>1
  <2>3. ASSUME NEW k \in g + 1 .. framesSent'
        PROVE  \E i \in 1 .. n - 1 : IsFrame(work'[i]) /\ work'[i].index = k
    <3>1. k \in h + 1 .. framesSent /\ k \in g + 1 .. framesSent
      BY <1>2, <1>5
    <3>2. PICK i \in 1 .. n : IsFrame(work[i]) /\ work[i].index = k
      BY <1>2, <3>1
    <3>3. i # 1
      BY <1>5, <3>1, <3>2
    <3>4. i - 1 \in 1 .. n - 1 /\ work'[i - 1] = work[i]
      <4>1. i - 1 \in 1 .. n - 1 /\ (i - 1) + 1 = i
        BY <1>1, <3>3
      <4> QED BY <1>1, <4>1
    <3> QED BY <3>2, <3>4
  <2> QED BY <1>1, <1>5, <2>1, <2>2, <2>3 DEF FramesFrom
<1>6. CASE IsFrame(work[1])
  <2>1. h < work[1].index /\ work[1].index =< framesSent /\ work[1].index \in Nat
    BY <1>1, <1>2, <1>3, <1>6
  <2>2. work[1].index = h + 1
    <3>1. h + 1 \in h + 1 .. framesSent
      BY <1>2, <2>1
    <3>2. PICK i \in 1 .. n : IsFrame(work[i]) /\ work[i].index = h + 1
      BY <1>2, <3>1
    <3>3. ~(1 < i)
      <4> SUFFICES ASSUME 1 < i PROVE FALSE
        OBVIOUS
      <4>1. work[1].index < work[i].index
        BY <1>1, <1>2, <1>6, <3>2
      <4> QED BY <1>2, <2>1, <3>2, <4>1
    <3> QED BY <1>1, <3>2, <3>3
  <2>3. h + 1 \in Nat /\ h + 1 =< framesSent /\ h =< h + 1
    BY <1>2, <2>1, <2>2
  <2>4. \A i \in 1 .. n : IsFrame(work[i]) /\ i > 1 => h + 1 < work[i].index
    <3> SUFFICES ASSUME NEW i \in 1 .. n, IsFrame(work[i]), i > 1
                 PROVE  h + 1 < work[i].index
      OBVIOUS
    <3>1. work[1].index < work[i].index
      BY <1>1, <1>2, <1>6
    <3> QED BY <2>2, <3>1
  <2>5. \A k \in (h + 1) + 1 .. framesSent : ~(IsFrame(work[1]) /\ work[1].index = k)
    BY <1>2, <2>2
  <2>6. FramesFrom(h + 1)'
    BY <1>5, <2>3, <2>4, <2>5
  <2> QED BY <1>1, <1>6, <2>2, <2>6
<1>7. CASE ~IsFrame(work[1])
  <2>1. FramesFrom(h)'
    BY <1>2, <1>5, <1>7
  <2> QED BY <1>1, <1>7, <2>1
<1> QED BY <1>6, <1>7

-----------------------------------------------------------------------------
\* Steps that leave the files alone.

LEMMA JobTyped == \A j \in Job : j # NoJob /\ j.step \in {"start", "write"}
BY DEF Job, NoJob

\* What a block that has work knows.
LEMMA BlockIsUp ==
    ASSUME FilesInv, work # <<>> \/ job # NoJob
    PROVE  /\ recorder = "up"
           /\ \E h \in Nat : FramesFrom(h) /\ Follow(h)
           /\ \A r \in reqInfos : Older(files[r])
BY DEF FilesInv, TypeInv, OpenSound, FilesSound

LEMMA FollowStays ==
    ASSUME NEW h, Follow(h), UNCHANGED <<reqInfos, frameSize, files, job>>
    PROVE  Follow(h)'
BY DEF Follow, UpTo, Awaits

LEMMA OpenStays ==
    ASSUME OpenSound, UNCHANGED <<reqInfos, files, job, recorder>>
    PROVE  OpenSound'
BY DEF OpenSound, Restarted

LEMMA PostKeeps ==
    ASSUME FilesInv, NEW w \in Work, Post(w),
           \/ ~IsFrame(w) /\ framesSent' = framesSent
           \/ IsFrame(w) /\ framesSent' = framesSent + 1 /\ w.index = framesSent',
           UNCHANGED <<reqInfos, frameSize, files, job, recorder>>
    PROVE  /\ work' \in Seq(Work) /\ (recorder' = "faulted" => work' = <<>>)
           /\ OpenSound' /\ FilesSound'
<1>1. work \in Seq(Work) /\ framesSent \in Nat /\ recorder \in {"up", "faulted"}
  BY DEF FilesInv, TypeInv
<1>2. work' \in Seq(Work) /\ (recorder' = "faulted" => work' = <<>>)
  BY <1>1 DEF Post, FilesInv, TypeInv
<1>3. OpenSound'
  BY OpenStays DEF FilesInv
<1>4. ASSUME recorder = "up" PROVE FilesSound'
  <2>1. PICK h \in Nat : FramesFrom(h) /\ Follow(h)
    BY <1>4 DEF FilesInv, FilesSound
  <2>2. FramesFrom(h)'
    BY <1>1, <1>4, <2>1, FramesWhenPosted DEF Post
  <2>3. Follow(h)'
    BY <2>1, FollowStays
  <2> QED BY <2>2, <2>3 DEF FilesSound
<1>5. ASSUME recorder # "up" PROVE FilesSound'
  BY <1>5 DEF FilesSound
<1>6. FilesSound'
  BY <1>4, <1>5
<1> QED BY <1>2, <1>3, <1>6

LEMMA MappingStays ==
    ASSUME MappingSound, UNCHANGED <<reqInfos, files, job>>,
           DOMAIN entryMap' \subseteq DOMAIN entryMap,
           \A r \in DOMAIN entryMap' : entryMap'[r] = entryMap[r]
    PROVE  MappingSound'
BY DEF MappingSound, ToReport, IsNew, Unreported

\* When no offset is to be reported, those published fit.
LEMMA MappingWhenReported ==
    ASSUME FilesInv, job = NoJob \/ Unreported = NoRequest
    PROVE  /\ \A r \in reqInfos \cap DOMAIN entryMap : Fits(files[r], entryMap[r])
           /\ ~ToReport
<1>1. \A r \in reqInfos : r # NoRequest
  BY RequestsAssumption DEF FilesInv, TypeInv
<1> QED BY <1>1 DEF FilesInv, MappingSound, ToReport, IsNew

LEMMA MappingFits ==
    ASSUME job' = NoJob \/ Unreported' = NoRequest,
           \A r \in Requests : Readable(files'[r]),
           \A r \in reqInfos' \cap DOMAIN entryMap' : Fits(files'[r], entryMap'[r])
    PROVE  MappingSound'
BY DEF MappingSound, ToReport

LEMMA ClientStartsKeeps ==
    ASSUME FilesInv, NEW r \in Requests, ClientStarts(r)
    PROVE  FilesInv'
<1> USE DEF ClientStarts
<1>1. work' \in Seq(Work) /\ (recorder' = "faulted" => work' = <<>>) /\ OpenSound' /\ FilesSound'
  BY PostKeeps, PostedKinds
<1>2. fate' \in [Requests -> Told]
  BY DEF FilesInv, TypeInv, Told
<1>3. TypeInv'
  BY <1>1, <1>2 DEF FilesInv, TypeInv, JobSound, Unreported, Restarted
<1>4. MappingSound'
  BY MappingStays DEF FilesInv
<1> QED BY <1>1, <1>3, <1>4 DEF FilesInv

LEMMA ClientStopsKeeps ==
    ASSUME FilesInv, NEW r \in Requests, ClientStops(r)
    PROVE  FilesInv'
<1> USE DEF ClientStops
<1>1. work' \in Seq(Work) /\ (recorder' = "faulted" => work' = <<>>) /\ OpenSound' /\ FilesSound'
  BY PostKeeps, PostedKinds
<1>2. fate' \in [Requests -> Told]
  BY DEF FilesInv, TypeInv, Told
<1>3. DOMAIN entryMap' = DOMAIN entryMap \ {r} /\ \A q \in DOMAIN entryMap' : entryMap'[q] = entryMap[q]
  BY DEF RemoveMappingFor
<1>4. DOMAIN entryMap' \subseteq Requests /\ \A q \in DOMAIN entryMap' : entryMap'[q] \in Int
  BY <1>3 DEF FilesInv, TypeInv
<1>5. TypeInv'
  BY <1>1, <1>2, <1>4 DEF FilesInv, TypeInv, JobSound, Unreported, Restarted
<1>6. MappingSound'
  BY <1>3, MappingStays DEF FilesInv
<1> QED BY <1>1, <1>5, <1>6 DEF FilesInv

LEMMA FrameArrivesKeeps ==
    ASSUME FilesInv, NEW size \in Sizes, FrameArrives(size)
    PROVE  FilesInv'
<1> USE DEF FrameArrives
<1>1. framesSent' \in Nat /\ framesSent' = framesSent + 1
  BY DEF FilesInv, TypeInv
<1>2. FrameOf(size, framesSent') \in Work /\ IsFrame(FrameOf(size, framesSent'))
      /\ FrameOf(size, framesSent').index = framesSent'
  BY <1>1, PostedKinds
<1>3. work' \in Seq(Work) /\ (recorder' = "faulted" => work' = <<>>) /\ OpenSound' /\ FilesSound'
  <2> DEFINE w == FrameOf(size, framesSent')
  <2>1. w \in Work /\ IsFrame(w) /\ w.index = framesSent' /\ Post(w)
    BY <1>2
  <2> HIDE DEF w
  <2> QED BY <1>1, <2>1, PostKeeps
<1>4. TypeInv'
  BY <1>1, <1>3 DEF FilesInv, TypeInv, JobSound, Unreported, Restarted
<1>5. MappingSound'
  BY MappingStays DEF FilesInv
<1> QED BY <1>3, <1>4, <1>5 DEF FilesInv

LEMMA QuitGraphKeeps ==
    ASSUME FilesInv, QuitGraph
    PROVE  FilesInv'
<1> USE DEF QuitGraph
<1>1. work' \in Seq(Work) /\ (recorder' = "faulted" => work' = <<>>) /\ OpenSound' /\ FilesSound'
  BY PostKeeps, PostedKinds
<1>2. TypeInv'
  BY <1>1 DEF FilesInv, TypeInv, JobSound, Unreported, Restarted
<1>3. MappingSound'
  BY MappingStays DEF FilesInv
<1> QED BY <1>1, <1>2, <1>3 DEF FilesInv

LEMMA GraphCompletesKeeps ==
    ASSUME FilesInv, GraphCompletes
    PROVE  FilesInv'
<1> USE DEF GraphCompletes
<1>1. OpenSound' /\ MappingSound'
  BY OpenStays, MappingStays DEF FilesInv
<1>2. FilesSound'
  BY FollowStays DEF FilesInv, FilesSound, FramesFrom
<1>3. TypeInv'
  BY DEF FilesInv, TypeInv, JobSound, Unreported, Restarted
<1> QED BY <1>1, <1>2, <1>3 DEF FilesInv

\* Taking a command leaves the frames that wait as they are.
LEMMA CommandTaken ==
    ASSUME FilesInv, NEW kind, kind # "Frame", Takes(kind), UNCHANGED framesSent
    PROVE  /\ work \in Seq(Work) /\ work # <<>> /\ work' \in Seq(Work) /\ work' = Tail(work)
           /\ Head(work) \in Work /\ Head(work).kind = kind
           /\ job = NoJob /\ recorder = "up"
           /\ \E h \in Nat : FramesFrom(h)' /\ Follow(h)
<1>1. /\ work \in Seq(Work) /\ work # <<>> /\ work' = Tail(work) /\ framesSent \in Nat
      /\ Head(work).kind = kind /\ job = NoJob
  BY DEF FilesInv, TypeInv, Takes
<1>2. work' \in Seq(Work) /\ Head(work) \in Work /\ ~IsFrame(Head(work))
  BY <1>1, TakenWork DEF IsFrame
<1>3. recorder = "up" /\ \E h \in Nat : FramesFrom(h) /\ Follow(h)
  BY <1>1, BlockIsUp
<1>4. PICK h \in Nat : FramesFrom(h) /\ Follow(h)
  BY <1>3
<1>5. FramesFrom(h)'
  BY <1>1, <1>2, <1>4, FramesWhenTaken
<1> QED BY <1>1, <1>2, <1>3, <1>4, <1>5

LEMMA TakeStartKeeps ==
    ASSUME FilesInv, TakeStart
    PROVE  FilesInv'
<1> USE DEF TakeStart
<1>1. /\ work' \in Seq(Work) /\ Head(work) \in Work /\ Head(work).kind = "StartRecording"
      /\ job = NoJob /\ recorder = "up"
      /\ \E h \in Nat : FramesFrom(h)' /\ Follow(h)
  BY CommandTaken
<1>2. startRecordRequest' \in Requests
  BY <1>1, WorkKinds
<1>3. fate' \in [Requests -> Told]
  BY DEF FilesInv, TypeInv, Told
<1>4. OpenSound' /\ MappingSound'
  BY OpenStays, MappingStays DEF FilesInv
<1>5. FilesSound'
  BY <1>1, FollowStays DEF FilesSound
<1>6. TypeInv'
  BY <1>1, <1>2, <1>3 DEF FilesInv, TypeInv, JobSound, Unreported, Restarted
<1> QED BY <1>4, <1>5, <1>6 DEF FilesInv

-----------------------------------------------------------------------------
\* Steps that change files.

\* Disposing recorders closes their files and leaves the others alone.
LEMMA Disposed ==
    ASSUME files \in [Requests -> Seq(File)], \A r \in Requests : Readable(files[r]),
           NEW rs \in SUBSET Requests, \A r \in rs : Older(files[r])
    PROVE  /\ Dispose(rs) \in [Requests -> Seq(File)]
           /\ \A r \in Requests : Readable(Dispose(rs)[r])
           /\ \A r \in rs : Closed(Dispose(rs)[r])
           /\ \A r \in Requests \ rs : Dispose(rs)[r] = files[r]
<1> DEFINE d(r) == OfLast(files[r], [Last(files[r]) EXCEPT !.open = FALSE])
<1>1. \A r \in rs : /\ d(r) \in Seq(File) /\ Readable(d(r)) /\ Closed(d(r))
                    /\ files[r] # <<>>
  <2> SUFFICES ASSUME NEW r \in rs
               PROVE  d(r) \in Seq(File) /\ Readable(d(r)) /\ Closed(d(r)) /\ files[r] # <<>>
    OBVIOUS
  <2>1. files[r] \in Seq(File) /\ Older(files[r]) /\ Readable(files[r])
    OBVIOUS
  <2> QED BY <2>1, DisposedFiles DEF Older
<1>2. Dispose(rs) = [r \in Requests |-> IF r \in rs /\ files[r] # <<>> THEN d(r) ELSE files[r]]
  BY DEF Dispose
<1> HIDE DEF d
<1>3. \A r \in rs : Dispose(rs)[r] = d(r)
  BY <1>1, <1>2
<1>4. \A r \in Requests \ rs : Dispose(rs)[r] = files[r]
  BY <1>2
<1> QED BY <1>1, <1>2, <1>3, <1>4

LEMMA TakeFrameKeeps ==
    ASSUME FilesInv, TakeFrame
    PROVE  FilesInv'
<1> DEFINE frame == Head(work)
           currents == IF SizeChanged(frame) THEN reqInfos ELSE {}
           newJob == [step |-> "start", frame |-> frame, currents |-> currents,
                  restarted |-> {}, badRestarts |-> {}, todo |-> {}, failed |-> {},
                  gaveUp |-> {}, attempts |-> [r \in Requests |-> MaxRecordRetries],
                  wrote |-> NoRequest, offset |-> 0]
<1>1. /\ work \in Seq(Work) /\ work # <<>> /\ work' = Tail(work) /\ framesSent \in Nat
      /\ frame.kind = "Frame" /\ job = NoJob /\ framesSent' = framesSent
      /\ frameSize' = frame.size
      /\ files' = Dispose(currents) /\ reqInfos' = reqInfos \ currents /\ job' = newJob
      /\ UNCHANGED <<startRecordRequest, entryMap, recorder, graph, fate, failures>>
  BY DEF FilesInv, TypeInv, TakeFrame, Takes
<1>2. work' \in Seq(Work) /\ frame \in FrameData /\ IsFrame(frame)
  BY <1>1, TakenWork, WorkKinds DEF IsFrame
<1>3. /\ recorder = "up" /\ \E h \in Nat : FramesFrom(h) /\ Follow(h)
      /\ \A r \in reqInfos : Older(files[r])
  BY <1>1, BlockIsUp
<1>4. PICK h \in Nat : FramesFrom(h) /\ Follow(h)
  BY <1>3
<1>5. frame.index = h + 1 /\ FramesFrom(h + 1)' /\ h + 1 \in Nat
  BY <1>1, <1>2, <1>4, FramesWhenTaken
<1>6. frame.size \in Sizes
  BY <1>2 DEF FrameData
<1>7. /\ currents \in SUBSET Requests /\ currents \subseteq reqInfos /\ reqInfos \subseteq Requests
      /\ files \in [Requests -> Seq(File)] /\ \A r \in Requests : Readable(files[r])
      /\ \A r \in reqInfos : files[r] # <<>>
  BY DEF FilesInv, TypeInv, MappingSound
<1>8. /\ files' \in [Requests -> Seq(File)]
      /\ \A r \in Requests : Readable(files'[r])
      /\ \A r \in currents : Closed(files'[r])
      /\ \A r \in Requests \ currents : files'[r] = files[r]
  BY <1>1, <1>3, <1>7, Disposed
<1>9. newJob \in Job /\ newJob # NoJob
  <2>1. [r \in Requests |-> MaxRecordRetries] \in [Requests -> Nat]
    BY RecordingBounds
  <2> HIDE DEF frame, currents
  <2>2. newJob \in Job
    BY <1>2, <1>7, <2>1 DEF Job
  <2> QED BY <2>2, JobTyped
<1>10. /\ job'.step = "start" /\ job'.frame = frame /\ job'.currents = currents
       /\ job'.restarted = {} /\ job'.badRestarts = {} /\ job'.todo = {}
       /\ job'.failed = {} /\ job'.gaveUp = {} /\ job'.wrote = NoRequest
  BY <1>1
<1>11. job' \in Job /\ job' # NoJob
  BY <1>1, <1>9
<1> HIDE DEF frame, currents, newJob
<1>12. TypeInv'
  <2>1. JobSound'
    BY <1>1, <1>10 DEF JobSound, Unreported
  <2>2. \A r \in reqInfos' \cup Restarted' : files'[r] # <<>>
    BY <1>1, <1>7, <1>8, <1>10 DEF Restarted
  <2> QED BY <1>1, <1>2, <1>3, <1>6, <1>7, <1>8, <1>11, <2>1, <2>2 DEF FilesInv, TypeInv
<1>13. OpenSound'
  <2>1. Restarted = {} /\ Restarted' = {}
    BY <1>1, <1>10 DEF Restarted
  <2> SUFFICES ASSUME NEW r \in Requests
               PROVE  IF r \in reqInfos' THEN Older(files'[r]) ELSE Closed(files'[r])
    BY <2>1 DEF OpenSound
  <2>2. r \in reqInfos => Older(files[r])
    BY <1>3
  <2>3. r \notin reqInfos => Closed(files[r])
    BY <1>3, <2>1 DEF FilesInv, OpenSound
  <2> QED BY <1>1, <1>7, <1>8, <2>2, <2>3
<1>14. Follow(h + 1)'
  <2>1. ASSUME NEW r \in reqInfos'
        PROVE  Awaits(r)'
    <3>1. r \in reqInfos /\ r \notin currents /\ r \in Requests /\ ~SizeChanged(frame)
      BY <1>1, <1>7 DEF currents
    <3>2. files'[r] = files[r] /\ frame.size = frameSize
      BY <1>8, <3>1 DEF SizeChanged
    <3>3. InUse(files[r]) /\ EndsWith(files[r], h, frameSize)
      BY <1>1, <1>4, <3>1 DEF Follow, UpTo
    <3>4. frame.index - 1 = h
      BY <1>5
    <3> QED BY <1>10, <3>2, <3>3, <3>4 DEF Awaits
  <2> QED BY <1>1, <1>5, <1>10, <1>11, <2>1 DEF Follow
<1>15. FilesSound'
  BY <1>5, <1>14 DEF FilesSound
<1>16. MappingSound'
  <2>1. \A r \in reqInfos' : files'[r] = files[r] /\ r \in reqInfos
    BY <1>1, <1>7, <1>8
  <2>2. \A r \in reqInfos \cap DOMAIN entryMap : Fits(files[r], entryMap[r])
    BY <1>1, MappingWhenReported
  <2>3. \A r \in reqInfos' \cap DOMAIN entryMap' : Fits(files'[r], entryMap'[r])
    BY <1>1, <2>1, <2>2
  <2> QED BY <1>8, <1>10, <2>3, MappingFits DEF Unreported
<1> QED BY <1>12, <1>13, <1>15, <1>16 DEF FilesInv

\* Recorders are disposed between frames.
LEMMA DisposedBetweenFrames ==
    ASSUME FilesInv, NEW gone \in SUBSET reqInfos, job = NoJob, recorder = "up",
           work' \in Seq(Work), \E h \in Nat : FramesFrom(h)' /\ Follow(h),
           files' = Dispose(gone), reqInfos' = reqInfos \ gone,
           graph' \in {"open", "quitting", "completing", "done"},
           UNCHANGED <<startRecordRequest, frameSize, job, entryMap, recorder, fate,
                       framesSent, failures>>
    PROVE  FilesInv'
<1>1. \A r \in reqInfos : Older(files[r])
  BY DEF FilesInv, TypeInv, OpenSound
<1>2. /\ gone \in SUBSET Requests /\ reqInfos \subseteq Requests
      /\ files \in [Requests -> Seq(File)] /\ \A r \in Requests : Readable(files[r])
      /\ \A r \in reqInfos : files[r] # <<>>
  BY DEF FilesInv, TypeInv, MappingSound
<1>3. /\ files' \in [Requests -> Seq(File)]
      /\ \A r \in Requests : Readable(files'[r])
      /\ \A r \in gone : Closed(files'[r])
      /\ \A r \in Requests \ gone : files'[r] = files[r]
  BY <1>1, <1>2, Disposed
<1>4. Restarted = {} /\ Restarted' = {}
  BY DEF Restarted
<1>5. \A r \in reqInfos' : r \in reqInfos /\ r \in Requests /\ files'[r] = files[r]
  BY <1>2, <1>3
<1>6. TypeInv'
  BY <1>2, <1>3, <1>4, <1>5 DEF FilesInv, TypeInv, JobSound, Unreported
<1>7. OpenSound'
  <2> SUFFICES ASSUME NEW r \in Requests
               PROVE  IF r \in reqInfos' THEN Older(files'[r]) ELSE Closed(files'[r])
    BY <1>4 DEF OpenSound
  <2>1. r \notin reqInfos => Closed(files[r])
    BY <1>4 DEF FilesInv, OpenSound
  <2> QED BY <1>1, <1>3, <1>5, <2>1
<1>8. FilesSound'
  <2>1. PICK h \in Nat : FramesFrom(h)' /\ Follow(h)
    OBVIOUS
  <2>2. Follow(h)'
    BY <1>5, <2>1 DEF Follow, UpTo
  <2> QED BY <2>1, <2>2 DEF FilesSound
<1>9. MappingSound'
  <2>1. \A r \in reqInfos \cap DOMAIN entryMap : Fits(files[r], entryMap[r])
    BY MappingWhenReported
  <2>2. \A r \in reqInfos' \cap DOMAIN entryMap' : Fits(files'[r], entryMap'[r])
    BY <1>5, <2>1
  <2> QED BY <1>3, <2>2, MappingFits
<1> QED BY <1>6, <1>7, <1>8, <1>9 DEF FilesInv

LEMMA TakeStopKeeps ==
    ASSUME FilesInv, TakeStop
    PROVE  FilesInv'
<1> DEFINE gone == reqInfos \cap {Head(work).request}
<1>1. /\ work' \in Seq(Work) /\ job = NoJob /\ recorder = "up"
      /\ \E h \in Nat : FramesFrom(h)' /\ Follow(h)
  BY CommandTaken DEF TakeStop
<1>2. /\ files' = Dispose(gone) /\ reqInfos' = reqInfos \ gone /\ gone \in SUBSET reqInfos
      /\ UNCHANGED <<startRecordRequest, frameSize, job, entryMap, recorder, graph, fate,
                     framesSent, failures>>
  BY DEF TakeStop
<1>3. graph' \in {"open", "quitting", "completing", "done"}
  BY <1>2 DEF FilesInv, TypeInv
<1> QED BY <1>1, <1>2, <1>3, DisposedBetweenFrames

LEMMA TakeQuitKeeps ==
    ASSUME FilesInv, TakeQuit
    PROVE  FilesInv'
<1>1. /\ work' \in Seq(Work) /\ job = NoJob /\ recorder = "up"
      /\ \E h \in Nat : FramesFrom(h)' /\ Follow(h)
  BY CommandTaken DEF TakeQuit
<1>2. /\ files' = Dispose(reqInfos) /\ reqInfos' = reqInfos \ reqInfos
      /\ graph' \in {"open", "quitting", "completing", "done"}
      /\ UNCHANGED <<startRecordRequest, frameSize, job, entryMap, recorder, fate,
                     framesSent, failures>>
  BY DEF TakeQuit
<1> QED BY <1>1, <1>2, DisposedBetweenFrames

-----------------------------------------------------------------------------
\* Steps of the handling of a frame.

LEMMA FramesStay ==
    ASSUME NEW h, FramesFrom(h), UNCHANGED <<work, framesSent>>
    PROVE  FramesFrom(h)'
BY DEF FramesFrom

LEMMA FailCounts == failures \in Nat /\ Fail => failures' \in Nat
BY DEF Fail

\* What the handling of a frame knows.
LEMMA JobFacts ==
    ASSUME FilesInv, job # NoJob
    PROVE  /\ job \in Job /\ recorder = "up" /\ frameSize = job.frame.size
           /\ \E h \in Nat : job.frame.index = h /\ FramesFrom(h) /\ Follow(h)
           /\ reqInfos \subseteq Requests /\ files \in [Requests -> Seq(File)]
           /\ \A r \in Requests : Readable(files[r])
           /\ \A r \in Requests : IF r \in reqInfos \cup job.restarted THEN Older(files[r])
                                                                     ELSE Closed(files[r])
           /\ failures \in Nat
<1>1. job \in Job /\ recorder = "up" /\ reqInfos \subseteq Requests
      /\ files \in [Requests -> Seq(File)] /\ failures \in Nat
  BY DEF FilesInv, TypeInv
<1>2. PICK h \in Nat : FramesFrom(h) /\ Follow(h)
  BY <1>1 DEF FilesInv, FilesSound
<1>3. job.frame.index = h /\ job.frame.size = frameSize
  BY <1>2 DEF Follow
<1>4. Restarted = job.restarted
  BY DEF Restarted
<1> QED BY <1>1, <1>2, <1>3, <1>4 DEF FilesInv, MappingSound, OpenSound

LEMMA RestartKeeps ==
    ASSUME FilesInv, NEW r \in Requests, Restart(r)
    PROVE  FilesInv'
<1>1. /\ job.step = "start" /\ r \in job.currents /\ job # NoJob
      /\ UNCHANGED <<work, reqInfos, startRecordRequest, frameSize, entryMap, recorder,
                     graph, fate, framesSent>>
  BY DEF Restart, NoJob
<1>2. /\ job \in Job /\ recorder = "up" /\ frameSize = job.frame.size
      /\ reqInfos \subseteq Requests /\ files \in [Requests -> Seq(File)]
      /\ \A q \in Requests : Readable(files[q])
      /\ \A q \in Requests : IF q \in reqInfos \cup job.restarted THEN Older(files[q])
                                                                  ELSE Closed(files[q])
      /\ failures \in Nat
  BY <1>1, JobFacts
<1>3. PICK h \in Nat : job.frame.index = h /\ FramesFrom(h) /\ Follow(h)
  BY <1>1, JobFacts
<1>4. r \notin reqInfos /\ r \notin job.restarted /\ Closed(files[r])
  BY <1>1, <1>2 DEF FilesInv, TypeInv, JobSound, Unreported
<1>5. /\ job' \in Job /\ job'.step = "start" /\ job'.frame = job.frame
      /\ job'.currents = job.currents \ {r}
      /\ job'.todo = job.todo /\ job'.failed = job.failed /\ job'.gaveUp = job.gaveUp
      /\ job'.wrote = job.wrote /\ failures' \in Nat
      /\ \/ /\ job'.restarted = job.restarted \cup {r} /\ files' = Create(r)
            /\ job'.badRestarts = job.badRestarts
         \/ /\ job'.restarted = job.restarted /\ files' = files
            /\ job'.badRestarts = job.badRestarts \cup {r}
  <2>1. CASE /\ files' = Create(r) /\ failures' = failures
             /\ job' = [job EXCEPT !.currents = @ \ {r}, !.restarted = @ \cup {r}]
    BY <1>1, <1>2, <2>1 DEF Job
  <2>2. CASE /\ files' = files /\ Fail
             /\ job' = [job EXCEPT !.currents = @ \ {r}, !.badRestarts = @ \cup {r}]
    <3>1. failures' \in Nat
      BY <1>2, <2>2, FailCounts
    <3> QED BY <1>1, <1>2, <2>2, <3>1 DEF Job
  <2> QED BY <2>1, <2>2 DEF Restart
<1>6. job' # NoJob /\ Restarted = job.restarted /\ Restarted' = job'.restarted
  BY <1>1, <1>5, JobTyped DEF Restarted
<1>7. /\ files' \in [Requests -> Seq(File)]
      /\ \A q \in Requests : Readable(files'[q])
      /\ \A q \in Requests : q # r => files'[q] = files[q]
      /\ r \in job'.restarted => InUse(files'[r]) /\ Last(files'[r]).frames = <<>>
      /\ r \notin job'.restarted => files'[r] = files[r]
  <2>1. CASE job'.restarted = job.restarted \cup {r} /\ files' = Create(r)
    <3>1. files[r] \in Seq(File) /\ Closed(files[r]) /\ Readable(files[r])
      BY <1>2, <1>4
    <3> DEFINE g == Append(files[r], NewFile)
    <3>2. g \in Seq(File) /\ InUse(g) /\ Last(g).frames = <<>> /\ Readable(g)
      BY <3>1, CreatedFiles
    <3>3. files' = [files EXCEPT ![r] = g]
      BY <2>1 DEF Create
    <3> HIDE DEF g
    <3> QED BY <1>2, <2>1, <3>2, <3>3
  <2>2. CASE job'.restarted = job.restarted /\ files' = files
    BY <1>2, <1>4, <2>2
  <2> QED BY <1>5, <2>1, <2>2
<1>8. r \in job'.restarted => Older(files'[r])
  BY <1>7 DEF InUse
<1>9. TypeInv'
  <2>1. JobSound'
    BY <1>1, <1>4, <1>5, <1>6 DEF JobSound, Unreported, FilesInv, TypeInv
  <2>2. \A q \in reqInfos' \cup Restarted' : files'[q] # <<>>
    <3> SUFFICES ASSUME NEW q \in reqInfos \cup job'.restarted PROVE files'[q] # <<>>
      BY <1>1, <1>6
    <3>1. q \in Requests
      BY <1>2, <1>5 DEF Job
    <3>2. CASE q = r
      BY <1>4, <1>8, <3>2 DEF Older
    <3>3. CASE q # r
      <4>1. q \in reqInfos \cup job.restarted /\ files'[q] = files[q]
        BY <1>5, <1>7, <3>1, <3>3
      <4> QED BY <1>2, <3>1, <4>1 DEF Older
    <3> QED BY <3>2, <3>3
  <2> QED BY <1>1, <1>2, <1>5, <1>7, <2>1, <2>2 DEF FilesInv, TypeInv
<1>10. OpenSound'
  <2> SUFFICES ASSUME NEW q \in Requests
               PROVE  IF q \in reqInfos \cup job'.restarted THEN Older(files'[q]) ELSE Closed(files'[q])
    BY <1>1, <1>6 DEF OpenSound
  <2> QED BY <1>2, <1>4, <1>5, <1>7, <1>8
<1>11. Follow(h)'
  <2>1. \A q \in reqInfos : q \in Requests /\ files'[q] = files[q]
    BY <1>2, <1>4, <1>7
  <2>2. \A q \in job'.restarted : InUse(files'[q]) /\ Last(files'[q]).frames = <<>>
    <3> SUFFICES ASSUME NEW q \in job'.restarted, q # r
                 PROVE  InUse(files'[q]) /\ Last(files'[q]).frames = <<>>
      BY <1>7
    <3>1. q \in job.restarted /\ q \in Requests
      BY <1>5 DEF Job
    <3> QED BY <1>1, <1>3, <1>7, <3>1 DEF Follow
  <2>3. \A q \in reqInfos : Awaits(q)'
    BY <1>1, <1>3, <1>5, <2>1 DEF Follow, Awaits
  <2> QED BY <1>1, <1>2, <1>3, <1>5, <1>6, <2>2, <2>3 DEF Follow
<1>12. FilesSound'
  BY <1>1, <1>3, <1>11, FramesStay DEF FilesSound
<1>13. MappingSound'
  <2>1. job.wrote = NoRequest
    BY <1>1 DEF FilesInv, TypeInv, JobSound, Unreported
  <2>2. \A q \in reqInfos \cap DOMAIN entryMap : Fits(files[q], entryMap[q])
    BY <2>1, MappingWhenReported DEF Unreported
  <2>3. \A q \in reqInfos' \cap DOMAIN entryMap' : Fits(files'[q], entryMap'[q])
    BY <1>1, <1>2, <1>4, <1>7, <2>2
  <2> QED BY <1>5, <1>7, <2>1, <2>3, MappingFits DEF Unreported
<1> QED BY <1>9, <1>10, <1>12, <1>13 DEF FilesInv

LEMMA NotifiedTyped ==
    ASSUME NEW old \in [Requests -> Told], NEW rs
    PROVE  NotifyOfTermination(rs, old) \in [Requests -> Told]
BY DEF NotifyOfTermination, Told

LEMMA StartQueuedKeeps ==
    ASSUME FilesInv, StartQueued
    PROVE  FilesInv'
<1> DEFINE req == startRecordRequest
           current == reqInfos \cup job.restarted
<1>1. /\ job.step = "start" /\ job.currents = {} /\ job # NoJob
      /\ startRecordRequest' = NoRequest
      /\ job' = [job EXCEPT !.step = "write", !.restarted = {}, !.todo = reqInfos']
      /\ UNCHANGED <<work, frameSize, entryMap, recorder, graph, framesSent>>
  BY DEF StartQueued, NoJob
<1>2. /\ job \in Job /\ recorder = "up" /\ frameSize = job.frame.size
      /\ reqInfos \subseteq Requests /\ files \in [Requests -> Seq(File)]
      /\ \A q \in Requests : Readable(files[q])
      /\ \A q \in Requests : IF q \in current THEN Older(files[q]) ELSE Closed(files[q])
      /\ failures \in Nat
  BY <1>1, JobFacts
<1>3. PICK h \in Nat : job.frame.index = h /\ FramesFrom(h) /\ Follow(h)
  BY <1>1, JobFacts
<1>4. current \subseteq Requests
  BY <1>2 DEF Job
<1>5. \/ reqInfos' = current /\ files' = files
      \/ /\ req \in Requests /\ req \notin current
         /\ reqInfos' = current \cup {req} /\ files' = Create(req)
  BY DEF StartQueued, NothingToStart, FilesInv, TypeInv
<1>6. failures' \in Nat /\ fate' \in [Requests -> Told]
  <2>1. fate \in [Requests -> Told]
    BY DEF FilesInv, TypeInv
  <2>2. NotifyOfTermination({req}, fate) \in [Requests -> Told]
    BY <2>1, NotifiedTyped
  <2>3. failures' = failures \/ Fail
    BY DEF StartQueued
  <2>4. failures' \in Nat
    BY <1>2, <2>3, FailCounts
  <2> QED BY <2>1, <2>2, <2>4 DEF StartQueued
<1>7. \A q \in current : InUse(files[q]) /\
          (Last(files[q]).frames = <<>> \/ EndsWith(files[q], job.frame.index - 1, job.frame.size))
  BY <1>1, <1>3 DEF Follow, Awaits
<1>8. reqInfos' \subseteq Requests
  BY <1>4, <1>5
<1>9. /\ job' \in Job /\ job'.step = "write" /\ job'.frame = job.frame /\ job'.currents = {}
      /\ job'.restarted = {} /\ job'.todo = reqInfos' /\ job'.failed = {} /\ job'.gaveUp = {}
      /\ job.wrote = NoRequest /\ job'.wrote = NoRequest
  <2>1. job.failed = {} /\ job.gaveUp = {} /\ job.wrote = NoRequest
    BY <1>1 DEF FilesInv, TypeInv, JobSound, Unreported
  <2>2. job'.step = "write" /\ job'.frame = job.frame /\ job'.currents = {}
        /\ job'.restarted = {} /\ job'.todo = reqInfos' /\ job'.failed = {} /\ job'.gaveUp = {}
        /\ job'.wrote = NoRequest
    BY <1>1, <1>2, <2>1 DEF Job
  <2>3. job' \in Job
    BY <1>1, <1>2, <1>8 DEF Job
  <2> QED BY <2>1, <2>2, <2>3
<1>10. job' # NoJob /\ Restarted = job.restarted /\ Restarted' = {}
  BY <1>1, <1>9, JobTyped DEF Restarted
<1> HIDE DEF req, current
<1>11. /\ files' \in [Requests -> Seq(File)]
       /\ \A q \in Requests : Readable(files'[q])
       /\ \A q \in Requests : q \notin reqInfos' => Closed(files'[q])
       /\ \A q \in reqInfos' : InUse(files'[q]) /\
              (Last(files'[q]).frames = <<>> \/ EndsWith(files'[q], job.frame.index - 1, job.frame.size))
       /\ \A q \in reqInfos' : \/ q \in current /\ files'[q] = files[q]
                               \/ \A offset \in Int : Fits(files'[q], offset)
  <2>1. CASE reqInfos' = current /\ files' = files
    BY <1>2, <1>7, <2>1
  <2>2. CASE /\ req \in Requests /\ req \notin current
             /\ reqInfos' = current \cup {req} /\ files' = Create(req)
    <3>1. files[req] \in Seq(File) /\ Closed(files[req]) /\ Readable(files[req])
      BY <1>2, <2>2
    <3> DEFINE g == Append(files[req], NewFile)
    <3>2. g \in Seq(File) /\ InUse(g) /\ Last(g).frames = <<>> /\ Readable(g)
          /\ \A offset \in Int : Fits(g, offset)
      BY <3>1, CreatedFiles
    <3>3. files' = [files EXCEPT ![req] = g]
      BY <2>2 DEF Create
    <3> HIDE DEF g
    <3>4. files' \in [Requests -> Seq(File)] /\ files'[req] = g
          /\ \A q \in Requests : q # req => files'[q] = files[q]
      BY <1>2, <2>2, <3>2, <3>3
    <3> QED BY <1>2, <1>4, <1>7, <2>2, <3>2, <3>4
  <2> QED BY <1>5, <2>1, <2>2
<1>12. \A q \in reqInfos' : Older(files'[q]) /\ files'[q] # <<>>
  BY <1>11 DEF InUse, Older
<1>13. TypeInv'
  <2>1. JobSound'
    BY <1>9 DEF JobSound, Unreported
  <2>2. startRecordRequest' \in Requests \cup {NoRequest}
    BY <1>1
  <2> QED BY <1>1, <1>2, <1>6, <1>8, <1>9, <1>10, <1>11, <1>12, <2>1, <2>2 DEF FilesInv, TypeInv
<1>14. OpenSound'
  BY <1>10, <1>11, <1>12 DEF OpenSound
<1>15. Follow(h)'
  <2>1. \A q \in reqInfos' : Awaits(q)'
    BY <1>9, <1>11 DEF Awaits
  <2> QED BY <1>1, <1>2, <1>3, <1>9, <1>10, <2>1 DEF Follow
<1>16. FilesSound'
  BY <1>1, <1>3, <1>15, FramesStay DEF FilesSound
<1>17. MappingSound'
  <2> SUFFICES ASSUME NEW q \in reqInfos' \cap DOMAIN entryMap
               PROVE  Fits(files'[q], entryMap[q])
    BY <1>1, <1>9, <1>11, MappingFits DEF Unreported
  <2>1. entryMap[q] \in Int
    BY DEF FilesInv, TypeInv
  <2>2. CASE q \in reqInfos /\ files'[q] = files[q]
    BY <1>9, <2>2, MappingWhenReported DEF Unreported
  <2>3. CASE q \in job.restarted /\ files'[q] = files[q]
    BY <1>1, <1>3, <2>3 DEF Follow, Fits
  <2>4. CASE \A offset \in Int : Fits(files'[q], offset)
    BY <2>1, <2>4
  <2> QED BY <1>11, <2>2, <2>3, <2>4 DEF current
<1> QED BY <1>13, <1>14, <1>16, <1>17 DEF FilesInv

\* A job that differs from the present one in r's part only: what is to be written,
\* what failed, what was given up and what is to be reported.
OnlyPartOf(r, j) ==
    /\ j \in Job /\ j.step = "write" /\ j.frame = job.frame
    /\ j.currents = {} /\ j.restarted = {}
    /\ j.todo \cup j.failed \cup j.gaveUp \subseteq reqInfos
    /\ j.todo \cap (j.failed \cup j.gaveUp) = {} /\ j.failed \cap j.gaveUp = {}
    /\ j.wrote # NoRequest => j.wrote = r /\ r \notin j.todo \cup j.failed \cup j.gaveUp
    /\ \A q \in reqInfos : q # r => /\ q \in j.todo <=> q \in job.todo
                                    /\ q \in j.failed <=> q \in job.failed
                                    /\ q \in j.gaveUp <=> q \in job.gaveUp

\* It is enough to see what became of r and its files.
LEMMA PartKeeps ==
    ASSUME FilesInv, NEW r \in reqInfos, job.step = "write", job # NoJob,
           OnlyPartOf(r, job'), NEW fs \in Seq(File), files' = [files EXCEPT ![r] = fs],
           Older(fs), Readable(fs),
           r \in job'.todo => FALSE,
           r \in job'.failed \cup job'.gaveUp => Last(fs).failed,
           r \notin job'.failed \cup job'.gaveUp =>
               InUse(fs) /\ EndsWith(fs, job.frame.index, job.frame.size),
           Unreported = NoRequest,
           r \in DOMAIN entryMap =>
               \/ Fits(fs, entryMap[r])
               \/ job'.wrote = r /\ Len(Last(fs).frames) = 1,
           job'.wrote # NoRequest => Fits(fs, job'.offset),
           failures' \in Nat,
           UNCHANGED <<work, reqInfos, startRecordRequest, frameSize, entryMap, recorder,
                       graph, fate, framesSent>>
    PROVE  FilesInv'
<1>1. /\ job \in Job /\ recorder = "up" /\ frameSize = job.frame.size
      /\ reqInfos \subseteq Requests /\ files \in [Requests -> Seq(File)]
      /\ \A q \in Requests : Readable(files[q])
      /\ \A q \in Requests : IF q \in reqInfos \cup job.restarted THEN Older(files[q])
                                                                  ELSE Closed(files[q])
  BY JobFacts
<1>2. PICK h \in Nat : job.frame.index = h /\ FramesFrom(h) /\ Follow(h)
  BY JobFacts
<1>3. r \in Requests /\ job.restarted = {}
  BY <1>1 DEF FilesInv, TypeInv, JobSound, Unreported
<1>4. /\ files' \in [Requests -> Seq(File)] /\ files'[r] = fs
      /\ \A q \in Requests : q # r => files'[q] = files[q]
  BY <1>1, <1>3
<1>5. /\ job' \in Job /\ job' # NoJob /\ job'.step = "write" /\ job'.frame = job.frame
      /\ job'.currents = {} /\ job'.restarted = {} /\ Restarted' = {} /\ Restarted = {}
  BY <1>3, JobTyped DEF OnlyPartOf, Restarted
<1>6. \A q \in reqInfos : Older(files'[q])
  BY <1>1, <1>3, <1>4
<1>7. TypeInv'
  <2>1. JobSound'
    BY <1>5 DEF JobSound, Unreported, OnlyPartOf
  <2>2. \A q \in reqInfos' \cup Restarted' : files'[q] # <<>>
    BY <1>5, <1>6 DEF Older
  <2> QED BY <1>4, <1>5, <2>1, <2>2, <1>1 DEF FilesInv, TypeInv
<1>8. OpenSound'
  <2> SUFFICES ASSUME NEW q \in Requests
               PROVE  IF q \in reqInfos THEN Older(files'[q]) ELSE Closed(files'[q])
    BY <1>5 DEF OpenSound
  <2> QED BY <1>1, <1>3, <1>4, <1>6
<1>9. Follow(h)'
  <2>1. ASSUME NEW q \in reqInfos
        PROVE  /\ q \in job'.todo => Awaits(q)'
               /\ q \in job'.failed \cup job'.gaveUp => Last(files'[q]).failed
               /\ q \notin job'.todo \cup job'.failed \cup job'.gaveUp => UpTo(q, h)'
    <3>1. CASE q = r
      BY <1>1, <1>2, <1>4, <3>1 DEF UpTo
    <3>2. CASE q # r
      <4>1. files'[q] = files[q] /\ q \in Requests
        BY <1>1, <1>4, <3>2
      <4>2. /\ q \in job'.todo <=> q \in job.todo
            /\ q \in job'.failed <=> q \in job.failed
            /\ q \in job'.gaveUp <=> q \in job.gaveUp
        BY <3>2 DEF OnlyPartOf
      <4>3. /\ q \in job.todo => Awaits(q)
            /\ q \in job.failed \cup job.gaveUp => Last(files[q]).failed
            /\ q \notin job.todo \cup job.failed \cup job.gaveUp => UpTo(q, h)
        BY <1>2 DEF Follow
      <4>4. q \in job'.todo => Awaits(q)'
        BY <1>5, <4>1, <4>2, <4>3 DEF Awaits
      <4>5. q \notin job'.todo \cup job'.failed \cup job'.gaveUp => UpTo(q, h)'
        BY <4>1, <4>2, <4>3 DEF UpTo
      <4> QED BY <4>1, <4>2, <4>3, <4>4, <4>5
    <3> QED BY <3>1, <3>2
  <2> QED BY <1>1, <1>2, <1>5, <2>1 DEF Follow
<1>10. FilesSound'
  BY <1>2, <1>9, FramesStay DEF FilesSound
<1>11. MappingSound'
  <2>1. \A q \in Requests : Readable(files'[q])
    BY <1>1, <1>3, <1>4
  <2>2. ToReport' => Fits(files'[job'.wrote], job'.offset)
    BY <1>4 DEF OnlyPartOf, ToReport, Unreported
  <2>3. ASSUME NEW q \in reqInfos \cap DOMAIN entryMap
        PROVE  Fits(files'[q], entryMap[q]) \/ IsNew(q)'
    <3>1. CASE q = r
      BY <1>4, <1>5, <3>1 DEF IsNew, Unreported
    <3>2. CASE q # r
      <4>1. Fits(files[q], entryMap[q])
        BY MappingWhenReported
      <4> QED BY <1>1, <1>4, <3>2, <4>1
    <3> QED BY <3>1, <3>2
  <2> QED BY <2>1, <2>2, <2>3 DEF MappingSound, Unreported
<1> QED BY <1>7, <1>8, <1>10, <1>11 DEF FilesInv

\* Writing to the file given, or failing to.
LEMMA ProcessFrameKeeps ==
    ASSUME FilesInv, NEW r \in reqInfos, CanWrite, job # NoJob,
           NEW fs \in Seq(File), InUse(fs), Readable(fs),
           Last(fs).frames = <<>> \/ EndsWith(fs, job.frame.index - 1, job.frame.size),
           r \in DOMAIN entryMap => Fits(fs, entryMap[r]),
           NEW worked, OnlyPartOf(r, worked),
           r \notin worked.todo \cup worked.failed \cup worked.gaveUp,
           NEW failed, OnlyPartOf(r, failed), r \notin failed.todo, r \in failed.failed,
           ProcessFrame(r, fs, worked, failed),
           UNCHANGED <<work, reqInfos, startRecordRequest, frameSize, entryMap, recorder,
                       graph, fate, framesSent>>
    PROVE  FilesInv'
<1>1. /\ job \in Job /\ failures \in Nat /\ reqInfos \subseteq Requests
      /\ DOMAIN entryMap \subseteq Requests /\ \A q \in DOMAIN entryMap : entryMap[q] \in Int
      /\ job.step = "write" /\ Unreported = NoRequest
  BY JobFacts DEF FilesInv, TypeInv, CanWrite
<1>2. Older(fs) /\ job.frame \in FrameData
  BY <1>1 DEF InUse, Job
<1> DEFINE offset == FrameIndexOffset(Last(fs), job.frame)
<1>3. CASE /\ files' = [files EXCEPT ![r] = OfLast(fs, Written(Last(fs), job.frame))]
           /\ job' = [worked EXCEPT !.wrote = r, !.offset = offset] /\ failures' = failures
  <2> DEFINE g == OfLast(fs, Written(Last(fs), job.frame))
  <2>1. /\ g \in Seq(File) /\ InUse(g) /\ Readable(g)
        /\ EndsWith(g, job.frame.index, job.frame.size)
        /\ Fits(g, offset) /\ offset \in Int
        /\ \A o \in Int : Fits(fs, o) => Fits(g, o) \/ Len(Last(g).frames) = 1
    BY <1>2, WrittenFiles
  <2>2. files' = [files EXCEPT ![r] = g]
    BY <1>3
  <2> HIDE DEF g, offset
  <2>3. /\ worked \in Job /\ job' \in Job /\ job'.wrote = r /\ job'.offset = offset
        /\ job'.step = worked.step /\ job'.frame = worked.frame
        /\ job'.currents = worked.currents /\ job'.restarted = worked.restarted
        /\ job'.todo = worked.todo /\ job'.failed = worked.failed /\ job'.gaveUp = worked.gaveUp
    BY <1>1, <1>3, <2>1 DEF OnlyPartOf, Job
  <2>4. OnlyPartOf(r, job') /\ r \notin job'.todo \cup job'.failed \cup job'.gaveUp
    BY <2>3 DEF OnlyPartOf
  <2>5. Older(g)
    BY <2>1 DEF InUse
  <2>6. r \in DOMAIN entryMap =>
            \/ Fits(g, entryMap[r])
            \/ job'.wrote = r /\ Len(Last(g).frames) = 1
    BY <1>1, <2>1, <2>3
  <2>7. job'.wrote # NoRequest => Fits(g, job'.offset)
    BY <2>1, <2>3
  <2> QED BY <1>1, <1>3, <2>1, <2>2, <2>4, <2>5, <2>6, <2>7, PartKeeps
<1>4. CASE /\ files' = [files EXCEPT ![r] = OfLast(fs, WriteFails(Last(fs)))]
           /\ job' = failed /\ Fail
  <2> DEFINE g == OfLast(fs, WriteFails(Last(fs)))
  <2>1. /\ g \in Seq(File) /\ Older(g) /\ Readable(g) /\ Last(g).failed
        /\ Last(g).frames = Last(fs).frames
    BY <1>2, FailedFiles
  <2>2. /\ files' = [files EXCEPT ![r] = g]
        /\ OnlyPartOf(r, job') /\ r \notin job'.todo /\ r \in job'.failed
    BY <1>4
  <2> HIDE DEF g
  <2>3. r \in DOMAIN entryMap => Fits(g, entryMap[r])
    BY <2>1 DEF Fits
  <2>4. failures' \in Nat
    BY <1>1, <1>4, FailCounts
  <2>5. job'.wrote = NoRequest
    BY <2>2 DEF OnlyPartOf
  <2> QED BY <1>1, <2>1, <2>2, <2>3, <2>4, <2>5, PartKeeps
<1> QED BY <1>3, <1>4 DEF ProcessFrame

\* The requests that are written to have a recorder and one part each.
LEMMA WritingFacts ==
    ASSUME FilesInv, CanWrite
    PROVE  /\ job # NoJob /\ job \in Job /\ job.step = "write" /\ job.wrote = NoRequest
           /\ job.currents = {} /\ job.restarted = {}
           /\ job.todo \cup job.failed \cup job.gaveUp \subseteq reqInfos
           /\ job.todo \cap (job.failed \cup job.gaveUp) = {} /\ job.failed \cap job.gaveUp = {}
<1>1. job # NoJob
  BY DEF CanWrite, NoJob
<1> QED BY <1>1 DEF FilesInv, TypeInv, JobSound, CanWrite, Unreported

LEMMA WriteKeeps ==
    ASSUME FilesInv, NEW r \in Requests, Write(r)
    PROVE  FilesInv'
<1> DEFINE worked == [job EXCEPT !.todo = @ \ {r}]
           failed == [worked EXCEPT !.failed = @ \cup {r}]
           fs == files[r]
<1>1. /\ CanWrite /\ r \in job.todo
      /\ ProcessFrame(r, fs, worked, failed)
      /\ UNCHANGED <<work, reqInfos, startRecordRequest, frameSize, entryMap, recorder,
                     graph, fate, framesSent>>
  BY DEF Write
<1>2. /\ job # NoJob /\ job \in Job /\ job.step = "write" /\ job.wrote = NoRequest
      /\ job.currents = {} /\ job.restarted = {}
      /\ job.todo \cup job.failed \cup job.gaveUp \subseteq reqInfos
      /\ job.todo \cap (job.failed \cup job.gaveUp) = {} /\ job.failed \cap job.gaveUp = {}
  BY <1>1, WritingFacts
<1>3. r \in reqInfos
  BY <1>1, <1>2
<1>4. /\ worked \in Job /\ worked.step = "write" /\ worked.frame = job.frame
      /\ worked.currents = {} /\ worked.restarted = {}
      /\ worked.todo = job.todo \ {r} /\ worked.failed = job.failed /\ worked.gaveUp = job.gaveUp
      /\ worked.wrote = NoRequest
  BY <1>1, <1>2 DEF Job
<1>5. /\ failed \in Job /\ failed.step = "write" /\ failed.frame = job.frame
      /\ failed.currents = {} /\ failed.restarted = {}
      /\ failed.todo = job.todo \ {r} /\ failed.failed = job.failed \cup {r}
      /\ failed.gaveUp = job.gaveUp /\ failed.wrote = NoRequest
  BY <1>1, <1>2 DEF Job
<1> HIDE DEF worked, failed
<1>6. OnlyPartOf(r, worked) /\ r \notin worked.todo \cup worked.failed \cup worked.gaveUp
  BY <1>1, <1>2, <1>4 DEF OnlyPartOf
<1>7. OnlyPartOf(r, failed) /\ r \notin failed.todo /\ r \in failed.failed
  BY <1>1, <1>2, <1>3, <1>5 DEF OnlyPartOf
<1>8. fs \in Seq(File) /\ Readable(fs)
  BY <1>2, JobFacts
<1>9. Awaits(r)
  BY <1>1, <1>2, <1>3, JobFacts DEF Follow
<1>10. InUse(fs) /\ (Last(fs).frames = <<>> \/ EndsWith(fs, job.frame.index - 1, job.frame.size))
  BY <1>9 DEF Awaits
<1>11. r \in DOMAIN entryMap => Fits(fs, entryMap[r])
  BY <1>2, <1>3, MappingWhenReported DEF Unreported
<1> HIDE DEF fs
<1> QED BY <1>1, <1>2, <1>3, <1>6, <1>7, <1>8, <1>10, <1>11, ProcessFrameKeeps

LEMMA RetryKeeps ==
    ASSUME FilesInv, NEW r \in Requests, Retry(r)
    PROVE  FilesInv'
<1> DEFINE failed == [job EXCEPT !.attempts[r] = @ - 1]
           worked == [job EXCEPT !.failed = @ \ {r}]
           fs == Append(files[r], NewFile)
<1>1. /\ CanWrite /\ job.todo = {} /\ r \in job.failed /\ job.attempts[r] > 0
      /\ \/ ProcessFrame(r, fs, worked, failed)
         \/ Fail /\ job' = failed /\ UNCHANGED files
      /\ UNCHANGED <<work, reqInfos, startRecordRequest, frameSize, entryMap, recorder,
                     graph, fate, framesSent>>
  BY DEF Retry
<1>2. /\ job # NoJob /\ job \in Job /\ job.step = "write" /\ job.wrote = NoRequest
      /\ job.currents = {} /\ job.restarted = {}
      /\ job.todo \cup job.failed \cup job.gaveUp \subseteq reqInfos
      /\ job.todo \cap (job.failed \cup job.gaveUp) = {} /\ job.failed \cap job.gaveUp = {}
  BY <1>1, WritingFacts
<1>3. r \in reqInfos
  BY <1>1, <1>2
<1>4. /\ worked \in Job /\ worked.step = "write" /\ worked.frame = job.frame
      /\ worked.currents = {} /\ worked.restarted = {}
      /\ worked.todo = {} /\ worked.failed = job.failed \ {r} /\ worked.gaveUp = job.gaveUp
      /\ worked.wrote = NoRequest
  BY <1>1, <1>2 DEF Job
<1>5. /\ failed \in Job /\ failed.step = "write" /\ failed.frame = job.frame
      /\ failed.currents = {} /\ failed.restarted = {}
      /\ failed.todo = {} /\ failed.failed = job.failed /\ failed.gaveUp = job.gaveUp
      /\ failed.wrote = NoRequest
  <2>1. job.attempts[r] - 1 \in Nat /\ job.attempts \in [Requests -> Nat]
    BY <1>1, <1>2 DEF Job
  <2>2. failed = [job EXCEPT !.attempts = [job.attempts EXCEPT ![r] = job.attempts[r] - 1]]
    BY <1>2 DEF Job
  <2>3. [job.attempts EXCEPT ![r] = job.attempts[r] - 1] \in [Requests -> Nat]
    BY <2>1
  <2> QED BY <1>1, <1>2, <2>2, <2>3 DEF Job
<1> HIDE DEF worked, failed
<1>6. OnlyPartOf(r, worked) /\ r \notin worked.todo \cup worked.failed \cup worked.gaveUp
  BY <1>1, <1>2, <1>4 DEF OnlyPartOf
<1>7. OnlyPartOf(r, failed) /\ r \notin failed.todo /\ r \in failed.failed
  BY <1>1, <1>2, <1>5 DEF OnlyPartOf
<1>8. /\ files[r] \in Seq(File) /\ Readable(files[r]) /\ Older(files[r])
      /\ files \in [Requests -> Seq(File)] /\ failures \in Nat
  BY <1>2, <1>3, JobFacts
<1>9. Last(files[r]).failed
  BY <1>1, <1>2, <1>3, JobFacts DEF Follow
<1>10. Closed(files[r])
  BY <1>8, <1>9, FailedIsClosed
<1>11. /\ fs \in Seq(File) /\ InUse(fs) /\ Readable(fs) /\ Last(fs).frames = <<>>
       /\ \A offset \in Int : Fits(fs, offset)
  BY <1>8, <1>10, CreatedFiles
<1>12. /\ DOMAIN entryMap \subseteq Requests /\ \A q \in DOMAIN entryMap : entryMap[q] \in Int
       /\ \A q \in reqInfos \cap DOMAIN entryMap : Fits(files[q], entryMap[q])
  BY <1>2, MappingWhenReported DEF FilesInv, TypeInv, Unreported
<1> HIDE DEF fs
<1>13. CASE ProcessFrame(r, fs, worked, failed)
  BY <1>1, <1>2, <1>3, <1>6, <1>7, <1>11, <1>12, <1>13, ProcessFrameKeeps
<1>14. CASE Fail /\ job' = failed /\ UNCHANGED files
  <2>1. files' = [files EXCEPT ![r] = files[r]]
    BY <1>8, <1>14
  <2>2. failures' \in Nat
    BY <1>8, <1>14, FailCounts
  <2>3. OnlyPartOf(r, job') /\ r \notin job'.todo /\ r \in job'.failed
    BY <1>7, <1>14
  <2>4. Unreported = NoRequest /\ job'.wrote = NoRequest
    BY <1>2, <1>5, <1>14 DEF Unreported
  <2> QED BY <1>1, <1>2, <1>3, <1>8, <1>9, <1>12, <2>1, <2>2, <2>3, <2>4, PartKeeps
<1> QED BY <1>1, <1>13, <1>14

\* Reporting the offset.
LEMMA RecordFrameIndexOffsetKeeps ==
    ASSUME FilesInv, RecordFrameIndexOffset
    PROVE  FilesInv'
<1> DEFINE r == Unreported
<1>1. /\ job.step = "write" /\ job # NoJob /\ r # NoRequest
      /\ entryMap' = ReportFrameMapping(r, job.offset)
      /\ job' = [job EXCEPT !.wrote = NoRequest]
      /\ UNCHANGED <<work, reqInfos, startRecordRequest, frameSize, files, recorder, graph,
                     fate, framesSent, failures>>
  BY DEF RecordFrameIndexOffset, NoJob
<1>2. /\ job \in Job /\ r \in reqInfos /\ reqInfos \subseteq Requests
      /\ r \notin job.todo \cup job.failed \cup job.gaveUp
      /\ job.currents = {} /\ job.restarted = {}
      /\ job.todo \cup job.failed \cup job.gaveUp \subseteq reqInfos
      /\ job.todo \cap (job.failed \cup job.gaveUp) = {} /\ job.failed \cap job.gaveUp = {}
      /\ DOMAIN entryMap \subseteq Requests /\ \A q \in DOMAIN entryMap : entryMap[q] \in Int
  BY <1>1 DEF FilesInv, TypeInv, JobSound
<1>3. /\ job' \in Job /\ job'.step = "write" /\ job'.frame = job.frame
      /\ job'.currents = {} /\ job'.restarted = {}
      /\ job'.todo = job.todo /\ job'.failed = job.failed /\ job'.gaveUp = job.gaveUp
      /\ job'.wrote = NoRequest /\ job.offset \in Int
  BY <1>1, <1>2 DEF Job
<1>4. job' # NoJob
  BY <1>3, JobTyped
<1>5. Fits(files[r], job.offset)
  BY <1>1 DEF FilesInv, MappingSound, ToReport
<1>6. \A q \in reqInfos \cap DOMAIN entryMap : q # r => Fits(files[q], entryMap[q])
  BY <1>1 DEF FilesInv, MappingSound, IsNew
<1>7. /\ DOMAIN entryMap' = DOMAIN entryMap \cup {r} /\ entryMap'[r] = job.offset
      /\ \A q \in DOMAIN entryMap' : q # r => q \in DOMAIN entryMap /\ entryMap'[q] = entryMap[q]
  BY <1>1 DEF ReportFrameMapping
<1> HIDE DEF r
<1>8. DOMAIN entryMap' \subseteq Requests /\ \A q \in DOMAIN entryMap' : entryMap'[q] \in Int
  BY <1>2, <1>3, <1>7
<1>9. Restarted = {} /\ Restarted' = {}
  BY <1>1, <1>2, <1>3, <1>4 DEF Restarted
<1>10. TypeInv'
  <2>1. JobSound'
    BY <1>1, <1>2, <1>3 DEF JobSound, Unreported
  <2> QED BY <1>1, <1>3, <1>8, <1>9, <2>1 DEF FilesInv, TypeInv
<1>11. OpenSound'
  BY <1>1, <1>9 DEF FilesInv, OpenSound
<1>12. FilesSound'
  <2>1. PICK h \in Nat : FramesFrom(h) /\ Follow(h)
    BY <1>1, JobFacts
  <2>2. Follow(h)'
    BY <1>1, <1>2, <1>3, <1>4, <2>1 DEF Follow, UpTo, Awaits
  <2> QED BY <1>1, <2>1, <2>2, FramesStay DEF FilesSound
<1>13. MappingSound'
  <2>1. \A q \in reqInfos' \cap DOMAIN entryMap' : Fits(files'[q], entryMap'[q])
    BY <1>1, <1>5, <1>6, <1>7
  <2>2. \A q \in Requests : Readable(files'[q])
    BY <1>1 DEF FilesInv, MappingSound
  <2> QED BY <1>3, <2>1, <2>2, MappingFits DEF Unreported
<1> QED BY <1>10, <1>11, <1>12, <1>13 DEF FilesInv

LEMMA GiveUpKeeps ==
    ASSUME FilesInv, NEW r \in Requests, GiveUp(r)
    PROVE  FilesInv'
<1> DEFINE new == [job EXCEPT !.failed = @ \ {r}, !.gaveUp = @ \cup {r}]
<1>1. /\ CanWrite /\ r \in job.failed /\ job' = new
      /\ UNCHANGED <<work, reqInfos, startRecordRequest, frameSize, files, entryMap,
                     recorder, graph, fate, framesSent, failures>>
  BY DEF GiveUp
<1>2. /\ job # NoJob /\ job \in Job /\ job.step = "write" /\ job.wrote = NoRequest
      /\ job.currents = {} /\ job.restarted = {}
      /\ job.todo \cup job.failed \cup job.gaveUp \subseteq reqInfos
      /\ job.todo \cap (job.failed \cup job.gaveUp) = {} /\ job.failed \cap job.gaveUp = {}
  BY <1>1, WritingFacts
<1>3. r \in reqInfos /\ r \notin job.todo
  BY <1>1, <1>2
<1>4. /\ new \in Job /\ new.step = "write" /\ new.frame = job.frame
      /\ new.currents = {} /\ new.restarted = {}
      /\ new.todo = job.todo /\ new.failed = job.failed \ {r} /\ new.gaveUp = job.gaveUp \cup {r}
      /\ new.wrote = NoRequest
  BY <1>1, <1>2 DEF Job
<1> HIDE DEF new
<1>5. OnlyPartOf(r, job') /\ r \notin job'.todo /\ r \in job'.gaveUp
      /\ Unreported = NoRequest /\ job'.wrote = NoRequest
  BY <1>1, <1>2, <1>3, <1>4 DEF OnlyPartOf, Unreported
<1>6. /\ files[r] \in Seq(File) /\ Readable(files[r]) /\ Older(files[r])
      /\ files \in [Requests -> Seq(File)] /\ failures \in Nat
  BY <1>2, <1>3, JobFacts
<1>7. Last(files[r]).failed
  BY <1>1, <1>2, <1>3, JobFacts DEF Follow
<1>8. /\ DOMAIN entryMap \subseteq Requests /\ \A q \in DOMAIN entryMap : entryMap[q] \in Int
      /\ \A q \in reqInfos \cap DOMAIN entryMap : Fits(files[q], entryMap[q])
  BY <1>2, MappingWhenReported DEF FilesInv, TypeInv, Unreported
<1>9. files' = [files EXCEPT ![r] = files[r]] /\ entryMap' = entryMap
  BY <1>1, <1>6
<1> QED BY <1>1, <1>2, <1>3, <1>5, <1>6, <1>7, <1>8, <1>9, PartKeeps

LEMMA FinishFrameKeeps ==
    ASSUME FilesInv, FinishFrame
    PROVE  FilesInv'
<1> DEFINE gone == job.gaveUp
<1>1. /\ CanWrite /\ job.todo = {} /\ job.failed = {}
      /\ reqInfos' = reqInfos \ gone /\ files' = Dispose(gone) /\ job' = NoJob
      /\ fate' = NotifyTerminated
      /\ UNCHANGED <<work, startRecordRequest, frameSize, entryMap, recorder, graph,
                     framesSent, failures>>
  BY DEF FinishFrame
<1>2. /\ job # NoJob /\ job \in Job /\ job.restarted = {} /\ gone \subseteq reqInfos
      /\ job.step = "write" /\ job.wrote = NoRequest
  BY <1>1, WritingFacts
<1>3. /\ recorder = "up" /\ frameSize = job.frame.size
      /\ reqInfos \subseteq Requests /\ files \in [Requests -> Seq(File)]
      /\ \A q \in Requests : Readable(files[q])
      /\ \A q \in Requests : IF q \in reqInfos \cup job.restarted THEN Older(files[q])
                                                                  ELSE Closed(files[q])
  BY <1>2, JobFacts
<1>4. PICK h \in Nat : job.frame.index = h /\ FramesFrom(h) /\ Follow(h)
  BY <1>2, JobFacts
<1>5. \A r \in reqInfos : r \notin gone => UpTo(r, h)
  BY <1>1, <1>2, <1>4 DEF Follow
<1> HIDE DEF gone
<1>6. /\ files' \in [Requests -> Seq(File)]
      /\ \A r \in Requests : Readable(files'[r])
      /\ \A r \in gone : Closed(files'[r])
      /\ \A r \in Requests \ gone : files'[r] = files[r]
  BY <1>1, <1>2, <1>3, Disposed
<1>7. Restarted' = {}
  BY <1>1 DEF Restarted
<1>8. fate' \in [Requests -> Told]
  BY <1>1, NotifiedTyped DEF NotifyTerminated, FilesInv, TypeInv
<1>9. \A r \in reqInfos' : r \in reqInfos /\ r \in Requests /\ r \notin gone /\ files'[r] = files[r]
  BY <1>1, <1>3, <1>6
<1>10. TypeInv'
  <2>1. \A r \in reqInfos' : files'[r] # <<>>
    BY <1>3, <1>9 DEF Older
  <2> QED BY <1>1, <1>3, <1>6, <1>7, <1>8, <2>1 DEF FilesInv, TypeInv, JobSound, Unreported
<1>11. OpenSound'
  <2> SUFFICES ASSUME NEW r \in Requests
               PROVE  IF r \in reqInfos' THEN Older(files'[r]) ELSE Closed(files'[r])
    BY <1>7 DEF OpenSound
  <2> QED BY <1>1, <1>2, <1>3, <1>6, <1>9
<1>12. Follow(h)'
  <2>1. \A r \in reqInfos' : UpTo(r, h)'
    BY <1>1, <1>5, <1>9 DEF UpTo
  <2> QED BY <1>1, <2>1 DEF Follow
<1>13. FilesSound'
  BY <1>1, <1>4, <1>12, FramesStay DEF FilesSound
<1>14. MappingSound'
  <2>1. \A r \in reqInfos \cap DOMAIN entryMap : Fits(files[r], entryMap[r])
    BY <1>2, MappingWhenReported DEF Unreported
  <2>2. \A r \in reqInfos' \cap DOMAIN entryMap' : Fits(files'[r], entryMap'[r])
    BY <1>1, <1>9, <2>1
  <2> QED BY <1>1, <1>6, <2>2, MappingFits
<1> QED BY <1>10, <1>11, <1>13, <1>14 DEF FilesInv

LEMMA MakingFileRaisesKeeps ==
    ASSUME FilesInv, MakingFileRaises
    PROVE  FilesInv'
<1>1. /\ recorder' = "faulted" /\ work' = <<>> /\ job' = NoJob /\ Fail
      /\ UNCHANGED <<reqInfos, startRecordRequest, frameSize, files, entryMap, graph, fate,
                     framesSent>>
  BY DEF MakingFileRaises
<1>2. failures' \in Nat
  BY <1>1, FailCounts DEF FilesInv, TypeInv
<1>3. TypeInv'
  BY <1>1, <1>2 DEF FilesInv, TypeInv, JobSound, Unreported, Restarted
<1>4. OpenSound' /\ FilesSound'
  BY <1>1 DEF OpenSound, FilesSound
<1>5. MappingSound'
  <2>1. job # NoJob /\ (job.step = "start" \/ CanWrite)
    BY DEF MakingFileRaises, MakingFile, CanWrite, NoJob
  <2>2. Unreported = NoRequest
    BY <2>1 DEF FilesInv, TypeInv, JobSound, CanWrite
  <2>3. /\ \A r \in reqInfos \cap DOMAIN entryMap : Fits(files[r], entryMap[r])
        /\ \A r \in Requests : Readable(files[r])
    BY <2>2, MappingWhenReported DEF FilesInv, MappingSound
  <2> QED BY <1>1, <2>3, MappingFits
<1> QED BY <1>3, <1>4, <1>5 DEF FilesInv

-----------------------------------------------------------------------------
\* What becomes of the clients.

\* The commands that wait after one was posted, and after one was taken.
LEMMA CommandsWhenPosted ==
    ASSUME work \in Seq(Work), NEW w \in Work, work' = Append(work, w), NEW r
    PROVE  /\ StartIsPending(r)' <=> (StartIsPending(r) \/ w = StartRecording(r))
           /\ StopIsPending(r)' <=> (StopIsPending(r) \/ w = StopRecording(r))
           /\ IsQueuedOnce(r) /\ w # StartRecording(r) => IsQueuedOnce(r)'
           /\ IsQueuedTwice(r) /\ w # StartRecording(r) => IsQueuedTwice(r)'
           /\ ~StartIsPending(r) => IsQueuedOnce(r)'
           /\ IsQueuedOnce(r) => IsQueuedTwice(r)'
<1> DEFINE n == Len(work)
<1>1. /\ n \in Nat /\ DOMAIN work = 1 .. n /\ DOMAIN work' = 1 .. n + 1
      /\ \A i \in 1 .. n : work'[i] = work[i]
      /\ work'[n + 1] = w
  BY PostedWork
<1> HIDE DEF n
<1>2. /\ \A i \in 1 .. n : i \in 1 .. n + 1
      /\ \A i \in 1 .. n + 1 : i = n + 1 \/ i \in 1 .. n
      /\ n + 1 \in 1 .. n + 1
  BY <1>1
<1>3. StartIsPending(r)' <=> (StartIsPending(r) \/ w = StartRecording(r))
  BY <1>1, <1>2 DEF StartIsPending
<1>4. StopIsPending(r)' <=> (StopIsPending(r) \/ w = StopRecording(r))
  BY <1>1, <1>2 DEF StopIsPending
<1>5. IsQueuedOnce(r) /\ w # StartRecording(r) => IsQueuedOnce(r)'
  BY <1>1, <1>2 DEF IsQueuedOnce
<1>6. ~StartIsPending(r) => IsQueuedOnce(r)'
  BY <1>1, <1>2 DEF IsQueuedOnce, StartIsPending
<1>7. IsQueuedTwice(r) /\ w # StartRecording(r) => IsQueuedTwice(r)'
  <2> SUFFICES ASSUME IsQueuedTwice(r), w # StartRecording(r),
                      NEW i \in 1 .. n + 1, NEW j \in 1 .. n + 1, NEW k \in 1 .. n + 1,
                      work'[i] = StartRecording(r), work'[j] = StartRecording(r),
                      work'[k] = StartRecording(r)
               PROVE  i = j \/ i = k \/ j = k
    BY <1>1 DEF IsQueuedTwice
  <2>1. i \in 1 .. n /\ j \in 1 .. n /\ k \in 1 .. n
    BY <1>1, <1>2
  <2> QED BY <1>1, <2>1 DEF IsQueuedTwice
<1>8. IsQueuedOnce(r) => IsQueuedTwice(r)'
  <2> SUFFICES ASSUME IsQueuedOnce(r),
                      NEW i \in 1 .. n + 1, NEW j \in 1 .. n + 1, NEW k \in 1 .. n + 1,
                      work'[i] = StartRecording(r), work'[j] = StartRecording(r),
                      work'[k] = StartRecording(r)
               PROVE  i = j \/ i = k \/ j = k
    BY <1>1 DEF IsQueuedTwice
  <2>1. ASSUME NEW a \in 1 .. n, NEW b \in 1 .. n,
               work'[a] = StartRecording(r), work'[b] = StartRecording(r)
        PROVE  a = b
    BY <1>1, <2>1 DEF IsQueuedOnce
  <2> QED BY <1>2, <2>1
<1> QED BY <1>3, <1>4, <1>5, <1>6, <1>7, <1>8

LEMMA CommandsWhenTaken ==
    ASSUME work \in Seq(Work), work # <<>>, work' = Tail(work), NEW r
    PROVE  /\ StartIsPending(r) <=> (StartIsPending(r)' \/ Head(work) = StartRecording(r))
           /\ StopIsPending(r) <=> (StopIsPending(r)' \/ Head(work) = StopRecording(r))
           /\ IsQueuedOnce(r) => IsQueuedOnce(r)'
           /\ IsQueuedOnce(r) /\ Head(work) = StartRecording(r) => ~StartIsPending(r)'
           /\ IsQueuedTwice(r) => IsQueuedTwice(r)'
           /\ IsQueuedTwice(r) /\ Head(work) = StartRecording(r) => IsQueuedOnce(r)'
<1> DEFINE n == Len(work)
<1>1. /\ n \in Nat /\ n > 0 /\ DOMAIN work = 1 .. n /\ DOMAIN work' = 1 .. n - 1
      /\ \A i \in 1 .. n - 1 : work'[i] = work[i + 1]
      /\ Head(work) = work[1]
  BY TakenWork
<1> HIDE DEF n
<1>2. /\ \A i \in 1 .. n - 1 : i + 1 \in 1 .. n /\ i + 1 # 1
      /\ \A i \in 1 .. n : i = 1 \/ (i - 1 \in 1 .. n - 1 /\ (i - 1) + 1 = i)
      /\ 1 \in 1 .. n
  BY <1>1
<1>3. \A i \in 1 .. n : i = 1 \/ (i - 1 \in 1 .. n - 1 /\ work'[i - 1] = work[i])
  BY <1>1, <1>2
<1>8. ASSUME NEW w
      PROVE  (\E i \in 1 .. n : work[i] = w)
                 <=> ((\E i \in 1 .. n - 1 : work'[i] = w) \/ Head(work) = w)
  <2>1. ASSUME NEW i \in 1 .. n, work[i] = w
        PROVE  (\E j \in 1 .. n - 1 : work'[j] = w) \/ Head(work) = w
    BY <1>1, <1>3, <2>1
  <2>2. ASSUME NEW i \in 1 .. n - 1, work'[i] = w
        PROVE  \E j \in 1 .. n : work[j] = w
    BY <1>1, <1>2, <2>2
  <2>3. Head(work) = w => \E j \in 1 .. n : work[j] = w
    BY <1>1, <1>2
  <2> QED BY <2>1, <2>2, <2>3
<1>4. StartIsPending(r) <=> (StartIsPending(r)' \/ Head(work) = StartRecording(r))
  BY <1>1, <1>8 DEF StartIsPending
<1>5. StopIsPending(r) <=> (StopIsPending(r)' \/ Head(work) = StopRecording(r))
  BY <1>1, <1>8 DEF StopIsPending
<1>6. IsQueuedOnce(r) => IsQueuedOnce(r)'
  <2> SUFFICES ASSUME IsQueuedOnce(r), NEW i \in 1 .. n - 1, NEW j \in 1 .. n - 1,
                      work'[i] = StartRecording(r), work'[j] = StartRecording(r)
               PROVE  i = j
    BY <1>1 DEF IsQueuedOnce
  <2>1. i + 1 \in 1 .. n /\ work[i + 1] = StartRecording(r)
    BY <1>1, <1>2
  <2>2. j + 1 \in 1 .. n /\ work[j + 1] = StartRecording(r)
    BY <1>1, <1>2
  <2>3. i + 1 = j + 1
    BY <1>1, <2>1, <2>2 DEF IsQueuedOnce
  <2> QED BY <2>3
<1>7. IsQueuedOnce(r) /\ Head(work) = StartRecording(r) => ~StartIsPending(r)'
  BY <1>1, <1>2 DEF IsQueuedOnce, StartIsPending
<1>9. ASSUME NEW i \in 1 .. n - 1, work'[i] = StartRecording(r)
      PROVE  i + 1 \in 1 .. n /\ i + 1 # 1 /\ work[i + 1] = StartRecording(r)
  BY <1>1, <1>2, <1>9
<1>10. IsQueuedTwice(r) => IsQueuedTwice(r)'
  <2> SUFFICES ASSUME IsQueuedTwice(r),
                      NEW i \in 1 .. n - 1, NEW j \in 1 .. n - 1, NEW k \in 1 .. n - 1,
                      work'[i] = StartRecording(r), work'[j] = StartRecording(r),
                      work'[k] = StartRecording(r)
               PROVE  i = j \/ i = k \/ j = k
    BY <1>1 DEF IsQueuedTwice
  <2>1. i + 1 = j + 1 \/ i + 1 = k + 1 \/ j + 1 = k + 1
    BY <1>1, <1>9 DEF IsQueuedTwice
  <2> QED BY <2>1
<1>11. IsQueuedTwice(r) /\ Head(work) = StartRecording(r) => IsQueuedOnce(r)'
  <2> SUFFICES ASSUME IsQueuedTwice(r), Head(work) = StartRecording(r),
                      NEW i \in 1 .. n - 1, NEW j \in 1 .. n - 1,
                      work'[i] = StartRecording(r), work'[j] = StartRecording(r)
               PROVE  i = j
    BY <1>1 DEF IsQueuedOnce
  <2>1. 1 \in 1 .. n /\ work[1] = StartRecording(r)
    BY <1>1, <1>2
  <2>2. i + 1 = j + 1
    BY <1>1, <1>9, <2>1 DEF IsQueuedTwice
  <2> QED BY <2>2
<1> QED BY <1>4, <1>5, <1>6, <1>7, <1>10, <1>11

\* Clients whose places stay the same know what they knew.
LEMMA FateStays ==
    ASSUME NEW r, KnowsItsFate(r), fate'[r] = fate[r],
           StartIsPending(r)' <=> StartIsPending(r), StopIsPending(r)' => StopIsPending(r),
           IsQueuedOnce(r) => IsQueuedOnce(r)', IsQueuedTwice(r) => IsQueuedTwice(r)',
           startRecordRequest' = startRecordRequest,
           r \in reqInfos' => r \in reqInfos,
           r \in reqInfos => r \in reqInfos' \/ InHandling(r)',
           InHandling(r)' => r \in reqInfos \ reqInfos' \/ InHandling(r),
           InHandling(r) => InHandling(r)'
    PROVE  KnowsItsFate(r)'
BY DEF KnowsItsFate, IsPlacedOnce, IsPlacedTwice, IsServed

LEMMA HandlingBetweenFrames == job = NoJob => \A r : ~InHandling(r)
BY DEF InHandling

LEMMA ClientStartsTells ==
    ASSUME TypeInv, ClientSound, NEW r \in Requests, ClientStarts(r)
    PROVE  ClientSound'
<1> SUFFICES ASSUME recorder = "up", graph = "open", NEW q \in Requests
             PROVE  KnowsItsFate(q)'
  BY DEF ClientSound, ClientStarts
<1>1. /\ work \in Seq(Work) /\ work' = Append(work, StartRecording(r))
      /\ fate \in [Requests -> Told] /\ fate[r] \in {"unknown", "asked"}
      /\ fate' = [fate EXCEPT ![r] = IF @ = "asked" THEN "asked again" ELSE "asked"]
      /\ StartRecording(r) \in Work
      /\ UNCHANGED <<startRecordRequest, reqInfos, job>>
  BY PostedKinds DEF TypeInv, ClientStarts, Post
<1>2. KnowsItsFate(q)
  BY DEF ClientSound
<1>3. InHandling(q)' <=> InHandling(q)
  BY <1>1 DEF InHandling
<1>4. /\ StartIsPending(q)' <=> (StartIsPending(q) \/ q = r)
      /\ StopIsPending(q)' <=> StopIsPending(q)
      /\ IsQueuedOnce(q) /\ q # r => IsQueuedOnce(q)'
      /\ IsQueuedTwice(q) /\ q # r => IsQueuedTwice(q)'
      /\ ~StartIsPending(q) => IsQueuedOnce(q)'
      /\ IsQueuedOnce(q) => IsQueuedTwice(q)'
  BY <1>1, CommandsWhenPosted, CommandsDiffer
<1>5. CASE q # r
  <2>1. fate'[q] = fate[q]
    BY <1>1, <1>5
  <2> QED BY <1>1, <1>2, <1>3, <1>4, <1>5, <2>1, FateStays
<1>6. CASE q = r /\ fate[r] = "unknown"
  <2>1. fate'[q] = "asked"
    BY <1>1, <1>6
  <2>2. ~IsServed(q) /\ ~StopIsPending(q)
    BY <1>2, <1>6 DEF KnowsItsFate
  <2> QED BY <1>1, <1>3, <1>4, <1>6, <2>1, <2>2 DEF KnowsItsFate, IsPlacedOnce, IsPlacedTwice, IsServed
<1>7. CASE q = r /\ fate[r] = "asked"
  <2>1. fate'[q] = "asked again"
    BY <1>1, <1>7
  <2>2. ~StopIsPending(q)
    BY <1>2, <1>7 DEF KnowsItsFate
  <2>3. IsPlacedOnce(q) /\ q = r
    BY <1>2, <1>7 DEF KnowsItsFate
  <2> QED BY <1>1, <1>3, <1>4, <2>1, <2>2, <2>3
          DEF KnowsItsFate, IsPlacedOnce, IsPlacedTwice, IsServed
<1> QED BY <1>1, <1>5, <1>6, <1>7

LEMMA ClientStopsTells ==
    ASSUME TypeInv, ClientSound, NEW r \in Requests, ClientStops(r)
    PROVE  ClientSound'
<1> SUFFICES ASSUME recorder = "up", graph = "open", NEW q \in Requests
             PROVE  KnowsItsFate(q)'
  BY DEF ClientSound, ClientStops
<1>1. /\ work \in Seq(Work) /\ work' = Append(work, StopRecording(r))
      /\ fate \in [Requests -> Told] /\ fate' = [fate EXCEPT ![r] = "stopped"]
      /\ StopRecording(r) \in Work
      /\ UNCHANGED <<startRecordRequest, reqInfos, job>>
  BY PostedKinds DEF TypeInv, ClientStops, Post
<1>2. KnowsItsFate(q)
  BY DEF ClientSound
<1>3. InHandling(q)' <=> InHandling(q)
  BY <1>1 DEF InHandling
<1>4. /\ StartIsPending(q)' <=> StartIsPending(q)
      /\ StopIsPending(q)' <=> (StopIsPending(q) \/ q = r)
      /\ IsQueuedOnce(q) => IsQueuedOnce(q)'
      /\ IsQueuedTwice(q) => IsQueuedTwice(q)'
  BY <1>1, CommandsWhenPosted, CommandsDiffer
<1>5. CASE q # r
  <2>1. fate'[q] = fate[q]
    BY <1>1, <1>5
  <2> QED BY <1>1, <1>2, <1>3, <1>4, <1>5, <2>1, FateStays
<1>6. CASE q = r
  BY <1>1, <1>6 DEF KnowsItsFate
<1> QED BY <1>5, <1>6

LEMMA FrameArrivesTells ==
    ASSUME TypeInv, ClientSound, NEW size \in Sizes, FrameArrives(size)
    PROVE  ClientSound'
<1> SUFFICES ASSUME recorder = "up", graph = "open", NEW q \in Requests
             PROVE  KnowsItsFate(q)'
  BY DEF ClientSound, FrameArrives
<1> DEFINE w == FrameOf(size, framesSent')
<1>1. /\ work \in Seq(Work) /\ work' = Append(work, w)
      /\ UNCHANGED <<startRecordRequest, reqInfos, job, fate>>
      /\ framesSent' \in Nat
  BY DEF TypeInv, FrameArrives, Post
<1>2. w \in Work /\ w # StartRecording(q) /\ w # StopRecording(q)
  BY <1>1, PostedKinds, CommandsDiffer
<1>3. KnowsItsFate(q)
  BY DEF ClientSound
<1>4. InHandling(q)' <=> InHandling(q)
  BY <1>1 DEF InHandling
<1> HIDE DEF w
<1>5. /\ StartIsPending(q)' <=> StartIsPending(q)
      /\ StopIsPending(q)' <=> StopIsPending(q)
      /\ IsQueuedOnce(q) => IsQueuedOnce(q)'
      /\ IsQueuedTwice(q) => IsQueuedTwice(q)'
  BY <1>1, <1>2, CommandsWhenPosted
<1> QED BY <1>1, <1>3, <1>4, <1>5, FateStays

LEMMA TakeFrameTells ==
    ASSUME TypeInv, ClientSound, TakeFrame
    PROVE  ClientSound'
<1> SUFFICES ASSUME recorder = "up", graph = "open", NEW q \in Requests
             PROVE  KnowsItsFate(q)'
  BY DEF ClientSound, TakeFrame
<1>1. /\ work \in Seq(Work) /\ work # <<>> /\ work' = Tail(work) /\ Head(work).kind = "Frame"
      /\ job = NoJob /\ UNCHANGED <<startRecordRequest, fate>>
      /\ job' # NoJob /\ job'.restarted = {} /\ job'.badRestarts = {}
      /\ job'.currents \subseteq reqInfos /\ reqInfos' = reqInfos \ job'.currents
  BY DEF TypeInv, TakeFrame, Takes, NoJob
<1>2. KnowsItsFate(q)
  BY DEF ClientSound
<1>3. ~InHandling(q) /\ (InHandling(q)' <=> q \in job'.currents)
  BY <1>1, HandlingBetweenFrames DEF InHandling
<1>4. /\ StartIsPending(q)' <=> StartIsPending(q)
      /\ StopIsPending(q)' <=> StopIsPending(q)
      /\ IsQueuedOnce(q) => IsQueuedOnce(q)'
      /\ IsQueuedTwice(q) => IsQueuedTwice(q)'
  <2>1. Head(work) # StartRecording(q) /\ Head(work) # StopRecording(q)
    BY <1>1, CommandsDiffer
  <2> QED BY <1>1, <2>1, CommandsWhenTaken
<1> QED BY <1>1, <1>2, <1>3, <1>4, FateStays

\* Steps of the handling of a frame that change nothing the clients see.
LEMMA JobTells ==
    ASSUME ClientSound, job # NoJob, job' # NoJob,
           job'.currents \cup job'.restarted \cup job'.badRestarts
               = job.currents \cup job.restarted \cup job.badRestarts,
           UNCHANGED <<work, reqInfos, startRecordRequest, recorder, graph, fate>>
    PROVE  ClientSound'
<1> SUFFICES ASSUME recorder = "up", graph = "open", NEW q \in Requests
             PROVE  KnowsItsFate(q)'
  BY DEF ClientSound
<1>1. KnowsItsFate(q)
  BY DEF ClientSound
<1>2. InHandling(q)' <=> InHandling(q)
  BY DEF InHandling
<1>3. /\ StartIsPending(q)' <=> StartIsPending(q)
      /\ StopIsPending(q)' <=> StopIsPending(q)
      /\ IsQueuedOnce(q) => IsQueuedOnce(q)'
      /\ IsQueuedTwice(q) => IsQueuedTwice(q)'
  BY DEF StartIsPending, StopIsPending, IsQueuedOnce, IsQueuedTwice
<1> QED BY <1>1, <1>2, <1>3, FateStays

LEMMA RestartTells ==
    ASSUME TypeInv, ClientSound, NEW r \in Requests, Restart(r)
    PROVE  ClientSound'
<1>1. /\ job.step = "start" /\ r \in job.currents /\ job \in Job /\ job # NoJob
      /\ UNCHANGED <<work, reqInfos, startRecordRequest, recorder, graph, fate>>
  BY DEF Restart, TypeInv, NoJob
<1>2. /\ job'.step = "start"
      /\ job'.currents \cup job'.restarted \cup job'.badRestarts
             = job.currents \cup job.restarted \cup job.badRestarts
  <2>1. CASE job' = [job EXCEPT !.currents = @ \ {r}, !.restarted = @ \cup {r}]
    BY <1>1, <2>1 DEF Job
  <2>2. CASE job' = [job EXCEPT !.currents = @ \ {r}, !.badRestarts = @ \cup {r}]
    BY <1>1, <2>2 DEF Job
  <2> QED BY <2>1, <2>2 DEF Restart
<1>3. job' # NoJob
  BY <1>2 DEF NoJob
<1> QED BY <1>1, <1>2, <1>3, JobTells

LEMMA WriteTells ==
    ASSUME TypeInv, ClientSound,
           \/ RecordFrameIndexOffset
           \/ \E r \in Requests : Write(r) \/ Retry(r) \/ GiveUp(r)
    PROVE  ClientSound'
<1>1. /\ job.step = "write" /\ job \in Job /\ job # NoJob
      /\ UNCHANGED <<work, reqInfos, startRecordRequest, recorder, graph, fate>>
  <2>1. job.step = "write" /\ UNCHANGED <<work, reqInfos, startRecordRequest, recorder, graph, fate>>
    <3>1. CASE RecordFrameIndexOffset
      BY <3>1 DEF RecordFrameIndexOffset
    <3>2. ASSUME NEW r \in Requests, Write(r) PROVE <2>1!:
      BY <3>2 DEF Write, CanWrite
    <3>3. ASSUME NEW r \in Requests, Retry(r) PROVE <2>1!:
      BY <3>3 DEF Retry, CanWrite
    <3>4. ASSUME NEW r \in Requests, GiveUp(r) PROVE <2>1!:
      BY <3>4 DEF GiveUp, CanWrite
    <3> QED BY <3>1, <3>2, <3>3, <3>4
  <2> QED BY <2>1 DEF TypeInv, NoJob
<1>2. /\ job'.step = "write" /\ job'.currents = job.currents /\ job'.restarted = job.restarted
      /\ job'.badRestarts = job.badRestarts
  <2>1. CASE RecordFrameIndexOffset
    BY <1>1, <2>1 DEF RecordFrameIndexOffset, Job
  <2>2. ASSUME NEW r \in Requests, Write(r) \/ Retry(r) \/ GiveUp(r)
        PROVE  /\ job'.step = job.step
               /\ job'.currents = job.currents /\ job'.restarted = job.restarted
               /\ job'.badRestarts = job.badRestarts
    <3> DEFINE Same(j) == /\ j.step = job.step
                          /\ j.currents = job.currents /\ j.restarted = job.restarted
                          /\ j.badRestarts = job.badRestarts
    <3>1. ASSUME NEW fs, NEW worked, NEW failed, ProcessFrame(r, fs, worked, failed),
                 worked \in Job, Same(worked), Same(failed)
          PROVE  Same(job')
      BY <3>1 DEF ProcessFrame, Job
    <3>2. CASE Write(r)
      <4> DEFINE rest == [job EXCEPT !.todo = @ \ {r}]
                 failed == [rest EXCEPT !.failed = @ \cup {r}]
      <4>1. ProcessFrame(r, files[r], rest, failed)
        BY <3>2 DEF Write
      <4>2. rest \in Job /\ Same(rest) /\ Same(failed)
        BY <1>1 DEF Job
      <4> HIDE DEF rest, failed, Same
      <4>3. Same(job')
        BY <3>1, <4>1, <4>2
      <4> QED BY <4>3 DEF Same
    <3>3. CASE Retry(r)
      <4> DEFINE again == [job EXCEPT !.attempts[r] = @ - 1]
                 worked == [job EXCEPT !.failed = @ \ {r}]
                 fs == Append(files[r], NewFile)
      <4>1. ProcessFrame(r, fs, worked, again) \/ job' = again
        BY <3>3 DEF Retry
      <4>2. worked \in Job /\ Same(worked) /\ Same(again)
        BY <1>1 DEF Job
      <4> HIDE DEF again, worked, fs, Same
      <4>3. Same(job')
        BY <3>1, <4>1, <4>2
      <4> QED BY <4>3 DEF Same
    <3>4. CASE GiveUp(r)
      BY <1>1, <3>4 DEF GiveUp, Job
    <3> QED BY <2>2, <3>2, <3>3, <3>4
  <2> QED BY <1>1, <2>1, <2>2
<1>3. job' # NoJob
  BY <1>2 DEF NoJob
<1> QED BY <1>1, <1>2, <1>3, JobTells

\* What a client knows once it was notified.
Notified(known) == CASE known = "asked again" -> "told of one"
                   [] known \in {"asked", "told of one"} -> "told"
                   [] OTHER -> known

LEMMA NotifiedFate ==
    ASSUME NEW rs, NEW old, NEW r \in Requests
    PROVE  NotifyOfTermination(rs, old)[r] = IF r \in rs THEN Notified(old[r]) ELSE old[r]
BY DEF NotifyOfTermination, Notified

LEMMA StartQueuedTells ==
    ASSUME TypeInv, ClientSound, StartQueued
    PROVE  ClientSound'
<1> DEFINE req == startRecordRequest
           current == reqInfos \cup job.restarted
<1> SUFFICES ASSUME recorder = "up", graph = "open", NEW q \in Requests
             PROVE  KnowsItsFate(q)'
  BY DEF ClientSound, StartQueued
<1>1. /\ job.step = "start" /\ job.currents = {} /\ job \in Job /\ job # NoJob
      /\ startRecordRequest' = NoRequest /\ q # NoRequest
      /\ job' = [job EXCEPT !.step = "write", !.restarted = {}, !.todo = reqInfos']
      /\ UNCHANGED work /\ fate \in [Requests -> Told]
  BY RequestsAssumption DEF StartQueued, TypeInv, NoJob
<1>2. /\ job'.step = "write" /\ job'.currents = {} /\ job'.restarted = {}
      /\ job'.badRestarts = job.badRestarts
  BY <1>1 DEF Job
<1>3. job' # NoJob /\ job.restarted \cap (reqInfos \cup job.badRestarts) = {}
  BY <1>1, <1>2 DEF NoJob, TypeInv, JobSound, Unreported
<1>4. /\ InHandling(q) <=> q \in job.restarted \cup job.badRestarts
      /\ InHandling(q)' <=> q \in job.badRestarts
  BY <1>1, <1>2, <1>3 DEF InHandling
<1>5. /\ StartIsPending(q)' <=> StartIsPending(q)
      /\ StopIsPending(q)' <=> StopIsPending(q)
      /\ IsQueuedOnce(q)' <=> IsQueuedOnce(q)
      /\ IsQueuedTwice(q)' <=> IsQueuedTwice(q)
  BY <1>1 DEF StartIsPending, StopIsPending, IsQueuedOnce, IsQueuedTwice
<1>6. KnowsItsFate(q)
  BY DEF ClientSound
<1>7. \/ NothingToStart(req, current) /\ reqInfos' = current /\ fate' = fate
      \/ ~NothingToStart(req, current) /\ reqInfos' = current \cup {req} /\ fate' = fate
      \/ /\ ~NothingToStart(req, current) /\ reqInfos' = current
         /\ fate' = NotifyOfTermination({req}, fate)
  BY DEF StartQueued
<1>8. NothingToStart(req, current) <=> req \in current \cup {NoRequest}
  BY DEF NothingToStart
<1>9. NotifyOfTermination({req}, fate)[q] = IF q = req THEN Notified(fate[q]) ELSE fate[q]
  BY NotifiedFate
<1>10. CASE reqInfos' = current /\ fate' = fate /\ req \in current \cup {NoRequest}
  <2>1. fate'[q] = fate[q]
    BY <1>10
  <2> QED BY <1>1, <1>3, <1>4, <1>5, <1>6, <1>10, <2>1 DEF KnowsItsFate, IsPlacedOnce, IsPlacedTwice, IsServed
<1>11. CASE reqInfos' = current \cup {req} /\ fate' = fate
  <2>1. fate'[q] = fate[q]
    BY <1>11
  <2> QED BY <1>1, <1>3, <1>4, <1>5, <1>6, <1>11, <2>1 DEF KnowsItsFate, IsPlacedOnce, IsPlacedTwice, IsServed
<1>12. CASE /\ reqInfos' = current /\ fate' = NotifyOfTermination({req}, fate)
            /\ req \notin current \cup {NoRequest}
  <2>1. fate'[q] = IF q = req THEN Notified(fate[q]) ELSE fate[q]
    BY <1>9, <1>12
  <2>2. CASE q = req
    BY <1>1, <1>3, <1>4, <1>5, <1>6, <1>12, <2>1, <2>2
       DEF KnowsItsFate, IsPlacedOnce, IsPlacedTwice, IsServed, Notified
  <2>3. CASE q # req
    BY <1>1, <1>3, <1>4, <1>5, <1>6, <1>12, <2>1, <2>3
       DEF KnowsItsFate, IsPlacedOnce, IsPlacedTwice, IsServed
  <2> QED BY <2>2, <2>3
<1> QED BY <1>7, <1>8, <1>10, <1>11, <1>12

LEMMA FinishFrameTells ==
    ASSUME TypeInv, ClientSound, FinishFrame
    PROVE  ClientSound'
<1> SUFFICES ASSUME recorder = "up", graph = "open", NEW q \in Requests
             PROVE  KnowsItsFate(q)'
  BY DEF ClientSound, FinishFrame
<1>1. /\ job.step = "write" /\ reqInfos' = reqInfos \ job.gaveUp /\ job' = NoJob
      /\ fate' = NotifyTerminated
      /\ UNCHANGED <<work, startRecordRequest>> /\ fate \in [Requests -> Told]
  BY DEF FinishFrame, CanWrite, TypeInv
<1>2. /\ job # NoJob /\ job.currents = {} /\ job.restarted = {} /\ job.gaveUp \subseteq reqInfos
  BY <1>1 DEF TypeInv, JobSound, Unreported, NoJob
<1>3. (InHandling(q) <=> q \in job.badRestarts) /\ ~InHandling(q)'
  BY <1>1, <1>2 DEF InHandling
<1>4. /\ StartIsPending(q)' <=> StartIsPending(q)
      /\ StopIsPending(q)' <=> StopIsPending(q)
      /\ IsQueuedOnce(q)' <=> IsQueuedOnce(q)
      /\ IsQueuedTwice(q)' <=> IsQueuedTwice(q)
  BY <1>1 DEF StartIsPending, StopIsPending, IsQueuedOnce, IsQueuedTwice
<1>5. KnowsItsFate(q)
  BY DEF ClientSound
<1> DEFINE once == IF q \in job.badRestarts THEN Notified(fate[q]) ELSE fate[q]
<1>6. fate'[q] = IF q \in job.gaveUp THEN Notified(once) ELSE once
  BY <1>1, NotifiedFate DEF NotifyTerminated
<1> HIDE DEF once
<1>7. /\ q \in job.badRestarts => once = Notified(fate[q])
      /\ q \notin job.badRestarts => once = fate[q]
  BY DEF once
<1> USE DEF KnowsItsFate, IsPlacedOnce, IsPlacedTwice, IsServed, Notified
<1>8. CASE q \in job.badRestarts /\ q \in job.gaveUp
  BY <1>1, <1>2, <1>3, <1>4, <1>5, <1>6, <1>7, <1>8
<1>9. CASE q \in job.badRestarts /\ q \notin job.gaveUp
  BY <1>1, <1>2, <1>3, <1>4, <1>5, <1>6, <1>7, <1>9
<1>10. CASE q \notin job.badRestarts /\ q \in job.gaveUp
  BY <1>1, <1>2, <1>3, <1>4, <1>5, <1>6, <1>7, <1>10
<1>11. CASE q \notin job.badRestarts /\ q \notin job.gaveUp
  BY <1>1, <1>2, <1>3, <1>4, <1>5, <1>6, <1>7, <1>11
<1> QED BY <1>8, <1>9, <1>10, <1>11

LEMMA TakeStartTells ==
    ASSUME TypeInv, ClientSound, TakeStart
    PROVE  ClientSound'
<1> DEFINE r == Head(work).request
<1> SUFFICES ASSUME recorder = "up", graph = "open", NEW q \in Requests
             PROVE  KnowsItsFate(q)'
  BY DEF ClientSound, TakeStart
<1>1. /\ work \in Seq(Work) /\ work # <<>> /\ work' = Tail(work)
      /\ Head(work).kind = "StartRecording"
      /\ job = NoJob /\ job' = NoJob /\ reqInfos' = reqInfos /\ startRecordRequest' = r
      /\ fate \in [Requests -> Told]
  BY DEF TypeInv, TakeStart, Takes
<1>2. Head(work) \in Work /\ Head(work) = StartRecording(r) /\ r \in Requests
  BY <1>1, TakenWork, WorkKinds
<1>3. fate'[q] = IF q = startRecordRequest /\ q # r /\ fate[q] \in {"asked", "asked again"}
                 THEN "replaced" ELSE fate[q]
  BY DEF TakeStart
<1> HIDE DEF r
<1>4. ~InHandling(q) /\ ~InHandling(q)'
  BY <1>1, HandlingBetweenFrames DEF InHandling
<1>5. /\ StartIsPending(q) <=> (StartIsPending(q)' \/ q = r)
      /\ StopIsPending(q) <=> StopIsPending(q)'
      /\ IsQueuedOnce(q) => IsQueuedOnce(q)'
      /\ IsQueuedOnce(q) /\ q = r => ~StartIsPending(q)'
      /\ IsQueuedTwice(q) => IsQueuedTwice(q)'
      /\ IsQueuedTwice(q) /\ q = r => IsQueuedOnce(q)'
  BY <1>1, <1>2, CommandsWhenTaken, CommandsDiffer
<1>6. KnowsItsFate(q)
  BY DEF ClientSound
<1>7. CASE q = r
  BY <1>1, <1>3, <1>4, <1>5, <1>6, <1>7 DEF KnowsItsFate, IsPlacedOnce, IsPlacedTwice, IsServed
<1>8. CASE q # r
  BY <1>1, <1>3, <1>4, <1>5, <1>6, <1>8 DEF KnowsItsFate, IsPlacedOnce, IsPlacedTwice, IsServed
<1> QED BY <1>7, <1>8

LEMMA TakeStopTells ==
    ASSUME TypeInv, ClientSound, TakeStop
    PROVE  ClientSound'
<1> DEFINE r == Head(work).request
<1> SUFFICES ASSUME recorder = "up", graph = "open", NEW q \in Requests
             PROVE  KnowsItsFate(q)'
  BY DEF ClientSound, TakeStop
<1>1. /\ work \in Seq(Work) /\ work # <<>> /\ work' = Tail(work)
      /\ Head(work).kind = "StopRecording"
      /\ job = NoJob /\ job' = NoJob /\ reqInfos' = reqInfos \ {r}
      /\ UNCHANGED <<startRecordRequest, fate>>
  BY DEF TypeInv, TakeStop, Takes
<1>2. Head(work) \in Work /\ Head(work) = StopRecording(r) /\ r \in Requests
  BY <1>1, TakenWork, WorkKinds
<1> HIDE DEF r
<1>3. ~InHandling(q) /\ ~InHandling(q)'
  BY <1>1, HandlingBetweenFrames DEF InHandling
<1>4. /\ StartIsPending(q)' <=> StartIsPending(q)
      /\ StopIsPending(q) <=> (StopIsPending(q)' \/ q = r)
      /\ IsQueuedOnce(q) => IsQueuedOnce(q)'
      /\ IsQueuedTwice(q) => IsQueuedTwice(q)'
  BY <1>1, <1>2, CommandsWhenTaken, CommandsDiffer
<1>5. KnowsItsFate(q)
  BY DEF ClientSound
<1>6. CASE q = r
  BY <1>1, <1>4, <1>5, <1>6 DEF KnowsItsFate
<1>7. CASE q # r
  BY <1>1, <1>3, <1>4, <1>5, <1>7, FateStays
<1> QED BY <1>6, <1>7

-----------------------------------------------------------------------------
LEMMA InitSound == Init => IInv
<1> SUFFICES ASSUME Init PROVE IInv
  OBVIOUS
<1> USE DEF Init
<1>1. TypeInv
  BY NoFiles DEF TypeInv, Told, JobSound, Unreported, Restarted, NoJob
<1>2. OpenSound /\ MappingSound
  BY NoFiles DEF OpenSound, MappingSound, Restarted, ToReport
<1>3. FilesSound
  BY DEF FilesSound, FramesFrom, Follow
<1>4. ClientSound
  BY RequestsAssumption DEF ClientSound, KnowsItsFate, IsServed, StartIsPending, StopIsPending, InHandling
<1> QED BY <1>1, <1>2, <1>3, <1>4 DEF IInv, FilesInv

LEMMA FilesStep == FilesInv /\ [Next]_vars => FilesInv'
<1> SUFFICES ASSUME FilesInv, [Next]_vars PROVE FilesInv'
  OBVIOUS
<1>1. ASSUME NEW r \in Requests, ClientStarts(r) \/ ClientStops(r) PROVE FilesInv'
  BY <1>1, ClientStartsKeeps, ClientStopsKeeps
<1>2. ASSUME NEW size \in Sizes, FrameArrives(size) PROVE FilesInv'
  BY <1>2, FrameArrivesKeeps
<1>3. CASE QuitGraph \/ GraphCompletes
  BY <1>3, QuitGraphKeeps, GraphCompletesKeeps
<1>4. CASE \/ TakeFrame \/ StartQueued \/ RecordFrameIndexOffset
           \/ FinishFrame \/ MakingFileRaises
  BY <1>4, TakeFrameKeeps, StartQueuedKeeps, RecordFrameIndexOffsetKeeps, FinishFrameKeeps,
     MakingFileRaisesKeeps
<1>5. ASSUME NEW r \in Requests, Restart(r) \/ Write(r) \/ Retry(r) \/ GiveUp(r)
      PROVE  FilesInv'
  BY <1>5, RestartKeeps, WriteKeeps, RetryKeeps, GiveUpKeeps
<1>6. CASE TakeStart \/ TakeStop \/ TakeQuit
  BY <1>6, TakeStartKeeps, TakeStopKeeps, TakeQuitKeeps
<1>7. CASE UNCHANGED vars
  <2> USE <1>7 DEF vars
  <2>1. OpenSound' /\ MappingSound'
    BY OpenStays, MappingStays DEF FilesInv
  <2>2. FilesSound'
    BY FollowStays, FramesStay DEF FilesInv, FilesSound
  <2>3. TypeInv'
    BY DEF FilesInv, TypeInv, JobSound, Unreported, Restarted
  <2> QED BY <2>1, <2>2, <2>3 DEF FilesInv
<1> QED BY <1>1, <1>2, <1>3, <1>4, <1>5, <1>6, <1>7 DEF Next, Clients, ProcessInput

LEMMA ClientStep == TypeInv /\ ClientSound /\ [Next]_vars => ClientSound'
<1> SUFFICES ASSUME TypeInv, ClientSound, [Next]_vars PROVE ClientSound'
  OBVIOUS
<1>1. ASSUME NEW r \in Requests, ClientStarts(r) \/ ClientStops(r) PROVE ClientSound'
  BY <1>1, ClientStartsTells, ClientStopsTells
<1>2. ASSUME NEW size \in Sizes, FrameArrives(size) PROVE ClientSound'
  BY <1>2, FrameArrivesTells
<1>3. CASE QuitGraph \/ GraphCompletes \/ MakingFileRaises \/ TakeQuit
  BY <1>3 DEF ClientSound, QuitGraph, GraphCompletes, MakingFileRaises, TakeQuit
<1>4. CASE TakeFrame \/ StartQueued \/ RecordFrameIndexOffset \/ FinishFrame
  BY <1>4, TakeFrameTells, StartQueuedTells, WriteTells, FinishFrameTells
<1>5. ASSUME NEW r \in Requests, Restart(r) \/ Write(r) \/ Retry(r) \/ GiveUp(r)
      PROVE  ClientSound'
  BY <1>5, RestartTells, WriteTells
<1>6. CASE TakeStart \/ TakeStop
  BY <1>6, TakeStartTells, TakeStopTells
<1>7. CASE UNCHANGED vars
  <2> SUFFICES ASSUME recorder = "up", graph = "open", NEW q \in Requests
               PROVE  KnowsItsFate(q)'
    BY <1>7 DEF ClientSound, vars
  <2>1. KnowsItsFate(q) /\ UNCHANGED <<work, reqInfos, startRecordRequest, job, fate>>
    BY <1>7 DEF ClientSound, vars
  <2>2. /\ StartIsPending(q)' <=> StartIsPending(q)
        /\ StopIsPending(q)' <=> StopIsPending(q)
        /\ IsQueuedOnce(q)' <=> IsQueuedOnce(q)
        /\ IsQueuedTwice(q)' <=> IsQueuedTwice(q)
        /\ InHandling(q)' <=> InHandling(q)
    BY <2>1 DEF StartIsPending, StopIsPending, IsQueuedOnce, IsQueuedTwice, InHandling
  <2> QED BY <2>1, <2>2, FateStays
<1> QED BY <1>1, <1>2, <1>3, <1>4, <1>5, <1>6, <1>7 DEF Next, Clients, ProcessInput

LEMMA Invariance == Spec => []IInv
<1>1. IInv /\ [Next]_vars => IInv'
  BY FilesStep, ClientStep DEF IInv, FilesInv
<1> QED BY InitSound, <1>1, PTL DEF Spec

\* Every file of every recording holds consecutive frames of one size, and while a
\* request is recorded the offset published to its client takes each display index
\* in the present file to the place the frame has there: over any series of failed
\* writes, retries, new frame sizes, starts and stops (WriteFrame's assertion and
\* ReportFrameMapping).  Excepted is the time between WriteFrame and the report of its
\* offset, for the first frame of a file; for a later frame of a file the two steps
\* need not be one.
THEOREM FilesAndMappingAlwaysAgree == Spec => []FilesAndMappingAgree
<1>1. IInv => FilesAndMappingAgree
  <2> SUFFICES ASSUME IInv PROVE TypeOK /\ FilesAreReadable /\ MappingFitsFile
    BY DEF FilesAndMappingAgree
  <2>1. TypeInv /\ MappingSound
    BY DEF IInv, FilesInv
  <2>2. TypeOK
    <3>1. \A i \in DOMAIN work : work[i] \in Work
      BY <2>1 DEF TypeInv
    <3> QED BY <2>1, <3>1 DEF TypeOK, TypeInv, Work, Commands, File, Told
  <2>3. FilesAreReadable
    <3> SUFFICES ASSUME NEW r \in Requests, NEW n \in DOMAIN files[r],
                        NEW i \in 2 .. Len(files[r][n].frames)
                 PROVE  /\ files[r][n].frames[i].size = files[r][n].frames[1].size
                        /\ files[r][n].frames[i].index = files[r][n].frames[i - 1].index + 1
      BY DEF FilesAreReadable, FilesOf
    <3> DEFINE s == files[r][n].frames
    <3>1. files[r][n] \in File /\ IsReadable(files[r][n])
      <4>1. files[r] \in Seq(File)
        BY <2>1 DEF TypeInv
      <4> QED BY <2>1, <4>1 DEF MappingSound, Readable
    <3>2. s \in Seq(FrameData)
      BY <3>1 DEF File
    <3> HIDE DEF s
    <3>3. Len(s) \in Nat /\ DOMAIN s = 1 .. Len(s)
      BY <3>2
    <3>4. i \in 2 .. Len(s)
      BY DEF s
    <3>5. 1 \in DOMAIN s /\ i \in DOMAIN s /\ i - 1 \in DOMAIN s /\ i \in Int
      BY <3>3, <3>4
    <3>6. s[1].index \in Nat
      <4>1. s[1] \in FrameData
        BY <3>2, <3>5
      <4> QED BY <4>1 DEF FrameData
    <3>7. /\ s[i].size = s[1].size /\ s[i].index = s[1].index + i - 1
          /\ s[i - 1].index = s[1].index + (i - 1) - 1
      BY <3>1, <3>5 DEF IsReadable, s
    <3>8. s[i].index = s[i - 1].index + 1
      BY <3>5, <3>6, <3>7
    <3> QED BY <3>7, <3>8 DEF s
  <2>4. MappingFitsFile
    BY <2>1 DEF MappingFitsFile, MappingSound, Fits, IsNew
  <2> QED BY <2>2, <2>3, <2>4
<1> QED BY Invariance, <1>1, PTL

\* processInput loses track of no recorder: as long as the block works an open file
\* is that of a recording or one a write to failed, and between units of work every
\* recording has a good open file with a frame in it, whatever failed before.
THEOREM OpenFilesAreAlwaysInUse == Spec => []OpenFilesAreInUse
<1>1. IInv => OpenFilesAreInUse
  <2> SUFFICES ASSUME IInv, recorder = "up"
               PROVE  /\ \A r \in Requests : \A i \in DOMAIN files[r] :
                             files[r][i].open => \/ files[r][i].failed
                                                 \/ i = Len(files[r]) /\ r \in reqInfos \cup Restarted
                      /\ job = NoJob =>
                             \A r \in reqInfos : /\ Last(files[r]).open
                                                 /\ ~ Last(files[r]).failed
                                                 /\ Last(files[r]).frames # <<>>
    BY DEF OpenFilesAreInUse
  <2>1. ASSUME NEW r \in Requests, NEW i \in DOMAIN files[r], files[r][i].open
        PROVE  \/ files[r][i].failed
               \/ i = Len(files[r]) /\ r \in reqInfos \cup Restarted
    <3>1. files[r] \in Seq(File)
      BY DEF IInv, FilesInv, TypeInv
    <3>2. IF r \in reqInfos \cup Restarted THEN Older(files[r]) ELSE Closed(files[r])
      BY DEF IInv, FilesInv, OpenSound
    <3>3. i = Len(files[r]) \/ i \in 1 .. Len(files[r]) - 1
      BY <3>1, LastOrBefore
    <3> QED BY <2>1, <3>2, <3>3 DEF Older, Closed
  <2>2. ASSUME job = NoJob, NEW r \in reqInfos
        PROVE  Last(files[r]).open /\ ~ Last(files[r]).failed /\ Last(files[r]).frames # <<>>
    <3>1. PICK h \in Nat : FramesFrom(h) /\ Follow(h)
      BY DEF IInv, FilesInv, FilesSound
    <3> QED BY <2>2, <3>1 DEF Follow, UpTo, InUse, EndsWith
  <2> QED BY <2>1, <2>2
<1> QED BY Invariance, <1>1, PTL

\* While the recorder's block works and the conduit is not being disposed: a client
\* that started a recording, once or twice, and heard nothing is being served or its
\* request waits, unless it was replaced in the slot; and one that was told as often
\* as it started is served no more.  So every path on which a recording ends by
\* itself, but a fault of the block and Quit, calls NotifyOfTermination.
THEOREM NobodyIsEverForgotten == Spec => []NobodyIsForgotten
<1>1. IInv => NobodyIsForgotten
  BY DEF IInv, ClientSound, KnowsItsFate, IsServed, NobodyIsForgotten
<1> QED BY Invariance, <1>1, PTL
=============================================================================
