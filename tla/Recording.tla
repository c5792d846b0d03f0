------------------------------ MODULE Recording ------------------------------
(***************************************************************************)
(* The recorder at the end of the conduit's processing graph (F#).  Frames *)
(* and clients' commands reach it through a chain of queues that keep      *)
(* their order, here one queue.  It writes every frame to the file of      *)
(* every recording, begins new files when the frame size changes or a      *)
(* write fails, and tells a client when its recording cannot go on.        *)
(*                                                                         *)
(* A recorder and its file are one thing here: files[r] are those made for *)
(* request r, and r's recorder is the last of them.  What is in a frame,   *)
(* paths and times are left out.  The frame count in a file's header is    *)
(* written with the frame it counts.  A client uses a request for one      *)
(* recording, though it may start it twice; nobody posts the command       *)
(* StopStartRecording.                                                     *)
(***************************************************************************)
EXTENDS Integers, Sequences, SequencesExt

CONSTANTS Requests, NoRequest,
          Sizes, NoSize,      \* beams and samples of a frame; 0 by 0
          MaxRecordRetries,
          MaxFrames,          \* bound: how many frames come
          MaxQueued,          \* bound: how many units of work wait
          MaxFailures         \* bound: how often storage fails

ASSUME RequestsAssumption == NoRequest \notin Requests
ASSUME SizesAssumption == NoSize \notin Sizes
ASSUME RecordingBounds ==
    {MaxRecordRetries, MaxFrames, MaxQueued, MaxFailures} \subseteq Nat

VARIABLES work,               \* the units of work that wait
          reqInfos,           \* the requests that have a recorder
          startRecordRequest, \* the start that waits for a frame
          frameSize,
          files,
          job,                \* how far the handling of a frame has come
          entryMap,           \* recorded frame index less display frame index
          recorder,           \* whether the block still takes work
          graph,              \* how far Dispose of the conduit has come
          fate,               \* history: what each request's client knows
          framesSent, failures

vars == <<work, reqInfos, startRecordRequest, frameSize, files, job, entryMap,
          recorder, graph, fate, framesSent, failures>>

FrameOf(size, index)   == [kind |-> "Frame", size |-> size, index |-> index]
StartRecording(r) == [kind |-> "StartRecording", request |-> r]
StopRecording(r)  == [kind |-> "StopRecording", request |-> r]
Quit              == [kind |-> "Quit"]

\* failed: a write to it failed, so what follows its frames may be damaged.
NewFile == [frames |-> <<>>, open |-> TRUE, failed |-> FALSE]

NoJob == [step |-> "none"]

Init == /\ work = <<>>
        /\ reqInfos = {}
        /\ startRecordRequest = NoRequest
        /\ frameSize = NoSize
        /\ files = [r \in Requests |-> <<>>]
        /\ job = NoJob
        /\ entryMap = [r \in {} |-> 0]
        /\ recorder = "up"
        /\ graph = "open"
        /\ fate = [r \in Requests |-> "unknown"]
        /\ framesSent = 0
        /\ failures = 0

-----------------------------------------------------------------------------
\* Files.

OfLast(fs, file) == [fs EXCEPT ![Len(fs)] = file]

Create(r) == [files EXCEPT ![r] = Append(@, NewFile)]

\* Closing a file twice does nothing.
Dispose(rs) ==
    [r \in Requests |-> IF r \in rs /\ files[r] # <<>>
                        THEN OfLast(files[r], [Last(files[r]) EXCEPT !.open = FALSE])
                        ELSE files[r]]

Written(file, frame) == [file EXCEPT !.frames = Append(@, frame)]

\* What was written of the frame is undone, unless that fails as well.
WriteFails(file) == [file EXCEPT !.failed = TRUE]

FrameIndexOffset(file, frame) == Len(file.frames) - frame.index

ReportFrameMapping(r, offset) ==
    [q \in DOMAIN entryMap \cup {r} |-> IF q = r THEN offset ELSE entryMap[q]]

RemoveMappingFor(r) == [q \in DOMAIN entryMap \ {r} |-> entryMap[q]]

\* "told" is a client that was told as often as it asked.
NotifyOfTermination(rs, old) ==
    [r \in Requests |-> CASE r \in rs /\ old[r] = "asked again" -> "told of one"
                         [] r \in rs /\ old[r] \in {"asked", "told of one"} -> "told"
                         [] OTHER -> old[r]]

Fail == failures < MaxFailures /\ failures' = failures + 1

-----------------------------------------------------------------------------
\* Posting to the graph, on the threads of the client and of the stream.

Post(w) == work' = IF recorder = "up" THEN Append(work, w) ELSE work

ClientStarts(r) ==
    /\ graph # "done" /\ Len(work) < MaxQueued /\ fate[r] \in {"unknown", "asked"}
    /\ Post(StartRecording(r))
    /\ fate' = [fate EXCEPT ![r] = IF @ = "asked" THEN "asked again" ELSE "asked"]
    /\ UNCHANGED <<reqInfos, startRecordRequest, frameSize, files, job, entryMap,
                   recorder, graph, framesSent, failures>>

ClientStops(r) ==
    /\ graph # "done" /\ Len(work) < MaxQueued
    /\ fate[r] \in {"asked", "asked again", "told of one"}
    /\ entryMap' = RemoveMappingFor(r)
    /\ Post(StopRecording(r))
    /\ fate' = [fate EXCEPT ![r] = "stopped"]
    /\ UNCHANGED <<reqInfos, startRecordRequest, frameSize, files, job, recorder,
                   graph, framesSent, failures>>

FrameArrives(size) ==
    /\ graph # "done" /\ Len(work) < MaxQueued /\ framesSent < MaxFrames
    /\ framesSent' = framesSent + 1
    /\ Post(FrameOf(size, framesSent'))
    /\ UNCHANGED <<reqInfos, startRecordRequest, frameSize, files, job, entryMap,
                   recorder, graph, fate, failures>>

QuitGraph ==
    /\ graph = "open"
    /\ graph' = "quitting"
    /\ Post(Quit)
    /\ UNCHANGED <<reqInfos, startRecordRequest, frameSize, files, job, entryMap,
                   recorder, fate, framesSent, failures>>

\* The last block completes on Quit, and also when the recorder's has faulted.
LeafGotQuit == graph = "completing"
LeafIsComplete == graph = "completing" \/ (graph = "quitting" /\ recorder = "faulted")

\* The graph is then taken apart.
GraphCompletes ==
    /\ LeafIsComplete
    /\ graph' = "done"
    /\ UNCHANGED <<work, reqInfos, startRecordRequest, frameSize, files, job, entryMap,
                   recorder, fate, framesSent, failures>>

-----------------------------------------------------------------------------
\* Handling a frame.

Takes(kind) == /\ job = NoJob /\ work # <<>> /\ Head(work).kind = kind
               /\ work' = Tail(work)

SizeChangedSinceStart(frame) == frameSize = NoSize
SizeChanged(frame) == frame.size # frameSize

\* All recordings are stopped when the frame size changes, to be restarted.
TakeFrame ==
    /\ Takes("Frame")
    /\ LET frame == Head(work)
           currents == IF SizeChanged(frame) THEN reqInfos ELSE {} IN
       /\ frameSize' = frame.size
       /\ files' = Dispose(currents)
       /\ reqInfos' = reqInfos \ currents
       /\ job' = [step |-> "start", frame |-> frame, currents |-> currents,
                  restarted |-> {}, badRestarts |-> {}, todo |-> {}, failed |-> {},
                  gaveUp |-> {}, attempts |-> [r \in Requests |-> MaxRecordRetries],
                  wrote |-> NoRequest, offset |-> 0]
    /\ UNCHANGED <<startRecordRequest, entryMap, recorder, graph, fate, framesSent,
                   failures>>

Restart(r) ==
    /\ job.step = "start" /\ r \in job.currents
    /\ \/ /\ files' = Create(r)
          /\ job' = [job EXCEPT !.currents = @ \ {r}, !.restarted = @ \cup {r}]
          /\ UNCHANGED failures
       \/ /\ Fail
          /\ job' = [job EXCEPT !.currents = @ \ {r}, !.badRestarts = @ \cup {r}]
          /\ UNCHANGED files
    /\ UNCHANGED <<work, reqInfos, startRecordRequest, frameSize, entryMap, recorder,
                   graph, fate, framesSent>>

\* The slot is empty, or its request is a duplicate.
NothingQueued(req, current) == req = NoRequest
NothingToStart(req, current) == req \in current \cup {NoRequest}

\* startRecordingNoDupes, for the request in the slot if there is one.
StartQueued ==
    /\ job.step = "start" /\ job.currents = {}
    /\ LET req == startRecordRequest
           current == reqInfos \cup job.restarted IN
       \/ /\ NothingToStart(req, current)
          /\ reqInfos' = current
          /\ UNCHANGED <<files, fate, failures>>
       \/ /\ ~ NothingToStart(req, current)
          /\ files' = Create(req)
          /\ reqInfos' = current \cup {req}
          /\ UNCHANGED <<fate, failures>>
       \/ /\ ~ NothingToStart(req, current)
          /\ Fail
          /\ fate' = NotifyOfTermination({req}, fate)
          /\ reqInfos' = current
          /\ UNCHANGED files
    /\ startRecordRequest' = NoRequest
    /\ job' = [job EXCEPT !.step = "write", !.restarted = {}, !.todo = reqInfos']
    /\ UNCHANGED <<work, frameSize, entryMap, recorder, graph, framesSent>>

\* The request whose frame is in its file while its offset is not reported yet.
Unreported == job.wrote
CanWrite == job.step = "write" /\ Unreported = NoRequest

\* The first half of processFrameForRequest, WriteFrame to the file given: r's own
\* or one made for a retry.
ProcessFrame(r, fs, worked, failed) ==
    \/ /\ files' = [files EXCEPT ![r] = OfLast(fs, Written(Last(fs), job.frame))]
       /\ job' = [worked EXCEPT !.wrote = r,
                                !.offset = FrameIndexOffset(Last(fs), job.frame)]
       /\ UNCHANGED failures
    \/ /\ Fail
       /\ files' = [files EXCEPT ![r] = OfLast(fs, WriteFails(Last(fs)))]
       /\ job' = failed

\* The second half, under the lock that the clients' calls take too.
RecordFrameIndexOffset ==
    /\ job.step = "write" /\ Unreported # NoRequest
    /\ entryMap' = ReportFrameMapping(Unreported, job.offset)
    /\ job' = [job EXCEPT !.wrote = NoRequest]
    /\ UNCHANGED <<work, reqInfos, startRecordRequest, frameSize, files, recorder, graph,
                   fate, framesSent, failures>>

Write(r) ==
    /\ CanWrite /\ r \in job.todo
    /\ LET rest == [job EXCEPT !.todo = @ \ {r}] IN
       ProcessFrame(r, files[r], rest, [rest EXCEPT !.failed = @ \cup {r}])
    /\ UNCHANGED <<work, reqInfos, startRecordRequest, frameSize, entryMap, recorder,
                   graph, fate, framesSent>>

\* One attempt.  The file that failed before stays open.
Retry(r) ==
    /\ CanWrite /\ job.todo = {} /\ r \in job.failed /\ job.attempts[r] > 0
    /\ LET again == [job EXCEPT !.attempts[r] = @ - 1] IN
       \/ ProcessFrame(r, Append(files[r], NewFile), [job EXCEPT !.failed = @ \ {r}], again)
       \/ /\ Fail
          /\ job' = again
          /\ UNCHANGED files
    /\ UNCHANGED <<work, reqInfos, startRecordRequest, frameSize, entryMap, recorder,
                   graph, fate, framesSent>>

GiveUp(r) ==
    /\ CanWrite /\ r \in job.failed /\ job.attempts[r] = 0
    /\ job' = [job EXCEPT !.failed = @ \ {r}, !.gaveUp = @ \cup {r}]
    /\ UNCHANGED <<work, reqInfos, startRecordRequest, frameSize, files, entryMap,
                   recorder, graph, fate, framesSent, failures>>

\* A request that was started twice may be among both.
NotifyThoseGivenUp == NotifyOfTermination(job.gaveUp, fate)
NotifyTerminated == NotifyOfTermination(job.gaveUp,
                                        NotifyOfTermination(job.badRestarts, fate))

\* Those that did not restart have been disposed already.
FinishFrame ==
    /\ CanWrite /\ job.todo = {} /\ job.failed = {}
    /\ reqInfos' = reqInfos \ job.gaveUp
    /\ fate' = NotifyTerminated
    /\ files' = Dispose(job.gaveUp)
    /\ job' = NoJob
    /\ UNCHANGED <<work, startRecordRequest, frameSize, entryMap, recorder, graph,
                   framesSent, failures>>

MakingFile ==
    \/ job.step = "start" /\ job.currents # {}
    \/ job.step = "start" /\ ~ NothingToStart(startRecordRequest, reqInfos \cup job.restarted)
    \/ CanWrite /\ job.todo = {} /\ \E r \in job.failed : job.attempts[r] > 0

\* Making the file raises something else than an IOException: the block faults
\* and drops what waits.
MakingFileRaises ==
    /\ MakingFile
    /\ Fail
    /\ recorder' = "faulted"
    /\ work' = <<>>
    /\ job' = NoJob
    /\ UNCHANGED <<reqInfos, startRecordRequest, frameSize, files, entryMap, graph, fate,
                   framesSent>>

-----------------------------------------------------------------------------
\* Handling a command.

\* queueRecordingRequest: a request that waits already is replaced.
TakeStart ==
    /\ Takes("StartRecording")
    /\ LET old == startRecordRequest IN
       fate' = [r \in Requests |->
                    IF r = old /\ r # Head(work).request /\ fate[r] \in {"asked", "asked again"}
                    THEN "replaced" ELSE fate[r]]
    /\ startRecordRequest' = Head(work).request
    /\ UNCHANGED <<reqInfos, frameSize, files, job, entryMap, recorder, graph, framesSent,
                   failures>>

TakeStop ==
    /\ Takes("StopRecording")
    /\ files' = Dispose(reqInfos \cap {Head(work).request})
    /\ reqInfos' = reqInfos \ {Head(work).request}
    /\ UNCHANGED <<startRecordRequest, frameSize, job, entryMap, recorder, graph, fate,
                   framesSent, failures>>

TakeQuit ==
    /\ Takes("Quit")
    /\ files' = Dispose(reqInfos)
    /\ reqInfos' = {}
    /\ graph' = "completing"
    /\ UNCHANGED <<startRecordRequest, frameSize, job, entryMap, recorder, fate,
                   framesSent, failures>>

-----------------------------------------------------------------------------
Clients == \/ \E r \in Requests : ClientStarts(r) \/ ClientStops(r)
           \/ \E size \in Sizes : FrameArrives(size)
           \/ QuitGraph

ProcessInput == \/ TakeFrame \/ StartQueued \/ RecordFrameIndexOffset
                \/ FinishFrame \/ MakingFileRaises
                \/ \E r \in Requests : Restart(r) \/ Write(r) \/ Retry(r) \/ GiveUp(r)
                \/ TakeStart \/ TakeStop \/ TakeQuit

Next == Clients \/ ProcessInput \/ GraphCompletes

Spec == Init /\ [][Next]_vars

\* The thread pool runs the block as long as it has work; storage answers.
FairSpec == Spec /\ WF_vars(ProcessInput) /\ WF_vars(GraphCompletes)

-----------------------------------------------------------------------------
FrameData == [kind : {"Frame"}, size : Sizes, index : Nat]

\* Every variable has its type.
TypeOK ==
    /\ \A i \in DOMAIN work :
           work[i] \in FrameData \cup {Quit}
                         \cup {StartRecording(r) : r \in Requests}
                         \cup {StopRecording(r) : r \in Requests}
    /\ reqInfos \subseteq Requests
    /\ startRecordRequest \in Requests \cup {NoRequest}
    /\ frameSize \in Sizes \cup {NoSize}
    /\ files \in [Requests -> Seq([frames : Seq(FrameData), open : BOOLEAN,
                                   failed : BOOLEAN])]
    /\ DOMAIN entryMap \subseteq Requests /\ \A r \in DOMAIN entryMap : entryMap[r] \in Int
    /\ recorder \in {"up", "faulted"}
    /\ graph \in {"open", "quitting", "completing", "done"}
    /\ fate \in [Requests -> {"unknown", "asked", "asked again", "stopped",
                              "told of one", "told", "replaced"}]
    /\ framesSent \in Nat /\ failures \in Nat

FilesOf(r) == {files[r][i] : i \in DOMAIN files[r]}

\* Every file holds consecutive frames of one size, so that the position of a
\* frame in the file follows from its index, as WriteFrame asserts.
FilesAreReadable ==
    \A r \in Requests : \A file \in FilesOf(r) :
        \A i \in 2..Len(file.frames) :
            /\ file.frames[i].size = file.frames[1].size
            /\ file.frames[i].index = file.frames[i - 1].index + 1

\* While a request is recorded, the offset published for it takes every display
\* index that is in its present file to the place the frame has there, also
\* after the file was replaced because of a failed write or a new frame size.
\* Not while the first frame of a file that replaces another is written and its
\* offset is not reported: a client that asks then is answered from the file that
\* was replaced.  The window is for that one frame and that one request, and a later
\* frame of the file has none, for its offset is that of the frames before.
MappingFitsFile ==
    \A r \in reqInfos \cap DOMAIN entryMap :
        LET frames == Last(files[r]).frames IN
        \/ \A i \in DOMAIN frames : frames[i].index + entryMap[r] = i - 1
        \/ job # NoJob /\ Unreported = r /\ Len(frames) = 1

FilesAndMappingAgree == TypeOK /\ FilesAreReadable /\ MappingFitsFile

Restarted == IF job = NoJob THEN {} ELSE job.restarted

\* As long as the block works, an open file is the one its request is recorded
\* to, or one to which a write failed: processInput loses track of no other
\* recorder, whatever fails while recordings are started, restarted and retried.
\* Between units of work each recording has a good open file that has a frame.
OpenFilesAreInUse ==
    recorder = "up" =>
        /\ \A r \in Requests : \A i \in DOMAIN files[r] :
               files[r][i].open =>
                   \/ files[r][i].failed
                   \/ i = Len(files[r]) /\ r \in reqInfos \cup Restarted
        /\ job = NoJob =>
               \A r \in reqInfos : /\ Last(files[r]).open
                                   /\ ~ Last(files[r]).failed
                                   /\ Last(files[r]).frames # <<>>

StartIsPending(r) == \E i \in DOMAIN work : work[i] = StartRecording(r)
StopIsPending(r)  == \E i \in DOMAIN work : work[i] = StopRecording(r)

InHandling(r) == job # NoJob /\ r \in job.currents \cup job.restarted \cup job.badRestarts

\* As long as the recorder's block works and the conduit is not being disposed: a
\* client that asked for a recording, once or twice, and has heard nothing is being
\* served, or its request waits; NotifyOfTermination is called for every recording
\* that ends by itself.  Only a request replaced in the slot is lost.  And a client
\* that was told as often as it asked is no longer served.  (One that asked twice
\* and was told once may be served: its recording did not restart while its second
\* start waited in the slot.  When the block faults, and on Quit, nobody is told.)
NobodyIsForgotten ==
    recorder = "up" /\ graph = "open" =>
        \A r \in Requests :
            LET served == r \in reqInfos \cup {startRecordRequest}
                            \/ StartIsPending(r) \/ InHandling(r) IN
            /\ fate[r] \in {"asked", "asked again"} => served
            /\ fate[r] = "told" => ~ served

\* Disposing the conduit waits for the graph, which completes also after the
\* recorder's block has faulted.
QuitReturns == graph = "quitting" ~> graph = "done"

\* Once its StopRecording is handled, a request is not recorded.
StopsTheRecording ==
    \A r \in Requests :
        fate[r] = "stopped" /\ ~ StopIsPending(r) => r \notin reqInfos
=============================================================================
