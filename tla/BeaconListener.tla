---------------------------- MODULE BeaconListener ----------------------------
(***************************************************************************)
(* The lists of devices (F#).  Three UdpListeners receive the beacons of   *)
(* explorers, defenders and command modules on threads of the pool; their  *)
(* packets are posted to a synchronization context, on whose one thread    *)
(* the lists are changed and the clients told; a timer weeds out what has  *)
(* expired; another thread disposes of it all.  One client waits for the   *)
(* beacon of one device.                                                   *)
(*                                                                         *)
(* The context is the queue of QueuedSynchronizationContext.  Of a beacon, *)
(* what identifies the device and the time are kept.  Rx is external: an   *)
(* ObserveOn posts each notification and drops those of a subscription     *)
(* that is gone; a subject ignores OnNext once completed and raises it     *)
(* once disposed.                                                          *)
(***************************************************************************)
EXTENDS Integers, SequencesExt

CONSTANTS Listeners,    \* the kinds of devices listened for, in the order of disposal
          Devices,      \* by serial number (command modules: address)
          Kind,         \* which listener hears a device
          Included,     \* the devices the filter includes
          Awaited,      \* bound: the devices a client may wait for
          Expiration,
          MaxTime,      \* bound of the clock
          MaxBeacons    \* bound: how many beacons are received

Kinds == ToSet(Listeners)

ASSUME ListenersAssumption == Listeners \in Seq({"explorer", "defender", "cm"})
ASSUME DevicesAssumption ==
    Devices \subseteq Nat /\ Kind \in [Devices -> Kinds] /\ Included \cup Awaited \subseteq Devices
ASSUME BeaconBounds == {Expiration, MaxTime, MaxBeacons} \subseteq Nat

VARIABLES now,
          listener,   \* where the receive or its continuation is, by kind
          packet,     \* the packet being published, by kind
          queue,      \* what is posted to the context
          callback,   \* the device the running callback is to tell clients of
          context,    \* whether its thread runs
          lists,      \* the collections, by kind
          toDispose,  \* what Dispose has yet to do
          waiter,     \* WaitForBeaconAsync
          latest,     \* history: when a device was last heard by a subscriber
          received

vars == <<now, listener, packet, queue, callback, context, lists, toDispose, waiter, latest,
          received>>

Nothing == [dev |-> -1, time |-> -1]
Beacon(d, t) == [dev |-> d, time |-> t]

\* The beacon a wait returns is not followed.
Waiter(at, for, subscribed) == [at |-> at, for |-> for, subscribed |-> subscribed]

\* What dispose goes through.  Disposing of the weeder is one step with completing
\* the subject; unsubscribing from a listener, cancelling it and closing its
\* socket are one step: what runs in between comes to the same end.
DisposeSteps == <<"complete">> \o Listeners \o <<"dispose subject">>

Happened(step) == \A i \in DOMAIN toDispose : toDispose[i] # step

\* The listener's subscription is gone, cts cancelled and the socket closed.
Stopped(k) == Happened(k)

Init == /\ now = 0
        /\ listener = [k \in Kinds |-> "receiving"]
        /\ packet = [k \in Kinds |-> Nothing]
        /\ queue = <<>>
        /\ callback = Nothing
        /\ context = "running"
        /\ lists = [k \in Kinds |-> <<>>]
        /\ toDispose = DisposeSteps
        /\ waiter = Waiter("idle", -1, FALSE)
        /\ latest = [d \in Devices |-> -1]
        /\ received = 0

Post(do, kind, b) == queue' = Append(queue, [do |-> do, kind |-> kind, beacon |-> b])

-----------------------------------------------------------------------------
\* UdpListener: a receive and its continuation.

At(k, from, to) == listener[k] = from /\ listener' = [listener EXCEPT ![k] = to]

\* keepGoing, tested before the packet is published
KeepGoing(k) == ~ Stopped(k)

Receive(d) ==
    LET k == Kind[d] IN
    /\ received < MaxBeacons /\ KeepGoing(k)
    /\ received' = received + 1
    /\ At(k, "receiving", "publishing")
    /\ packet' = [packet EXCEPT ![k] = Beacon(d, now)]
    /\ UNCHANGED <<now, queue, callback, context, lists, toDispose, waiter, latest>>

\* A failed receive ends listening; on an open socket none is taken to fail.
ReceiveFails(k) ==
    /\ Stopped(k)
    /\ At(k, "receiving", "done")
    /\ UNCHANGED <<now, packet, queue, callback, context, lists, toDispose, waiter, latest,
                   received>>

\* packetSubject.OnNext, then listen(), which raises on a closed socket, so that
\* doneSignal is never set.  The packets of explorers are observed on the context
\* and then posted to it again; the others are posted once.
PublishAndListen(k) ==
    /\ At(k, "publishing", IF Stopped(k) THEN "raised" ELSE "receiving")
    /\ packet' = [packet EXCEPT ![k] = Nothing]
    /\ IF Stopped(k)
       THEN UNCHANGED <<queue, latest>>
       ELSE /\ Post(IF k = "explorer" THEN "observe" ELSE "process", k, packet[k])
            /\ latest' = [latest EXCEPT ![packet[k].dev] = packet[k].time]
    /\ UNCHANGED <<now, callback, context, lists, toDispose, waiter, received>>

-----------------------------------------------------------------------------
\* What runs on the context.

IsExpired(b) == b.time + Expiration < now

Later(list, b) == {i \in DOMAIN list : b.dev < list[i].dev}

\* Without looking for the device.
InsertSorted(list, b) == IF Later(list, b) = {} THEN Append(list, b)
                         ELSE InsertAt(list, Min(Later(list, b)), b)

AddOrUpdate(list, b) ==
    LET same == {i \in DOMAIN list : list[i].dev = b.dev} IN
    IF same # {} THEN ReplaceAt(list, Min(same), b) ELSE InsertSorted(list, b)

\* What is left of the list, by the index that the loop has come down to.
Cleaned(list) ==
    LET left[i \in 1 .. Len(list) + 1] ==
            IF i > Len(list) THEN list
            ELSE IF IsExpired(left[i + 1][i]) THEN RemoveAt(left[i + 1], i) ELSE left[i + 1]
    IN  left

\* Mutant: the loop ends before the first index.
CleanButFirst(list) == IF list = <<>> THEN list ELSE Cleaned(list)[2]

Clean(list) == Cleaned(list)[1]

\* Only the explorers' callback looks whether there is anyone to tell.
Tells(k) == k = "explorer" => waiter.subscribed

ShouldInclude(k, d) == k = "cm" \/ d \in Included

\* The next callback runs when the one before has told the clients.
Invoke(do) == /\ context = "running" /\ callback = Nothing
              /\ queue # <<>> /\ Head(queue).do = do

Observe ==
    LET k == Head(queue).kind IN
    /\ Invoke("observe")
    /\ queue' = Tail(queue)
                  \o (IF ~ Stopped(k) THEN <<[Head(queue) EXCEPT !.do = "process"]>> ELSE <<>>)
    /\ UNCHANGED <<lists, callback, context, waiter>>

Process ==
    LET k == Head(queue).kind  b == Head(queue).beacon IN
    /\ Invoke("process")
    /\ queue' = Tail(queue)
    /\ IF ShouldInclude(k, b.dev)
       THEN /\ lists' = [lists EXCEPT ![k] = AddOrUpdate(@, b)]
            /\ callback' = IF Tells(k) THEN b ELSE Nothing
       ELSE UNCHANGED <<lists, callback>>
    /\ UNCHANGED <<context, waiter>>

\* beaconSubject.OnNext.  An exception leaves the loop of the context.
Tell ==
    /\ context = "running" /\ callback # Nothing
    /\ context' = IF Happened("dispose subject") THEN "ended" ELSE "running"
    /\ IF waiter.subscribed /\ waiter.for = callback.dev
       THEN Post("told", "waiter", Nothing) ELSE UNCHANGED queue
    /\ callback' = Nothing
    /\ UNCHANGED <<lists, waiter>>

CleanCollections ==
    /\ Invoke("weed")
    /\ queue' = Tail(queue)
    /\ lists' = IF Happened("complete") THEN lists ELSE [k \in Kinds |-> Clean(lists[k])]
    /\ UNCHANGED <<callback, context, waiter>>

\* The observer of the wait, unless the wait is over.
Notify ==
    /\ \E do \in {"told", "timed out"} : Invoke(do)
    /\ queue' = Tail(queue)
    /\ waiter' = IF waiter.at # "waiting" THEN waiter
                 ELSE [waiter EXCEPT !.at = "signalled"]
    /\ UNCHANGED <<lists, callback, context>>

ContextStep ==
    /\ Observe \/ Process \/ Tell \/ CleanCollections \/ Notify
    /\ UNCHANGED <<now, listener, packet, toDispose, latest, received>>

-----------------------------------------------------------------------------
\* Timers.

Tick == /\ now < MaxTime
        /\ now' = now + 1
        /\ UNCHANGED <<listener, packet, queue, callback, context, lists, toDispose, waiter,
                       latest, received>>

\* Bound: no more than one is in the queue.
WeederFires ==
    /\ ~ Happened("complete")
    /\ \A i \in DOMAIN queue : queue[i].do # "weed"
    /\ Post("weed", "weeder", Nothing)
    /\ UNCHANGED <<now, listener, packet, callback, context, lists, toDispose, waiter, latest,
                   received>>

-----------------------------------------------------------------------------
\* WaitForBeaconAsync, once, not cancelled, on a thread that is not the context's.

Wait(step) == /\ step
              /\ UNCHANGED <<now, listener, packet, callback, context, lists, toDispose,
                             latest, received>>

BeginWait(d) ==
    /\ waiter.at = "idle" /\ ~ Happened("dispose subject")
    /\ waiter' = Waiter("waiting", d, ~ Happened("complete"))
    /\ UNCHANGED queue

\* Mutant: onError is left out of the observer.
WaitTimesOutUnnoticed ==
    /\ waiter.subscribed
    /\ waiter' = [waiter EXCEPT !.subscribed = FALSE]
    /\ UNCHANGED queue

WaitTimesOut ==
    /\ waiter.subscribed
    /\ Post("timed out", "waiter", Nothing)
    /\ waiter' = [waiter EXCEPT !.subscribed = FALSE]

Return ==
    /\ waiter.at = "signalled"
    /\ waiter' = Waiter("returned", -1, FALSE)
    /\ UNCHANGED queue

-----------------------------------------------------------------------------
\* Dispose, on a thread of its own, which waits for the doneSignal of a listener
\* before it goes on.  Completing the subject ends the wait's subscription and
\* tells the waiter nothing.

\* Mutant: a listener is waited for before its socket is closed.
DisposeStepWaitsFirst ==
    /\ toDispose # <<>>
    /\ Head(toDispose) \in Kinds => listener[Head(toDispose)] = "done"
    /\ toDispose' = Tail(toDispose)
    /\ waiter' = IF Head(toDispose) = "complete" THEN [waiter EXCEPT !.subscribed = FALSE]
                 ELSE waiter
    /\ UNCHANGED <<now, listener, packet, queue, callback, context, lists, latest, received>>

DisposeStep ==
    /\ toDispose # <<>>
    /\ \A k \in Kinds : Stopped(k) => listener[k] = "done"
    /\ toDispose' = Tail(toDispose)
    /\ waiter' = IF Head(toDispose) = "complete" THEN [waiter EXCEPT !.subscribed = FALSE]
                 ELSE waiter
    /\ UNCHANGED <<now, listener, packet, queue, callback, context, lists, latest, received>>

Disposing == Happened("complete")

-----------------------------------------------------------------------------
ListenerStep == \E k \in Kinds : PublishAndListen(k) \/ ReceiveFails(k)

Next == \/ \E d \in Devices : Receive(d)
        \/ ListenerStep
        \/ ContextStep
        \/ Tick \/ WeederFires
        \/ \E d \in Awaited : Wait(BeginWait(d))
        \/ Wait(WaitTimesOut) \/ Wait(Return)
        \/ DisposeStep

Spec == Init /\ [][Next]_vars

\* Receives fail once the socket is closed, the pool runs continuations, the
\* wait's timer and thread run, Dispose goes on once begun: all of it finite, so
\* that it is enough that some of it happens.  The context runs its queue and the
\* weeder's timer fires; neither can go on without the other.
Progress ==
    \/ ListenerStep
    \/ Wait(WaitTimesOut) \/ Wait(Return)
    \/ (Disposing /\ DisposeStep)

FairSpec == Spec /\ WF_vars(Progress) /\ WF_vars(ContextStep \/ WeederFires)

-----------------------------------------------------------------------------
Beacons == [dev : Devices, time : 0..MaxTime]

TypeOK ==
    /\ now \in 0..MaxTime
    /\ listener \in [Kinds -> {"receiving", "publishing", "done", "raised"}]
    /\ packet \in [Kinds -> Beacons \cup {Nothing}]
    /\ \A i \in DOMAIN queue :
           /\ queue[i].do \in {"observe", "process", "weed", "told", "timed out"}
           /\ queue[i].beacon \in Beacons \cup {Nothing}
    /\ callback \in Beacons \cup {Nothing}
    /\ context \in {"running", "ended"}
    /\ \A k \in Kinds : \A i \in DOMAIN lists[k] : lists[k][i] \in Beacons
    /\ \E i \in 1..Len(DisposeSteps) + 1 :
           toDispose = SubSeq(DisposeSteps, i, Len(DisposeSteps))
    /\ waiter.at \in {"idle", "waiting", "signalled", "returned"}
    /\ waiter.for \in Devices \cup {-1}
    /\ waiter.subscribed \in BOOLEAN
    /\ latest \in [Devices -> -1..MaxTime]
    /\ received \in 0..MaxBeacons

\* Where the beacons of a device on their way to its list are in the queue; what
\* is observed is posted again.
Pending(d) == {i \in DOMAIN queue : queue[i].do \in {"observe", "process"} /\ queue[i].beacon.dev = d}

HandledBefore(i, j) == \/ queue[i].do = queue[j].do /\ i < j
                       \/ queue[i].do = "process" /\ queue[j].do = "observe"

Listed(d) == {b \in ToSet(lists[Kind[d]]) : b.dev = d}

\* Whatever the order in which receives, callbacks and the weeder run, a list
\* holds each device once, by serial number, with beacons that grow newer, and
\* catches up: when nothing of a device is on its way, what the list says of it
\* is the last that was heard, unless that has expired.  Packets of explorers
\* go through the queue twice and must not be overtaken, dropped or doubled.  Once
\* its listener is told to stop, a list keeps its order but need not catch up.
ListsFollowBeacons ==
    /\ TypeOK
    /\ \A k \in Kinds : \A i \in 2..Len(lists[k]) : lists[k][i-1].dev < lists[k][i].dev
    /\ \A d \in Devices :
           /\ \A i, j \in Pending(d) :
                  HandledBefore(i, j) => queue[i].beacon.time <= queue[j].beacon.time
           /\ \A b \in Listed(d) : /\ ShouldInclude(Kind[d], d)
                                   /\ \A i \in Pending(d) : b.time <= queue[i].beacon.time
           /\ Pending(d) = {} /\ ShouldInclude(Kind[d], d) /\ latest[d] >= 0 /\ ~ Stopped(Kind[d])
                => \/ Listed(d) = {Beacon(d, latest[d])}
                   \/ Listed(d) = {} /\ IsExpired(Beacon(d, latest[d]))

\* A device that is heard no more leaves its list, until Dispose.  The code reads
\* the local time of day (DateTime.Now); it is taken not to be set back.
SilentDevicesGo ==
    LET OutOfDate == \E d \in Devices : \E b \in Listed(d) : IsExpired(b) IN
    OutOfDate ~> (Disposing \/ ~ OutOfDate)

\* A wait comes to its end, with a beacon or by its timeout, whichever is handled
\* first.  A wait during which Dispose begins is left out: the completed subject
\* signals nobody, and it need not end.
WaitReturns == waiter.at = "waiting" ~> (waiter.at = "returned" \/ Disposing)

\* Dispose gets through its steps and the waits for its three listeners.  Left out
\* is the hang the code does have: a listener told to stop between its test and its
\* next receive raises and never sets doneSignal.
DisposeReturns ==
    Disposing ~> (toDispose = <<>> \/ \E k \in Kinds : listener[k] = "raised")
=============================================================================
