------------------------- MODULE BeaconListenerProofs -------------------------
(***************************************************************************)
(* Proof that the lists of devices follow the beacons, for any devices,    *)
(* filter, expiration and bounds.  Weeding a list is a recursive function: *)
(* what it leaves is found by induction over the natural numbers, in the   *)
(* form of a set of numbers, from the well-foundedness of <.               *)
(***************************************************************************)
EXTENDS BeaconListener, SequenceTheorems, WellFoundedInduction, TLAPS

Posted == [do : {"observe", "process", "weed", "told", "timed out"},
           kind : Kinds \cup {"weeder", "waiter"}, beacon : Beacons \cup {Nothing}]

DisposalTyped ==
    \E i \in 1..Len(DisposeSteps) + 1 : toDispose = SubSeq(DisposeSteps, i, Len(DisposeSteps))

TypeInv ==
    /\ now \in 0..MaxTime
    /\ listener \in [Kinds -> {"receiving", "publishing", "done", "raised"}]
    /\ packet \in [Kinds -> Beacons \cup {Nothing}]
    /\ queue \in Seq(Posted)
    /\ callback \in Beacons \cup {Nothing}
    /\ context \in {"running", "ended"}
    /\ lists \in [Kinds -> Seq(Beacons)]
    /\ DisposalTyped
    /\ waiter \in [at : {"idle", "waiting", "signalled", "returned"},
                   for : Devices \cup {-1}, subscribed : BOOLEAN]
    /\ latest \in [Devices -> -1..MaxTime]
    /\ received \in 0..MaxBeacons

\* Beacons that are posted are of the kind of their device; only those of explorers
\* are observed.
QueueSound ==
    \A i \in DOMAIN queue :
        /\ queue[i].do \in {"observe", "process"} =>
               queue[i].beacon \in Beacons /\ queue[i].kind = Kind[queue[i].beacon.dev]
        /\ queue[i].do = "observe" => queue[i].kind = "explorer"

\* A packet that is being published is no older than what was heard of its kind.
PacketSound ==
    /\ \A k \in Kinds : listener[k] = "publishing" =>
           /\ packet[k] \in Beacons /\ Kind[packet[k].dev] = k /\ packet[k].time <= now
           /\ \A d \in Devices : Kind[d] = k => latest[d] <= packet[k].time
    /\ \A d \in Devices : latest[d] <= now

Sorted(list) == \A i, j \in DOMAIN list : i < j => list[i].dev < list[j].dev

ListsSorted == \A k \in Kinds : Sorted(lists[k])

\* What is on its way comes in the order of its times, up to the last that was heard.
PendingSound(d) ==
    /\ \A i, j \in Pending(d) :
           HandledBefore(i, j) => queue[i].beacon.time <= queue[j].beacon.time
    /\ \A i \in Pending(d) : queue[i].beacon.time <= latest[d]

ListedSound(d) ==
    \A b \in Listed(d) : /\ ShouldInclude(Kind[d], d) /\ b.time <= latest[d]
                         /\ \A i \in Pending(d) : b.time <= queue[i].beacon.time

\* The last that was heard is on its way, or in the list until it expires.
CatchesUp(d) ==
    ~ Stopped(Kind[d]) /\ latest[d] >= 0 =>
        \/ \E i \in Pending(d) : queue[i].beacon.time = latest[d]
        \/ /\ Pending(d) = {}
           /\ ShouldInclude(Kind[d], d) =>
                  \/ Listed(d) = {Beacon(d, latest[d])}
                  \/ Listed(d) = {} /\ IsExpired(Beacon(d, latest[d]))

DeviceSound(d) == PendingSound(d) /\ ListedSound(d) /\ CatchesUp(d)

IInv == /\ TypeInv /\ QueueSound /\ PacketSound /\ ListsSorted
        /\ \A d \in Devices : DeviceSound(d)

-----------------------------------------------------------------------------
\* Induction over the natural numbers, by sets of them.

Below == {pair \in Nat \X Nat : pair[1] < pair[2]}

LEMMA BelowIsWellFounded == IsWellFoundedOn(Below, Nat)
BY NatLessThanWellFounded DEF OpToRel, Below

LEMMA Least ==
    ASSUME NEW T, T \subseteq Nat, T # {}
    PROVE  \E x \in T : \A y \in T : x <= y
<1>1. PICK x \in T : \A y \in T : <<y, x>> \notin Below
  BY BelowIsWellFounded, WFMin
<1>2. \A y \in T : <<y, x>> \in Nat \X Nat /\ <<y, x>>[1] = y /\ <<y, x>>[2] = x
  OBVIOUS
<1>3. \A y \in T : ~ (y < x)
  BY <1>1, <1>2 DEF Below
<1> QED BY <1>3

LEMMA Induction ==
    ASSUME NEW T, 0 \in T, \A n \in Nat : n \in T => n + 1 \in T
    PROVE  Nat \subseteq T
<1> SUFFICES ASSUME Nat \ T # {} PROVE FALSE
  OBVIOUS
<1>1. PICK x \in Nat \ T : \A y \in Nat \ T : x <= y
  BY Least
<1>2. x - 1 \in Nat
  OBVIOUS
<1>3. x - 1 \in T
  BY <1>1, <1>2
<1> QED BY <1>2, <1>3

LEMMA MinIsLeast ==
    ASSUME NEW T, T \subseteq Nat, T # {}
    PROVE  Min(T) \in T /\ \A y \in T : Min(T) <= y
BY Least DEF Min

-----------------------------------------------------------------------------
\* Changing a list in one place.

LEMMA Replaced ==
    ASSUME NEW S, NEW s \in Seq(S), NEW i \in DOMAIN s, NEW e \in S
    PROVE  LET r == ReplaceAt(s, i, e) IN
           /\ r \in Seq(S) /\ DOMAIN r = DOMAIN s /\ r[i] = e
           /\ \A j \in DOMAIN s : j # i => r[j] = s[j]
BY DEF ReplaceAt

LEMMA Inserted ==
    ASSUME NEW S, NEW s \in Seq(S), NEW i \in 1 .. Len(s), NEW e \in S
    PROVE  LET r == InsertAt(s, i, e) IN
           /\ r \in Seq(S) /\ DOMAIN r = 1 .. Len(s) + 1 /\ r[i] = e
           /\ \A j \in 1 .. i - 1 : r[j] = s[j]
           /\ \A j \in i + 1 .. Len(s) + 1 : r[j] = s[j - 1]
<1> DEFINE n == Len(s)
           a == SubSeq(s, 1, i - 1)
           c == SubSeq(s, i, n)
           ae == a \o <<e>>
           r == ae \o c
<1>1. n \in Nat /\ n > 0 /\ i \in Int /\ i >= 1 /\ i <= n /\ DOMAIN s = 1 .. n
      /\ \A j \in 1 .. n : s[j] \in S
  OBVIOUS
<1>2. r = InsertAt(s, i, e)
  BY DEF InsertAt
<1>3. a \in Seq(S) /\ Len(a) = i - 1 /\ \A j \in 1 .. i - 1 : a[j] = s[j]
  <2>1. \A j \in 1 .. i - 1 : s[j] \in S
    BY <1>1
  <2>2. /\ a \in Seq(S) /\ Len(a) = IF 1 <= i - 1 THEN (i - 1) - 1 + 1 ELSE 0
        /\ \A j \in 1 .. (i - 1) - 1 + 1 : a[j] = s[1 + j - 1]
    BY <1>1, <2>1, SubSeqProperties
  <2> HIDE DEF a
  <2>3. \A j \in 1 .. i - 1 : a[j] = s[j]
    <3> TAKE j \in 1 .. i - 1
    <3>1. j \in 1 .. (i - 1) - 1 + 1 /\ 1 + j - 1 = j
      BY <1>1
    <3> QED BY <2>2, <3>1
  <2> QED BY <1>1, <2>2, <2>3
<1>4. c \in Seq(S) /\ Len(c) = n - i + 1 /\ \A j \in 1 .. n - i + 1 : c[j] = s[i + j - 1]
  <2>1. \A j \in i .. n : s[j] \in S
    BY <1>1
  <2>2. /\ c \in Seq(S) /\ Len(c) = IF i <= n THEN n - i + 1 ELSE 0
        /\ \A j \in 1 .. n - i + 1 : c[j] = s[i + j - 1]
    BY <1>1, <2>1, SubSeqProperties
  <2> QED BY <1>1, <2>2
<1> HIDE DEF a, c, n
<1>5. <<e>> \in Seq(S) /\ Len(<<e>>) = 1 /\ <<e>>[1] = e
  OBVIOUS
<1>6. /\ ae \in Seq(S) /\ Len(ae) = i
      /\ \A j \in 1 .. i - 1 : ae[j] = s[j]
      /\ ae[i] = e
  <2>1. /\ ae \in Seq(S) /\ Len(ae) = Len(a) + Len(<<e>>)
        /\ \A j \in 1 .. Len(a) + Len(<<e>>) : ae[j] = IF j <= Len(a) THEN a[j] ELSE <<e>>[j - Len(a)]
    BY <1>3, <1>5, ConcatProperties
  <2>2. ae \in Seq(S) /\ Len(ae) = i
        /\ \A j \in 1 .. i : ae[j] = IF j <= i - 1 THEN a[j] ELSE <<e>>[j - (i - 1)]
    BY <1>1, <1>3, <1>5, <2>1
  <2>3. i \in 1 .. i /\ i - (i - 1) = 1 /\ ~ (i <= i - 1)
        /\ \A j \in 1 .. i - 1 : j \in 1 .. i /\ j <= i - 1
    BY <1>1
  <2>4. ae[i] = <<e>>[1]
    BY <2>2, <2>3
  <2>5. \A j \in 1 .. i - 1 : ae[j] = a[j]
    BY <2>2, <2>3
  <2> QED BY <1>3, <1>5, <2>2, <2>4, <2>5
<1> HIDE DEF ae
<1>7. /\ r \in Seq(S) /\ Len(r) = n + 1
      /\ \A j \in 1 .. n + 1 : r[j] = IF j <= i THEN ae[j] ELSE c[j - i]
  <2>1. /\ r \in Seq(S) /\ Len(r) = Len(ae) + Len(c)
        /\ \A j \in 1 .. Len(ae) + Len(c) : r[j] = IF j <= Len(ae) THEN ae[j] ELSE c[j - Len(ae)]
    BY <1>4, <1>6, ConcatProperties
  <2>2. Len(ae) + Len(c) = n + 1
    BY <1>1, <1>4, <1>6
  <2> QED BY <1>6, <2>1, <2>2
<1> HIDE DEF r
<1>8. DOMAIN r = 1 .. n + 1
  BY <1>7
<1>9. r[i] = e
  BY <1>1, <1>6, <1>7
<1>10. \A j \in 1 .. i - 1 : r[j] = s[j]
  BY <1>1, <1>6, <1>7
<1>11. \A j \in i + 1 .. n + 1 : r[j] = s[j - 1]
  <2> TAKE j \in i + 1 .. n + 1
  <2>1. j \in 1 .. n + 1 /\ ~ (j <= i) /\ j - i \in 1 .. n - i + 1 /\ i + (j - i) - 1 = j - 1
    BY <1>1
  <2> QED BY <1>4, <1>7, <2>1
<1> QED BY <1>2, <1>7, <1>8, <1>9, <1>10, <1>11 DEF n

LEMMA Removed ==
    ASSUME NEW S, NEW s \in Seq(S), NEW i \in 1 .. Len(s)
    PROVE  LET r == RemoveAt(s, i) IN
           /\ r \in Seq(S) /\ DOMAIN r = 1 .. Len(s) - 1 /\ Len(r) = Len(s) - 1
           /\ \A j \in 1 .. i - 1 : r[j] = s[j]
           /\ \A j \in i .. Len(s) - 1 : r[j] = s[j + 1]
<1> DEFINE n == Len(s)
           a == SubSeq(s, 1, i - 1)
           c == SubSeq(s, i + 1, n)
           r == a \o c
<1>1. n \in Nat /\ n > 0 /\ i \in Int /\ i >= 1 /\ i <= n /\ DOMAIN s = 1 .. n
      /\ \A j \in 1 .. n : s[j] \in S
  OBVIOUS
<1>2. r = RemoveAt(s, i)
  BY DEF RemoveAt
<1>3. a \in Seq(S) /\ Len(a) = i - 1 /\ \A j \in 1 .. i - 1 : a[j] = s[j]
  <2>1. \A j \in 1 .. i - 1 : s[j] \in S
    BY <1>1
  <2>2. /\ a \in Seq(S) /\ Len(a) = IF 1 <= i - 1 THEN (i - 1) - 1 + 1 ELSE 0
        /\ \A j \in 1 .. (i - 1) - 1 + 1 : a[j] = s[1 + j - 1]
    BY <1>1, <2>1, SubSeqProperties
  <2> HIDE DEF a
  <2>3. \A j \in 1 .. i - 1 : a[j] = s[j]
    <3> TAKE j \in 1 .. i - 1
    <3>1. j \in 1 .. (i - 1) - 1 + 1 /\ 1 + j - 1 = j
      BY <1>1
    <3> QED BY <2>2, <3>1
  <2> QED BY <1>1, <2>2, <2>3
<1>4. c \in Seq(S) /\ Len(c) = n - i /\ \A j \in 1 .. n - i : c[j] = s[i + j]
  <2>1. \A j \in i + 1 .. n : s[j] \in S
    BY <1>1
  <2>2. i + 1 \in Int
    BY <1>1
  <2>3. /\ c \in Seq(S) /\ Len(c) = IF i + 1 <= n THEN n - (i + 1) + 1 ELSE 0
        /\ \A j \in 1 .. n - (i + 1) + 1 : c[j] = s[(i + 1) + j - 1]
    BY <1>1, <2>1, <2>2, SubSeqProperties
  <2> HIDE DEF c
  <2>4. \A j \in 1 .. n - i : j \in 1 .. n - (i + 1) + 1 /\ (i + 1) + j - 1 = i + j
    BY <1>1
  <2>5. \A j \in 1 .. n - i : c[j] = s[i + j]
    BY <2>3, <2>4
  <2>6. Len(c) = n - i
    <3>1. Len(c) = IF i + 1 <= n THEN n - (i + 1) + 1 ELSE 0
      BY <2>3
    <3> HIDE DEF c, n
    <3>2. (IF i + 1 <= n THEN n - (i + 1) + 1 ELSE 0) = n - i
      BY <1>1
    <3> QED BY <3>1, <3>2
  <2> QED BY <2>3, <2>5, <2>6
<1> HIDE DEF a, c, n
<1>5. /\ r \in Seq(S) /\ Len(r) = n - 1
      /\ \A j \in 1 .. n - 1 : r[j] = IF j <= i - 1 THEN a[j] ELSE c[j - (i - 1)]
  <2>1. /\ r \in Seq(S) /\ Len(r) = Len(a) + Len(c)
        /\ \A j \in 1 .. Len(a) + Len(c) : r[j] = IF j <= Len(a) THEN a[j] ELSE c[j - Len(a)]
    BY <1>3, <1>4, ConcatProperties
  <2>2. Len(a) + Len(c) = n - 1
    BY <1>1, <1>3, <1>4
  <2> QED BY <1>3, <2>1, <2>2
<1> HIDE DEF r
<1>6. DOMAIN r = 1 .. n - 1
  BY <1>5
<1>7. \A j \in 1 .. i - 1 : r[j] = s[j]
  BY <1>1, <1>3, <1>5
<1>8. \A j \in i .. n - 1 : r[j] = s[j + 1]
  <2> TAKE j \in i .. n - 1
  <2>1. j \in 1 .. n - 1 /\ ~ (j <= i - 1) /\ j - (i - 1) \in 1 .. n - i /\ i + (j - (i - 1)) = j + 1
    BY <1>1
  <2> QED BY <1>4, <1>5, <2>1
<1> QED BY <1>2, <1>5, <1>6, <1>7, <1>8 DEF n

-----------------------------------------------------------------------------
\* The lists.

LEMMA BeaconTyped ==
    \A b \in Beacons : b.dev \in Devices /\ b.dev \in Nat /\ b.time \in Nat /\ b = Beacon(b.dev, b.time)
<1> TAKE b \in Beacons
<1>1. b \in [dev : Devices, time : 0 .. MaxTime]
  BY DEF Beacons
<1>2. b.dev \in Devices /\ b.time \in 0 .. MaxTime
  BY <1>1
<1>3. b = Beacon(b.dev, b.time)
  BY <1>1 DEF Beacon
<1>4. Devices \subseteq Nat /\ MaxTime \in Nat
  BY DevicesAssumption, BeaconBounds
<1>5. b.dev \in Nat
  BY <1>2, <1>4
<1>6. b.time \in Nat
  BY <1>2, <1>4
<1> QED BY <1>2, <1>3, <1>5, <1>6

\* A beacon that is added or updated takes the place of its device, in the order.
LEMMA Updated ==
    ASSUME NEW list \in Seq(Beacons), Sorted(list), NEW b \in Beacons
    PROVE  LET r == AddOrUpdate(list, b) IN
           /\ r \in Seq(Beacons) /\ Sorted(r)
           /\ ToSet(r) = {c \in ToSet(list) : c.dev # b.dev} \cup {b}
<1> DEFINE r == AddOrUpdate(list, b)
           n == Len(list)
           same == {i \in DOMAIN list : list[i].dev = b.dev}
           later == Later(list, b)
<1>1. /\ n \in Nat /\ DOMAIN list = 1 .. n /\ b.dev \in Nat
      /\ \A i \in 1 .. n : list[i] \in Beacons /\ list[i].dev \in Nat
  BY BeaconTyped
<1>2. \A i, j \in 1 .. n : i < j => list[i].dev < list[j].dev
  BY <1>1 DEF Sorted
<1> HIDE DEF n
<1>3. CASE same # {}
  <2> DEFINE m == Min(same)
  <2>0. same \subseteq Nat /\ same \subseteq 1 .. n
    BY <1>1
  <2>a. m \in same
    BY <1>3, <2>0, MinIsLeast
  <2>1. m \in 1 .. n /\ list[m].dev = b.dev
    BY <2>0, <2>a
  <2>2. r = ReplaceAt(list, m, b)
    BY <1>3 DEF AddOrUpdate
  <2> HIDE DEF m, r
  <2>3. /\ r \in Seq(Beacons) /\ DOMAIN r = 1 .. n /\ r[m] = b
        /\ \A j \in 1 .. n : j # m => r[j] = list[j]
    <3>1. m \in DOMAIN list
      BY <1>1, <2>1
    <3>2. /\ r \in Seq(Beacons) /\ DOMAIN r = DOMAIN list /\ r[m] = b
          /\ \A j \in DOMAIN list : j # m => r[j] = list[j]
      BY ONLY <2>2, <3>1, Replaced, list \in Seq(Beacons), b \in Beacons
    <3> QED BY <1>1, <3>2
  <2>4. \A j \in 1 .. n : r[j].dev = list[j].dev
    BY <2>1, <2>3
  <2>5. Sorted(r)
    BY <1>2, <2>3, <2>4 DEF Sorted
  <2>6. \A j \in 1 .. n : j # m => list[j].dev # b.dev
    BY <1>1, <1>2, <2>1
  <2>7. ToSet(r) = {c \in ToSet(list) : c.dev # b.dev} \cup {b}
    <3>1. ASSUME NEW c \in ToSet(r) PROVE c \in {d \in ToSet(list) : d.dev # b.dev} \cup {b}
      <4>1. PICK j \in 1 .. n : c = r[j]
        BY <2>3 DEF ToSet
      <4> QED BY <1>1, <2>3, <2>6, <4>1 DEF ToSet
    <3>2. ASSUME NEW c \in ToSet(list), c.dev # b.dev PROVE c \in ToSet(r)
      <4>1. PICK j \in 1 .. n : c = list[j]
        BY <1>1 DEF ToSet
      <4>2. r[j] = list[j]
        BY <2>1, <2>3, <3>2, <4>1
      <4> QED BY <2>3, <4>1, <4>2 DEF ToSet
    <3>3. b \in ToSet(r)
      BY <2>1, <2>3 DEF ToSet
    <3> QED BY <3>1, <3>2, <3>3
  <2> QED BY <2>3, <2>5, <2>7 DEF r
<1>4. CASE same = {} /\ later = {}
  <2>1. r = Append(list, b)
    BY <1>4 DEF AddOrUpdate, InsertSorted
  <2> HIDE DEF r
  <2>2. /\ r \in Seq(Beacons) /\ DOMAIN r = 1 .. n + 1 /\ r[n + 1] = b
        /\ \A j \in 1 .. n : r[j] = list[j]
    BY <2>1 DEF n
  <2>3. \A j \in 1 .. n : list[j].dev < b.dev
    BY <1>1, <1>4 DEF Later
  <2>4. \A j \in 1 .. n + 1 : j = n + 1 \/ j \in 1 .. n
    BY <1>1
  <2>5. Sorted(r)
    <3> SUFFICES ASSUME NEW i \in 1 .. n + 1, NEW j \in 1 .. n + 1, i < j
                 PROVE  r[i].dev < r[j].dev
      BY <2>2 DEF Sorted
    <3>1. i \in 1 .. n
      BY <1>1
    <3>2. CASE j = n + 1
      BY <2>2, <2>3, <3>1, <3>2
    <3>3. CASE j \in 1 .. n
      BY <1>2, <2>2, <3>1, <3>3
    <3> QED BY <2>4, <3>2, <3>3
  <2>6. ToSet(r) = {c \in ToSet(list) : c.dev # b.dev} \cup {b}
    <3>1. ASSUME NEW c \in ToSet(r) PROVE c \in {d \in ToSet(list) : d.dev # b.dev} \cup {b}
      <4>1. PICK j \in 1 .. n + 1 : c = r[j]
        BY <2>2 DEF ToSet
      <4>2. CASE j = n + 1
        BY <2>2, <4>1, <4>2
      <4>3. CASE j \in 1 .. n
        <5>1. c = list[j] /\ list[j].dev < b.dev
          BY <2>2, <2>3, <4>1, <4>3
        <5>2. c \in ToSet(list)
          BY <1>1, <4>3, <5>1 DEF ToSet
        <5>3. c.dev # b.dev
          BY <1>1, <4>3, <5>1
        <5> QED BY <5>2, <5>3
      <4> QED BY <2>4, <4>2, <4>3
    <3>2. ASSUME NEW c \in ToSet(list) PROVE c \in ToSet(r)
      <4>1. PICK j \in 1 .. n : c = list[j]
        BY <1>1 DEF ToSet
      <4>2. j \in 1 .. n + 1
        BY <1>1
      <4> QED BY <2>2, <4>1, <4>2 DEF ToSet
    <3>3. b \in ToSet(r)
      <4>1. n + 1 \in 1 .. n + 1
        BY <1>1
      <4> QED BY <2>2, <4>1 DEF ToSet
    <3> QED BY <3>1, <3>2, <3>3
  <2> QED BY <2>2, <2>5, <2>6 DEF r
<1>5. CASE same = {} /\ later # {}
  <2> DEFINE m == Min(later)
  <2>0. later \subseteq Nat /\ later = {j \in 1 .. n : b.dev < list[j].dev}
    BY <1>1 DEF Later
  <2> HIDE DEF later
  <2>a. m \in later /\ \A j \in later : m <= j
    BY <1>5, <2>0, MinIsLeast
  <2> HIDE DEF m
  <2>1. m \in 1 .. n /\ b.dev < list[m].dev /\ \A j \in 1 .. n : b.dev < list[j].dev => m <= j
    BY <2>0, <2>a
  <2>2. r = InsertAt(list, m, b)
    BY <1>5 DEF AddOrUpdate, InsertSorted, m, later
  <2> HIDE DEF r
  <2>3. /\ r \in Seq(Beacons) /\ DOMAIN r = 1 .. n + 1 /\ r[m] = b
        /\ \A j \in 1 .. m - 1 : r[j] = list[j]
        /\ \A j \in m + 1 .. n + 1 : r[j] = list[j - 1]
    <3>1. m \in 1 .. Len(list)
      BY <2>1 DEF n
    <3> QED BY <2>2, <3>1, Inserted DEF n
  <2>4. \A j \in 1 .. m - 1 : j \in 1 .. n /\ list[j].dev < b.dev
    <3> SUFFICES ASSUME NEW j \in 1 .. m - 1 PROVE j \in 1 .. n /\ list[j].dev < b.dev
      OBVIOUS
    <3>1. j \in 1 .. n /\ ~ (m <= j)
      BY <1>1, <2>1
    <3>2. list[j].dev # b.dev
      BY <1>1, <1>5, <3>1
    <3> QED BY <1>1, <2>1, <3>1, <3>2
  <2>5. \A j \in m .. n : j \in 1 .. n /\ b.dev < list[j].dev
    <3> SUFFICES ASSUME NEW j \in m .. n PROVE j \in 1 .. n /\ b.dev < list[j].dev
      OBVIOUS
    <3>1. j \in 1 .. n /\ (j = m \/ m < j)
      BY <1>1, <2>1
    <3> QED BY <1>1, <1>2, <2>1, <3>1
  <2>6. \A j \in 1 .. n + 1 : \/ j \in 1 .. m - 1
                              \/ j = m
                              \/ j \in m + 1 .. n + 1 /\ j - 1 \in m .. n
    BY <1>1, <2>1
  <2>7. Sorted(r)
    <3> SUFFICES ASSUME NEW i \in 1 .. n + 1, NEW j \in 1 .. n + 1, i < j
                 PROVE  r[i].dev < r[j].dev
      BY <2>3 DEF Sorted
    <3>1. CASE i \in 1 .. m - 1 /\ j \in 1 .. m - 1
      BY <1>2, <2>3, <2>4, <3>1
    <3>2. CASE i \in 1 .. m - 1 /\ j = m
      BY <2>3, <2>4, <3>2
    <3>3. CASE i \in 1 .. m - 1 /\ j \in m + 1 .. n + 1 /\ j - 1 \in m .. n
      <4>1. i < j - 1 /\ i \in 1 .. n /\ j - 1 \in 1 .. n
        BY <1>1, <2>1, <3>3
      <4> QED BY <1>2, <2>3, <3>3, <4>1
    <3>4. CASE i = m /\ j \in m + 1 .. n + 1 /\ j - 1 \in m .. n
      BY <2>3, <2>5, <3>4
    <3>5. CASE /\ i \in m + 1 .. n + 1 /\ i - 1 \in m .. n
               /\ j \in m + 1 .. n + 1 /\ j - 1 \in m .. n
      <4>1. i - 1 < j - 1 /\ i - 1 \in 1 .. n /\ j - 1 \in 1 .. n
        BY <1>1, <2>1, <3>5
      <4> QED BY <1>2, <2>3, <3>5, <4>1
    <3>6. i \in m .. n + 1 => j \in m + 1 .. n + 1
      BY <1>1, <2>1
    <3> QED BY <1>1, <2>1, <2>6, <3>1, <3>2, <3>3, <3>4, <3>5
  <2>8. ToSet(r) = {c \in ToSet(list) : c.dev # b.dev} \cup {b}
    <3>1. ASSUME NEW c \in ToSet(r) PROVE c \in {d \in ToSet(list) : d.dev # b.dev} \cup {b}
      <4>1. PICK j \in 1 .. n + 1 : c = r[j]
        BY <2>3 DEF ToSet
      <4>2. CASE j \in 1 .. m - 1
        <5>1. c = list[j] /\ j \in 1 .. n /\ list[j].dev < b.dev
          BY <2>3, <2>4, <4>1, <4>2
        <5>2. c \in ToSet(list)
          BY <1>1, <5>1 DEF ToSet
        <5>3. c.dev # b.dev
          BY <1>1, <5>1
        <5> QED BY <5>2, <5>3
      <4>3. CASE j = m
        BY <2>3, <4>1, <4>3
      <4>4. CASE j \in m + 1 .. n + 1 /\ j - 1 \in m .. n
        <5>1. c = list[j - 1] /\ j - 1 \in 1 .. n /\ b.dev < list[j - 1].dev
          BY <2>3, <2>5, <4>1, <4>4
        <5>2. c \in ToSet(list)
          BY <1>1, <5>1 DEF ToSet
        <5>3. c.dev # b.dev
          BY <1>1, <5>1
        <5> QED BY <5>2, <5>3
      <4> QED BY <2>6, <4>2, <4>3, <4>4
    <3>2. ASSUME NEW c \in ToSet(list) PROVE c \in ToSet(r)
      <4>1. PICK j \in 1 .. n : c = list[j]
        BY <1>1 DEF ToSet
      <4>2. CASE j < m
        <5>1. j \in 1 .. m - 1 /\ j \in 1 .. n + 1
          BY <1>1, <2>1, <4>2
        <5> QED BY <2>3, <4>1, <5>1 DEF ToSet
      <4>3. CASE ~ (j < m)
        <5>1. j + 1 \in m + 1 .. n + 1 /\ j + 1 \in 1 .. n + 1 /\ (j + 1) - 1 = j
          BY <1>1, <2>1, <4>3
        <5> QED BY <2>3, <4>1, <5>1 DEF ToSet
      <4> QED BY <4>2, <4>3
    <3>3. b \in ToSet(r)
      <4>1. m \in 1 .. n + 1
        BY <1>1, <2>1
      <4> QED BY <2>3, <4>1 DEF ToSet
    <3> QED BY <3>1, <3>2, <3>3
  <2> QED BY <2>3, <2>7, <2>8 DEF r
<1> QED BY <1>3, <1>4, <1>5

\* Removing one beacon loses that one only.
LEMMA RemovedOne ==
    ASSUME NEW list \in Seq(Beacons), Sorted(list), NEW i \in 1 .. Len(list)
    PROVE  LET r == RemoveAt(list, i) IN
           /\ r \in Seq(Beacons) /\ Sorted(r) /\ Len(r) = Len(list) - 1
           /\ ToSet(r) \subseteq ToSet(list)
           /\ \A b \in ToSet(list) : b # list[i] => b \in ToSet(r)
<1> DEFINE r == RemoveAt(list, i)
           n == Len(list)
<1>1. n \in Nat /\ DOMAIN list = 1 .. n /\ i \in 1 .. n /\ i \in Int
      /\ \A j \in 1 .. n : list[j].dev \in Nat
  BY BeaconTyped
<1>2. \A j, k \in 1 .. n : j < k => list[j].dev < list[k].dev
  BY <1>1 DEF Sorted
<1>3. /\ r \in Seq(Beacons) /\ DOMAIN r = 1 .. n - 1 /\ Len(r) = n - 1
      /\ \A j \in 1 .. i - 1 : r[j] = list[j]
      /\ \A j \in i .. n - 1 : r[j] = list[j + 1]
  BY Removed
<1> HIDE DEF r, n
<1>4. \A j \in 1 .. n - 1 : \/ j \in 1 .. i - 1 /\ j \in 1 .. n
                            \/ j \in i .. n - 1 /\ j + 1 \in 1 .. n
  BY <1>1
<1>5. Sorted(r)
  <2> SUFFICES ASSUME NEW j \in 1 .. n - 1, NEW k \in 1 .. n - 1, j < k
               PROVE  r[j].dev < r[k].dev
    BY <1>3 DEF Sorted
  <2>1. CASE j \in 1 .. i - 1 /\ k \in 1 .. i - 1
    BY <1>2, <1>3, <1>4, <2>1
  <2>2. CASE j \in 1 .. i - 1 /\ k \in i .. n - 1
    <3>1. j < k + 1 /\ j \in 1 .. n /\ k + 1 \in 1 .. n
      BY <1>1, <2>2
    <3> QED BY <1>2, <1>3, <2>2, <3>1
  <2>3. CASE j \in i .. n - 1 /\ k \in i .. n - 1
    <3>1. j + 1 < k + 1 /\ j + 1 \in 1 .. n /\ k + 1 \in 1 .. n
      BY <1>1, <2>3
    <3> QED BY <1>2, <1>3, <2>3, <3>1
  <2>4. ~ (j \in i .. n - 1 /\ k \in 1 .. i - 1)
    BY <1>1
  <2> QED BY <1>4, <2>1, <2>2, <2>3, <2>4
<1>6. ToSet(r) \subseteq ToSet(list)
  <2> SUFFICES ASSUME NEW b \in ToSet(r) PROVE b \in ToSet(list)
    OBVIOUS
  <2>1. PICK j \in 1 .. n - 1 : b = r[j]
    BY <1>3 DEF ToSet
  <2>2. \E k \in 1 .. n : b = list[k]
    BY <1>3, <1>4, <2>1
  <2> QED BY <1>1, <2>2 DEF ToSet
<1>7. ASSUME NEW b \in ToSet(list), b # list[i] PROVE b \in ToSet(r)
  <2>1. PICK j \in 1 .. n : b = list[j]
    BY <1>1 DEF ToSet
  <2>2. CASE j < i
    <3>1. j \in 1 .. i - 1 /\ j \in 1 .. n - 1
      BY <1>1, <2>2
    <3> QED BY <1>3, <2>1, <3>1 DEF ToSet
  <2>3. CASE j > i
    <3>1. j - 1 \in i .. n - 1 /\ j - 1 \in 1 .. n - 1 /\ (j - 1) + 1 = j
      BY <1>1, <2>3
    <3> QED BY <1>3, <2>1, <3>1 DEF ToSet
  <2>4. j # i
    BY <1>7, <2>1
  <2>5. j < i \/ j > i
    BY <1>1, <2>4
  <2> QED BY <2>2, <2>3, <2>5
<1> QED BY <1>3, <1>5, <1>6, <1>7 DEF r, n

\* The loop that cleans a list has a result at every index it comes to.
LEMMA CleanedIsDefined ==
    ASSUME NEW list, Len(list) \in Nat
    PROVE  LET left == Cleaned(list) IN
           left = [i \in 1 .. Len(list) + 1 |->
                      IF i > Len(list) THEN list
                      ELSE IF IsExpired(left[i + 1][i]) THEN RemoveAt(left[i + 1], i) ELSE left[i + 1]]
<1> DEFINE n == Len(list)
           Step(f, i) == IF i > n THEN list
                         ELSE IF IsExpired(f[i + 1][i]) THEN RemoveAt(f[i + 1], i) ELSE f[i + 1]
           Solves(f, first) == f = [i \in first .. n + 1 |-> Step(f, i)]
           T == {m \in Nat : m <= n => \E f : Solves(f, n + 1 - m)}
<1>1. n \in Nat
  OBVIOUS
<1>2. 0 \in T
  <2> DEFINE f == [i \in n + 1 - 0 .. n + 1 |-> list]
  <2>1. \A i \in n + 1 - 0 .. n + 1 : i > n
    BY <1>1
  <2>2. \A i \in n + 1 - 0 .. n + 1 : Step(f, i) = list
    BY <2>1
  <2> HIDE DEF Step
  <2>3. Solves(f, n + 1 - 0)
    BY <2>2
  <2> QED BY <2>3
<1>3. ASSUME NEW m \in Nat, m \in T PROVE m + 1 \in T
  <2> SUFFICES ASSUME m + 1 <= n PROVE \E f : Solves(f, n + 1 - (m + 1))
    OBVIOUS
  <2> HIDE DEF n
  <2>1. m <= n
    BY <1>1
  <2>2. PICK f : Solves(f, n + 1 - m)
    BY <1>3, <2>1
  <2> DEFINE g == [i \in n - m .. n + 1 |-> IF i = n - m THEN Step(f, i) ELSE f[i]]
  <2>3. \A i \in n - m .. n + 1 : i > n \/ (i + 1 \in n - m .. n + 1 /\ i + 1 # n - m /\ i + 1 \in n + 1 - m .. n + 1)
    BY <1>1, <2>1
  <2>4. \A i \in n - m .. n + 1 : i = n - m \/ i \in n + 1 - m .. n + 1
    BY <1>1, <2>1
  <2>5. ASSUME NEW i \in n - m .. n + 1 PROVE Step(g, i) = Step(f, i)
    <3>1. CASE i > n
      BY <3>1
    <3>2. CASE i + 1 \in n - m .. n + 1 /\ i + 1 # n - m
      <4>1. g[i + 1] = f[i + 1]
        BY <3>2
      <4> HIDE DEF g
      <4> QED BY <4>1
    <3> QED BY <2>3, <3>1, <3>2
  <2> HIDE DEF Step
  <2>6. \A i \in n + 1 - m .. n + 1 : f[i] = Step(f, i)
    BY <2>2
  <2>7. \A i \in n - m .. n + 1 : g[i] = Step(g, i)
    BY <2>4, <2>5, <2>6
  <2>8. g = [i \in n - m .. n + 1 |-> Step(g, i)]
    <3>1. g = [i \in n - m .. n + 1 |-> g[i]]
      OBVIOUS
    <3> HIDE DEF g
    <3> QED BY <2>7, <3>1
  <2>9. n + 1 - (m + 1) = n - m
    BY <1>1
  <2> HIDE DEF g
  <2> QED BY <2>8, <2>9
<1> HIDE DEF n, Step
<1>4. Nat \subseteq T
  <2> HIDE DEF T
  <2> QED BY <1>2, <1>3, Induction
<1>5. \E f : Solves(f, n + 1 - n)
  BY <1>1, <1>4
<1>6. n + 1 - n = 1
  BY <1>1
<1>7. \E f : f = [i \in 1 .. n + 1 |-> Step(f, i)]
  BY <1>5, <1>6
<1>8. Cleaned(list) = CHOOSE f : f = [i \in 1 .. n + 1 |-> Step(f, i)]
  BY DEF Cleaned, n, Step
<1>9. Cleaned(list) = [i \in 1 .. n + 1 |-> Step(Cleaned(list), i)]
  BY <1>7, <1>8
<1> QED BY <1>9 DEF n, Step

\* Weeding keeps a list in order and loses nothing but what has expired.
LEMMA Weeded ==
    ASSUME NEW list \in Seq(Beacons), Sorted(list)
    PROVE  LET r == Clean(list) IN
           /\ r \in Seq(Beacons) /\ Sorted(r)
           /\ ToSet(r) \subseteq ToSet(list)
           /\ \A b \in ToSet(list) : ~ IsExpired(b) => b \in ToSet(r)
<1> DEFINE n == Len(list)
           left == Cleaned(list)
           Good(l, i) == /\ l \in Seq(Beacons) /\ Sorted(l) /\ Len(l) >= i - 1
                         /\ ToSet(l) \subseteq ToSet(list)
                         /\ \A b \in ToSet(list) : ~ IsExpired(b) => b \in ToSet(l)
           T == {m \in Nat : m <= n => Good(left[n + 1 - m], n + 1 - m)}
<1>1. n \in Nat
  OBVIOUS
<1>2. left = [i \in 1 .. n + 1 |-> IF i > n THEN list
                                   ELSE IF IsExpired(left[i + 1][i]) THEN RemoveAt(left[i + 1], i)
                                   ELSE left[i + 1]]
  BY <1>1, CleanedIsDefined
<1>a. Len(list) = n
  OBVIOUS
<1> HIDE DEF left, n
<1>3. \A i \in 1 .. n + 1 : left[i] = IF i > n THEN list
                                      ELSE IF IsExpired(left[i + 1][i]) THEN RemoveAt(left[i + 1], i)
                                      ELSE left[i + 1]
  BY <1>2
<1>4. 0 \in T
  <2>1. n + 1 - 0 = n + 1 /\ n + 1 \in 1 .. n + 1 /\ n + 1 > n /\ n >= (n + 1) - 1
    BY <1>1
  <2>2. left[n + 1] = list
    BY <1>3, <2>1
  <2>3. Good(list, n + 1)
    BY <1>a, <2>1
  <2> HIDE DEF Good
  <2> QED BY <2>1, <2>2, <2>3
<1>5. ASSUME NEW m \in Nat, m \in T PROVE m + 1 \in T
  <2> SUFFICES ASSUME m + 1 <= n PROVE Good(left[n + 1 - (m + 1)], n + 1 - (m + 1))
    OBVIOUS
  <2> DEFINE i == n - m
             l == left[i + 1]
  <2>1. /\ m <= n /\ n + 1 - (m + 1) = i /\ n + 1 - m = i + 1
        /\ i \in 1 .. n + 1 /\ i \in Int /\ i >= 1 /\ ~ (i > n) /\ (i + 1) - 1 = i
    BY <1>1
  <2>2. Good(left[n + 1 - m], n + 1 - m)
    BY <1>5, <2>1
  <2> HIDE DEF i
  <2>3. Good(l, i + 1)
    BY <2>1, <2>2
  <2>4. left[i] = IF IsExpired(l[i]) THEN RemoveAt(l, i) ELSE l
    BY <1>3, <2>1
  <2> HIDE DEF l
  <2>5. Len(l) \in Nat /\ Len(l) >= i /\ i \in 1 .. Len(l)
    <3>1. Len(l) \in Nat /\ Len(l) >= (i + 1) - 1
      BY <2>3
    <3> QED BY <2>1, <3>1
  <2>6. CASE IsExpired(l[i])
    <3> DEFINE r == RemoveAt(l, i)
    <3>1. l \in Seq(Beacons) /\ Sorted(l)
      BY <2>3
    <3>2. /\ r \in Seq(Beacons) /\ Sorted(r) /\ Len(r) = Len(l) - 1
          /\ ToSet(r) \subseteq ToSet(l)
          /\ \A b \in ToSet(l) : b # l[i] => b \in ToSet(r)
      BY <2>5, <3>1, RemovedOne
    <3>3. left[i] = r
      BY <2>4, <2>6
    <3> HIDE DEF r
    <3>4. Len(r) >= i - 1
      BY <2>1, <2>5, <3>2
    <3>5. ToSet(r) \subseteq ToSet(list)
      BY <2>3, <3>2
    <3>6. \A b \in ToSet(list) : ~ IsExpired(b) => b \in ToSet(r)
      BY <2>3, <2>6, <3>2
    <3>7. Good(r, i)
      BY <3>2, <3>4, <3>5, <3>6
    <3> HIDE DEF Good
    <3> QED BY <2>1, <3>3, <3>7
  <2>7. CASE ~ IsExpired(l[i])
    <3>1. left[i] = l
      BY <2>4, <2>7
    <3>2. Len(l) >= i - 1
      BY <2>1, <2>5
    <3>3. Good(l, i)
      BY <2>3, <3>2
    <3> HIDE DEF Good
    <3> QED BY <2>1, <3>1, <3>3
  <2> QED BY <2>6, <2>7
<1>6. Nat \subseteq T
  <2> HIDE DEF T
  <2> QED BY <1>4, <1>5, Induction
<1>7. n \in T /\ n <= n /\ n + 1 - n = 1
  BY <1>1, <1>6
<1>8. Good(left[1], 1)
  BY <1>7
<1> QED BY <1>8 DEF Clean, left

-----------------------------------------------------------------------------
\* The queue.

LEMMA QueueAppended ==
    ASSUME TypeInv, NEW p \in Posted, queue' = Append(queue, p)
    PROVE  /\ Len(queue) \in Nat /\ DOMAIN queue = 1 .. Len(queue)
           /\ queue' \in Seq(Posted)
           /\ DOMAIN queue' = 1 .. Len(queue) + 1
           /\ queue'[Len(queue) + 1] = p
           /\ \A i \in 1 .. Len(queue) : queue'[i] = queue[i]
<1>1. queue \in Seq(Posted)
  BY DEF TypeInv
<1> QED BY <1>1

LEMMA QueueTaken ==
    ASSUME TypeInv, queue # <<>>, queue' = Tail(queue)
    PROVE  /\ Len(queue) \in Nat /\ Len(queue) >= 1 /\ DOMAIN queue = 1 .. Len(queue)
           /\ Head(queue) = queue[1] /\ queue[1] \in Posted
           /\ queue' \in Seq(Posted)
           /\ DOMAIN queue' = 1 .. Len(queue) - 1
           /\ \A i \in 1 .. Len(queue) - 1 : queue'[i] = queue[i + 1]
<1>1. queue \in Seq(Posted)
  BY DEF TypeInv
<1>2. Len(queue) \in Nat /\ Len(queue) >= 1
  BY <1>1
<1> QED BY <1>1, <1>2

LEMMA QueueMoved ==
    ASSUME TypeInv, queue # <<>>, NEW p \in Posted, queue' = Tail(queue) \o <<p>>
    PROVE  /\ Len(queue) \in Nat /\ Len(queue) >= 1 /\ DOMAIN queue = 1 .. Len(queue)
           /\ Head(queue) = queue[1] /\ queue[1] \in Posted
           /\ queue' \in Seq(Posted)
           /\ DOMAIN queue' = 1 .. Len(queue)
           /\ queue'[Len(queue)] = p
           /\ \A i \in 1 .. Len(queue) - 1 : queue'[i] = queue[i + 1]
<1> DEFINE t == Tail(queue)
           n == Len(queue)
<1>1. queue \in Seq(Posted)
  BY DEF TypeInv
<1>2. n \in Nat /\ n >= 1 /\ DOMAIN queue = 1 .. n /\ Head(queue) = queue[1] /\ queue[1] \in Posted
  BY <1>1
<1>3. /\ t \in Seq(Posted) /\ Len(t) = n - 1
      /\ \A i \in 1 .. n - 1 : t[i] = queue[i + 1]
  <2>1. /\ t \in Seq(Posted) /\ Len(t) = n - 1
        /\ \A i \in 1 .. Len(t) : t[i] = queue[i + 1]
    BY <1>1, HeadTailProperties
  <2> QED BY <2>1
<1> HIDE DEF t, n
<1>4. queue' = t \o <<p>>
  BY DEF t
<1>5. <<p>> \in Seq(Posted) /\ Len(<<p>>) = 1 /\ <<p>>[1] = p
  OBVIOUS
<1>6. /\ queue' \in Seq(Posted) /\ Len(queue') = Len(t) + Len(<<p>>)
      /\ \A i \in 1 .. Len(t) + Len(<<p>>) :
             queue'[i] = IF i <= Len(t) THEN t[i] ELSE <<p>>[i - Len(t)]
  <2> DEFINE q == t \o <<p>>
  <2>1. /\ q \in Seq(Posted) /\ Len(q) = Len(t) + Len(<<p>>)
        /\ \A i \in 1 .. Len(t) + Len(<<p>>) :
               q[i] = IF i <= Len(t) THEN t[i] ELSE <<p>>[i - Len(t)]
    BY <1>3, <1>5, ConcatProperties
  <2>2. queue' = q
    BY <1>4
  <2> HIDE DEF q
  <2> QED BY <2>1, <2>2
<1>7. Len(t) + Len(<<p>>) = n
  BY <1>2, <1>3, <1>5
<1>8. Len(queue') = n /\ \A i \in 1 .. n : queue'[i] = IF i <= n - 1 THEN t[i] ELSE <<p>>[i - (n - 1)]
  BY <1>3, <1>6, <1>7
<1>9. n \in 1 .. n /\ ~ (n <= n - 1) /\ n - (n - 1) = 1
      /\ \A i \in 1 .. n - 1 : i \in 1 .. n /\ i <= n - 1
  BY <1>2
<1>10. queue'[n] = p
  <2>1. queue'[n] = <<p>>[1]
    BY <1>8, <1>9
  <2> QED BY <1>5, <2>1
<1>11. \A i \in 1 .. n - 1 : queue'[i] = queue[i + 1]
  BY <1>3, <1>8, <1>9
<1>12. DOMAIN queue' = 1 .. n
  BY <1>6, <1>8
<1> QED BY <1>2, <1>6, <1>10, <1>11, <1>12 DEF n

\* Where the beacons of a device are after a step, by where they were before it.
CameFrom(d, old) ==
    /\ \A i \in Pending(d)' : /\ old[i] \in Pending(d)
                              /\ queue'[i].beacon = queue[old[i]].beacon
    /\ \A i, j \in Pending(d)' : HandledBefore(i, j)' => HandledBefore(old[i], old[j])

\* A step that moves beacons in the queue, weeds lists, lets time pass or stops a
\* listener leaves a device as it should be.
LEMMA Carried ==
    ASSUME NEW d \in Devices, DeviceSound(d), NEW old, CameFrom(d, old),
           \/ Stopped(Kind[d])'
           \/ \A j \in Pending(d) : \E i \in Pending(d)' : old[i] = j,
           latest'[d] = latest[d],
           Stopped(Kind[d]) => Stopped(Kind[d])',
           Listed(d)' \subseteq Listed(d),
           \A b \in Listed(d) : b \in Listed(d)' \/ IsExpired(b)',
           IsExpired(Beacon(d, latest[d])) => IsExpired(Beacon(d, latest[d]))'
    PROVE  DeviceSound(d)'
<1>1. PendingSound(d)'
  <2>1. ASSUME NEW i \in Pending(d)', NEW j \in Pending(d)', HandledBefore(i, j)'
        PROVE  queue'[i].beacon.time <= queue'[j].beacon.time
    BY <2>1 DEF CameFrom, DeviceSound, PendingSound
  <2>2. ASSUME NEW i \in Pending(d)' PROVE queue'[i].beacon.time <= latest'[d]
    BY DEF CameFrom, DeviceSound, PendingSound
  <2> QED BY <2>1, <2>2 DEF PendingSound
<1>2. ListedSound(d)'
  <2> SUFFICES ASSUME NEW b \in Listed(d)'
               PROVE  /\ ShouldInclude(Kind[d], d) /\ b.time <= latest'[d]
                      /\ \A i \in Pending(d)' : b.time <= queue'[i].beacon.time
    BY DEF ListedSound, ShouldInclude
  <2>1. b \in Listed(d)
    OBVIOUS
  <2> QED BY <2>1 DEF CameFrom, DeviceSound, ListedSound
<1>3. CatchesUp(d)'
  <2> SUFFICES ASSUME ~ Stopped(Kind[d])', latest'[d] >= 0
               PROVE  \/ \E i \in Pending(d)' : queue'[i].beacon.time = latest'[d]
                      \/ /\ Pending(d)' = {}
                         /\ ShouldInclude(Kind[d], d) =>
                                \/ Listed(d)' = {Beacon(d, latest'[d])}
                                \/ Listed(d)' = {} /\ IsExpired(Beacon(d, latest[d]))'
    BY DEF CatchesUp, ShouldInclude, Beacon, IsExpired
  <2>1. CASE \E j \in Pending(d) : queue[j].beacon.time = latest[d]
    <3>1. PICK j \in Pending(d) : queue[j].beacon.time = latest[d]
      BY <2>1
    <3>2. PICK i \in Pending(d)' : old[i] = j
      OBVIOUS
    <3> QED BY <3>1, <3>2 DEF CameFrom
  <2>2. CASE /\ Pending(d) = {}
             /\ ShouldInclude(Kind[d], d) =>
                    \/ Listed(d) = {Beacon(d, latest[d])}
                    \/ Listed(d) = {} /\ IsExpired(Beacon(d, latest[d]))
    <3>1. Pending(d)' = {}
      BY <2>2 DEF CameFrom
    <3>2. ASSUME ShouldInclude(Kind[d], d)
          PROVE  \/ Listed(d)' = {Beacon(d, latest[d])}
                 \/ Listed(d)' = {} /\ IsExpired(Beacon(d, latest[d]))'
      <4>1. CASE Listed(d) = {Beacon(d, latest[d])}
        BY <4>1
      <4>2. CASE Listed(d) = {} /\ IsExpired(Beacon(d, latest[d]))
        BY <4>2
      <4> QED BY <2>2, <3>2, <4>1, <4>2
    <3> QED BY <3>1, <3>2
  <2>3. ~ Stopped(Kind[d])
    OBVIOUS
  <2> QED BY <2>1, <2>2, <2>3 DEF DeviceSound, CatchesUp
<1> QED BY <1>1, <1>2, <1>3 DEF DeviceSound

\* A step that neither hears of a device, nor changes what is listed of it but by
\* weeding it.
LeavesBe(d) ==
    /\ latest'[d] = latest[d]
    /\ Stopped(Kind[d]) => Stopped(Kind[d])'
    /\ Listed(d)' \subseteq Listed(d)
    /\ \A b \in Listed(d) : b \in Listed(d)' \/ IsExpired(b)'
    /\ IsExpired(Beacon(d, latest[d])) => IsExpired(Beacon(d, latest[d]))'

LEMMA NothingChanged ==
    ASSUME NEW d \in Devices, UNCHANGED <<latest, toDispose, lists, now>>
    PROVE  LeavesBe(d)
BY DEF LeavesBe, Stopped, Happened, Listed, IsExpired, ToSet, Beacon

LEMMA SameQueue ==
    ASSUME NEW d \in Devices, DeviceSound(d), LeavesBe(d), queue' = queue
    PROVE  DeviceSound(d)'
<1> DEFINE old == [i \in DOMAIN queue |-> i]
<1>1. Pending(d)' = Pending(d) /\ \A i \in Pending(d) : old[i] = i
  BY DEF Pending
<1>2. CameFrom(d, old)
  <2> HIDE DEF old
  <2> QED BY <1>1 DEF CameFrom, HandledBefore
<1>3. \A j \in Pending(d) : \E i \in Pending(d)' : old[i] = j
  BY <1>1
<1> HIDE DEF old
<1> QED BY <1>2, <1>3, Carried DEF LeavesBe

LEMMA AppendedQueue ==
    ASSUME TypeInv, NEW d \in Devices, DeviceSound(d), LeavesBe(d),
           NEW p \in Posted, queue' = Append(queue, p),
           p.do \notin {"observe", "process"} \/ p.beacon.dev # d
    PROVE  DeviceSound(d)'
<1> DEFINE old == [i \in DOMAIN queue |-> i]
           n == Len(queue)
<1>1. /\ n \in Nat /\ DOMAIN queue = 1 .. n /\ DOMAIN queue' = 1 .. n + 1
      /\ queue'[n + 1] = p /\ \A i \in 1 .. n : queue'[i] = queue[i]
  BY QueueAppended
<1>2. \A i \in 1 .. n : i \in 1 .. n + 1
  BY <1>1
<1>3. \A i \in 1 .. n + 1 : i \in 1 .. n \/ i = n + 1
  BY <1>1
<1>4. n + 1 \notin Pending(d)'
  BY <1>1 DEF Pending
<1> HIDE DEF n
<1>5. Pending(d)' = Pending(d)
  <2>1. \A i \in 1 .. n : i \in Pending(d)' <=> i \in Pending(d)
    BY <1>1, <1>2 DEF Pending
  <2>2. Pending(d) \subseteq 1 .. n /\ Pending(d)' \subseteq 1 .. n
    BY <1>1, <1>3, <1>4 DEF Pending
  <2> QED BY <2>1, <2>2
<1>6. \A i \in Pending(d) : old[i] = i /\ i \in 1 .. n
  BY <1>1 DEF Pending
<1> HIDE DEF old
<1>7. CameFrom(d, old)
  BY <1>1, <1>5, <1>6 DEF CameFrom, HandledBefore
<1>8. \A j \in Pending(d) : \E i \in Pending(d)' : old[i] = j
  BY <1>5, <1>6
<1> QED BY <1>7, <1>8, Carried DEF LeavesBe

LEMMA TakenQueue ==
    ASSUME TypeInv, NEW d \in Devices, DeviceSound(d), LeavesBe(d),
           queue # <<>>, queue' = Tail(queue), 1 \notin Pending(d) \/ Stopped(Kind[d])'
    PROVE  DeviceSound(d)'
<1> DEFINE n == Len(queue)
           old == [i \in 1 .. n - 1 |-> i + 1]
<1>1. /\ n \in Nat /\ n >= 1 /\ DOMAIN queue = 1 .. n /\ DOMAIN queue' = 1 .. n - 1
      /\ \A i \in 1 .. n - 1 : queue'[i] = queue[i + 1]
  BY QueueTaken
<1> HIDE DEF n
<1>2. \A i \in 1 .. n - 1 : i + 1 \in 1 .. n /\ old[i] = i + 1
  BY <1>1
<1> HIDE DEF old
<1>3. Pending(d)' \subseteq 1 .. n - 1 /\ Pending(d) \subseteq 1 .. n
  BY <1>1 DEF Pending
<1>4. \A i \in 1 .. n - 1 : i \in Pending(d)' <=> i + 1 \in Pending(d)
  BY <1>1, <1>2 DEF Pending
<1>5. CameFrom(d, old)
  <2>1. \A i \in Pending(d)' : old[i] \in Pending(d) /\ queue'[i].beacon = queue[old[i]].beacon
    BY <1>1, <1>2, <1>3, <1>4
  <2>2. \A i, j \in Pending(d)' : HandledBefore(i, j)' => HandledBefore(old[i], old[j])
    <3> SUFFICES ASSUME NEW i \in 1 .. n - 1, NEW j \in 1 .. n - 1, HandledBefore(i, j)'
                 PROVE  HandledBefore(old[i], old[j])
      BY <1>3
    <3>1. queue'[i] = queue[i + 1] /\ queue'[j] = queue[j + 1]
      BY <1>1
    <3>2. i < j => i + 1 < j + 1
      BY <1>1
    <3>3. HandledBefore(i + 1, j + 1)
      BY <3>1, <3>2 DEF HandledBefore
    <3> QED BY <1>2, <3>3
  <2> QED BY <2>1, <2>2 DEF CameFrom
<1>6. 1 \notin Pending(d) => \A j \in Pending(d) : \E i \in Pending(d)' : old[i] = j
  <2> SUFFICES ASSUME 1 \notin Pending(d), NEW j \in Pending(d)
               PROVE  \E i \in Pending(d)' : old[i] = j
    OBVIOUS
  <2>1. j \in 1 .. n /\ j # 1
    BY <1>3
  <2>2. j - 1 \in 1 .. n - 1 /\ (j - 1) + 1 = j
    BY <1>1, <2>1
  <2>3. j - 1 \in Pending(d)' /\ old[j - 1] = j
    BY <1>2, <1>4, <2>2
  <2> QED BY <2>3
<1> QED BY <1>5, <1>6, Carried DEF LeavesBe

LEMMA MovedQueue ==
    ASSUME TypeInv, NEW d \in Devices, DeviceSound(d), LeavesBe(d), queue # <<>>,
           NEW p \in Posted, p.do = "process", Head(queue).do = "observe",
           p.beacon = Head(queue).beacon, queue' = Tail(queue) \o <<p>>
    PROVE  DeviceSound(d)'
<1> DEFINE n == Len(queue)
           old == [i \in 1 .. n |-> IF i = n THEN 1 ELSE i + 1]
<1>1. /\ n \in Nat /\ n >= 1 /\ DOMAIN queue = 1 .. n /\ DOMAIN queue' = 1 .. n
      /\ Head(queue) = queue[1] /\ queue'[n] = p
      /\ \A i \in 1 .. n - 1 : queue'[i] = queue[i + 1]
  BY QueueMoved
<1> HIDE DEF n
<1>2. /\ n \in 1 .. n /\ 1 \in 1 .. n /\ old[n] = 1
      /\ \A i \in 1 .. n - 1 : i + 1 \in 1 .. n /\ i \in 1 .. n /\ old[i] = i + 1
  <2>1. n \in 1 .. n /\ 1 \in 1 .. n
    BY <1>1
  <2>2. \A i \in 1 .. n - 1 : i + 1 \in 1 .. n /\ i \in 1 .. n /\ i # n
    BY <1>1
  <2> QED BY <2>1, <2>2
<1>3. \A i \in 1 .. n : i \in 1 .. n - 1 \/ i = n
  BY <1>1
<1> HIDE DEF old
<1>4. Pending(d)' \subseteq 1 .. n /\ Pending(d) \subseteq 1 .. n
  BY <1>1 DEF Pending
<1>5. \A i \in 1 .. n - 1 : i \in Pending(d)' <=> i + 1 \in Pending(d)
  BY <1>1, <1>2 DEF Pending
<1>6. n \in Pending(d)' <=> 1 \in Pending(d)
  BY <1>1, <1>2 DEF Pending
<1>7. CameFrom(d, old)
  <2>1. \A i \in Pending(d)' : old[i] \in Pending(d) /\ queue'[i].beacon = queue[old[i]].beacon
    <3> SUFFICES ASSUME NEW i \in Pending(d)'
                 PROVE  old[i] \in Pending(d) /\ queue'[i].beacon = queue[old[i]].beacon
      OBVIOUS
    <3>1. CASE i = n
      BY <1>1, <1>2, <1>6, <3>1
    <3>2. CASE i \in 1 .. n - 1
      BY <1>1, <1>2, <1>5, <3>2
    <3> QED BY <1>3, <1>4, <3>1, <3>2
  <2>2. \A i, j \in Pending(d)' : HandledBefore(i, j)' => HandledBefore(old[i], old[j])
    <3> SUFFICES ASSUME NEW i \in 1 .. n, NEW j \in 1 .. n, HandledBefore(i, j)'
                 PROVE  HandledBefore(old[i], old[j])
      BY <1>4
    <3>1. CASE i = n /\ j = n
      BY <1>1, <3>1 DEF HandledBefore
    <3>2. CASE i \in 1 .. n - 1 /\ j \in 1 .. n - 1
      <4>1. queue'[i] = queue[i + 1] /\ queue'[j] = queue[j + 1]
        BY <1>1, <3>2
      <4>2. i < j => i + 1 < j + 1
        BY <3>2
      <4>3. HandledBefore(i + 1, j + 1)
        BY <4>1, <4>2 DEF HandledBefore
      <4> QED BY <1>2, <3>2, <4>3
    <3>3. CASE i = n /\ j \in 1 .. n - 1
      <4>1. queue'[j] = queue[j + 1] /\ queue'[i] = p /\ ~ (i < j) /\ 1 < j + 1
        BY <1>1, <3>3
      <4>2. queue[j + 1].do = "observe"
        BY <4>1 DEF HandledBefore
      <4>3. HandledBefore(1, j + 1)
        BY <1>1, <4>1, <4>2 DEF HandledBefore
      <4> QED BY <1>2, <3>3, <4>3
    <3>4. CASE i \in 1 .. n - 1 /\ j = n
      <4>1. queue'[i] = queue[i + 1] /\ queue'[j] = p
        BY <1>1, <3>4
      <4>2. queue[i + 1].do = "process"
        BY <4>1 DEF HandledBefore
      <4>3. HandledBefore(i + 1, 1)
        BY <1>1, <4>2 DEF HandledBefore
      <4> QED BY <1>2, <3>4, <4>3
    <3> QED BY <1>3, <3>1, <3>2, <3>3, <3>4
  <2> QED BY <2>1, <2>2 DEF CameFrom
<1>8. \A j \in Pending(d) : \E i \in Pending(d)' : old[i] = j
  <2> SUFFICES ASSUME NEW j \in Pending(d) PROVE \E i \in Pending(d)' : old[i] = j
    OBVIOUS
  <2>1. CASE j = 1
    BY <1>2, <1>6, <2>1
  <2>2. CASE j # 1
    <3>1. j \in 1 .. n
      BY <1>4
    <3>2. j - 1 \in 1 .. n - 1 /\ (j - 1) + 1 = j
      BY <1>1, <2>2, <3>1
    <3>3. j - 1 \in Pending(d)' /\ old[j - 1] = j
      BY <1>2, <1>5, <3>2
    <3> QED BY <3>3
  <2> QED BY <2>1, <2>2
<1> QED BY <1>7, <1>8, Carried DEF LeavesBe

\* The newest beacon of a device comes behind all of its others.
LEMMA HeardAgain ==
    ASSUME TypeInv, QueueSound, NEW d \in Devices, DeviceSound(d), NEW p \in Posted,
           p.do = (IF p.kind = "explorer" THEN "observe" ELSE "process"),
           p.kind = Kind[d], p.beacon.dev = d,
           latest[d] <= p.beacon.time, latest'[d] = p.beacon.time, p.beacon.time \in Nat,
           queue' = Append(queue, p), lists' = lists
    PROVE  DeviceSound(d)'
<1> DEFINE n == Len(queue)
<1>1. /\ n \in Nat /\ DOMAIN queue = 1 .. n /\ DOMAIN queue' = 1 .. n + 1
      /\ queue'[n + 1] = p /\ \A i \in 1 .. n : queue'[i] = queue[i]
  BY QueueAppended
<1> HIDE DEF n
<1>2. n + 1 \in 1 .. n + 1 /\ \A i \in 1 .. n : i \in 1 .. n + 1 /\ ~ (n + 1 < i)
  BY <1>1
<1>3. \A i \in 1 .. n + 1 : i \in 1 .. n \/ i = n + 1
  BY <1>1
<1>4. n + 1 \in Pending(d)' /\ Pending(d)' \subseteq 1 .. n + 1
  BY <1>1, <1>2 DEF Pending
<1>5. \A i \in 1 .. n : i \in Pending(d)' <=> i \in Pending(d)
  BY <1>1, <1>2 DEF Pending
<1>6. \A i \in Pending(d) : /\ queue[i].beacon.dev = d /\ queue[i].beacon \in Beacons
                            /\ queue[i].beacon.time \in Nat
                            /\ queue[i].kind = Kind[d]
                            /\ queue[i].beacon.time <= latest[d]
  <2>1. \A i \in Pending(d) : queue[i].beacon.dev = d /\ queue[i].beacon \in Beacons /\ queue[i].kind = Kind[d]
    BY DEF Pending, QueueSound
  <2> QED BY <2>1, BeaconTyped DEF DeviceSound, PendingSound
<1>7. latest[d] \in Int
  BY BeaconBounds DEF TypeInv
<1>8. \A i \in Pending(d) : queue[i].beacon.time <= p.beacon.time
  BY <1>6, <1>7
<1>9. PendingSound(d)'
  <2>1. ASSUME NEW i \in Pending(d)', NEW j \in Pending(d)', HandledBefore(i, j)'
        PROVE  queue'[i].beacon.time <= queue'[j].beacon.time
    <3>1. CASE i \in 1 .. n /\ j \in 1 .. n
      <4>1. HandledBefore(i, j)
        BY <1>1, <2>1, <3>1 DEF HandledBefore
      <4> QED BY <1>1, <1>5, <3>1, <4>1 DEF DeviceSound, PendingSound
    <3>2. CASE i \in 1 .. n /\ j = n + 1
      BY <1>1, <1>5, <1>8, <3>2
    <3>3. CASE i = n + 1 /\ j \in 1 .. n
      <4>1. queue'[i] = p /\ queue'[j] = queue[j] /\ ~ (i < j)
        BY <1>1, <1>2, <3>3
      <4>2. p.do = "process" /\ queue[j].do = "observe"
        BY <2>1, <4>1 DEF HandledBefore
      <4>3. queue[j].kind = "explorer" /\ j \in Pending(d)
        BY <1>1, <1>5, <3>3, <4>2 DEF QueueSound
      <4> QED BY <1>6, <4>2, <4>3
    <3>4. CASE i = n + 1 /\ j = n + 1
      BY <1>1, <3>4
    <3> QED BY <1>3, <1>4, <3>1, <3>2, <3>3, <3>4
  <2>2. ASSUME NEW i \in Pending(d)' PROVE queue'[i].beacon.time <= latest'[d]
    <3>1. CASE i \in 1 .. n
      BY <1>1, <1>5, <1>8, <3>1
    <3>2. CASE i = n + 1
      BY <1>1, <3>2
    <3> QED BY <1>3, <1>4, <3>1, <3>2
  <2> QED BY <2>1, <2>2 DEF PendingSound
<1>10. ListedSound(d)'
  <2>0. Listed(d)' = Listed(d)
    BY DEF Listed, ToSet
  <2> SUFFICES ASSUME NEW b \in Listed(d)
               PROVE  /\ ShouldInclude(Kind[d], d) /\ b.time <= latest'[d]
                      /\ \A i \in Pending(d)' : b.time <= queue'[i].beacon.time
    BY <2>0 DEF ListedSound, ShouldInclude
  <2>1. /\ ShouldInclude(Kind[d], d) /\ b.time <= latest[d]
        /\ \A i \in Pending(d) : b.time <= queue[i].beacon.time
    BY DEF DeviceSound, ListedSound
  <2>2. b.time \in Nat
    <3>1. lists[Kind[d]] \in Seq(Beacons)
      BY DevicesAssumption DEF TypeInv
    <3>2. b \in Beacons
      BY <3>1 DEF Listed, ToSet
    <3> QED BY <3>2, BeaconTyped
  <2>3. b.time <= p.beacon.time
    BY <1>7, <2>1, <2>2
  <2>4. ASSUME NEW i \in Pending(d)' PROVE b.time <= queue'[i].beacon.time
    <3>1. CASE i \in 1 .. n
      BY <1>1, <1>5, <2>1, <3>1
    <3>2. CASE i = n + 1
      BY <1>1, <2>3, <3>2
    <3> QED BY <1>3, <1>4, <3>1, <3>2
  <2> QED BY <2>1, <2>3, <2>4
<1>11. CatchesUp(d)'
  BY <1>1, <1>4 DEF CatchesUp
<1> QED BY <1>9, <1>10, <1>11 DEF DeviceSound

\* The beacon a callback handles is the oldest of its device.
LEMMA Handled ==
    ASSUME TypeInv, QueueSound, NEW d \in Devices, DeviceSound(d), queue # <<>>,
           Head(queue).do = "process", NEW b, b = Head(queue).beacon, b.dev = d,
           queue' = Tail(queue), latest' = latest,
           Stopped(Kind[d])' <=> Stopped(Kind[d]),
           Listed(d)' = IF ShouldInclude(Kind[d], d) THEN {b} ELSE Listed(d)
    PROVE  DeviceSound(d)'
<1> DEFINE n == Len(queue)
<1>1. /\ n \in Nat /\ n >= 1 /\ DOMAIN queue = 1 .. n /\ DOMAIN queue' = 1 .. n - 1
      /\ Head(queue) = queue[1]
      /\ \A i \in 1 .. n - 1 : queue'[i] = queue[i + 1]
  BY QueueTaken
<1> HIDE DEF n
<1>2. 1 \in 1 .. n /\ \A i \in 1 .. n - 1 : i + 1 \in 1 .. n /\ i + 1 > 1
  BY <1>1
<1>3. \A i \in 1 .. n - 1 : i \in Pending(d)' <=> i + 1 \in Pending(d)
  BY <1>1, <1>2 DEF Pending
<1>4. 1 \in Pending(d) /\ Pending(d) \subseteq 1 .. n /\ Pending(d)' \subseteq 1 .. n - 1
  BY <1>1, <1>2 DEF Pending
<1>5. /\ b \in Beacons /\ b.time \in Nat /\ b = Beacon(d, b.time)
      /\ b = queue[1].beacon /\ b.time <= latest[d]
  <2>1. b = queue[1].beacon /\ b \in Beacons
    BY <1>1, <1>2 DEF QueueSound
  <2> QED BY <1>4, <2>1, BeaconTyped DEF DeviceSound, PendingSound
<1>6. \A i \in Pending(d) : i # 1 => b.time <= queue[i].beacon.time /\ queue[i].beacon.time <= latest[d]
  <2> SUFFICES ASSUME NEW i \in Pending(d), i # 1
               PROVE  b.time <= queue[i].beacon.time /\ queue[i].beacon.time <= latest[d]
    OBVIOUS
  <2>1. 1 < i
    <3>1. i \in 1 .. n
      BY <1>4
    <3> QED BY <1>1, <3>1
  <2>2. queue[i].do \in {"observe", "process"}
    BY DEF Pending
  <2>3. HandledBefore(1, i)
    BY <1>1, <2>1, <2>2 DEF HandledBefore
  <2> QED BY <1>4, <1>5, <2>3 DEF DeviceSound, PendingSound
<1>7. \A i \in Pending(d)' : /\ i \in 1 .. n - 1 /\ i + 1 \in Pending(d) /\ i + 1 # 1
                             /\ queue'[i] = queue[i + 1]
                             /\ b.time <= queue'[i].beacon.time /\ queue'[i].beacon.time <= latest[d]
  <2> SUFFICES ASSUME NEW i \in Pending(d)'
               PROVE  /\ i \in 1 .. n - 1 /\ i + 1 \in Pending(d) /\ i + 1 # 1
                      /\ queue'[i] = queue[i + 1]
                      /\ b.time <= queue'[i].beacon.time /\ queue'[i].beacon.time <= latest[d]
    OBVIOUS
  <2>1. i \in 1 .. n - 1 /\ i + 1 \in Pending(d) /\ queue'[i] = queue[i + 1]
    BY <1>1, <1>3, <1>4
  <2>2. i + 1 # 1
    BY <1>1, <2>1
  <2> QED BY <1>6, <2>1, <2>2
<1>8. PendingSound(d)'
  <2>1. ASSUME NEW i \in Pending(d)', NEW j \in Pending(d)', HandledBefore(i, j)'
        PROVE  queue'[i].beacon.time <= queue'[j].beacon.time
    <3>1. i < j => i + 1 < j + 1
      BY <1>7
    <3>2. HandledBefore(i + 1, j + 1)
      BY <1>7, <2>1, <3>1 DEF HandledBefore
    <3>3. queue[i + 1].beacon.time <= queue[j + 1].beacon.time
      BY <1>7, <3>2 DEF DeviceSound, PendingSound
    <3> QED BY <1>7, <3>3
  <2> QED BY <1>7, <2>1 DEF PendingSound
<1>9. ListedSound(d)'
  <2> SUFFICES ASSUME NEW c \in Listed(d)'
               PROVE  /\ ShouldInclude(Kind[d], d) /\ c.time <= latest[d]
                      /\ \A i \in Pending(d)' : c.time <= queue'[i].beacon.time
    BY DEF ListedSound, ShouldInclude
  <2>1. CASE ShouldInclude(Kind[d], d)
    BY <1>5, <1>7, <2>1
  <2>2. CASE ~ ShouldInclude(Kind[d], d)
    BY <2>2 DEF DeviceSound, ListedSound
  <2> QED BY <2>1, <2>2
<1>10. CatchesUp(d)'
  <2> SUFFICES ASSUME ~ Stopped(Kind[d]), latest[d] >= 0
               PROVE  \/ \E i \in Pending(d)' : queue'[i].beacon.time = latest[d]
                      \/ /\ Pending(d)' = {}
                         /\ ShouldInclude(Kind[d], d) => Listed(d)' = {Beacon(d, latest[d])}
    BY DEF CatchesUp, ShouldInclude, Beacon
  <2>1. PICK i \in Pending(d) : queue[i].beacon.time = latest[d]
    BY <1>4 DEF DeviceSound, CatchesUp
  <2>2. CASE i # 1
    <3>1. i \in 1 .. n
      BY <1>4
    <3>2. i - 1 \in 1 .. n - 1 /\ (i - 1) + 1 = i
      BY <1>1, <2>2, <3>1
    <3>3. i - 1 \in Pending(d)' /\ queue'[i - 1] = queue[i]
      BY <1>1, <1>3, <3>2
    <3> QED BY <2>1, <3>3
  <2>3. CASE i = 1 /\ Pending(d)' = {}
    <3>1. b.time = latest[d]
      BY <1>5, <2>1, <2>3
    <3> QED BY <1>5, <2>3, <3>1
  <2>4. CASE i = 1 /\ Pending(d)' # {}
    <3>1. PICK j \in Pending(d)' : TRUE
      BY <2>4
    <3>2. b.time = latest[d]
      BY <1>5, <2>1, <2>4
    <3>3. queue'[j].beacon.time \in Nat
      <4>1. queue[j + 1].beacon \in Beacons
        BY <1>7, <3>1 DEF QueueSound, Pending
      <4> QED BY <1>7, <3>1, <4>1, BeaconTyped
    <3> DEFINE t == queue'[j].beacon.time
    <3>4. b.time <= t /\ t <= latest[d]
      BY <1>7, <3>1
    <3>5. t \in Nat
      BY <3>3
    <3> HIDE DEF t
    <3>6. t = b.time
      BY <1>5, <3>2, <3>4, <3>5
    <3>7. t = latest[d]
      BY <3>2, <3>6
    <3> QED BY <3>1, <3>7 DEF t
  <2> QED BY <2>2, <2>3, <2>4
<1> QED BY <1>8, <1>9, <1>10 DEF DeviceSound

-----------------------------------------------------------------------------
\* What is posted, in a queue that grows, shrinks or is turned.

PostSound(p) ==
    /\ p.do \in {"observe", "process"} =>
           p.beacon \in Beacons /\ p.kind = Kind[p.beacon.dev]
    /\ p.do = "observe" => p.kind = "explorer"

LEMMA AppendedSound ==
    ASSUME TypeInv, QueueSound, NEW p \in Posted, PostSound(p), queue' = Append(queue, p)
    PROVE  QueueSound' /\ queue' \in Seq(Posted)
<1>1. /\ Len(queue) \in Nat /\ DOMAIN queue = 1 .. Len(queue)
      /\ queue' \in Seq(Posted) /\ DOMAIN queue' = 1 .. Len(queue) + 1
      /\ queue'[Len(queue) + 1] = p /\ \A i \in 1 .. Len(queue) : queue'[i] = queue[i]
  BY QueueAppended
<1>2. \A i \in 1 .. Len(queue) + 1 : i \in 1 .. Len(queue) \/ i = Len(queue) + 1
  BY <1>1
<1>3. \A i \in DOMAIN queue : PostSound(queue[i])
  BY DEF QueueSound, PostSound
<1>4. \A i \in DOMAIN queue' : PostSound(queue'[i])
  BY <1>1, <1>2, <1>3
<1> QED BY <1>1, <1>4 DEF QueueSound, PostSound, Beacons

LEMMA TakenSound ==
    ASSUME TypeInv, QueueSound, queue # <<>>, queue' = Tail(queue)
    PROVE  QueueSound' /\ queue' \in Seq(Posted)
<1>1. /\ Len(queue) \in Nat /\ DOMAIN queue = 1 .. Len(queue)
      /\ queue' \in Seq(Posted) /\ DOMAIN queue' = 1 .. Len(queue) - 1
      /\ \A i \in 1 .. Len(queue) - 1 : queue'[i] = queue[i + 1]
  BY QueueTaken
<1>2. \A i \in 1 .. Len(queue) - 1 : i + 1 \in 1 .. Len(queue)
  BY <1>1
<1>3. \A i \in DOMAIN queue : PostSound(queue[i])
  BY DEF QueueSound, PostSound
<1>4. \A i \in DOMAIN queue' : PostSound(queue'[i])
  BY <1>1, <1>2, <1>3
<1> QED BY <1>1, <1>4 DEF QueueSound, PostSound, Beacons

LEMMA MovedSound ==
    ASSUME TypeInv, QueueSound, queue # <<>>, NEW p \in Posted, PostSound(p),
           queue' = Tail(queue) \o <<p>>
    PROVE  QueueSound' /\ queue' \in Seq(Posted)
<1>1. /\ Len(queue) \in Nat /\ DOMAIN queue = 1 .. Len(queue)
      /\ queue' \in Seq(Posted) /\ DOMAIN queue' = 1 .. Len(queue)
      /\ queue'[Len(queue)] = p
      /\ \A i \in 1 .. Len(queue) - 1 : queue'[i] = queue[i + 1]
  BY QueueMoved
<1>2. \A i \in 1 .. Len(queue) : \/ i = Len(queue)
                                 \/ i \in 1 .. Len(queue) - 1 /\ i + 1 \in 1 .. Len(queue)
  <2> DEFINE n == Len(queue)
  <2>1. n \in Nat
    BY <1>1
  <2> HIDE DEF n
  <2>2. \A i \in 1 .. n : i = n \/ (i \in 1 .. n - 1 /\ i + 1 \in 1 .. n)
    BY <2>1
  <2> QED BY <2>2 DEF n
<1>3. \A i \in DOMAIN queue : PostSound(queue[i])
  BY DEF QueueSound, PostSound
<1>4. \A i \in DOMAIN queue' : PostSound(queue'[i])
  BY <1>1, <1>2, <1>3
<1> QED BY <1>1, <1>4 DEF QueueSound, PostSound, Beacons

LEMMA SameQueueSound ==
    ASSUME QueueSound, queue' = queue
    PROVE  QueueSound'
BY DEF QueueSound, Beacons

LEMMA SameDisposal ==
    ASSUME DisposalTyped, toDispose' = toDispose
    PROVE  DisposalTyped'
BY DEF DisposalTyped, DisposeSteps

LEMMA SamePackets ==
    ASSUME PacketSound, UNCHANGED <<listener, packet, latest, now>>
    PROVE  PacketSound'
BY DEF PacketSound, Beacons

LEMMA SameLists ==
    ASSUME ListsSorted, lists' = lists
    PROVE  ListsSorted'
BY DEF ListsSorted, Sorted

-----------------------------------------------------------------------------
\* Each action.

LEMMA OneLong ==
    ASSUME NEW S, NEW e \in S
    PROVE  <<e>> \in Seq(S)
OBVIOUS

LEMMA DisposeStepsTyped == \E S : DisposeSteps \in Seq(S)
<1> DEFINE S == {"explorer", "defender", "cm", "complete", "dispose subject"}
<1>1. Listeners \in Seq(S)
  <2>1. {"explorer", "defender", "cm"} \subseteq S
    OBVIOUS
  <2> HIDE DEF S
  <2> QED BY <2>1, ListenersAssumption
<1>2. "complete" \in S /\ "dispose subject" \in S
  OBVIOUS
<1> HIDE DEF S
<1>3. <<"complete">> \in Seq(S) /\ <<"dispose subject">> \in Seq(S)
  BY <1>2, OneLong
<1>4. <<"complete">> \o Listeners \in Seq(S)
  BY <1>1, <1>3, ConcatProperties
<1>5. (<<"complete">> \o Listeners) \o <<"dispose subject">> \in Seq(S)
  BY <1>3, <1>4, ConcatProperties
<1> QED BY <1>5 DEF DisposeSteps

LEMMA InitSound == Init => IInv
<1> SUFFICES ASSUME Init PROVE IInv
  OBVIOUS
<1>1. DisposeSteps = SubSeq(DisposeSteps, 1, Len(DisposeSteps)) /\ 1 \in 1 .. Len(DisposeSteps) + 1
  <2>1. PICK S : DisposeSteps \in Seq(S)
    BY DisposeStepsTyped
  <2>2. Len(DisposeSteps) \in Nat
    BY <2>1
  <2>3. 1 \in 1 .. Len(DisposeSteps) + 1
    BY <2>2
  <2> QED BY <2>1, <2>3, SubSeqFull
<1>2. DisposalTyped
  BY <1>1 DEF DisposalTyped, Init
<1>3. TypeInv
  <2>1. <<>> \in Seq(Beacons) /\ queue \in Seq(Posted)
    BY DEF Init
  <2>2. 0 \in 0 .. MaxTime /\ 0 \in 0 .. MaxBeacons /\ -1 \in -1 .. MaxTime
    BY BeaconBounds
  <2> QED BY <1>2, <2>1, <2>2 DEF TypeInv, Init, Waiter
<1>4. QueueSound
  BY DEF QueueSound, Init
<1>5. PacketSound
  BY DEF PacketSound, Init
<1>6. ListsSorted
  BY DEF ListsSorted, Sorted, Init
<1>7. ASSUME NEW d \in Devices PROVE DeviceSound(d)
  <2>1. Pending(d) = {}
    BY DEF Pending, Init
  <2>2. Listed(d) = {}
    BY DevicesAssumption DEF Listed, ToSet, Init
  <2>3. ~ (latest[d] >= 0)
    BY DEF Init
  <2> QED BY <2>1, <2>2, <2>3 DEF DeviceSound, PendingSound, ListedSound, CatchesUp
<1> QED BY <1>3, <1>4, <1>5, <1>6, <1>7 DEF IInv

LEMMA ReceiveSound ==
    ASSUME IInv, NEW e \in Devices, Receive(e)
    PROVE  IInv'
<1> DEFINE k == Kind[e]
<1> USE DEF IInv
<1>1. k \in Kinds /\ e \in Devices
  BY DevicesAssumption
<1>2. Beacon(e, now) \in Beacons
  BY DEF Beacons, Beacon, TypeInv
<1>3. /\ listener' = [listener EXCEPT ![k] = "publishing"]
      /\ packet' = [packet EXCEPT ![k] = Beacon(e, now)]
      /\ UNCHANGED <<now, queue, callback, context, lists, toDispose, waiter, latest>>
      /\ received < MaxBeacons /\ received' = received + 1
  BY DEF Receive, At
<1>4. TypeInv'
  <2>1. DisposalTyped'
    BY <1>3, SameDisposal DEF TypeInv
  <2>2. listener' \in [Kinds -> {"receiving", "publishing", "done", "raised"}]
    BY <1>1, <1>3 DEF TypeInv
  <2>3. packet' \in [Kinds -> Beacons \cup {Nothing}]
    BY <1>1, <1>2, <1>3 DEF TypeInv
  <2>4. received' \in 0 .. MaxBeacons
    BY <1>3, BeaconBounds DEF TypeInv
  <2> QED BY <1>3, <2>1, <2>2, <2>3, <2>4 DEF TypeInv, Beacons, Posted, Nothing
<1>5. QueueSound'
  BY <1>3, SameQueueSound
<1>6. PacketSound'
  <2>1. ASSUME NEW h \in Kinds, listener'[h] = "publishing"
        PROVE  /\ packet'[h] \in Beacons /\ Kind[packet'[h].dev] = h /\ packet'[h].time <= now
               /\ \A d \in Devices : Kind[d] = h => latest[d] <= packet'[h].time
    <3>1. CASE h = k
      <4>1. packet'[h] = Beacon(e, now)
        BY <1>1, <1>3, <3>1 DEF TypeInv
      <4>2. packet'[h].dev = e /\ packet'[h].time = now
        BY <4>1 DEF Beacon
      <4>3. now \in Nat
        BY BeaconBounds DEF TypeInv
      <4> QED BY <1>2, <3>1, <4>1, <4>2, <4>3 DEF PacketSound
    <3>2. CASE h # k
      <4>1. packet'[h] = packet[h] /\ listener[h] = "publishing"
        BY <1>1, <1>3, <2>1, <3>2 DEF TypeInv
      <4> QED BY <4>1 DEF PacketSound
    <3> QED BY <3>1, <3>2
  <2> QED BY <1>3, <2>1 DEF PacketSound, Beacons
<1>7. ListsSorted'
  BY <1>3, SameLists
<1>8. ASSUME NEW d \in Devices PROVE DeviceSound(d)'
  BY <1>3, NothingChanged, SameQueue
<1> QED BY <1>4, <1>5, <1>6, <1>7, <1>8

LEMMA ReceiveFailsSound ==
    ASSUME IInv, NEW k \in Kinds, ReceiveFails(k)
    PROVE  IInv'
<1> USE DEF IInv
<1>3. /\ listener' = [listener EXCEPT ![k] = "done"]
      /\ UNCHANGED <<now, packet, queue, callback, context, lists, toDispose, waiter, latest, received>>
  BY DEF ReceiveFails, At
<1>4. TypeInv'
  <2>1. DisposalTyped'
    BY <1>3, SameDisposal DEF TypeInv
  <2>2. listener' \in [Kinds -> {"receiving", "publishing", "done", "raised"}]
    BY <1>3 DEF TypeInv
  <2> QED BY <1>3, <2>1, <2>2 DEF TypeInv, Beacons, Posted, Nothing
<1>5. QueueSound'
  BY <1>3, SameQueueSound
<1>6. PacketSound'
  <2>1. \A h \in Kinds : listener'[h] = "publishing" => listener[h] = "publishing"
    BY <1>3 DEF TypeInv
  <2> QED BY <1>3, <2>1 DEF PacketSound, Beacons
<1>7. ListsSorted'
  BY <1>3, SameLists
<1>8. ASSUME NEW d \in Devices PROVE DeviceSound(d)'
  BY <1>3, NothingChanged, SameQueue
<1> QED BY <1>4, <1>5, <1>6, <1>7, <1>8

LEMMA PublishAndListenSound ==
    ASSUME IInv, NEW k \in Kinds, PublishAndListen(k)
    PROVE  IInv'
<1> USE DEF IInv
<1> DEFINE p == [do |-> IF k = "explorer" THEN "observe" ELSE "process", kind |-> k,
                 beacon |-> packet[k]]
           e == packet[k].dev
           t == packet[k].time
<1>1. /\ listener[k] = "publishing"
      /\ listener' = [listener EXCEPT ![k] = IF Stopped(k) THEN "raised" ELSE "receiving"]
      /\ packet' = [packet EXCEPT ![k] = Nothing]
      /\ IF Stopped(k) THEN UNCHANGED <<queue, latest>>
         ELSE /\ queue' = Append(queue, p)
              /\ latest' = [latest EXCEPT ![e] = t]
      /\ UNCHANGED <<now, callback, context, lists, toDispose, waiter, received>>
  BY DEF PublishAndListen, At, Post
<1>2. /\ packet[k] \in Beacons /\ Kind[e] = k /\ t <= now
      /\ \A d \in Devices : Kind[d] = k => latest[d] <= t
  BY <1>1 DEF PacketSound
<1>3. e \in Devices /\ t \in Nat /\ t \in 0 .. MaxTime
  BY <1>2, BeaconTyped DEF Beacons
<1>4. p \in Posted /\ PostSound(p) /\ p.kind = k /\ p.beacon = packet[k]
      /\ p.do = (IF p.kind = "explorer" THEN "observe" ELSE "process")
  BY <1>2 DEF Posted, PostSound
<1> HIDE DEF p, e, t
<1>5. QueueSound' /\ queue' \in Seq(Posted)
  <2>1. CASE Stopped(k)
    BY <1>1, <2>1, SameQueueSound DEF TypeInv
  <2>2. CASE ~ Stopped(k)
    BY <1>1, <1>4, <2>2, AppendedSound
  <2> QED BY <2>1, <2>2
<1>6. latest' \in [Devices -> -1 .. MaxTime]
  <2>1. CASE Stopped(k)
    BY <1>1, <2>1 DEF TypeInv
  <2>2. CASE ~ Stopped(k)
    <3>1. latest' = [latest EXCEPT ![e] = t] /\ t \in -1 .. MaxTime
      BY <1>1, <1>3, <2>2
    <3> QED BY <3>1 DEF TypeInv
  <2> QED BY <2>1, <2>2
<1>7. TypeInv'
  <2>1. DisposalTyped'
    BY <1>1, SameDisposal DEF TypeInv
  <2>2. listener' \in [Kinds -> {"receiving", "publishing", "done", "raised"}]
    BY <1>1 DEF TypeInv
  <2>3. packet' \in [Kinds -> Beacons \cup {Nothing}]
    BY <1>1 DEF TypeInv
  <2>4. queue' \in Seq(Posted)'
    BY <1>5 DEF Posted, Beacons, Nothing
  <2> QED BY <1>1, <1>6, <2>1, <2>2, <2>3, <2>4 DEF TypeInv, Beacons, Nothing
<1>8. PacketSound'
  <2>1. ASSUME NEW h \in Kinds, listener'[h] = "publishing"
        PROVE  /\ packet'[h] \in Beacons /\ Kind[packet'[h].dev] = h /\ packet'[h].time <= now
               /\ \A d \in Devices : Kind[d] = h => latest'[d] <= packet'[h].time
    <3>1. h # k
      BY <1>1, <2>1 DEF TypeInv
    <3>2. listener[h] = "publishing" /\ packet'[h] = packet[h]
      BY <1>1, <2>1, <3>1 DEF TypeInv
    <3>3. \A d \in Devices : Kind[d] = h => latest'[d] = latest[d]
      BY <1>1, <1>2, <3>1 DEF TypeInv
    <3> QED BY <3>2, <3>3 DEF PacketSound
  <2>2. \A d \in Devices : latest'[d] <= now
    BY <1>1, <1>2, <1>3 DEF PacketSound, TypeInv
  <2> QED BY <1>1, <2>1, <2>2 DEF PacketSound, Beacons
<1>9. ListsSorted'
  BY <1>1, SameLists
<1>10. ASSUME NEW d \in Devices PROVE DeviceSound(d)'
  <2>1. CASE Stopped(k)
    BY <1>1, <2>1, NothingChanged, SameQueue
  <2>2. CASE ~ Stopped(k) /\ d = e
    <3>1. p.beacon.dev = d /\ p.beacon.time = t
      BY <1>4, <2>2 DEF e, t
    <3>2. latest'[d] = t /\ latest[d] <= t
      BY <1>1, <1>2, <1>3, <2>2 DEF TypeInv
    <3> QED BY <1>1, <1>2, <1>3, <1>4, <2>2, <3>1, <3>2, HeardAgain
  <2>3. CASE ~ Stopped(k) /\ d # e
    <3>1. latest'[d] = latest[d]
      BY <1>1, <1>3, <2>3 DEF TypeInv
    <3>2. LeavesBe(d)
      BY <1>1, <3>1 DEF LeavesBe, Stopped, Happened, Listed, IsExpired, ToSet, Beacon
    <3>3. p.beacon.dev # d
      BY <1>4, <2>3 DEF e
    <3> QED BY <1>1, <1>4, <2>3, <3>2, <3>3, AppendedQueue
  <2> QED BY <2>1, <2>2, <2>3
<1> QED BY <1>5, <1>7, <1>8, <1>9, <1>10

\* What a callback leaves alone.
Apart == UNCHANGED <<now, listener, packet, toDispose, latest, received>>

LEMMA ObserveSound ==
    ASSUME IInv, Observe, Apart
    PROVE  IInv'
<1> USE DEF IInv
<1> DEFINE p == [Head(queue) EXCEPT !.do = "process"]
           k == Head(queue).kind
<1>1. /\ queue # <<>> /\ Head(queue).do = "observe"
      /\ queue' = Tail(queue) \o (IF ~ Stopped(k) THEN <<p>> ELSE <<>>)
      /\ UNCHANGED <<lists, callback, context, waiter>>
      /\ UNCHANGED <<now, listener, packet, toDispose, latest, received>>
  BY DEF Observe, Invoke, Apart
<1>2. queue \in Seq(Posted)
  BY DEF TypeInv
<1>3. Head(queue) \in Posted /\ Tail(queue) \in Seq(Posted) /\ Head(queue) = queue[1] /\ 1 \in DOMAIN queue
  BY <1>1, <1>2
<1>4. PostSound(Head(queue))
  BY <1>3 DEF QueueSound, PostSound
<1>5. p \in Posted /\ p.do = "process" /\ p.kind = k /\ p.beacon = Head(queue).beacon
  BY <1>3 DEF Posted
<1>6. PostSound(p) /\ k = "explorer" /\ k = Kind[Head(queue).beacon.dev]
  BY <1>1, <1>4, <1>5 DEF PostSound
<1> HIDE DEF p, k
<1>7. CASE ~ Stopped(k)
  <2>1. queue' = Tail(queue) \o <<p>>
    BY <1>1, <1>7
  <2>2. QueueSound' /\ queue' \in Seq(Posted)
    BY <1>1, <1>5, <1>6, <2>1, MovedSound
  <2>3. ASSUME NEW d \in Devices PROVE DeviceSound(d)'
    <3>1. DeviceSound(d) /\ LeavesBe(d)
      BY <1>1, NothingChanged
    <3> QED BY <1>1, <1>5, <2>1, <3>1, MovedQueue
  <2> QED BY <1>1, <2>2, <2>3, SameDisposal, SamePackets, SameLists DEF TypeInv, Posted, Beacons, Nothing
<1>8. CASE Stopped(k)
  <2>1. queue' = Tail(queue)
    BY <1>1, <1>3, <1>8
  <2>2. QueueSound' /\ queue' \in Seq(Posted)
    BY <1>1, <2>1, TakenSound
  <2>3. ASSUME NEW d \in Devices PROVE DeviceSound(d)'
    <3>1. DeviceSound(d) /\ LeavesBe(d)
      BY <1>1, NothingChanged
    <3>2. 1 \in Pending(d) => Stopped(Kind[d])'
      BY <1>1, <1>3, <1>6, <1>8 DEF Pending, Stopped, Happened
    <3> QED BY <1>1, <2>1, <3>1, <3>2, TakenQueue
  <2> QED BY <1>1, <2>2, <2>3, SameDisposal, SamePackets, SameLists DEF TypeInv, Posted, Beacons, Nothing
<1> QED BY <1>7, <1>8

LEMMA ProcessSound ==
    ASSUME IInv, Process, Apart
    PROVE  IInv'
<1> USE DEF IInv
<1> DEFINE k == Head(queue).kind
           b == Head(queue).beacon
           e == b.dev
           new == AddOrUpdate(lists[k], b)
<1>1. /\ queue # <<>> /\ Head(queue).do = "process" /\ queue' = Tail(queue)
      /\ IF ShouldInclude(k, e)
         THEN /\ lists' = [lists EXCEPT ![k] = new]
              /\ callback' = IF Tells(k) THEN b ELSE Nothing
         ELSE UNCHANGED <<lists, callback>>
      /\ UNCHANGED <<context, waiter>>
      /\ UNCHANGED <<now, listener, packet, toDispose, latest, received>>
  BY DEF Process, Invoke, Apart
<1>2. queue \in Seq(Posted)
  BY DEF TypeInv
<1>3. Head(queue) = queue[1] /\ 1 \in DOMAIN queue
  BY <1>1, <1>2
<1>4. b \in Beacons /\ k = Kind[e]
  BY <1>1, <1>3 DEF QueueSound
<1>5. e \in Devices /\ k \in Kinds
  BY <1>4, BeaconTyped, DevicesAssumption
<1>6. lists[k] \in Seq(Beacons) /\ Sorted(lists[k])
  BY <1>5 DEF TypeInv, ListsSorted
<1>7. /\ new \in Seq(Beacons) /\ Sorted(new)
      /\ ToSet(new) = {c \in ToSet(lists[k]) : c.dev # e} \cup {b}
  BY <1>4, <1>6, Updated
<1> HIDE DEF k, b, e, new
<1>8. QueueSound' /\ queue' \in Seq(Posted)
  BY <1>1, TakenSound
<1>9. lists' \in [Kinds -> Seq(Beacons)] /\ callback' \in Beacons \cup {Nothing}
  <2>1. CASE ShouldInclude(k, e)
    <3>1. lists' \in [Kinds -> Seq(Beacons)]
      BY <1>1, <1>5, <1>7, <2>1 DEF TypeInv
    <3>2. callback' = b \/ callback' = Nothing
      BY <1>1, <2>1
    <3> QED BY <1>4, <3>1, <3>2
  <2>2. CASE ~ ShouldInclude(k, e)
    BY <1>1, <2>2 DEF TypeInv
  <2> QED BY <2>1, <2>2
<1>10. TypeInv'
  BY <1>1, <1>8, <1>9, SameDisposal DEF TypeInv, Posted, Beacons, Nothing
<1>11. PacketSound'
  BY <1>1, SamePackets
<1>12. ListsSorted'
  <2>1. CASE ShouldInclude(k, e)
    <3>1. ASSUME NEW h \in Kinds PROVE Sorted(lists'[h])
      <4>1. CASE h = k
        BY <1>1, <1>5, <1>7, <2>1, <4>1 DEF TypeInv
      <4>2. CASE h # k
        <5>1. lists'[h] = lists[h]
          BY <1>1, <2>1, <4>2 DEF TypeInv
        <5> QED BY <5>1 DEF ListsSorted
      <4> QED BY <4>1, <4>2
    <3> QED BY <3>1 DEF ListsSorted, Sorted
  <2>2. CASE ~ ShouldInclude(k, e)
    BY <1>1, <2>2, SameLists
  <2> QED BY <2>1, <2>2
<1>13. ASSUME NEW d \in Devices PROVE DeviceSound(d)'
  <2>1. CASE d = e
    <3>1. Kind[d] = k /\ b.dev = d
      BY <1>4, <2>1 DEF e
    <3>2. Listed(d)' = IF ShouldInclude(Kind[d], d) THEN {b} ELSE Listed(d)
      <4>1. CASE ShouldInclude(k, e)
        <5>1. lists'[k] = new
          BY <1>1, <1>5, <4>1 DEF TypeInv
        <5>2. Listed(d)' = {c \in ToSet(new) : c.dev = d}
          BY <3>1, <5>1 DEF Listed, ToSet
        <5>3. \A c \in ToSet(new) : c.dev = d <=> c = b
          BY <1>7, <2>1, <3>1
        <5>4. b \in ToSet(new)
          BY <1>7
        <5> QED BY <2>1, <3>1, <4>1, <5>2, <5>3, <5>4
      <4>2. CASE ~ ShouldInclude(k, e)
        BY <1>1, <2>1, <3>1, <4>2 DEF Listed, ToSet
      <4> QED BY <4>1, <4>2
    <3>3. Stopped(Kind[d])' <=> Stopped(Kind[d])
      BY <1>1 DEF Stopped, Happened
    <3> QED BY <1>1, <3>1, <3>2, <3>3, Handled DEF b
  <2>2. CASE d # e
    <3>1. Listed(d)' = Listed(d)
      <4>1. CASE ShouldInclude(k, e) /\ Kind[d] = k
        <5>1. lists'[k] = new
          BY <1>1, <1>5, <4>1 DEF TypeInv
        <5>2. Listed(d)' = {c \in ToSet(new) : c.dev = d}
          BY <4>1, <5>1 DEF Listed, ToSet
        <5>3. Listed(d) = {c \in ToSet(lists[k]) : c.dev = d}
          BY <4>1 DEF Listed
        <5>4. \A c : c.dev = d => (c \in ToSet(new) <=> c \in ToSet(lists[k]))
          <6>1. b.dev # d
            BY <2>2 DEF e
          <6> QED BY <1>7, <2>2, <6>1
        <5> QED BY <5>2, <5>3, <5>4
      <4>2. CASE ShouldInclude(k, e) /\ Kind[d] # k
        <5>1. Kind[d] \in Kinds
          BY DevicesAssumption
        <5>2. lists'[Kind[d]] = lists[Kind[d]]
          BY <1>1, <4>2, <5>1 DEF TypeInv
        <5> QED BY <5>2 DEF Listed, ToSet
      <4>3. CASE ~ ShouldInclude(k, e)
        BY <1>1, <4>3 DEF Listed, ToSet
      <4> QED BY <4>1, <4>2, <4>3
    <3>2. LeavesBe(d)
      BY <1>1, <3>1 DEF LeavesBe, Stopped, Happened, IsExpired, Beacon
    <3>3. 1 \notin Pending(d)
      BY <1>3, <2>2 DEF Pending, e, b
    <3> QED BY <1>1, <3>2, <3>3, TakenQueue
  <2> QED BY <2>1, <2>2
<1> QED BY <1>8, <1>10, <1>11, <1>12, <1>13

\* A post that is no beacon's.
LEMMA OtherPost ==
    ASSUME IInv, NEW p \in Posted, p.do \notin {"observe", "process"}, queue' = Append(queue, p),
           UNCHANGED <<now, lists, toDispose, latest>>
    PROVE  QueueSound' /\ queue' \in Seq(Posted) /\ \A d \in Devices : DeviceSound(d)'
<1> USE DEF IInv
<1>1. PostSound(p)
  BY DEF PostSound
<1>2. QueueSound' /\ queue' \in Seq(Posted)
  BY <1>1, AppendedSound
<1>3. ASSUME NEW d \in Devices PROVE DeviceSound(d)'
  BY NothingChanged, AppendedQueue
<1> QED BY <1>2, <1>3

LEMMA TellSound ==
    ASSUME IInv, Tell, Apart
    PROVE  IInv'
<1> USE DEF IInv
<1> DEFINE p == [do |-> "told", kind |-> "waiter", beacon |-> Nothing]
<1>1. /\ context' \in {"running", "ended"}
      /\ queue' = Append(queue, p) \/ queue' = queue
      /\ callback' = Nothing
      /\ UNCHANGED <<lists, waiter>>
      /\ UNCHANGED <<now, listener, packet, toDispose, latest, received>>
  BY DEF Tell, Post, Apart
<1>2. p \in Posted /\ p.do \notin {"observe", "process"}
  BY DEF Posted
<1> HIDE DEF p
<1>3. QueueSound' /\ queue' \in Seq(Posted) /\ \A d \in Devices : DeviceSound(d)'
  <2>1. CASE queue' = Append(queue, p)
    BY <1>1, <1>2, <2>1, OtherPost
  <2>2. CASE queue' = queue
    BY <1>1, <2>2, SameQueueSound, NothingChanged, SameQueue DEF TypeInv
  <2> QED BY <1>1, <2>1, <2>2
<1>4. TypeInv'
  BY <1>1, <1>3, SameDisposal DEF TypeInv, Posted, Beacons, Nothing
<1> QED BY <1>1, <1>3, <1>4, SamePackets, SameLists

LEMMA CleanCollectionsSound ==
    ASSUME IInv, CleanCollections, Apart
    PROVE  IInv'
<1> USE DEF IInv
<1>1. /\ queue # <<>> /\ Head(queue).do = "weed" /\ queue' = Tail(queue)
      /\ lists' = lists \/ lists' = [k \in Kinds |-> Clean(lists[k])]
      /\ UNCHANGED <<callback, context, waiter>>
      /\ UNCHANGED <<now, listener, packet, toDispose, latest, received>>
  BY DEF CleanCollections, Invoke, Apart
<1>3. Head(queue) = queue[1]
  BY <1>1, QueueTaken
<1>4. ASSUME NEW k \in Kinds
      PROVE  /\ lists'[k] \in Seq(Beacons) /\ Sorted(lists'[k])
             /\ ToSet(lists'[k]) \subseteq ToSet(lists[k])
             /\ \A b \in ToSet(lists[k]) : ~ IsExpired(b) => b \in ToSet(lists'[k])
  <2>1. lists[k] \in Seq(Beacons) /\ Sorted(lists[k])
    BY DEF TypeInv, ListsSorted
  <2>2. CASE lists' = lists
    BY <2>1, <2>2
  <2>3. CASE lists' = [h \in Kinds |-> Clean(lists[h])]
    <3>1. lists'[k] = Clean(lists[k])
      BY <2>3
    <3> QED BY <2>1, <3>1, Weeded
  <2> QED BY <1>1, <2>2, <2>3
<1>5. QueueSound' /\ queue' \in Seq(Posted)
  BY <1>1, TakenSound
<1>6. lists' \in [Kinds -> Seq(Beacons)]
  <2>1. lists' = [k \in Kinds |-> lists'[k]]
    BY <1>1 DEF TypeInv
  <2> QED BY <1>4, <2>1
<1>7. TypeInv'
  BY <1>1, <1>5, <1>6, SameDisposal DEF TypeInv, Posted, Beacons, Nothing
<1>8. ListsSorted'
  BY <1>4 DEF ListsSorted, Sorted
<1>9. ASSUME NEW d \in Devices PROVE DeviceSound(d)'
  <2>1. Kind[d] \in Kinds
    BY DevicesAssumption
  <2>2. /\ Listed(d)' = {b \in ToSet(lists'[Kind[d]]) : b.dev = d}
        /\ Listed(d) = {b \in ToSet(lists[Kind[d]]) : b.dev = d}
    BY DEF Listed, ToSet
  <2>3. Listed(d)' \subseteq Listed(d)
    BY <1>4, <2>1, <2>2
  <2>4. \A b \in Listed(d) : b \in Listed(d)' \/ IsExpired(b)'
    <3>1. \A b : IsExpired(b) => IsExpired(b)'
      BY <1>1 DEF IsExpired
    <3> QED BY <1>4, <2>1, <2>2, <3>1
  <2>5. LeavesBe(d)
    BY <1>1, <2>3, <2>4 DEF LeavesBe, Stopped, Happened, IsExpired, Beacon
  <2>6. 1 \notin Pending(d)
    BY <1>1, <1>3 DEF Pending
  <2> QED BY <1>1, <2>5, <2>6, TakenQueue
<1> QED BY <1>1, <1>5, <1>7, <1>8, <1>9, SamePackets

LEMMA NotifySound ==
    ASSUME IInv, Notify, Apart
    PROVE  IInv'
<1> USE DEF IInv
<1>1. /\ queue # <<>> /\ Head(queue).do \in {"told", "timed out"} /\ queue' = Tail(queue)
      /\ waiter' = waiter \/ waiter' = [waiter EXCEPT !.at = "signalled"]
      /\ UNCHANGED <<lists, callback, context>>
      /\ UNCHANGED <<now, listener, packet, toDispose, latest, received>>
  BY DEF Notify, Invoke, Apart
<1>3. Head(queue) = queue[1]
  BY <1>1, QueueTaken
<1>4. QueueSound' /\ queue' \in Seq(Posted)
  BY <1>1, TakenSound
<1>5. TypeInv'
  BY <1>1, <1>4, SameDisposal DEF TypeInv, Posted, Beacons, Nothing
<1>6. ASSUME NEW d \in Devices PROVE DeviceSound(d)'
  <2>1. 1 \notin Pending(d)
    BY <1>1, <1>3 DEF Pending
  <2> QED BY <1>1, <2>1, NothingChanged, TakenQueue
<1> QED BY <1>1, <1>4, <1>5, <1>6, SamePackets, SameLists

LEMMA TickSound ==
    ASSUME IInv, Tick
    PROVE  IInv'
<1> USE DEF IInv
<1>1. /\ now < MaxTime /\ now' = now + 1
      /\ UNCHANGED <<listener, packet, queue, callback, context, lists, toDispose, waiter,
                     latest, received>>
  BY DEF Tick
<1>2. now \in Nat /\ MaxTime \in Nat /\ Expiration \in Nat
  BY BeaconBounds DEF TypeInv
<1>3. TypeInv'
  <2>1. now' \in 0 .. MaxTime
    BY <1>1, <1>2
  <2> QED BY <1>1, <2>1, SameDisposal DEF TypeInv, Posted, Beacons, Nothing
<1>4. PacketSound'
  <2>1. \A k \in Kinds : listener[k] = "publishing" => packet[k].time <= now'
    <3> SUFFICES ASSUME NEW k \in Kinds, listener[k] = "publishing" PROVE packet[k].time <= now'
      OBVIOUS
    <3>1. packet[k].time <= now /\ packet[k].time \in Nat
      BY BeaconTyped DEF PacketSound
    <3> QED BY <1>1, <1>2, <3>1
  <2>2. \A d \in Devices : latest[d] <= now'
    <3> TAKE d \in Devices
    <3>1. latest[d] <= now /\ latest[d] \in Int
      BY <1>2 DEF PacketSound, TypeInv
    <3> QED BY <1>1, <1>2, <3>1
  <2> QED BY <1>1, <2>1, <2>2 DEF PacketSound, Beacons
<1>5. ASSUME NEW d \in Devices PROVE DeviceSound(d)'
  <2>1. Listed(d)' = Listed(d)
    BY <1>1 DEF Listed, ToSet
  <2>2. IsExpired(Beacon(d, latest[d])) => IsExpired(Beacon(d, latest[d]))'
    <3>1. latest[d] \in Int
      BY <1>2 DEF TypeInv
    <3> QED BY <1>1, <1>2, <3>1 DEF IsExpired, Beacon
  <2>3. LeavesBe(d)
    BY <1>1, <2>1, <2>2 DEF LeavesBe, Stopped, Happened
  <2> QED BY <1>1, <2>3, SameQueue
<1> QED BY <1>1, <1>3, <1>4, <1>5, SameQueueSound, SameLists

LEMMA WeederFiresSound ==
    ASSUME IInv, WeederFires
    PROVE  IInv'
<1> USE DEF IInv
<1> DEFINE p == [do |-> "weed", kind |-> "weeder", beacon |-> Nothing]
<1>1. /\ queue' = Append(queue, p)
      /\ UNCHANGED <<now, listener, packet, callback, context, lists, toDispose, waiter,
                     latest, received>>
  BY DEF WeederFires, Post
<1>2. p \in Posted /\ p.do \notin {"observe", "process"}
  BY DEF Posted
<1> HIDE DEF p
<1>3. QueueSound' /\ queue' \in Seq(Posted) /\ \A d \in Devices : DeviceSound(d)'
  BY <1>1, <1>2, OtherPost
<1>4. TypeInv'
  BY <1>1, <1>3, SameDisposal DEF TypeInv, Posted, Beacons, Nothing
<1> QED BY <1>1, <1>3, <1>4, SamePackets, SameLists

\* A step that only the waiter sees.
LEMMA WaiterSound ==
    ASSUME IInv, queue' = queue,
           waiter' \in [at : {"idle", "waiting", "signalled", "returned"},
                        for : Devices \cup {-1}, subscribed : BOOLEAN],
           UNCHANGED <<now, listener, packet, callback, context, lists, toDispose, latest, received>>
    PROVE  IInv'
<1> USE DEF IInv
<1>1. TypeInv'
  BY SameDisposal DEF TypeInv, Posted, Beacons, Nothing
<1>2. ASSUME NEW d \in Devices PROVE DeviceSound(d)'
  BY NothingChanged, SameQueue
<1> QED BY <1>1, <1>2, SameQueueSound, SamePackets, SameLists

LEMMA BeginWaitSound ==
    ASSUME IInv, NEW d \in Awaited, Wait(BeginWait(d))
    PROVE  IInv'
<1>1. d \in Devices /\ Happened("complete") \in BOOLEAN
  BY DevicesAssumption DEF Happened
<1>2. waiter' \in [at : {"idle", "waiting", "signalled", "returned"},
                   for : Devices \cup {-1}, subscribed : BOOLEAN]
  <2>1. waiter' = [at |-> "waiting", for |-> d, subscribed |-> ~ Happened("complete")]
    BY DEF Wait, BeginWait, Waiter
  <2> HIDE DEF Happened
  <2> QED BY <1>1, <2>1
<1> QED BY <1>2, WaiterSound DEF Wait, BeginWait

LEMMA ReturnSound ==
    ASSUME IInv, Wait(Return)
    PROVE  IInv'
BY WaiterSound DEF Wait, Return, Waiter

LEMMA WaitTimesOutSound ==
    ASSUME IInv, Wait(WaitTimesOut)
    PROVE  IInv'
<1> USE DEF IInv
<1> DEFINE p == [do |-> "timed out", kind |-> "waiter", beacon |-> Nothing]
<1>1. /\ queue' = Append(queue, p)
      /\ waiter' = [waiter EXCEPT !.subscribed = FALSE]
      /\ UNCHANGED <<now, listener, packet, callback, context, lists, toDispose, latest, received>>
  BY DEF Wait, WaitTimesOut, Post
<1>2. p \in Posted /\ p.do \notin {"observe", "process"}
  BY DEF Posted
<1> HIDE DEF p
<1>3. QueueSound' /\ queue' \in Seq(Posted) /\ \A d \in Devices : DeviceSound(d)'
  BY <1>1, <1>2, OtherPost
<1>4. TypeInv'
  BY <1>1, <1>3, SameDisposal DEF TypeInv, Posted, Beacons, Nothing
<1> QED BY <1>1, <1>3, <1>4, SamePackets, SameLists

\* What has happened stays so: Dispose goes through its steps once.
LEMMA DisposalGoesOn ==
    ASSUME DisposalTyped, toDispose # <<>>, toDispose' = Tail(toDispose)
    PROVE  DisposalTyped' /\ \A step : Happened(step) => Happened(step)'
<1> DEFINE n == Len(DisposeSteps)
<1>1. PICK i \in 1 .. n + 1 : toDispose = SubSeq(DisposeSteps, i, n)
  BY DEF DisposalTyped
<1>2. PICK S : DisposeSteps \in Seq(S)
  BY DisposeStepsTyped
<1>3. n \in Nat
  BY <1>2
<1>4. i # n + 1
  <2> SUFFICES ASSUME i = n + 1 PROVE FALSE
    OBVIOUS
  <2>1. SubSeq(DisposeSteps, i, n) = <<>>
    BY <1>3, SubSeqEmpty
  <2> QED BY <1>1, <2>1
<1>5. i \in 1 .. n /\ n \in i .. n /\ i + 1 \in 1 .. n + 1
  BY <1>3, <1>4
<1>6. toDispose' = SubSeq(DisposeSteps, i + 1, n)
  <2>1. Tail(SubSeq(DisposeSteps, i, n)) = SubSeq(DisposeSteps, i + 1, n)
    BY <1>2, <1>5, HeadTailOfSubSeq
  <2> QED BY <1>1, <2>1
<1>7. DisposalTyped'
  <2>1. \E j \in 1 .. Len(DisposeSteps) + 1 : toDispose' = SubSeq(DisposeSteps, j, Len(DisposeSteps))
    BY <1>5, <1>6
  <2> QED BY <2>1 DEF DisposalTyped, DisposeSteps
<1>8. toDispose \in Seq(S)
  <2>1. \A j \in i .. n : DisposeSteps[j] \in S
    BY <1>2, <1>5
  <2>2. i \in Int /\ n \in Int
    BY <1>3
  <2> QED BY <1>1, <2>1, <2>2, SubSeqProperties
<1>9. \A j \in DOMAIN toDispose' : j + 1 \in DOMAIN toDispose /\ toDispose'[j] = toDispose[j + 1]
  <2>1. /\ Tail(toDispose) \in Seq(S) /\ Len(Tail(toDispose)) = Len(toDispose) - 1
        /\ \A j \in 1 .. Len(Tail(toDispose)) : Tail(toDispose)[j] = toDispose[j + 1]
    BY <1>8, HeadTailProperties
  <2>2. Len(toDispose) \in Nat /\ DOMAIN toDispose = 1 .. Len(toDispose)
    BY <1>8
  <2>3. DOMAIN Tail(toDispose) = 1 .. Len(toDispose) - 1
    BY <2>1
  <2>4. \A j \in 1 .. Len(toDispose) - 1 : j + 1 \in 1 .. Len(toDispose)
    BY <2>2
  <2> QED BY <2>1, <2>2, <2>3, <2>4
<1> QED BY <1>7, <1>9 DEF Happened

LEMMA DisposeStepSound ==
    ASSUME IInv, DisposeStep
    PROVE  IInv'
<1> USE DEF IInv
<1>1. /\ toDispose # <<>> /\ toDispose' = Tail(toDispose)
      /\ waiter' = waiter \/ waiter' = [waiter EXCEPT !.subscribed = FALSE]
      /\ UNCHANGED <<now, listener, packet, queue, callback, context, lists, latest, received>>
  BY DEF DisposeStep
<1>2. DisposalTyped' /\ \A step : Happened(step) => Happened(step)'
  BY <1>1, DisposalGoesOn DEF TypeInv
<1>3. TypeInv'
  BY <1>1, <1>2 DEF TypeInv, Posted, Beacons, Nothing
<1>4. ASSUME NEW d \in Devices PROVE DeviceSound(d)'
  <2>1. Listed(d)' = Listed(d)
    BY <1>1 DEF Listed, ToSet
  <2>2. Stopped(Kind[d]) => Stopped(Kind[d])'
    BY <1>2 DEF Stopped
  <2>3. LeavesBe(d)
    BY <1>1, <2>1, <2>2 DEF LeavesBe, IsExpired, Beacon
  <2> QED BY <1>1, <2>3, SameQueue
<1> QED BY <1>1, <1>3, <1>4, SameQueueSound, SamePackets, SameLists

-----------------------------------------------------------------------------

LEMMA StepSound == IInv /\ [Next]_vars => IInv'
<1> SUFFICES ASSUME IInv, [Next]_vars PROVE IInv'
  OBVIOUS
<1>1. ASSUME NEW d \in Devices, Receive(d) PROVE IInv'
  BY <1>1, ReceiveSound
<1>2. CASE ListenerStep
  BY <1>2, PublishAndListenSound, ReceiveFailsSound DEF ListenerStep
<1>3. CASE ContextStep
  BY <1>3, ObserveSound, ProcessSound, TellSound, CleanCollectionsSound, NotifySound
     DEF ContextStep, Apart
<1>4. CASE Tick
  BY <1>4, TickSound
<1>5. CASE WeederFires
  BY <1>5, WeederFiresSound
<1>6. ASSUME NEW d \in Awaited, Wait(BeginWait(d)) PROVE IInv'
  BY <1>6, BeginWaitSound
<1>7. CASE Wait(WaitTimesOut)
  BY <1>7, WaitTimesOutSound
<1>8. CASE Wait(Return)
  BY <1>8, ReturnSound
<1>9. CASE DisposeStep
  BY <1>9, DisposeStepSound
<1>10. CASE UNCHANGED vars
  BY <1>10, WaiterSound DEF vars, IInv, TypeInv
<1> QED BY <1>1, <1>2, <1>3, <1>4, <1>5, <1>6, <1>7, <1>8, <1>9, <1>10 DEF Next

LEMMA AlwaysSound == Spec => []IInv
BY InitSound, StepSound, PTL DEF Spec

LEMMA SoundListsFollow == IInv => ListsFollowBeacons
<1> SUFFICES ASSUME IInv PROVE ListsFollowBeacons
  OBVIOUS
<1> USE DEF IInv
<1>1. TypeOK
  <2>1. \A i \in DOMAIN queue : queue[i] \in Posted
    BY DEF TypeInv
  <2>2. \A i \in DOMAIN queue :
            /\ queue[i].do \in {"observe", "process", "weed", "told", "timed out"}
            /\ queue[i].beacon \in Beacons \cup {Nothing}
    BY <2>1 DEF Posted
  <2>3. \A k \in Kinds : \A i \in DOMAIN lists[k] : lists[k][i] \in Beacons
    <3> TAKE k \in Kinds
    <3>1. lists[k] \in Seq(Beacons)
      BY DEF TypeInv
    <3> QED BY <3>1
  <2> QED BY <2>2, <2>3 DEF TypeOK, TypeInv, DisposalTyped
<1>2. \A k \in Kinds : \A i \in 2..Len(lists[k]) : lists[k][i-1].dev < lists[k][i].dev
  <2> SUFFICES ASSUME NEW k \in Kinds, NEW i \in 2 .. Len(lists[k])
               PROVE  lists[k][i-1].dev < lists[k][i].dev
    OBVIOUS
  <2>1. lists[k] \in Seq(Beacons)
    BY DEF TypeInv
  <2>2. i - 1 \in DOMAIN lists[k] /\ i \in DOMAIN lists[k] /\ i - 1 < i
    BY <2>1
  <2> QED BY <2>2 DEF ListsSorted, Sorted
<1>3. ASSUME NEW d \in Devices
      PROVE  /\ \A i, j \in Pending(d) :
                    HandledBefore(i, j) => queue[i].beacon.time <= queue[j].beacon.time
             /\ \A b \in Listed(d) : /\ ShouldInclude(Kind[d], d)
                                     /\ \A i \in Pending(d) : b.time <= queue[i].beacon.time
             /\ Pending(d) = {} /\ ShouldInclude(Kind[d], d) /\ latest[d] >= 0 /\ ~ Stopped(Kind[d])
                  => \/ Listed(d) = {Beacon(d, latest[d])}
                     \/ Listed(d) = {} /\ IsExpired(Beacon(d, latest[d]))
  BY DEF DeviceSound, PendingSound, ListedSound, CatchesUp
<1> QED BY <1>1, <1>2, <1>3 DEF ListsFollowBeacons

\* Whatever the order in which receives, callbacks and the weeder run, for any
\* devices, filter and bounds: a list holds each device once, by serial number,
\* its beacons grow newer, and when nothing of a device is on its way the list says
\* what was last heard of it, unless that has expired (BeaconListener.fs,
\* addOrUpdateBeacon and cleanCollection; the packets of explorers are posted twice).
THEOREM ListsAlwaysFollowBeacons == Spec => []ListsFollowBeacons
BY AlwaysSound, SoundListsFollow, PTL
====
