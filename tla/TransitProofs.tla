----------------------------- MODULE TransitProofs -----------------------------
(***************************************************************************)
(* Proofs about TransitTracker, LatencySeries and NetworkDelay.  As long   *)
(* as the sender's clock is less than half its range away from the first   *)
(* stamp, the delay that is reported is the frame's real one, for every    *)
(* window, every compaction limit and however the two clocks run; and the  *)
(* numbers reported of the recorded delays are those of the samples, for   *)
(* every size of the ring and every three percentages in ascending order.  *)
(***************************************************************************)
EXTENDS NetworkDelay, DataLemmas

\* The range of stamps in which their differences are unique.
NearEpoch == MaxSent < Half

-----------------------------------------------------------------------------
(* The inductive invariant. *)

Alive == head + 1 .. Len(mins)

Typed ==
  /\ epoch \subseteq 0 .. ClockRange - 1 /\ \A s, t \in epoch : s = t
  /\ mins \in Seq(Entry) /\ head \in 0 .. Len(mins)
  /\ now \in Nat /\ sent \in -MaxSent .. MaxSent /\ seen \subseteq Entry /\ delay \in Int

\* Nothing has happened before the first frame.
Untouched == epoch = {} => mins = <<>> /\ head = 0 /\ now = 0 /\ sent = 0 /\ seen = {}

\* The queue ends in the last frame.
EndsInLast ==
  epoch # {} => head < Len(mins) /\ mins[Len(mins)] = [at |-> now, transit |-> Transit(now, sent)]

\* From front to back the living entries get younger and slower.
Sorted == \A i, j \in Alive : i < j => mins[i].transit < mins[j].transit

\* The dead are few, or less than half of the queue.
FewDead == head < CompactAt \/ 2 * head < Len(mins)

\* The living are frames that were seen.
FromSeen == \A i \in Alive : mins[i] \in seen /\ mins[i].at <= now

\* Every frame of the window has a living entry that is as young and as fast.
Covered ==
  \A f \in Recent : \E i \in Alive : mins[i].at >= f.at /\ mins[i].transit <= f.transit

\* The front is in the window, and the delay was measured against it.
FloorIsFront ==
  epoch # {} => now - mins[head + 1].at <= WindowLen
                /\ delay = Transit(now, sent) - mins[head + 1].transit

TransitInv ==
  /\ Typed /\ Untouched /\ EndsInLast /\ FewDead /\ Sorted /\ FromSeen /\ Covered /\ FloorIsFront
  /\ \A f \in seen : f.at <= now

-----------------------------------------------------------------------------
(* The clock. *)

LEMMA ModSmall ==
  ASSUME NEW R \in Nat \ {0}, NEW x \in 0 .. R - 1 PROVE x % R = x
OBVIOUS

LEMMA ModAbove ==
  ASSUME NEW R \in Nat \ {0}, NEW x \in R .. 2 * R - 1 PROVE x % R = x - R
OBVIOUS

LEMMA ModBelow ==
  ASSUME NEW R \in Nat \ {0}, NEW x \in -R .. -1 PROVE x % R = x + R
OBVIOUS

\* The difference of two stamps is the difference of the clocks they were taken from.
LEMMA DeltaIsSent ==
  ASSUME NearEpoch, NEW e \in 0 .. ClockRange - 1, NEW s \in -MaxSent .. MaxSent
  PROVE  Delta(e, (e + s) % ClockRange) = Micros(s)
<1> DEFINE R == ClockRange
           y == e + s
           x == y % R
<1>1. R \in Nat \ {0} /\ MaxSent \in Nat /\ Half \in Nat /\ 2 * Half = R /\ MaxSent < Half
  BY ClockAssumption, SizesAssumption DEF NearEpoch, Half
<1> HIDE DEF R
<1>2. e \in 0 .. R - 1
  BY DEF R
<1>3. x = e + s \/ x = e + s - R \/ x = e + s + R
  <2>1. y \in 0 .. R - 1 \/ y \in R .. 2 * R - 1 \/ y \in -R .. -1
    BY <1>1, <1>2
  <2>2. x = y \/ x = y - R \/ x = y + R
    <3> HIDE DEF y
    <3> QED BY <1>1, <2>1, ModSmall, ModAbove, ModBelow
  <2> QED
    <3> HIDE DEF x
    <3> QED BY <1>1, <1>2, <2>2
<1>4. x \in 0 .. R - 1
  BY <1>1, <1>2
<1> HIDE DEF x, y
<1>5. (x - e) % R = IF s >= 0 THEN s ELSE s + R
  <2>1. x - e \in -R .. R - 1 /\ (x - e = s \/ x - e = s - R \/ x - e = s + R)
    BY <1>1, <1>2, <1>3, <1>4
  <2> DEFINE d == x - e
  <2> HIDE DEF d
  <2>2. d \in 0 .. R - 1 => d % R = d
    BY <1>1, ModSmall
  <2>3. d \in -R .. -1 => d % R = d + R
    BY <1>1, ModBelow
  <2>4. d \in -R .. R - 1 /\ (d = s \/ d = s - R \/ d = s + R)
    BY <2>1 DEF d
  <2>5. d % R = IF s >= 0 THEN s ELSE s + R
    BY <1>1, <2>2, <2>3, <2>4
  <2> QED BY <2>5 DEF d
<1>6. (x - e) % R < Half <=> s >= 0
  BY <1>1, <1>5
<1> QED BY <1>1, <1>5, <1>6 DEF Delta, R, x, y

\* What a transit is.
LEMMA TransitIs ==
  /\ \A at \in Nat, s \in Int : Transit(at, s) \in Int
  /\ Transit(0, 0) = 0
<1>1. ASSUME NEW n \in Nat, NEW d \in Nat \ {0} PROVE n \div d \in Int /\ 0 \div d = 0
  OBVIOUS
<1>2. ASSUME NEW s \in Int PROVE Micros(s) \in Int
  <2>1. CASE s >= 0
    <3>1. s * Micro \in Nat
      BY <2>1, UnitsAssumption
    <3> QED BY <1>1, <2>1, <3>1, UnitsAssumption DEF Micros
  <2>2. CASE s < 0
    <3>1. -s * Micro \in Nat
      BY <2>2, UnitsAssumption
    <3> QED BY <1>1, <2>2, <3>1, UnitsAssumption DEF Micros
  <2> QED BY <2>1, <2>2
<1>3. Micros(0) = 0
  BY <1>1, UnitsAssumption DEF Micros
<1> QED BY <1>1, <1>2, <1>3, UnitsAssumption DEF Transit

-----------------------------------------------------------------------------
(* The queue. *)

\* What an entry of the queue is.
LEMMA EntryIs ==
  ASSUME mins \in Seq(Entry), NEW i \in 1 .. Len(mins)
  PROVE  mins[i] \in Entry /\ mins[i].at \in Nat /\ mins[i].transit \in Int
<1>1. mins[i] \in Entry
  OBVIOUS
<1> DEFINE e == mins[i]
<1>2. e \in Entry => e.at \in Nat /\ e.transit \in Int
  <2> HIDE DEF e
  <2> QED BY DEF Entry
<1> QED BY <1>1, <1>2

\* Evicted counts off the front what is too old, and no more.
LEMMA EvictedIs ==
  ASSUME mins \in Seq(Entry), head \in 0 .. Len(mins), NEW at \in Nat
  PROVE  /\ Evicted(at) \in head .. Len(mins)
         /\ \A i \in head + 1 .. Evicted(at) : at - mins[i].at > WindowLen
         /\ Evicted(at) = Len(mins) \/ at - mins[Evicted(at) + 1].at <= WindowLen
<1> DEFINE T == {h \in head .. Len(mins) : h = Len(mins) \/ at - mins[h + 1].at <= WindowLen}
           least == Evicted(at)
<1>1. T \in SUBSET Int /\ T # {} /\ \A t \in T : head <= t
  <2>1. Len(mins) \in T
    OBVIOUS
  <2> QED BY <2>1
<1>2. least \in T /\ \A t \in T : least <= t
  <2>1. least = Min(T)
    BY DEF Evicted
  <2> HIDE DEF T, least
  <2> QED BY <1>1, <2>1, MinIs
<1>3. ASSUME NEW i \in head + 1 .. least PROVE at - mins[i].at > WindowLen
  <2>1. i - 1 \in head .. Len(mins) /\ i - 1 \notin T
    <3> HIDE DEF least
    <3> QED BY <1>2
  <2>2. ~ (at - mins[(i - 1) + 1].at <= WindowLen)
    BY <2>1
  <2>3. (i - 1) + 1 = i /\ i \in 1 .. Len(mins) /\ mins[i].at \in Nat
    <3> HIDE DEF least
    <3>1. i \in 1 .. Len(mins) /\ i \in Int
      BY <1>2
    <3> QED BY <3>1, EntryIs
  <2> QED BY <2>2, <2>3, SizesAssumption
<1> QED
  <2> HIDE DEF least
  <2>1. least \in head .. Len(mins) /\ (least = Len(mins) \/ at - mins[least + 1].at <= WindowLen)
    BY <1>2
  <2> QED BY <2>1, <1>3 DEF least

\* Undercut takes off the back what is no less than the new transit, down to h.
LEMMA UndercutIs ==
  ASSUME mins \in Seq(Entry), NEW h \in 0 .. Len(mins), NEW transit \in Int
  PROVE  /\ Undercut(h, transit) \in h .. Len(mins)
         /\ Undercut(h, transit) = h \/ mins[Undercut(h, transit)].transit < transit
         /\ \A i \in Undercut(h, transit) + 1 .. Len(mins) : mins[i].transit >= transit
<1> DEFINE T == {n \in h .. Len(mins) : n = h \/ mins[n].transit < transit}
           most == Undercut(h, transit)
<1>1. T \in SUBSET Int /\ T # {} /\ \A t \in T : t <= Len(mins)
  <2>1. h \in T
    OBVIOUS
  <2> QED BY <2>1
<1>2. most \in T /\ \A t \in T : t <= most
  <2>1. most = Max(T) /\ Len(mins) \in Int
    BY DEF Undercut
  <2> HIDE DEF T, most
  <2> QED BY <1>1, <2>1, MaxIs
<1>3. ASSUME NEW i \in most + 1 .. Len(mins) PROVE mins[i].transit >= transit
  <2>1. i \in 1 .. Len(mins) /\ i \in h .. Len(mins) /\ i # h /\ i \notin T
    <3> HIDE DEF most
    <3> QED BY <1>2
  <2>2. mins[i].transit \in Int
    BY <2>1, EntryIs
  <2> QED BY <2>1, <2>2
<1> QED
  <2> HIDE DEF most
  <2>1. most \in h .. Len(mins) /\ (most = h \/ mins[most].transit < transit)
    BY <1>2
  <2> QED BY <2>1, <1>3 DEF most

\* Of the queue are left the entries k+1 to n, and h-k of these are dead: few, or less
\* than half.
Shifted(h, n, k) ==
  /\ Compacted(h, n).head = h - k
  /\ Compacted(h, n).mins \in Seq(Entry)
  /\ Len(Compacted(h, n).mins) = n - k
  /\ \A i \in 1 .. n - k : Compacted(h, n).mins[i] = mins[i + k]
  /\ h - k < CompactAt \/ 2 * (h - k) < n - k

\* What is left of the queue, and where, whether the dead are dropped or not.
LEMMA CompactedIs ==
  ASSUME mins \in Seq(Entry), NEW n \in 0 .. Len(mins), NEW h \in 0 .. n
  PROVE  \E k \in 0 .. h : Shifted(h, n, k)
<1>1. ASSUME NEW k \in 0 .. h
      PROVE  /\ SubSeq(mins, k + 1, n) \in Seq(Entry)
             /\ Len(SubSeq(mins, k + 1, n)) = n - k
             /\ \A i \in 1 .. n - k : SubSeq(mins, k + 1, n)[i] = mins[i + k]
  <2>1. \A i \in k + 1 .. n : mins[i] \in Entry
    OBVIOUS
  <2> QED BY <2>1, SubSeqProperties
<1>2. CASE h >= CompactAt /\ 2 * h >= n
  <2>1. /\ Compacted(h, n).head = h - h
        /\ Compacted(h, n).mins = SubSeq(mins, h + 1, n)
    <3>1. Compacted(h, n) = [mins |-> SubSeq(mins, h + 1, n), head |-> 0]
      BY <1>2 DEF Compacted
    <3> QED BY <3>1
  <2>2. h \in 0 .. h /\ h - h < CompactAt
    BY SizesAssumption
  <2> HIDE DEF Compacted
  <2> QED BY <1>1, <2>1, <2>2 DEF Shifted
<1>3. CASE ~ (h >= CompactAt /\ 2 * h >= n)
  <2>1. Compacted(h, n) = [mins |-> SubSeq(mins, 1, n), head |-> h]
    BY <1>3 DEF Compacted
  <2>2. 0 \in 0 .. h /\ h - 0 = h /\ 0 + 1 = 1 /\ (h < CompactAt \/ 2 * (h - 0) < n - 0)
    BY <1>3, SizesAssumption
  <2> QED BY <1>1, <2>1, <2>2 DEF Shifted
<1> QED BY <1>2, <1>3

\* A sequence with an element more.
LEMMA AppendIs ==
  ASSUME NEW S, NEW seq \in Seq(S), NEW elt \in S, NEW longer, longer = Append(seq, elt)
  PROVE  /\ longer \in Seq(S) /\ Len(longer) = Len(seq) + 1
         /\ \A i \in 1 .. Len(seq) : longer[i] = seq[i]
         /\ longer[Len(seq) + 1] = elt
<1>1. Append(seq, elt) \in Seq(S)
  BY AppendProperties
<1>2. Len(Append(seq, elt)) = Len(seq) + 1
  BY AppendProperties
<1>3. \A i \in 1 .. Len(seq) : Append(seq, elt)[i] = seq[i]
  BY AppendProperties
<1>4. Append(seq, elt)[Len(seq) + 1] = elt
  BY AppendProperties
<1> QED BY <1>1, <1>2, <1>3, <1>4, Zenon

\* A queue made of the entries k+1 to n and a new one, and how many of it are dead.
Moved(queue, dead, new, h, n, k) ==
  /\ dead = h - k
  /\ queue \in Seq(Entry)
  /\ Len(queue) = n - k + 1
  /\ queue[n - k + 1] = new
  /\ \A i \in 1 .. n - k : queue[i] = mins[i + k]
  /\ dead < CompactAt \/ 2 * dead < Len(queue)

\* What a frame's arrival makes of the queue: k entries fewer in front, those behind the
\* n-th gone, the frame's own at the end.
LEMMA QueueIs ==
  ASSUME mins \in Seq(Entry), head \in 0 .. Len(mins), NEW at \in Nat, NEW transit \in Int,
         NEW h, h = Evicted(at), NEW n, n = Undercut(h, transit),
         NEW new, new = [at |-> at, transit |-> transit],
         NEW queue, queue = Append(Compacted(h, n).mins, new)
  PROVE  /\ h \in head .. Len(mins) /\ n \in h .. Len(mins)
         /\ \E k \in 0 .. h : Moved(queue, Compacted(h, n).head, new, h, n, k)
<1>1. h \in head .. Len(mins)
  BY EvictedIs
<1>2. h \in 0 .. Len(mins)
  BY <1>1
<1>3. n \in h .. Len(mins)
  BY <1>2, UndercutIs
<1>4. n \in 0 .. Len(mins) /\ h \in 0 .. n
  BY <1>2, <1>3
<1>5. PICK k \in 0 .. h : Shifted(h, n, k)
  BY <1>4, CompactedIs
<1>6. new \in Entry
  BY DEF Entry
<1> DEFINE left == Compacted(h, n).mins
<1> HIDE DEF left
<1>7. left \in Seq(Entry) /\ Len(left) = n - k
  BY <1>5 DEF left, Shifted
<1>8. queue = Append(left, new)
  BY DEF left
<1>9. /\ queue \in Seq(Entry) /\ Len(queue) = Len(left) + 1
      /\ \A i \in 1 .. Len(left) : queue[i] = left[i]
      /\ queue[Len(left) + 1] = new
  <2>1. queue \in Seq(Entry)
    BY <1>6, <1>7, <1>8, AppendIs
  <2>2. Len(queue) = Len(left) + 1
    BY <1>6, <1>7, <1>8, AppendIs
  <2>3. ASSUME NEW i \in 1 .. Len(left) PROVE queue[i] = left[i]
    <3>1. Append(left, new)[i] = left[i]
      BY <1>6, <1>7, AppendProperties
    <3> QED BY <1>8, <3>1, Zenon
  <2>4. queue[Len(left) + 1] = new
    BY <1>6, <1>7, <1>8, AppendIs
  <2> QED BY <2>1, <2>2, <2>3, <2>4
<1>10. \A i \in 1 .. n - k : queue[i] = mins[i + k]
  BY <1>5, <1>7, <1>9 DEF left, Shifted
<1>11. h - k < CompactAt \/ 2 * (h - k) < n - k + 1
  BY <1>4, <1>5, SizesAssumption, SMTT(30) DEF Shifted
<1> QED BY <1>1, <1>3, <1>5, <1>7, <1>9, <1>10, <1>11 DEF Shifted, Moved

-----------------------------------------------------------------------------
(* A frame's step. *)

\* The transit observe() finds.
Found(stamp, at) ==
  at \div Nano - Delta(CHOOSE s \in IF epoch = {} THEN {stamp} ELSE epoch : TRUE, stamp)

\* observe() moves the queue so.
LEMMA ObserveMoves ==
  ASSUME mins \in Seq(Entry), head \in 0 .. Len(mins), NEW stamp, NEW at \in Nat,
         NEW transit \in Int,
         transit = Found(stamp, at),
         Observe(stamp, at), NEW new, new = [at |-> at, transit |-> transit]
  PROVE  /\ \E h \in head .. Len(mins) : \E n \in h .. Len(mins) : \E k \in 0 .. h :
              /\ h = Evicted(at) /\ n = Undercut(h, transit)
              /\ Moved(mins', head', new, h, n, k)
         /\ delay' = transit - mins'[head' + 1].transit
<1> DEFINE h == Evicted(at)
           n == Undercut(h, transit)
<1>1. /\ mins' = Append(Compacted(h, n).mins, new) /\ head' = Compacted(h, n).head
      /\ delay' = transit - mins'[head' + 1].transit
  BY DEF Observe, Found
<1>2. h = Evicted(at) /\ n = Undercut(h, transit)
  OBVIOUS
<1> HIDE DEF h, n
<1>3. /\ h \in head .. Len(mins) /\ n \in h .. Len(mins)
      /\ \E k \in 0 .. h : Moved(mins', head', new, h, n, k)
  <2>1. /\ h \in head .. Len(mins) /\ n \in h .. Len(mins)
        /\ \E k \in 0 .. h :
             Moved(Append(Compacted(h, n).mins, new), Compacted(h, n).head, new, h, n, k)
    BY ONLY <1>2, QueueIs, mins \in Seq(Entry), head \in 0 .. Len(mins), at \in Nat,
            transit \in Int, new = [at |-> at, transit |-> transit], Zenon
  <2> QED BY <1>1, <2>1
<1> QED BY <1>1, <1>2, <1>3

\* A frame that arrives no earlier than the last one keeps the invariant.
LEMMA ArrivalKeeps ==
  ASSUME TransitInv, NEW new \in Entry, new.at = now', new.transit = Transit(now', sent'),
         new = [at |-> now', transit |-> Transit(now', sent')],
         now' \in Nat, now' >= now, sent' \in -MaxSent .. MaxSent,
         epoch' \subseteq 0 .. ClockRange - 1, \A s, t \in epoch' : s = t, epoch' # {},
         seen' = seen \cup {new},
         NEW h \in head .. Len(mins), NEW n \in h .. Len(mins), NEW k \in 0 .. h,
         h = Evicted(now'), n = Undercut(h, new.transit),
         Moved(mins', head', new, h, n, k),
         delay' = new.transit - mins'[head' + 1].transit
  PROVE  TransitInv'
<1> DEFINE last == n - k + 1
<1>1. /\ mins \in Seq(Entry) /\ head \in 0 .. Len(mins) /\ Len(mins) \in Nat
      /\ now \in Nat /\ seen \subseteq Entry
  BY SMTT(30) DEF TransitInv, Typed
<1>2. /\ mins' \in Seq(Entry) /\ Len(mins') = last
      /\ mins'[last] = new /\ \A i \in 1 .. n - k : mins'[i] = mins[i + k]
      /\ head' < CompactAt \/ 2 * head' < last
      /\ head' = h - k
  BY DEF Moved
<1>3. \A i \in 1 .. Len(mins) : mins[i].at \in Nat /\ mins[i].transit \in Int
  BY <1>1, EntryIs
<1>4. /\ \A i \in head + 1 .. h : now' - mins[i].at > WindowLen
      /\ h = Len(mins) \/ now' - mins[h + 1].at <= WindowLen
  BY ONLY <1>1, EvictedIs, h = Evicted(now'), now' \in Nat, Zenon
<1>n. /\ head \in Nat /\ Len(mins) \in Nat /\ h \in Nat /\ n \in Nat /\ k \in Nat
      /\ last \in Nat /\ head' \in Nat /\ last = n - k + 1 /\ head' = h - k
      /\ head <= h /\ h <= n /\ n <= Len(mins) /\ k <= h /\ head' < last
  <2>1. h \in head .. Len(mins) /\ n \in h .. Len(mins) /\ k \in 0 .. h
    OBVIOUS
  <2> QED BY ONLY <1>1, <1>2, <2>1
<1>t. /\ now \in Nat /\ now' \in Nat /\ now <= now' /\ WindowLen \in Nat
      /\ new.at = now' /\ new.transit = Transit(now', sent')
      /\ Transit(now', sent') \in Int /\ new.at \in Nat /\ new.transit \in Int
  <2>1. sent' \in -MaxSent .. MaxSent /\ MaxSent \in Nat /\ WindowLen \in Nat
    BY SizesAssumption
  <2>2. new.at = now' /\ new.transit = Transit(now', sent') /\ now' \in Nat /\ now' >= now
    OBVIOUS
  <2>3. sent' \in Int
    BY <2>1
  <2>4. Transit(now', sent') \in Int
    BY <2>2, <2>3, TransitIs, Zenon
  <2> QED BY ONLY <1>1, <2>1, <2>2, <2>4
<1> HIDE DEF last
<1>5. /\ n = h \/ mins[n].transit < new.transit
      /\ \A i \in n + 1 .. Len(mins) : mins[i].transit >= new.transit
  <2>1. h \in 0 .. Len(mins)
    BY ONLY <1>n
  <2> QED BY ONLY <1>1, <1>t, <2>1, UndercutIs, n = Undercut(h, new.transit), Zenon
<1>6. \A i \in head' + 1 .. last :
        \/ i = last /\ mins'[i] = new
        \/ i \in 1 .. n - k /\ mins'[i] = mins[i + k] /\ i + k \in h + 1 .. n
  BY ONLY <1>n, <1>2, SMTT(30)
<1>7. \A i \in head + 1 .. Len(mins) : \A j \in head + 1 .. Len(mins) :
        i < j => mins[i].transit < mins[j].transit
  BY DEF TransitInv, Sorted, Alive
<1>8. Typed'
  <2>1. head' \in 0 .. Len(mins')
    BY ONLY <1>n, <1>2
  <2>2. seen' \subseteq Entry
    BY <1>1
  <2>3. delay' \in Int
    <3>1. head' + 1 \in 1 .. Len(mins')
      BY ONLY <1>n, <1>2
    <3>2. mins'[head' + 1].transit \in Int
      <4>1. mins'[head' + 1] \in Entry
        BY ONLY <1>2, <3>1
      <4> DEFINE e == mins'[head' + 1]
      <4>2. e \in Entry => e.transit \in Int
        <5> HIDE DEF e
        <5> QED BY DEF Entry
      <4> QED BY <4>1, <4>2
    <3>3. delay' = new.transit - mins'[head' + 1].transit
      OBVIOUS
    <3> QED BY ONLY <1>t, <3>2, <3>3
  <2> QED BY <1>2, <1>t, <2>1, <2>2, <2>3 DEF Typed
<1>9. Untouched' /\ EndsInLast' /\ FewDead'
  <2>1. head' < Len(mins') /\ mins'[Len(mins')] = new
    BY ONLY <1>n, <1>2
  <2> QED BY <1>2, <2>1 DEF Untouched, EndsInLast, FewDead
<1>10. Sorted'
  <2> SUFFICES ASSUME NEW i \in head' + 1 .. last, NEW j \in head' + 1 .. last, i < j
               PROVE  mins'[i].transit < mins'[j].transit
    BY <1>2, SMTT(30) DEF Sorted, Alive
  <2>0. i \in head' + 1 .. last /\ j \in head' + 1 .. last /\ i < j
    OBVIOUS
  <2>1. i \in 1 .. n - k /\ mins'[i] = mins[i + k] /\ i + k \in h + 1 .. n
    BY ONLY <1>n, <1>6, <2>0, SMTT(30)
  <2>2. CASE j = last
    <3>1. mins[n].transit < new.transit /\ n \in head + 1 .. Len(mins)
      BY ONLY <1>n, <1>5, <2>0, <2>1
    <3>2. i + k = n \/ mins[i + k].transit < mins[n].transit
      <4>1. i + k = n \/ (i + k \in head + 1 .. Len(mins) /\ i + k < n)
        BY ONLY <1>n, <2>0, <2>1, SMTT(30)
      <4> QED BY ONLY <1>7, <3>1, <4>1, Zenon
    <3>3. mins[i + k].transit \in Int /\ mins[n].transit \in Int
      <4>1. i + k \in 1 .. Len(mins) /\ n \in 1 .. Len(mins)
        BY ONLY <1>n, <2>0, <2>1, SMTT(30)
      <4> QED BY ONLY <1>3, <4>1
    <3>4. mins[i + k].transit < new.transit
      <4>1. CASE i + k = n
        BY ONLY <3>1, <4>1
      <4>2. CASE mins[i + k].transit < mins[n].transit
        <5>1. \A a, b, c \in Int : a < b /\ b < c => a < c
          OBVIOUS
        <5> QED BY ONLY <1>t, <3>1, <3>3, <4>2, <5>1
      <4> QED BY ONLY <3>2, <4>1, <4>2
    <3> QED BY ONLY <1>2, <2>1, <2>2, <3>4
  <2>3. CASE j # last
    <3>1. mins'[j] = mins[j + k] /\ j + k \in h + 1 .. n
      BY ONLY <1>6, <2>0, <2>3
    <3>2. mins[i + k].transit < mins[j + k].transit
      <4>1. /\ i + k \in head + 1 .. Len(mins)
            /\ j + k \in head + 1 .. Len(mins)
            /\ i + k < j + k
        <5>1. i + k \in h + 1 .. n /\ j + k \in h + 1 .. n
          BY ONLY <2>1, <3>1
        <5>2. i \in Int /\ j \in Int /\ i < j
          BY ONLY <1>n, <2>0, <2>1, SMTT(30)
        <5>3. h + 1 .. n \subseteq head + 1 .. Len(mins)
          BY ONLY <1>n
        <5>4. i + k < j + k
          BY ONLY <1>n, <5>2
        <5> QED BY ONLY <5>1, <5>3, <5>4
      <4> QED BY ONLY <1>7, <4>1, Zenon
    <3> QED BY ONLY <2>1, <3>1, <3>2
  <2> QED BY <2>2, <2>3
<1>11. FromSeen'
  <2> SUFFICES ASSUME NEW i \in head' + 1 .. last PROVE mins'[i] \in seen' /\ mins'[i].at <= now'
    BY <1>2 DEF FromSeen, Alive
  <2>0. new \in seen' /\ seen \subseteq seen'
    OBVIOUS
  <2>1. CASE mins'[i] = new
    BY ONLY <1>t, <2>0, <2>1
  <2>2. CASE mins'[i] = mins[i + k] /\ i + k \in h + 1 .. n
    <3>1. \A m \in head + 1 .. Len(mins) : mins[m] \in seen /\ mins[m].at <= now
      BY DEF TransitInv, FromSeen, Alive
    <3>2. mins[i + k] \in seen /\ mins[i + k].at <= now /\ mins[i + k].at \in Nat
      <4>1. i + k \in head + 1 .. Len(mins) /\ i + k \in 1 .. Len(mins)
        BY ONLY <1>n, <2>2
      <4> QED BY ONLY <1>3, <3>1, <4>1
    <3> QED BY ONLY <1>t, <2>0, <2>2, <3>2
  <2> QED BY <1>6, <2>1, <2>2
<1>12. Covered'
  <2> SUFFICES ASSUME NEW f \in seen', now' - f.at <= WindowLen
               PROVE  \E i \in head' + 1 .. last :
                        mins'[i].at >= f.at /\ mins'[i].transit <= f.transit
    BY <1>2 DEF Covered, Recent, Alive
  <2>1. last \in head' + 1 .. last /\ mins'[last] = new
    BY ONLY <1>n, <1>2
  <2>2. CASE f = new
    BY ONLY <1>t, <2>1, <2>2
  <2>3. CASE f \in seen
    <3>1. f.at \in Nat /\ f.transit \in Int /\ f.at <= now
      <4>1. f \in Entry /\ f.at <= now
        BY <1>1, <2>3 DEF TransitInv
      <4> QED BY ONLY <4>1 DEF Entry
    <3>2. f \in Recent
      <4>1. now' - f.at <= WindowLen
        OBVIOUS
      <4>2. now - f.at <= WindowLen
        BY ONLY <1>t, <3>1, <4>1
      <4> QED BY ONLY <2>3, <4>2 DEF Recent
    <3>3. PICK i \in head + 1 .. Len(mins) : mins[i].at >= f.at /\ mins[i].transit <= f.transit
      BY <3>2 DEF TransitInv, Covered, Alive
    <3>4. i \in head + 1 .. Len(mins) /\ mins[i].at \in Nat /\ mins[i].transit \in Int
      BY ONLY <1>n, <1>3, i \in head + 1 .. Len(mins)
    <3>5. i > h
      <4>1. now' - mins[i].at <= WindowLen
        <5>1. now' - f.at <= WindowLen
          OBVIOUS
        <5> QED BY ONLY <1>t, <3>1, <3>3, <3>4, <5>1, SMTT(30)
      <4> QED BY ONLY <1>n, <1>t, <1>4, <3>4, <4>1
    <3>6. CASE i <= n
      <4>1. i - k \in head' + 1 .. last /\ i - k \in 1 .. n - k /\ (i - k) + k = i
        BY ONLY <1>n, <3>4, <3>5, <3>6
      <4>2. mins'[i - k] = mins[i]
        BY ONLY <1>2, <4>1
      <4> QED BY ONLY <3>3, <4>1, <4>2
    <3>7. CASE i > n
      <4>1. new.transit <= mins[i].transit
        BY ONLY <1>n, <1>t, <1>5, <3>4, <3>7, SMTT(30)
      <4>2. new.at >= f.at /\ new.transit <= f.transit
        BY ONLY <1>t, <3>1, <3>3, <3>4, <4>1, SMTT(30)
      <4> QED BY ONLY <2>1, <4>2
    <3>8. i <= n \/ i > n
      BY ONLY <1>n, <3>4
    <3> QED BY <3>6, <3>7, <3>8
  <2> QED BY <2>2, <2>3
<1>13. FloorIsFront'
  <2>1. now' - mins'[head' + 1].at <= WindowLen
    <3>1. CASE h = n
      <4>1. head' + 1 = last
        BY ONLY <1>n, <3>1
      <4>2. mins'[head' + 1].at = now'
        BY ONLY <1>2, <1>t, <4>1
      <4>3. \A a, b, w \in Nat : a = b => a - b <= w
        OBVIOUS
      <4>4. now' \in Nat /\ WindowLen \in Nat
        BY ONLY <1>t, Zenon
      <4> QED BY ONLY <4>2, <4>3, <4>4, Zenon
    <3>2. CASE h < n
      <4>1. mins'[head' + 1] = mins[h + 1]
        <5>1. head' + 1 \in 1 .. n - k /\ (head' + 1) + k = h + 1
          BY ONLY <1>n, <3>2
        <5> QED BY ONLY <1>2, <5>1
      <4> QED BY ONLY <1>n, <1>4, <3>2, <4>1
    <3> QED BY ONLY <1>n, <3>1, <3>2
  <2>2. delay' = Transit(now', sent') - mins'[head' + 1].transit
    BY <1>t
  <2> QED BY <2>1, <2>2 DEF FloorIsFront
<1>14. \A f \in seen' : f.at <= now'
  <2>1. \A f \in seen : f.at \in Nat /\ f.at <= now
    BY <1>1 DEF TransitInv, Entry
  <2>2. \A f \in seen' : f \in seen \/ f = new
    OBVIOUS
  <2> QED BY ONLY <1>t, <2>1, <2>2
<1> QED BY <1>8, <1>9, <1>10, <1>11, <1>12, <1>13, <1>14 DEF TransitInv

-----------------------------------------------------------------------------
(* The theorems. *)

\* A frame whose stamp is measured right keeps the invariant.
LEMMA ObservedKeeps ==
  ASSUME TransitInv, NEW stamp, Observe(stamp, now'),
         Delta(CHOOSE s \in IF epoch = {} THEN {stamp} ELSE epoch : TRUE, stamp) = Micros(sent'),
         now' \in Nat, now' >= now, sent' \in -MaxSent .. MaxSent,
         epoch' \subseteq 0 .. ClockRange - 1, \A s, t \in epoch' : s = t, epoch' # {},
         seen' = seen \cup {[at |-> now', transit |-> Transit(now', sent')]}
  PROVE  TransitInv'
<1> DEFINE transit == Transit(now', sent')
           new == [at |-> now', transit |-> transit]
<1>1. mins \in Seq(Entry) /\ head \in 0 .. Len(mins)
  BY DEF TransitInv, Typed
<1>2. /\ transit \in Int /\ transit = Transit(now', sent')
      /\ new = [at |-> now', transit |-> Transit(now', sent')]
      /\ new = [at |-> now', transit |-> transit]
      /\ new \in Entry /\ new.at = now' /\ new.transit = transit
      /\ seen' = seen \cup {new}
  <2>1. sent' \in Int
    BY SizesAssumption
  <2>2. transit \in Int
    BY <2>1, TransitIs, Zenon
  <2> QED BY <2>2 DEF Entry
<1>3. transit = Found(stamp, now')
  BY DEF Transit, Found
<1> HIDE DEF transit, new
<1>4. /\ \E h \in head .. Len(mins) : \E n \in h .. Len(mins) : \E k \in 0 .. h :
           /\ h = Evicted(now') /\ n = Undercut(h, transit)
           /\ Moved(mins', head', new, h, n, k)
      /\ delay' = transit - mins'[head' + 1].transit
  BY <1>1, <1>2, <1>3, ObserveMoves, SMTT(30)
<1>5. PICK h \in head .. Len(mins) : \E n \in h .. Len(mins) : \E k \in 0 .. h :
        /\ h = Evicted(now') /\ n = Undercut(h, transit)
        /\ Moved(mins', head', new, h, n, k)
  BY <1>4
<1>6. PICK n \in h .. Len(mins) : \E k \in 0 .. h :
        /\ h = Evicted(now') /\ n = Undercut(h, transit)
        /\ Moved(mins', head', new, h, n, k)
  BY <1>5
<1>7. PICK k \in 0 .. h :
        /\ h = Evicted(now') /\ n = Undercut(h, transit)
        /\ Moved(mins', head', new, h, n, k)
  BY <1>6
<1>8. /\ new.transit = Transit(now', sent') /\ n = Undercut(h, new.transit)
      /\ delay' = new.transit - mins'[head' + 1].transit
  BY <1>2, <1>4, <1>7
<1> QED BY <1>2, <1>7, <1>8, ArrivalKeeps, ZenonT(30)

\* The first frame has the stamp the others are measured from.
LEMMA FirstFrameKeeps ==
  ASSUME NearEpoch, TransitInv, FirstFrame PROVE TransitInv'
<1>1. PICK stamp \in Stamps : Observe(stamp, 0)
  BY DEF FirstFrame
<1>2. /\ epoch = {} /\ now = 0 /\ sent = 0 /\ now' = 0 /\ sent' = 0
      /\ seen = {} /\ seen' = {[at |-> 0, transit |-> 0]}
  BY DEF FirstFrame, TransitInv, Untouched
<1>3. stamp \in 0 .. ClockRange - 1 /\ epoch' = {stamp}
  BY <1>1, <1>2, ClockAssumption DEF Observe
<1>4. Delta(CHOOSE s \in IF epoch = {} THEN {stamp} ELSE epoch : TRUE, stamp) = Micros(sent')
  <2>1. (CHOOSE s \in {stamp} : TRUE) = stamp
    OBVIOUS
  <2>2. 0 \in -MaxSent .. MaxSent /\ stamp + 0 = stamp
    BY <1>3, SizesAssumption, ClockAssumption
  <2>3. stamp % ClockRange = stamp
    BY <1>3, ClockAssumption, ModSmall
  <2>4. Delta(stamp, stamp) = Micros(0)
    BY <1>3, <2>2, <2>3, DeltaIsSent
  <2> QED BY <1>2, <2>1, <2>4
<1>5. now' \in Nat /\ now' >= now /\ sent' \in -MaxSent .. MaxSent
  BY <1>2, SizesAssumption
<1>6. /\ epoch' \subseteq 0 .. ClockRange - 1 /\ epoch' # {} /\ \A s, t \in epoch' : s = t
  BY <1>3
<1>7. seen' = seen \cup {[at |-> now', transit |-> Transit(now', sent')]}
  <2>1. Transit(now', sent') = 0
    BY <1>2, TransitIs
  <2> QED BY <1>2, <2>1
<1>8. Observe(stamp, now')
  BY <1>1, <1>2
<1> QED BY <1>4, <1>5, <1>6, <1>7, <1>8, ObservedKeeps

\* A later frame's stamp is the first one's, moved by as much as the sender's clock.
LEMMA FrameKeeps ==
  ASSUME NearEpoch, TransitInv, Frame PROVE TransitInv'
<1>1. PICK send \in SendSteps, wait \in WaitSteps, first \in epoch :
        /\ sent' = sent + send /\ sent' \in -MaxSent .. MaxSent
        /\ now' = now + wait
        /\ Observe((first + sent') % ClockRange, now')
        /\ seen' = seen \cup {[at |-> now', transit |-> Transit(now', sent')]}
  BY DEF Frame
<1> DEFINE stamp == (first + sent') % ClockRange
<1>2. /\ now \in Nat /\ epoch \subseteq 0 .. ClockRange - 1 /\ \A s, t \in epoch : s = t
      /\ epoch # {} /\ wait \in Nat /\ first \in 0 .. ClockRange - 1
  BY StepsAssumption DEF TransitInv, Typed, Frame
<1>3. now' \in Nat /\ now' >= now
  BY <1>1, <1>2
<1>4. epoch' = epoch
  BY <1>1, <1>2 DEF Observe
<1>5. Delta(CHOOSE s \in IF epoch = {} THEN {stamp} ELSE epoch : TRUE, stamp) = Micros(sent')
  <2>1. (CHOOSE s \in epoch : TRUE) = first
    <3>1. (CHOOSE s \in epoch : TRUE) \in epoch
      BY <1>2
    <3> QED BY <1>2, <3>1
  <2>2. Delta(first, stamp) = Micros(sent')
    BY <1>1, <1>2, DeltaIsSent
  <2> QED BY <1>2, <2>1, <2>2
<1>6. Observe(stamp, now')
  BY <1>1
<1> HIDE DEF stamp
<1> QED BY <1>1, <1>2, <1>3, <1>4, <1>5, <1>6, ObservedKeeps

\* The invariant holds at first, and every step keeps it.
LEMMA TransitInit == Init => TransitInv
<1> SUFFICES ASSUME Init PROVE TransitInv
  OBVIOUS
<1>1. Typed
  BY SizesAssumption DEF Init, Typed
<1>2. Untouched /\ EndsInLast /\ FewDead /\ FloorIsFront
  BY SizesAssumption DEF Init, Untouched, EndsInLast, FewDead, FloorIsFront
<1>3. Alive = {} /\ Recent = {} /\ seen = {}
  BY DEF Init, Alive, Recent
<1> QED BY <1>1, <1>2, <1>3 DEF TransitInv, Sorted, FromSeen, Covered

LEMMA TransitStep ==
  ASSUME NearEpoch, TransitInv, [Next]_vars PROVE TransitInv'
<1>1. CASE FirstFrame
  BY <1>1, FirstFrameKeeps
<1>2. CASE Frame
  BY <1>2, FrameKeeps
<1>3. CASE UNCHANGED vars
  BY <1>3 DEF vars, trackerVars, TransitInv, Typed, Untouched, EndsInLast, FewDead,
              Sorted, FromSeen, Covered, FloorIsFront, Alive, Recent
<1> QED BY <1>1, <1>2, <1>3 DEF Next

\* The invariant holds all along.
LEMMA TransitInvariant ==
  ASSUME NearEpoch PROVE Spec => []TransitInv
<1>1. TransitInv /\ [Next]_vars => TransitInv'
  BY TransitStep
<1> QED BY <1>1, TransitInit, PTL DEF Spec

\* The tracker keeps its types, and its queue does not fill up with dead entries
\* (TransitTracker::observe).
THEOREM TypeCorrect ==
  ASSUME NearEpoch PROVE Spec => []TypeOK
<1>1. TransitInv => TypeOK
  BY SizesAssumption DEF TransitInv, Typed, Untouched, EndsInLast, FewDead, TypeOK
<1> QED BY <1>1, TransitInvariant, PTL

\* The front is the least of the window.
LEMMA FloorIsLeast == TransitInv => DelayIsReal
<1> SUFFICES ASSUME TransitInv, epoch # {}
             PROVE  /\ \A f \in Recent : delay >= Transit(now, sent) - f.transit
                    /\ \E f \in Recent : delay = Transit(now, sent) - f.transit
  BY DEF DelayIsReal
<1>1. /\ mins \in Seq(Entry) /\ head \in 0 .. Len(mins) /\ head < Len(mins)
      /\ now \in Nat /\ Transit(now, sent) \in Int /\ seen \subseteq Entry
  <2>1. now \in Nat /\ sent \in Int
    BY SizesAssumption DEF TransitInv, Typed
  <2> QED BY <2>1, TransitIs DEF TransitInv, Typed, EndsInLast
<1>2. now - mins[head + 1].at <= WindowLen /\ delay = Transit(now, sent) - mins[head + 1].transit
  BY DEF TransitInv, FloorIsFront
<1>3. head + 1 \in head + 1 .. Len(mins)
  BY <1>1
<1>4. mins[head + 1] \in Recent
  BY <1>2, <1>3 DEF TransitInv, FromSeen, Alive, Recent
<1>5. ASSUME NEW f \in Recent PROVE delay >= Transit(now, sent) - f.transit
  <2>1. PICK i \in head + 1 .. Len(mins) : mins[i].transit <= f.transit
    BY DEF TransitInv, Covered, Alive
  <2>2. i = head + 1 \/ mins[head + 1].transit < mins[i].transit
    BY <1>1, <1>3 DEF TransitInv, Sorted, Alive
  <2>3. mins[i].transit \in Int /\ mins[head + 1].transit \in Int
    <3>1. i \in 1 .. Len(mins) /\ head + 1 \in 1 .. Len(mins)
      BY <1>1
    <3> QED BY <1>1, <3>1, EntryIs
  <2>4. f.transit \in Int
    <3>1. f \in Entry
      BY <1>1 DEF Recent
    <3> QED BY ONLY <3>1 DEF Entry
  <2> QED BY ONLY <1>1, <1>2, <2>1, <2>2, <2>3, <2>4, SMTT(30)
<1> QED BY <1>2, <1>4, <1>5

\* The delay that is reported is the frame's own transit less the least one of the window:
\* the entries that were dropped, evicted or undercut would never have been the least
\* (TransitTracker::observe).
THEOREM DelayIsAlwaysReal ==
  ASSUME NearEpoch PROVE Spec => []DelayIsReal
BY FloorIsLeast, TransitInvariant, PTL

-----------------------------------------------------------------------------
(* Order statistics: what the selections of LatencySeries!Summaries leave. *)

\* w has the elements of v, in some order.
Shuffled(v, w) ==
  /\ Len(w) = Len(v)
  /\ \E q \in Bijection(1 .. Len(v), 1 .. Len(v)) : \A j \in 1 .. Len(v) : w[j] = v[q[j]]

\* Nothing left of place i is more than what is there, and nothing right of it is less.
Parted(v, i) ==
  \A j \in 1 .. Len(v) : (j <= i => v[j] <= v[i + 1]) /\ (j > i => v[j] >= v[i + 1])

\* Shuffling twice is shuffling.
LEMMA ShuffledTwice ==
  ASSUME NEW u \in Seq(Int), NEW v \in Seq(Int), NEW w \in Seq(Int), Shuffled(u, v), Shuffled(v, w)
  PROVE  Shuffled(u, w)
<1> DEFINE n == Len(u)
           N == 1 .. n
<1>1. n \in Nat /\ Len(v) = n /\ Len(w) = n
  BY LenProperties DEF Shuffled
<1>2. PICK q \in Bijection(N, N) : \A j \in N : v[j] = u[q[j]]
  BY DEF Shuffled
<1>3. PICK r \in Bijection(N, N) : \A j \in N : w[j] = v[r[j]]
  BY <1>1 DEF Shuffled
<1> DEFINE p == [j \in N |-> q[r[j]]]
<1>4. \A j \in N : r[j] \in N
  BY <1>3 DEF Bijection, Injection
<1>5. \A j \in N : w[j] = u[p[j]]
  BY <1>2, <1>3, <1>4
<1>6. p \in Bijection(N, N)
  BY Fun_BijTransitive
<1> HIDE DEF p, N
<1>7. \E s \in Bijection(N, N) : \A j \in N : w[j] = u[s[j]]
  BY <1>5, <1>6
<1> QED BY <1>1, <1>7 DEF Shuffled, N

\* Nothing that is shuffled changes its rank.
LEMMA ShuffledRank ==
  ASSUME NEW v \in Seq(Int), NEW w \in Seq(Int), Shuffled(v, w),
         NEW i \in Int, NEW x \in Int, HasRank(w, i, x)
  PROVE  HasRank(v, i, x)
<1> DEFINE n == Len(v)
           N == 1 .. n
<1>1. n \in Nat /\ Len(w) = n /\ DOMAIN v = N /\ DOMAIN w = N
  BY LenProperties DEF Shuffled
<1>2. PICK q \in Bijection(N, N) : \A j \in N : w[j] = v[q[j]]
  BY DEF Shuffled
<1>3. \A j \in N : q[j] \in N
  BY <1>2 DEF Bijection, Injection
<1> DEFINE Less(u) == {j \in N : u[j] < x}
           Most(u) == {j \in N : u[j] <= x}
           LessV == Less(v)
           LessW == Less(w)
           MostV == Most(v)
           MostW == Most(w)
<1>4. /\ LessW \in SUBSET N /\ LessV \in SUBSET N /\ \A j \in N : j \in LessW <=> q[j] \in LessV
      /\ MostW \in SUBSET N /\ MostV \in SUBSET N /\ \A j \in N : j \in MostW <=> q[j] \in MostV
  BY <1>2, <1>3
<1>5. Cardinality(LessW) = Cardinality(LessV)
  <2>1. /\ n \in Nat /\ q \in Bijection(1 .. n, 1 .. n)
        /\ LessW \in SUBSET (1 .. n) /\ LessV \in SUBSET (1 .. n)
        /\ \A j \in 1 .. n : j \in LessW <=> q[j] \in LessV
    BY <1>1, <1>2, <1>4
  <2> HIDE DEF LessV, LessW, MostV, MostW, n
  <2> QED BY ONLY <2>1, SameCount
<1>6. Cardinality(MostW) = Cardinality(MostV)
  <2>1. /\ n \in Nat /\ q \in Bijection(1 .. n, 1 .. n)
        /\ MostW \in SUBSET (1 .. n) /\ MostV \in SUBSET (1 .. n)
        /\ \A j \in 1 .. n : j \in MostW <=> q[j] \in MostV
    BY <1>1, <1>2, <1>4
  <2> HIDE DEF LessV, LessW, MostV, MostW, n
  <2> QED BY ONLY <2>1, SameCount
<1>7. Cardinality(Less(w)) <= i /\ Cardinality(Most(w)) > i
  BY <1>1 DEF HasRank
<1>8. Cardinality(Less(v)) <= i /\ Cardinality(Most(v)) > i
  BY <1>5, <1>6, <1>7
<1> QED BY <1>1, <1>8 DEF HasRank

\* What is at the place that parts a sequence has that rank.
LEMMA PartedRank ==
  ASSUME NEW v \in Seq(Int), NEW i \in 0 .. Len(v) - 1, Parted(v, i)
  PROVE  v[i + 1] \in Int /\ HasRank(v, i, v[i + 1])
<1> DEFINE n == Len(v)
           x == v[i + 1]
           Less == {j \in 1 .. n : v[j] < x}
           Most == {j \in 1 .. n : v[j] <= x}
<1>1. n \in Nat /\ DOMAIN v = 1 .. n /\ i + 1 \in 1 .. n /\ \A j \in 1 .. n : v[j] \in Int
  BY LenProperties, ElementOfSeq
<1>2. x \in Int
  BY <1>1
<1>3. \A j \in 1 .. n : (j <= i => v[j] <= x) /\ (j > i => v[j] >= x)
  BY DEF Parted
<1> HIDE DEF n, x
<1>4. Less \in SUBSET (1 .. i)
  BY <1>1, <1>2, <1>3
<1>5. 1 .. i + 1 \in SUBSET Most
  <2>1. ASSUME NEW j \in 1 .. i + 1 PROVE j \in 1 .. n /\ v[j] <= x
    <3>1. j \in 1 .. n /\ (j <= i \/ j = i + 1)
      BY <1>1
    <3> QED BY <1>1, <1>2, <1>3, <3>1 DEF x
  <2> QED BY <2>1
<1>6. Cardinality(Less) <= i
  <2>1. IsFiniteSet(1 .. i) /\ Cardinality(1 .. i) = i
    BY <1>1, FS_Interval
  <2> HIDE DEF Less
  <2> QED BY <1>4, <2>1, FS_Subset
<1>7. Cardinality(Most) > i
  <2>1. IsFiniteSet(1 .. i + 1) /\ Cardinality(1 .. i + 1) = i + 1
    BY <1>1, FS_Interval
  <2>2. IsFiniteSet(Most)
    <3>1. IsFiniteSet(1 .. n) /\ Most \in SUBSET (1 .. n)
      BY <1>1, FS_Interval
    <3> HIDE DEF Most
    <3> QED BY <3>1, FS_Subset
  <2>3. Cardinality(Most) \in Nat /\ Cardinality(1 .. i + 1) <= Cardinality(Most)
    <3> HIDE DEF Most
    <3> QED BY <1>5, <2>2, FS_Subset, FS_CardinalityType
  <2> HIDE DEF Most
  <2> QED BY <2>1, <2>3
<1> QED BY <1>1, <1>2, <1>6, <1>7 DEF HasRank, n, x

\* A selection shuffles, and parts at its rank.
LEMMA SelectedIs ==
  ASSUME NEW v \in Seq(Int), NEW i \in 0 .. Len(v) - 1, NEW w \in Selected(v, i)
  PROVE  w \in Seq(Int) /\ Shuffled(v, w) /\ Parted(w, i)
<1> DEFINE n == Len(v)
           N == 1 .. n
<1>1. n \in Nat /\ DOMAIN v = N /\ \A j \in N : v[j] \in Int
  BY LenProperties, ElementOfSeq
<1>2. PICK q \in [N -> N] : IsInjective(q) /\ w = [j \in N |-> v[q[j]]]
  BY <1>1 DEF Selected
<1>3. \A j \in N : (j <= i => w[j] <= w[i + 1]) /\ (j > i => w[j] >= w[i + 1])
  BY <1>1 DEF Selected
<1>4. q \in Injection(N, N)
  BY <1>2 DEF Injection
<1>5. q \in Bijection(N, N)
  <2>1. IsFiniteSet(N)
    BY <1>1, FS_Interval
  <2> HIDE DEF N
  <2>2. q \in Surjection(N, N)
    BY <1>4, <2>1, FS_Injection
  <2> QED BY <1>4, <2>2 DEF Bijection
<1>6. w \in [N -> Int]
  BY <1>1, <1>2
<1>7. w \in Seq(Int) /\ Len(w) = n
  BY <1>1, <1>6
<1>8. \A j \in N : w[j] = v[q[j]]
  BY <1>2
<1>9. Shuffled(v, w)
  BY <1>5, <1>7, <1>8 DEF Shuffled
<1>10. Parted(w, i)
  BY <1>3, <1>7 DEF Parted
<1> QED BY <1>7, <1>9, <1>10

\* So does a selection within what an earlier one left below its rank, for all places.
LEMMA SelectedLeftIs ==
  ASSUME NEW v \in Seq(Int), NEW end \in 0 .. Len(v) - 1, Parted(v, end),
         NEW i \in 0 .. end - 1, NEW w \in SelectedLeftOf(v, end, i)
  PROVE  w \in Seq(Int) /\ Shuffled(v, w) /\ Parted(w, i)
<1> DEFINE n == Len(v)
           a == SubSeq(v, 1, end)
           z == SubSeq(v, end + 1, n)
<1>1. /\ n \in Nat /\ end \in Nat /\ end < n /\ i \in Nat /\ i < end /\ end \in 0 .. n
      /\ \A j \in 1 .. n : v[j] \in Int
  BY LenProperties, ElementOfSeq
<1>2. a \in Seq(Int) /\ Len(a) = end /\ \A j \in 1 .. end : a[j] = v[j]
  <2>1. \A j \in 1 .. end : v[j] \in Int
    BY <1>1
  <2> QED BY <1>1, <2>1, SubSeqProperties
<1>3. z \in Seq(Int) /\ Len(z) = n - end /\ \A j \in 1 .. n - end : z[j] = v[end + j]
  BY <1>1, SuffixFacts
<1>4. PICK x \in Selected(a, i) : w = x \o z
  BY DEF SelectedLeftOf
<1> HIDE DEF a, z
<1>5. x \in Seq(Int) /\ Shuffled(a, x) /\ Parted(x, i)
  <2>1. i \in 0 .. Len(a) - 1
    BY <1>1, <1>2
  <2> QED BY <1>2, <2>1, SelectedIs
<1>6. Len(x) = end
  BY <1>2, <1>5 DEF Shuffled
<1>7. PICK p \in Bijection(1 .. end, 1 .. end) : \A j \in 1 .. end : x[j] = a[p[j]]
  BY <1>2, <1>5 DEF Shuffled
<1>8. /\ \A j \in 1 .. end : p[j] \in 1 .. end
      /\ \A j, k \in 1 .. end : p[j] = p[k] => j = k
      /\ \A t \in 1 .. end : \E s \in 1 .. end : p[s] = t
  BY <1>7 DEF Bijection, Injection, Surjection, IsInjective
<1>9. /\ w \in Seq(Int) /\ Len(w) = n
      /\ \A j \in 1 .. n : w[j] = IF j <= end THEN x[j] ELSE v[j]
  <2>1. /\ w \in Seq(Int) /\ Len(w) = end + (n - end)
        /\ \A j \in 1 .. end + (n - end) : w[j] = IF j <= end THEN x[j] ELSE z[j - end]
    <3>1. /\ x \o z \in Seq(Int) /\ Len(x \o z) = Len(x) + Len(z)
          /\ \A j \in 1 .. Len(x) + Len(z) :
               (x \o z)[j] = IF j <= Len(x) THEN x[j] ELSE z[j - Len(x)]
      BY <1>3, <1>5, ConcatProperties
    <3> QED BY <1>3, <1>4, <1>6, <3>1
  <2>2. end + (n - end) = n
    BY <1>1
  <2>3. ASSUME NEW j \in 1 .. n, ~ (j <= end) PROVE z[j - end] = v[j]
    <3>1. j - end \in 1 .. n - end /\ end + (j - end) = j
      BY <1>1, <2>3
    <3> QED BY <1>3, <3>1
  <2> QED BY <2>1, <2>2, <2>3
<1> DEFINE q == [j \in 1 .. n |-> IF j <= end THEN p[j] ELSE j]
<1>10. q \in Bijection(1 .. n, 1 .. n)
  <2> HIDE DEF n
  <2>1. \A j \in 1 .. n : q[j] = IF j <= end THEN p[j] ELSE j
    OBVIOUS
  <2>2. \A j \in 1 .. n : (j \in 1 .. end /\ p[j] \in 1 .. n /\ p[j] \in 1 .. end) \/ j > end
    <3>1. \A j \in 1 .. n : j \in 1 .. end \/ j > end
      BY <1>1
    <3>2. \A m \in 1 .. end : m \in 1 .. n
      BY <1>1
    <3>3. ASSUME NEW j \in 1 .. n, j \in 1 .. end PROVE p[j] \in 1 .. n /\ p[j] \in 1 .. end
      <4>1. p[j] \in 1 .. end
        BY <1>8, <3>3
      <4> QED BY <3>2, <4>1
    <3> QED BY <3>1, <3>3
  <2>3. ASSUME NEW j \in 1 .. n PROVE (IF j <= end THEN p[j] ELSE j) \in 1 .. n
    <3>1. j > end => ~ (j <= end)
      BY <1>1
    <3> QED BY <2>2, <3>1
  <2>4. q \in [1 .. n -> 1 .. n]
    BY <2>3
  <2> HIDE DEF q
  <2>5. ASSUME NEW j \in 1 .. n, NEW k \in 1 .. n, q[j] = q[k] PROVE j = k
    <3>1. q[j] = (IF j <= end THEN p[j] ELSE j) /\ q[k] = (IF k <= end THEN p[k] ELSE k)
      BY <2>1
    <3>0. \A m \in 1 .. end : m <= end /\ p[m] \in 1 .. end
      BY <1>1, <1>8
    <3>2. CASE j \in 1 .. end /\ k \in 1 .. end
      <4>1. q[j] = p[j] /\ q[k] = p[k]
        BY <3>0, <3>1, <3>2
      <4>2. p[j] = p[k]
        BY <2>5, <4>1
      <4> QED BY <1>8, <3>2, <4>2
    <3>3. CASE j > end /\ k \in 1 .. end
      <4>1. q[j] = j /\ q[k] = p[k] /\ p[k] \in 1 .. end
        BY <1>1, <3>0, <3>1, <3>3
      <4>2. j \in 1 .. end
        BY <2>5, <4>1
      <4> QED BY <1>1, <3>3, <4>2
    <3>4. CASE k > end /\ j \in 1 .. end
      <4>1. q[k] = k /\ q[j] = p[j] /\ p[j] \in 1 .. end
        BY <1>1, <3>0, <3>1, <3>4
      <4>2. k \in 1 .. end
        BY <2>5, <4>1
      <4> QED BY <1>1, <3>4, <4>2
    <3>5. CASE j > end /\ k > end
      <4>1. q[j] = j /\ q[k] = k
        BY <1>1, <3>1, <3>5
      <4> QED BY <2>5, <4>1
    <3> QED BY <2>2, <3>2, <3>3, <3>4, <3>5
  <2>6. ASSUME NEW t \in 1 .. n PROVE \E s \in 1 .. n : q[s] = t
    <3>1. CASE t \in 1 .. end
      <4>1. PICK s \in 1 .. end : p[s] = t
        BY <1>8, <3>1
      <4>2. s \in 1 .. n /\ s <= end
        BY <1>1
      <4>3. q[s] = t
        BY <2>1, <4>1, <4>2
      <4> QED BY <4>2, <4>3
    <3>2. CASE t > end
      <4>1. q[t] = t
        BY <1>1, <2>1, <3>2
      <4> QED BY <4>1
    <3> QED BY <2>2, <3>1, <3>2
  <2> QED BY <2>4, <2>5, <2>6, Fun_IsBij
<1>11. ASSUME NEW j \in 1 .. n PROVE w[j] = v[q[j]]
  <2>1. CASE j <= end
    <3>1. j \in 1 .. end /\ p[j] \in 1 .. end
      BY <1>1, <1>8, <2>1
    <3> QED BY <1>2, <1>7, <1>9, <2>1, <3>1
  <2>2. CASE ~ (j <= end)
    BY <1>9, <2>2
  <2> QED BY <2>1, <2>2
<1>12. Shuffled(v, w)
  <2> HIDE DEF q
  <2> QED BY <1>9, <1>10, <1>11 DEF Shuffled
<1> HIDE DEF q
<1>13. w[i + 1] = x[i + 1] /\ i + 1 \in 1 .. end
  <2>1. i + 1 \in 1 .. end /\ i + 1 \in 1 .. n /\ i + 1 <= end
    BY <1>1
  <2> QED BY <1>9, <2>1
<1>14. ASSUME NEW j \in 1 .. n PROVE (j <= i => w[j] <= w[i + 1]) /\ (j > i => w[j] >= w[i + 1])
  <2>1. CASE j <= end
    <3>1. j \in 1 .. Len(x) /\ w[j] = x[j]
      BY <1>1, <1>6, <1>9, <2>1, SMTT(30)
    <3> QED BY <1>5, <1>13, <3>1 DEF Parted
  <2>2. CASE j > end
    <3>1. w[j] = v[j] /\ v[j] \in Int /\ j > i /\ ~ (j <= i)
      BY <1>1, <1>9, <2>2
    <3>2. v[j] >= v[end + 1]
      BY <1>1, <2>2 DEF Parted
    <3>3. p[i + 1] \in 1 .. end /\ x[i + 1] = v[p[i + 1]]
      BY <1>2, <1>7, <1>8, <1>13, ZenonT(40)
    <3>4. p[i + 1] \in 1 .. n /\ p[i + 1] <= end
      BY <1>1, <3>3, SMTT(30)
    <3>5. v[p[i + 1]] <= v[end + 1] /\ v[p[i + 1]] \in Int /\ v[end + 1] \in Int
      <4>1. end + 1 \in 1 .. n
        BY <1>1
      <4> QED BY <1>1, <3>4, <4>1 DEF Parted
    <3>6. w[j] >= w[i + 1]
      BY <1>13, <3>1, <3>2, <3>3, <3>5, SMTT(30)
    <3> QED BY <3>1, <3>6
  <2> QED BY <1>1, <2>1, <2>2
<1>15. Parted(w, i)
  BY <1>9, <1>14 DEF Parted
<1> QED BY <1>9, <1>12, <1>15

\* A number and its two hundredth.
LEMMA TwoHundredth ==
  ASSUME NEW x \in Nat
  PROVE  x \div 200 \in Nat /\ 200 * (x \div 200) <= x /\ x < 200 * (x \div 200) + 200
OBVIOUS

\* The rank of a percentage is a rank, and does not fall with the percentage.
LEMMA RanksAscend ==
  ASSUME NEW n \in Nat \ {0}, NEW p \in 0 .. 100, NEW r \in p .. 100
  PROVE  /\ RankOf(p, n) \in 0 .. n - 1 /\ RankOf(r, n) \in 0 .. n - 1
         /\ RankOf(p, n) <= RankOf(r, n)
<1> DEFINE a == (n - 1) * p
           b == (n - 1) * r
           d == a * 2 + 100
           e == b * 2 + 100
           x == d \div 200
           y == e \div 200
<1>1. a \in Nat /\ b \in Nat /\ a <= b
  <2>1. \A m \in Nat, s, t \in Nat : s <= t => m * s \in Nat /\ m * t \in Nat /\ m * s <= m * t
    <3>1. SUFFICES ASSUME NEW m \in Nat, NEW s \in Nat, NEW u \in Nat
                   PROVE  m * s \in Nat /\ m * (s + u) \in Nat /\ m * s <= m * (s + u)
      <4>1. \A s, t \in Nat : s <= t => t - s \in Nat /\ s + (t - s) = t
        OBVIOUS
      <4> QED BY <4>1
    <3>2. m * s \in Nat /\ m * u \in Nat /\ m * (s + u) = m * s + m * u
      OBVIOUS
    <3> QED BY <3>2
  <2>2. n - 1 \in Nat /\ p \in Nat /\ r \in Nat /\ p <= r
    OBVIOUS
  <2> QED BY <2>1, <2>2
<1> HIDE DEF a, b
<1>2. d \in Nat /\ e \in Nat /\ d <= e
  BY <1>1
<1> HIDE DEF d, e
<1>3. /\ x \in Nat /\ 200 * x <= d /\ d < 200 * x + 200
      /\ y \in Nat /\ 200 * y <= e /\ e < 200 * y + 200
  BY <1>2, TwoHundredth
<1> HIDE DEF x, y
<1>4. x \in Nat /\ y \in Nat /\ x <= y
  BY <1>2, <1>3
<1>5. /\ RankOf(p, n) = IF x < n - 1 THEN x ELSE n - 1
      /\ RankOf(r, n) = IF y < n - 1 THEN y ELSE n - 1
  BY DEF RankOf, x, y, d, e, a, b
<1> QED BY <1>4, <1>5

\* The percentiles of a series have their ranks among the samples of its ring, though the
\* second and the third are looked for only in what is left below the one before.
LEMMA SummariesRank ==
  ASSUME NEW s, s.window \in Seq(Int), Len(s.window) > 0, NEW p \in Summaries(s), NEW k \in 1 .. 3
  PROVE  p[k] \in Int /\ HasRank(s.window, RankOf(Ranks[k], Len(s.window)), p[k])
<1> DEFINE win == s.window
           n   == Len(win)
           i50 == RankOf(Ranks[1], n)
           i95 == RankOf(Ranks[2], n)
           i99 == RankOf(Ranks[3], n)
<1>1. n \in Nat \ {0} /\ win \in Seq(Int)
  BY LenProperties
<1>2. /\ i50 \in 0 .. n - 1 /\ i95 \in 0 .. n - 1 /\ i99 \in 0 .. n - 1
      /\ i50 <= i95 /\ i95 <= i99
  <2>1. /\ Ranks[1] \in 0 .. 100 /\ Ranks[2] \in Ranks[1] .. 100
        /\ Ranks[2] \in 0 .. 100 /\ Ranks[3] \in Ranks[2] .. 100
    <3>1. Ranks \in Seq(0 .. 100) /\ 1 \in 1 .. Len(Ranks) /\ 2 \in 1 .. Len(Ranks) /\ 3 \in 1 .. Len(Ranks)
      BY SeriesAssumption
    <3>2. Ranks[1] \in 0 .. 100 /\ Ranks[2] \in 0 .. 100 /\ Ranks[3] \in 0 .. 100
      BY <3>1, ElementOfSeq
    <3>3. Ranks[1] <= Ranks[2] /\ Ranks[2] <= Ranks[3]
      BY SeriesAssumption
    <3>4. \A a, b \in 0 .. 100 : a <= b => b \in a .. 100
      OBVIOUS
    <3> QED BY ONLY <3>2, <3>3, <3>4
  <2> HIDE DEF n
  <2> QED BY <1>1, <2>1, RanksAscend
<1>3. PICK w \in Selected(win, i99) :
        p \in UNION {{<<u[i50 + 1], v[i95 + 1], w[i99 + 1]>> :
                       u \in IF i50 = i95 THEN {v} ELSE SelectedLeftOf(v, i95, i50)} :
                       v \in IF i95 = i99 THEN {w} ELSE SelectedLeftOf(w, i99, i95)}
  BY DEF Summaries
<1>4. PICK v \in IF i95 = i99 THEN {w} ELSE SelectedLeftOf(w, i99, i95) :
        p \in {<<u[i50 + 1], v[i95 + 1], w[i99 + 1]>> :
                u \in IF i50 = i95 THEN {v} ELSE SelectedLeftOf(v, i95, i50)}
  BY <1>3
<1>5. PICK u \in IF i50 = i95 THEN {v} ELSE SelectedLeftOf(v, i95, i50) :
        p = <<u[i50 + 1], v[i95 + 1], w[i99 + 1]>>
  BY <1>4
<1> HIDE DEF n, win, i50, i95, i99
<1>6. w \in Seq(Int) /\ Shuffled(win, w) /\ Parted(w, i99) /\ Len(w) = n
  <2>1. i99 \in 0 .. Len(win) - 1
    BY <1>2 DEF n
  <2>2. w \in Seq(Int) /\ Shuffled(win, w) /\ Parted(w, i99)
    BY <1>1, <2>1, SelectedIs
  <2> QED BY <2>2 DEF Shuffled, n
<1>7. v \in Seq(Int) /\ Shuffled(win, v) /\ Parted(v, i95) /\ Len(v) = n
  <2>1. CASE i95 = i99
    BY <1>4, <1>6, <2>1
  <2>2. CASE i95 # i99
    <3>1. v \in SelectedLeftOf(w, i99, i95)
      BY <1>4, <2>2
    <3>2. i99 \in 0 .. Len(w) - 1 /\ i95 \in 0 .. i99 - 1
      BY <1>1, <1>2, <1>6, <2>2
    <3>3. v \in Seq(Int) /\ Shuffled(w, v) /\ Parted(v, i95)
      BY <1>6, <3>1, <3>2, SelectedLeftIs
    <3>4. Shuffled(win, v)
      BY <1>1, <1>6, <3>3, ShuffledTwice
    <3> QED BY <3>3, <3>4 DEF Shuffled, n
  <2> QED BY <2>1, <2>2
<1>8. u \in Seq(Int) /\ Shuffled(win, u) /\ Parted(u, i50) /\ Len(u) = n
  <2>1. CASE i50 = i95
    BY <1>5, <1>7, <2>1
  <2>2. CASE i50 # i95
    <3>1. u \in SelectedLeftOf(v, i95, i50)
      BY <1>5, <2>2
    <3>2. i95 \in 0 .. Len(v) - 1 /\ i50 \in 0 .. i95 - 1
      BY <1>1, <1>2, <1>7, <2>2
    <3>3. u \in Seq(Int) /\ Shuffled(v, u) /\ Parted(u, i50)
      BY <1>7, <3>1, <3>2, SelectedLeftIs
    <3>4. Shuffled(win, u)
      BY <1>1, <1>7, <3>3, ShuffledTwice
    <3> QED BY <3>3, <3>4 DEF Shuffled, n
  <2> QED BY <2>1, <2>2
<1>9. ASSUME NEW t \in Seq(Int), Shuffled(win, t), NEW i \in 0 .. n - 1, Parted(t, i), Len(t) = n
      PROVE  t[i + 1] \in Int /\ HasRank(win, i, t[i + 1])
  <2>1. i \in 0 .. Len(t) - 1 /\ i \in Int
    BY <1>9
  <2>2. t[i + 1] \in Int /\ HasRank(t, i, t[i + 1])
    BY <1>9, <2>1, PartedRank
  <2> QED BY <1>1, <1>9, <2>1, <2>2, ShuffledRank
<1>10. /\ u[i50 + 1] \in Int /\ HasRank(win, i50, u[i50 + 1])
       /\ v[i95 + 1] \in Int /\ HasRank(win, i95, v[i95 + 1])
       /\ w[i99 + 1] \in Int /\ HasRank(win, i99, w[i99 + 1])
  <2>1. u[i50 + 1] \in Int /\ HasRank(win, i50, u[i50 + 1])
    BY <1>2, <1>8, <1>9
  <2>2. v[i95 + 1] \in Int /\ HasRank(win, i95, v[i95 + 1])
    BY <1>2, <1>7, <1>9
  <2>3. w[i99 + 1] \in Int /\ HasRank(win, i99, w[i99 + 1])
    BY <1>2, <1>6, <1>9
  <2> QED BY <2>1, <2>2, <2>3
<1>11. /\ p[1] \in Int /\ HasRank(win, i50, p[1])
       /\ p[2] \in Int /\ HasRank(win, i95, p[2])
       /\ p[3] \in Int /\ HasRank(win, i99, p[3])
  <2>1. p[1] = u[i50 + 1] /\ p[2] = v[i95 + 1] /\ p[3] = w[i99 + 1]
    BY <1>5
  <2> QED BY <1>10, <2>1
<1>12. k = 1 \/ k = 2 \/ k = 3
  OBVIOUS
<1> QED BY <1>11, <1>12 DEF i50, i95, i99, n, win

-----------------------------------------------------------------------------
(* The series: what it holds once the delays r were recorded. *)

Series == [window : Seq(Nat), next : 0 .. Cap - 1, count : Nat, sum : Int,
           least : Nat, most : Nat]

SamplesOf(r) == [i \in DOMAIN r |-> Saturated(r[i])]

\* Which sample is at place i of a full ring.
SampleAt(s, r, i) == IF i <= s.next THEN Len(r) - s.next + i ELSE Len(r) - Cap - s.next + i

\* The ring holds the samples as they came until it is full, and then the last of them.
RingHolds(s, r) ==
  IF Len(r) < Cap
    THEN s.next = Len(r) /\ s.window = SamplesOf(r)
    ELSE /\ Len(s.window) = Cap
         /\ \A i \in 1 .. Cap : s.window[i] = SamplesOf(r)[SampleAt(s, r, i)]

Extremes(s, r) ==
  IF r = <<>> THEN s.least = Longest /\ s.most = 0
              ELSE /\ \E i \in 1 .. Len(r) : s.least = SamplesOf(r)[i]
                   /\ \A i \in 1 .. Len(r) : s.least <= SamplesOf(r)[i]
                   /\ \E i \in 1 .. Len(r) : s.most = SamplesOf(r)[i]
                   /\ \A i \in 1 .. Len(r) : s.most >= SamplesOf(r)[i]

SeriesOf(s, r) ==
  /\ s \in Series /\ r \in Seq(Nat)
  /\ RingHolds(s, r) /\ Extremes(s, r)
  /\ s.count = Len(r) /\ s.sum = FoldLeft(LAMBDA a, b : a + b, 0, SamplesOf(r))

\* The samples of recorded delays, and of one more.
LEMMA SamplesAre ==
  ASSUME NEW r \in Seq(Nat), NEW d \in Nat
  PROVE  /\ SamplesOf(r) \in Seq(Nat) /\ Len(SamplesOf(r)) = Len(r)
         /\ \A i \in 1 .. Len(r) : SamplesOf(r)[i] \in 0 .. Longest
         /\ Saturated(d) \in 0 .. Longest
         /\ SamplesOf(Append(r, d)) = Append(SamplesOf(r), Saturated(d))
<1>1. \A x \in Nat : Saturated(x) \in 0 .. Longest /\ Saturated(x) \in Nat
  BY SeriesAssumption DEF Saturated
<1>2. /\ Len(r) \in Nat /\ DOMAIN r = 1 .. Len(r) /\ \A i \in 1 .. Len(r) : r[i] \in Nat
  BY LenProperties, ElementOfSeq
<1> DEFINE v == SamplesOf(r)
<1>3. v \in [1 .. Len(r) -> Nat] /\ \A i \in 1 .. Len(r) : v[i] = Saturated(r[i])
  BY <1>1, <1>2 DEF SamplesOf
<1> HIDE DEF v
<1>4. v \in Seq(Nat) /\ Len(v) = Len(r) /\ \A i \in 1 .. Len(r) : v[i] \in 0 .. Longest
  <2>1. v \in Seq(Nat) /\ Len(v) = Len(r)
    BY <1>2, <1>3
  <2>2. ASSUME NEW i \in 1 .. Len(r) PROVE v[i] \in 0 .. Longest
    <3>1. r[i] \in Nat /\ v[i] = Saturated(r[i])
      BY <1>2, <1>3
    <3>2. Saturated(r[i]) \in 0 .. Longest
      BY <1>1, <3>1
    <3> QED BY <3>1, <3>2
  <2> QED BY <2>1, <2>2
<1> DEFINE r1 == Append(r, d)
           v1 == SamplesOf(r1)
           t  == Append(v, Saturated(d))
<1>5. /\ r1 \in Seq(Nat) /\ Len(r1) = Len(r) + 1 /\ r1[Len(r) + 1] = d
      /\ \A i \in 1 .. Len(r) : r1[i] = r[i]
  BY AppendProperties
<1> HIDE DEF r1
<1>6. /\ DOMAIN r1 = 1 .. Len(r) + 1 /\ \A i \in 1 .. Len(r) + 1 : r1[i] \in Nat
  BY <1>2, <1>5, LenProperties, ElementOfSeq
<1>7. v1 \in [1 .. Len(r) + 1 -> Nat] /\ \A i \in 1 .. Len(r) + 1 : v1[i] = Saturated(r1[i])
  BY <1>1, <1>6 DEF SamplesOf
<1> HIDE DEF v1
<1>8. v1 \in Seq(Nat) /\ Len(v1) = Len(r) + 1
  BY <1>2, <1>7
<1>9. /\ t \in Seq(Nat) /\ Len(t) = Len(r) + 1 /\ t[Len(r) + 1] = Saturated(d)
      /\ \A i \in 1 .. Len(r) : t[i] = v[i]
  <2>1. Saturated(d) \in Nat
    BY <1>1
  <2>2. /\ t \in Seq(Nat) /\ Len(t) = Len(v) + 1 /\ t[Len(v) + 1] = Saturated(d)
        /\ \A i \in 1 .. Len(v) : t[i] = v[i]
    BY <1>4, <2>1, AppendProperties
  <2> QED BY <1>4, <2>2
<1> HIDE DEF t
<1>10. ASSUME NEW i \in 1 .. Len(r) + 1 PROVE v1[i] = t[i]
  <2>1. CASE i = Len(r) + 1
    BY <1>5, <1>7, <1>9, <2>1
  <2>2. CASE i # Len(r) + 1
    <3>1. i \in 1 .. Len(r)
      BY <1>2, <2>2
    <3> QED BY <1>3, <1>5, <1>7, <1>9, <3>1
  <2> QED BY <2>1, <2>2
<1>11. v1 = t
  BY <1>8, <1>9, <1>10, SeqEqual
<1> QED BY <1>1, <1>4, <1>11 DEF v, v1, r1, t

\* What Record makes of a series, field by field.
LEMMA RecordIs ==
  ASSUME NEW s \in Series, NEW d \in Nat
  PROVE  /\ Record(s, d).window = IF Len(s.window) < Cap THEN Append(s.window, Saturated(d))
                                  ELSE [s.window EXCEPT ![s.next + 1] = Saturated(d)]
         /\ Record(s, d).next = (s.next + 1) % Cap
         /\ Record(s, d).count = s.count + 1
         /\ Record(s, d).sum = s.sum + Saturated(d)
         /\ Record(s, d).least = IF Saturated(d) < s.least THEN Saturated(d) ELSE s.least
         /\ Record(s, d).most = IF Saturated(d) > s.most THEN Saturated(d) ELSE s.most
         /\ Record(s, d).window \in Seq(Nat) /\ Record(s, d).least \in Nat /\ Record(s, d).most \in Nat
              => Record(s, d) \in Series
<1>1. Record(s, d).window = IF Len(s.window) < Cap THEN Append(s.window, Saturated(d))
                            ELSE [s.window EXCEPT ![s.next + 1] = Saturated(d)]
  BY DEF Record, Series
<1>2. /\ Record(s, d).next = (s.next + 1) % Cap
      /\ Record(s, d).count = s.count + 1
      /\ Record(s, d).sum = s.sum + Saturated(d)
      /\ Record(s, d).least = IF Saturated(d) < s.least THEN Saturated(d) ELSE s.least
      /\ Record(s, d).most = IF Saturated(d) > s.most THEN Saturated(d) ELSE s.most
  BY DEF Record, Series
<1>3. Saturated(d) \in Nat /\ s.next \in Nat /\ s.count \in Nat /\ s.sum \in Int /\ Cap \in Nat \ {0}
  BY SeriesAssumption DEF Saturated, Series
<1>4. (s.next + 1) % Cap \in 0 .. Cap - 1 /\ s.count + 1 \in Nat /\ s.sum + Saturated(d) \in Int
  BY <1>3
<1>5. ASSUME Record(s, d).window \in Seq(Nat), Record(s, d).least \in Nat, Record(s, d).most \in Nat
      PROVE  Record(s, d) \in Series
  <2> DEFINE w == Record(s, d).window
             l == Record(s, d).least
             m == Record(s, d).most
             k == (s.next + 1) % Cap
             c == s.count + 1
             u == s.sum + Saturated(d)
  <2>1. Record(s, d) = [s EXCEPT !.window = w, !.next = k, !.count = c, !.sum = u,
                                 !.least = l, !.most = m]
    BY <1>1, <1>2 DEF Record
  <2>2. w \in Seq(Nat) /\ k \in 0 .. Cap - 1 /\ c \in Nat /\ u \in Int /\ l \in Nat /\ m \in Nat
    BY <1>4, <1>5
  <2> HIDE DEF w, l, m, k, c, u
  <2> QED BY <2>1, <2>2 DEF Series
<1> QED BY <1>1, <1>2, <1>5

\* A recorded delay takes the place of the oldest sample in a full ring.
LEMMA RingKeeps ==
  ASSUME NEW s, NEW r, SeriesOf(s, r), NEW d \in Nat
  PROVE  Record(s, d).window \in Seq(Nat) /\ RingHolds(Record(s, d), Append(r, d))
<1> DEFINE V  == SamplesOf(r)
           us == Saturated(d)
           V1 == Append(V, us)
           t  == Record(s, d)
           r1 == Append(r, d)
           n  == Len(r)
           k  == s.next
<1>1. /\ s \in Series /\ r \in Seq(Nat) /\ RingHolds(s, r) /\ n \in Nat
      /\ k \in 0 .. Cap - 1 /\ s.window \in Seq(Nat) /\ Cap \in Nat \ {0}
  BY SeriesAssumption, LenProperties DEF SeriesOf, Series
<1>2. V \in Seq(Nat) /\ Len(V) = n /\ us \in Nat /\ SamplesOf(r1) = V1
  BY <1>1, SamplesAre
<1>3. /\ V1 \in Seq(Nat) /\ Len(V1) = n + 1 /\ V1[n + 1] = us
      /\ \A i \in 1 .. n : V1[i] = V[i]
  <2> HIDE DEF V, us, n
  <2>1. /\ V1 \in Seq(Nat) /\ Len(V1) = Len(V) + 1 /\ V1[Len(V) + 1] = us
        /\ \A i \in 1 .. Len(V) : V1[i] = V[i]
    BY <1>2, AppendProperties
  <2> QED BY <1>2, <2>1
<1>4. Len(r1) = n + 1
  BY <1>1, AppendProperties
<1>5. /\ t.window = IF Len(s.window) < Cap THEN Append(s.window, us) ELSE [s.window EXCEPT ![k + 1] = us]
      /\ t.next = (k + 1) % Cap
  BY <1>1, RecordIs
<1>6. /\ n < Cap => k = n /\ s.window = V
      /\ ~ (n < Cap) => /\ Len(s.window) = Cap
                        /\ \A i \in 1 .. Cap : s.window[i] = V[SampleAt(s, r, i)]
  BY <1>1 DEF RingHolds
<1>7. \A i : SampleAt(s, r, i) = IF i <= k THEN n - k + i ELSE n - Cap - k + i
  BY DEF SampleAt
<1>8. \A i : SampleAt(t, r1, i) = IF i <= t.next THEN Len(r1) - t.next + i
                                                ELSE Len(r1) - Cap - t.next + i
  BY DEF SampleAt
<1> HIDE DEF V, us, V1, t, r1, n, k
<1>9. t.next = IF k + 1 < Cap THEN k + 1 ELSE 0
  <2>1. k + 1 \in 0 .. Cap - 1 \/ (k + 1 \in Cap .. 2 * Cap - 1 /\ k + 1 - Cap = 0)
    BY <1>1
  <2>2. (k + 1) % Cap = IF k + 1 < Cap THEN k + 1 ELSE 0
    <3> DEFINE x == k + 1
    <3> HIDE DEF x
    <3>1. x \in 0 .. Cap - 1 \/ (x \in Cap .. 2 * Cap - 1 /\ x - Cap = 0)
      BY <1>1, <2>1 DEF x
    <3>2. x % Cap = IF x < Cap THEN x ELSE 0
      BY <1>1, <3>1, ModSmall, ModAbove
    <3> QED BY <3>2 DEF x
  <2> QED BY <1>5, <2>2
<1>10. CASE n < Cap /\ n + 1 < Cap
  <2>1. t.next = n + 1 /\ t.window = V1
    BY <1>1, <1>2, <1>3, <1>5, <1>6, <1>9, <1>10 DEF V1
  <2> QED BY <1>2, <1>3, <1>4, <1>10, <2>1 DEF RingHolds, t, r1
<1>11. CASE n < Cap /\ n + 1 = Cap
  <2>1. t.next = 0 /\ t.window = V1
    BY <1>1, <1>2, <1>3, <1>5, <1>6, <1>9, <1>11 DEF V1
  <2>2. ASSUME NEW i \in 1 .. Cap PROVE SampleAt(t, r1, i) = i
    <3>1. SampleAt(t, r1, i) = IF i <= 0 THEN Len(r1) - 0 + i ELSE Len(r1) - Cap - 0 + i
      BY <1>8, <2>1
    <3> QED BY <1>1, <1>4, <1>11, <3>1
  <2>3. Len(t.window) = Cap /\ \A i \in 1 .. Cap : t.window[i] = V1[SampleAt(t, r1, i)]
    BY <1>3, <1>11, <2>1, <2>2
  <2> QED BY <1>2, <1>3, <1>4, <1>11, <2>1, <2>3 DEF RingHolds, t, r1
<1>12. CASE ~ (n < Cap)
  <2>1. Len(s.window) = Cap /\ \A i \in 1 .. Cap : s.window[i] = V[SampleAt(s, r, i)]
    BY <1>6, <1>12
  <2>2. t.window = [s.window EXCEPT ![k + 1] = us] /\ k + 1 \in 1 .. Len(s.window)
    BY <1>1, <1>5, <2>1, SMTT(30)
  <2>3. /\ t.window \in Seq(Nat) /\ Len(t.window) = Cap
        /\ \A i \in 1 .. Cap : t.window[i] = IF i = k + 1 THEN us ELSE s.window[i]
    <3> DEFINE m == k + 1
               w == s.window
    <3>1. m \in 1 .. Len(w) /\ w \in Seq(Nat)
      BY <1>1, <2>2
    <3> HIDE DEF m, w
    <3>2. /\ [w EXCEPT ![m] = us] \in Seq(Nat) /\ Len([w EXCEPT ![m] = us]) = Len(w)
          /\ \A i \in 1 .. Len(w) : [w EXCEPT ![m] = us][i] = IF i = m THEN us ELSE w[i]
      BY <1>2, <3>1, ExceptSeq
    <3> QED BY <2>1, <2>2, <3>2 DEF m, w
  <2>4. ASSUME NEW i \in 1 .. Cap PROVE t.window[i] = V1[SampleAt(t, r1, i)]
    <3> DEFINE j == SampleAt(t, r1, i)
               h == SampleAt(s, r, i)
    <3>1. /\ j = IF i <= t.next THEN n + 1 - t.next + i ELSE n + 1 - Cap - t.next + i
          /\ h = IF i <= k THEN n - k + i ELSE n - Cap - k + i
      <4>1. j = IF i <= t.next THEN Len(r1) - t.next + i ELSE Len(r1) - Cap - t.next + i
        BY <1>8
      <4>2. h = IF i <= k THEN n - k + i ELSE n - Cap - k + i
        BY <1>7
      <4> HIDE DEF j, h
      <4>3. t.next \in Int /\ n \in Int /\ Cap \in Int
        BY <1>1, <1>9
      <4> QED BY ONLY <1>4, <4>1, <4>2, <4>3
    <3> HIDE DEF j, h
    <3>2. CASE i = k + 1
      <4>1. j = n + 1
        BY <1>1, <1>9, <3>1, <3>2
      <4> QED BY <1>3, <2>3, <3>2, <4>1 DEF j
    <3>3. CASE i # k + 1
      <4>1. j = h /\ h \in 1 .. n
        BY <1>1, <1>9, <1>12, <3>1, <3>3
      <4>2. t.window[i] = s.window[i] /\ s.window[i] = V[h]
        BY <2>1, <2>3, <3>3 DEF h
      <4> QED BY <1>3, <4>1, <4>2 DEF j
    <3> QED BY <3>2, <3>3
  <2>5. ~ (n + 1 < Cap)
    BY <1>1, <1>12
  <2> QED BY <1>2, <1>4, <2>3, <2>4, <2>5 DEF RingHolds, t, r1
<1> QED BY <1>1, <1>10, <1>11, <1>12

\* The extremes are those of the samples.
LEMMA ExtremesKeep ==
  ASSUME NEW s, NEW r, SeriesOf(s, r), NEW d \in Nat
  PROVE  /\ Record(s, d).least \in Nat /\ Record(s, d).most \in Nat
         /\ Extremes(Record(s, d), Append(r, d))
<1> DEFINE V  == SamplesOf(r)
           us == Saturated(d)
           V1 == Append(V, us)
           l  == Record(s, d).least
           m  == Record(s, d).most
           r1 == Append(r, d)
           n  == Len(r)
<1>1. /\ s \in Series /\ r \in Seq(Nat) /\ n \in Nat /\ s.least \in Nat /\ s.most \in Nat
      /\ Longest \in Nat
  BY SeriesAssumption, LenProperties DEF SeriesOf, Series
<1>2. /\ V \in Seq(Nat) /\ Len(V) = n /\ us \in 0 .. Longest /\ SamplesOf(r1) = V1
      /\ \A i \in 1 .. n : V[i] \in Nat
  BY <1>1, SamplesAre, ElementOfSeq
<1>3. V1[n + 1] = us /\ \A i \in 1 .. n : V1[i] = V[i]
  <2> HIDE DEF V, us, n
  <2>1. V1[Len(V) + 1] = us /\ \A i \in 1 .. Len(V) : V1[i] = V[i]
    BY <1>2, AppendProperties
  <2> QED BY <1>2, <2>1
<1>4. Len(r1) = n + 1 /\ r1 # <<>>
  BY <1>1, AppendProperties
<1>5. /\ l = IF us < s.least THEN us ELSE s.least
      /\ m = IF us > s.most THEN us ELSE s.most
  BY <1>1, RecordIs
<1>6. IF r = <<>> THEN s.least = Longest /\ s.most = 0
                  ELSE /\ \E i \in 1 .. n : s.least = V[i]
                       /\ \A i \in 1 .. n : s.least <= V[i]
                       /\ \E i \in 1 .. n : s.most = V[i]
                       /\ \A i \in 1 .. n : s.most >= V[i]
  BY DEF SeriesOf, Extremes
<1>7. r = <<>> => n = 0
  OBVIOUS
<1>8. l \in Nat /\ m \in Nat /\ l <= us /\ m >= us /\ l <= s.least /\ m >= s.most
  BY <1>1, <1>2, <1>5
<1> HIDE DEF V, us, V1, l, m, r1, n
<1>9. /\ \E i \in 1 .. n + 1 : l = V1[i]
      /\ \E i \in 1 .. n + 1 : m = V1[i]
  <2>1. n + 1 \in 1 .. n + 1 /\ \A i \in 1 .. n : i \in 1 .. n + 1
    BY <1>1
  <2>2. CASE r = <<>>
    <3>1. l = us /\ m = us
      BY <1>1, <1>2, <1>5, <1>6, <2>2
    <3> QED BY <1>3, <2>1, <3>1
  <2>3. CASE r # <<>>
    <3>1. PICK i \in 1 .. n : s.least = V[i]
      BY <1>6, <2>3
    <3>2. PICK j \in 1 .. n : s.most = V[j]
      BY <1>6, <2>3
    <3>3. l = V1[n + 1] \/ l = V1[i]
      BY <1>3, <1>5, <3>1
    <3>4. m = V1[n + 1] \/ m = V1[j]
      BY <1>3, <1>5, <3>2
    <3> QED BY <2>1, <3>3, <3>4
  <2> QED BY <2>2, <2>3
<1>10. ASSUME NEW i \in 1 .. n + 1 PROVE l <= V1[i] /\ m >= V1[i]
  <2>1. CASE i = n + 1
    BY <1>3, <1>8, <2>1
  <2>2. CASE i # n + 1
    <3>1. i \in 1 .. n /\ r # <<>>
      BY <1>1, <1>7, <2>2
    <3>2. s.least <= V[i] /\ s.most >= V[i] /\ V1[i] = V[i] /\ V[i] \in Nat
      BY <1>2, <1>3, <1>6, <3>1
    <3> QED BY <1>1, <1>8, <3>2
  <2> QED BY <2>1, <2>2
<1>11. Extremes(Record(s, d), r1)
  BY <1>2, <1>4, <1>9, <1>10 DEF Extremes, l, m
<1> QED BY <1>8, <1>11 DEF l, m, r1

\* A series that holds the samples so far holds them with the next one.
LEMMA RecordKeeps ==
  ASSUME NEW s, NEW r, SeriesOf(s, r), NEW d \in Nat
  PROVE  SeriesOf(Record(s, d), Append(r, d))
<1> DEFINE t == Record(s, d)
<1>1. s \in Series /\ r \in Seq(Nat) /\ s.count = Len(r) /\ Len(r) \in Nat
  BY LenProperties DEF SeriesOf
<1>2. t.window \in Seq(Nat) /\ RingHolds(t, Append(r, d))
  BY RingKeeps
<1>3. t.least \in Nat /\ t.most \in Nat /\ Extremes(t, Append(r, d))
  BY ExtremesKeep
<1>4. t \in Series /\ t.count = s.count + 1 /\ t.sum = s.sum + Saturated(d)
  BY <1>1, <1>2, <1>3, RecordIs
<1>5. Append(r, d) \in Seq(Nat) /\ t.count = Len(Append(r, d))
  BY <1>1, <1>4, AppendProperties
<1>6. t.sum = FoldLeft(LAMBDA a, b : a + b, 0, SamplesOf(Append(r, d)))
  <2>1. /\ SamplesOf(r) \in Seq(Int) /\ Saturated(d) \in Int
        /\ SamplesOf(Append(r, d)) = Append(SamplesOf(r), Saturated(d))
    <3>1. SamplesOf(r) \in Seq(Nat) /\ Saturated(d) \in 0 .. Longest
      BY <1>1, SamplesAre
    <3>2. SamplesOf(r) \in Seq(Int)
      <4> DEFINE v == SamplesOf(r)
      <4>1. v \in Seq(Nat)
        BY <3>1
      <4> HIDE DEF v
      <4>2. v \in Seq(Int)
        BY <4>1
      <4> QED BY <4>2 DEF v
    <3>3. Saturated(d) \in Int
      BY <3>1, SeriesAssumption
    <3> QED BY <1>1, <3>2, <3>3, SamplesAre
  <2>2. s.sum = FoldLeft(LAMBDA a, b : a + b, 0, SamplesOf(r))
    BY DEF SeriesOf
  <2>3. FoldLeft(LAMBDA a, b : a + b, 0, Append(SamplesOf(r), Saturated(d)))
          = FoldLeft(LAMBDA a, b : a + b, 0, SamplesOf(r)) + Saturated(d)
    BY <2>1, SumOfAppended
  <2> QED BY <1>4, <2>1, <2>2, <2>3
<1> QED BY <1>2, <1>3, <1>4, <1>5, <1>6 DEF SeriesOf

\* The ring holds the last samples, in some order.
LEMMA RingIsWindowed ==
  ASSUME SeriesOf(series, recorded), recorded # <<>>
  PROVE  /\ series.window \in Seq(Int) /\ Windowed \in Seq(Int) /\ Len(series.window) > 0
         /\ Shuffled(Windowed, series.window)
<1> DEFINE V == SamplesOf(recorded)
           n == Len(recorded)
           k == series.next
           w == series.window
           o == n - Cap
<1>1. /\ n \in Nat /\ n > 0 /\ recorded \in Seq(Nat) /\ k \in 0 .. Cap - 1
      /\ w \in Seq(Nat) /\ Cap \in Nat \ {0} /\ RingHolds(series, recorded)
  <2>1. series \in Series /\ recorded \in Seq(Nat) /\ RingHolds(series, recorded)
    BY DEF SeriesOf
  <2>2. n \in Nat /\ n > 0
    BY <2>1, LenProperties, EmptySeq
  <2>3. k \in 0 .. Cap - 1 /\ w \in Seq(Nat)
    BY <2>1 DEF Series
  <2> QED BY <2>1, <2>2, <2>3, SeriesAssumption
<1>2. V \in Seq(Nat) /\ Len(V) = n /\ Samples = V
  BY <1>1, SamplesAre DEF Samples, SamplesOf
<1>3. Windowed = SubSeq(V, n - Min({Cap, n}) + 1, n)
  BY <1>2 DEF Windowed, Latest
<1>4. /\ n < Cap => w = V
      /\ ~ (n < Cap) => /\ Len(w) = Cap
                        /\ \A i \in 1 .. Cap :
                             w[i] = V[IF i <= k THEN n - k + i ELSE n - Cap - k + i]
  BY <1>1 DEF RingHolds, SampleAt
<1>5. w \in Seq(Int) /\ V \in Seq(Int)
  <2>1. \A u \in Seq(Nat) : u \in Seq(Int)
    OBVIOUS
  <2> QED BY <1>1, <1>2, <2>1
<1> DEFINE N == 1 .. Len(w)
<1> HIDE DEF V, n, k, w
<1>6. CASE n < Cap
  <2>1. Min({Cap, n}) = n
    <3>1. {Cap, n} \in SUBSET Int /\ n \in {Cap, n} /\ \A t \in {Cap, n} : n <= t
      BY <1>1, <1>6
    <3> QED BY <3>1, SmallestIs
  <2>2. Windowed = V
    <3>1. n - n + 1 = 1
      BY <1>1
    <3>2. Windowed = SubSeq(V, 1, Len(V))
      BY <1>2, <1>3, <2>1, <3>1
    <3> QED BY <1>5, <3>2, SubSeqFull
  <2>3. w = V /\ Len(w) = n
    BY <1>2, <1>4, <1>6
  <2> DEFINE q == [j \in N |-> j]
  <2>4. q \in Bijection(N, N)
    <3>1. q \in [N -> N] /\ \A a, b \in N : q[a] = q[b] => a = b
      OBVIOUS
    <3>2. \A t \in N : \E s \in N : q[s] = t
      OBVIOUS
    <3> HIDE DEF q, N
    <3> QED BY <3>1, <3>2, Fun_IsBij
  <2>5. \A j \in N : w[j] = V[q[j]]
    BY <2>3
  <2> HIDE DEF q
  <2>6. \E r \in Bijection(N, N) : \A j \in N : w[j] = V[r[j]]
    BY <2>4, <2>5
  <2>7. Shuffled(V, w)
    BY <2>3, <2>6 DEF Shuffled
  <2> QED BY <1>1, <1>5, <2>2, <2>3, <2>7 DEF w
<1>7. CASE ~ (n < Cap)
  <2>0. o \in Nat /\ n - o = Cap /\ o \in 0 .. n
    BY <1>1, <1>7
  <2>1. Min({Cap, n}) = Cap
    <3>1. {Cap, n} \in SUBSET Int /\ Cap \in {Cap, n} /\ \A t \in {Cap, n} : Cap <= t
      BY <1>1, <1>7
    <3> QED BY <3>1, SmallestIs
  <2>2. /\ Windowed \in Seq(Int) /\ Len(Windowed) = Cap
        /\ \A j \in 1 .. Cap : Windowed[j] = V[o + j]
    <3>1. Windowed = SubSeq(V, o + 1, Len(V))
      BY <1>2, <1>3, <2>1
    <3> HIDE DEF o
    <3>2. /\ SubSeq(V, o + 1, Len(V)) \in Seq(Int)
          /\ Len(SubSeq(V, o + 1, Len(V))) = Len(V) - o
          /\ \A j \in 1 .. Len(V) - o : SubSeq(V, o + 1, Len(V))[j] = V[o + j]
      BY <1>2, <1>5, <2>0, SuffixFacts
    <3> QED BY <1>2, <2>0, <3>1, <3>2
  <2>3. /\ Len(w) = Cap /\ N = 1 .. Cap
        /\ \A i \in 1 .. Cap : w[i] = V[IF i <= k THEN n - k + i ELSE n - Cap - k + i]
    BY <1>4, <1>7
  <2> DEFINE q == [j \in N |-> IF j <= k THEN Cap - k + j ELSE j - k]
  <2>4. \A j \in N : q[j] = IF j <= k THEN Cap - k + j ELSE j - k
    OBVIOUS
  <2>5. \A j \in N : (IF j <= k THEN Cap - k + j ELSE j - k) \in N
    BY <1>1, <2>3
  <2>6. q \in [N -> N]
    BY <2>5
  <2> HIDE DEF q, N, o
  <2>7. ASSUME NEW a \in N, NEW b \in N, q[a] = q[b] PROVE a = b
    <3>1. q[a] = (IF a <= k THEN Cap - k + a ELSE a - k) /\ q[b] = (IF b <= k THEN Cap - k + b ELSE b - k)
      BY <2>4
    <3>2. (IF a <= k THEN Cap - k + a ELSE a - k) = (IF b <= k THEN Cap - k + b ELSE b - k)
      BY <2>7, <3>1
    <3>3. a \in 1 .. Cap /\ b \in 1 .. Cap
      BY <2>3
    <3> QED BY ONLY <1>1, <3>2, <3>3
  <2>8. ASSUME NEW t \in N PROVE \E s \in N : q[s] = t
    <3>1. t \in 1 .. Cap
      BY <2>3
    <3>2. CASE t <= Cap - k
      <4>1. t + k \in 1 .. Cap /\ ~ (t + k <= k) /\ (t + k) - k = t
        BY <1>1, <3>1, <3>2
      <4>2. t + k \in N /\ q[t + k] = t
        BY <2>3, <2>4, <4>1
      <4> QED BY <4>2
    <3>3. CASE t > Cap - k
      <4>1. t - (Cap - k) \in 1 .. Cap /\ t - (Cap - k) <= k /\ Cap - k + (t - (Cap - k)) = t
        BY <1>1, <3>1, <3>3
      <4>2. t - (Cap - k) \in N /\ q[t - (Cap - k)] = t
        BY <2>3, <2>4, <4>1
      <4> QED BY <4>2
    <3> QED BY <1>1, <3>1, <3>2, <3>3
  <2>9. q \in Bijection(N, N)
    BY <2>6, <2>7, <2>8, Fun_IsBij
  <2>10. ASSUME NEW j \in N PROVE w[j] = Windowed[q[j]]
    <3>1. j \in 1 .. Cap /\ q[j] \in 1 .. Cap
      BY <2>3, <2>6
    <3>2. q[j] = IF j <= k THEN Cap - k + j ELSE j - k
      BY <2>4
    <3>3. o + q[j] = IF j <= k THEN n - k + j ELSE n - Cap - k + j
      BY <1>1, <2>0, <3>1, <3>2
    <3> QED BY <2>2, <2>3, <3>1, <3>3
  <2>11. \E r \in Bijection(N, N) : \A j \in N : w[j] = Windowed[r[j]]
    BY <2>9, <2>10
  <2>12. Shuffled(Windowed, w)
    BY <2>2, <2>3, <2>11 DEF Shuffled
  <2> QED BY <1>1, <1>5, <2>2, <2>3, <2>12 DEF w
<1> QED BY <1>6, <1>7

\* What is recorded is a number: no frame is faster than the floor it is measured against.
LEMMA DelayIsNat ==
  ASSUME TransitInv', epoch' # {} PROVE delay' \in Nat
<1> DEFINE n == Len(mins')
           f == head' + 1
           last == mins'[n]
           front == mins'[f]
           transit == Transit(now', sent')
<1>1. mins' \in Seq(Entry) /\ n \in Nat /\ f \in 1 .. n /\ n \in 1 .. n /\ transit \in Int
      /\ f \in head' + 1 .. n /\ n \in head' + 1 .. n
  <2>1. mins' \in Seq(Entry) /\ head' \in 0 .. Len(mins') /\ head' < Len(mins')
    BY DEF TransitInv, Typed, EndsInLast
  <2>2. transit \in Int
    <3>1. now' \in Nat /\ sent' \in -MaxSent .. MaxSent /\ MaxSent \in Nat
      BY SizesAssumption DEF TransitInv, Typed
    <3>2. now' \in Nat /\ sent' \in Int
      BY <3>1
    <3> QED BY <3>2, TransitIs
  <2>3. Len(mins') \in Nat
    BY <2>1
  <2>4. f \in 1 .. n /\ n \in 1 .. n /\ f \in head' + 1 .. n /\ n \in head' + 1 .. n
    <3>1. n \in Nat /\ head' \in Nat /\ head' < n
      BY <2>1, <2>3
    <3>2. \A h, m \in Nat : h < m => /\ h + 1 \in 1 .. m /\ m \in 1 .. m
                                    /\ h + 1 \in h + 1 .. m /\ m \in h + 1 .. m
      OBVIOUS
    <3> HIDE DEF n
    <3> QED BY ONLY <3>1, <3>2
  <2> QED BY <2>1, <2>2, <2>3, <2>4
<1>2. last = [at |-> now', transit |-> transit] /\ delay' = transit - front.transit
  BY DEF TransitInv, EndsInLast, FloorIsFront
<1>3. front \in Entry
  BY <1>1, ElementOfSeq
<1>4. f = n \/ front.transit < last.transit
  BY <1>1 DEF TransitInv, Sorted, Alive
<1> HIDE DEF n, f, last, front, transit
<1>5. front.transit \in Int
  BY <1>3 DEF Entry
<1>6. last.transit = transit
  BY <1>2
<1>7. f = n => front.transit = transit
  BY <1>6 DEF front, last
<1>8. front.transit <= transit
  BY <1>1, <1>4, <1>5, <1>6, <1>7
<1> QED BY <1>1, <1>2, <1>5, <1>8

\* A series starts with no samples.
LEMMA NewSeriesHolds == SeriesOf(NewSeries, <<>>)
<1>1. /\ NewSeries \in Series /\ <<>> \in Seq(Nat) /\ Len(<<>>) = 0
      /\ NewSeries.next = 0 /\ NewSeries.window = <<>> /\ NewSeries.count = 0 /\ NewSeries.sum = 0
      /\ NewSeries.least = Longest /\ NewSeries.most = 0
  BY SeriesAssumption DEF NewSeries, Series
<1>2. SamplesOf(<<>>) = <<>>
  <2>1. SamplesOf(<<>>) \in Seq(Nat) /\ Len(SamplesOf(<<>>)) = 0
    BY <1>1, SamplesAre, 0 \in Nat
  <2> QED BY <2>1, EmptySeq
<1>3. RingHolds(NewSeries, <<>>) /\ Extremes(NewSeries, <<>>)
  BY <1>1, <1>2, SeriesAssumption DEF RingHolds, Extremes
<1>4. FoldLeft(LAMBDA a, b : a + b, 0, <<>>) = 0
  <2>1. <<>> \in Seq(Int) /\ 0 \in Int
    OBVIOUS
  <2> QED BY <2>1, SumOfAppended
<1> QED BY <1>1, <1>2, <1>3, <1>4 DEF SeriesOf

DelayInv == TransitInv /\ SeriesOf(series, recorded)

\* Both hold all along: what is recorded is what the tracker returned.
LEMMA DelayInvariant ==
  ASSUME NearEpoch PROVE DelaySpec => []DelayInv
<1>1. DelayInit => DelayInv
  BY TransitInit, NewSeriesHolds DEF DelayInit, DelayInv
<1>2. DelayInv /\ [DelayNext]_delayVars => DelayInv'
  <2> SUFFICES ASSUME DelayInv, [DelayNext]_delayVars PROVE DelayInv'
    OBVIOUS
  <2>0. TransitInv /\ SeriesOf(series, recorded)
    BY DEF DelayInv
  <2>1. CASE Decode
    <3>1. TransitInv'
      <4>1. [Next]_vars
        BY <2>1 DEF Decode, Next
      <4> QED BY <2>0, <4>1, TransitStep
    <3>2. epoch' # {}
      BY <2>1 DEF Decode, FirstFrame, Frame, Observe
    <3>3. delay' \in Nat
      BY <3>1, <3>2, DelayIsNat
    <3>4. CASE series' = Record(series, delay') /\ recorded' = Append(recorded, delay')
      <4>1. SeriesOf(Record(series, delay'), Append(recorded, delay'))
        BY <2>0, <3>3, RecordKeeps
      <4>2. SeriesOf(series', recorded')
        BY <3>4, <4>1
      <4> QED BY <3>1, <4>2 DEF DelayInv
    <3>5. CASE UNCHANGED <<series, recorded>>
      <4>1. SeriesOf(series', recorded')
        BY <2>0, <3>5
      <4> QED BY <3>1, <4>1 DEF DelayInv
    <3> QED BY <2>1, <3>4, <3>5 DEF Decode
  <2>2. CASE Reset
    <3>1. TransitInv'
      BY <2>0, <2>2, TransitStep DEF Reset
    <3>2. SeriesOf(series', recorded')
      BY <2>2, NewSeriesHolds DEF Reset
    <3> QED BY <3>1, <3>2 DEF DelayInv
  <2>3. CASE UNCHANGED delayVars
    <3>1. TransitInv'
      <4>1. UNCHANGED vars
        BY <2>3 DEF delayVars
      <4> QED BY <2>0, <4>1, TransitStep
    <3>2. SeriesOf(series', recorded')
      BY <2>0, <2>3 DEF delayVars
    <3> QED BY <3>1, <3>2 DEF DelayInv
  <2> QED BY <2>1, <2>2, <2>3 DEF DelayNext
<1> QED BY <1>1, <1>2, PTL DEF DelaySpec

\* So it is for the delays that are recorded, with the resets in between
\* (TransitTracker::observe, called by Pipeline::decode).
THEOREM RecordedIsReal ==
  ASSUME NearEpoch PROVE DelaySpec => []DelayIsReal
<1>1. DelayInv => TransitInv
  BY DEF DelayInv
<1> QED BY <1>1, FloorIsLeast, DelayInvariant, PTL

\* The numbers reported for the network delay are those of the samples, whatever the
\* selections leave behind and however often the ring went round: each percentile has its
\* rank among the last samples, and count, sum and extremes are of all since the reset
\* (LatencySeries::summary).
THEOREM SummaryIsAlwaysReal ==
  ASSUME NearEpoch PROVE DelaySpec => []SummaryIsReal
<1>1. DelayInv => SummaryIsReal
  <2> SUFFICES ASSUME DelayInv PROVE SummaryIsReal
    OBVIOUS
  <2>0. SeriesOf(series, recorded)
    BY DEF DelayInv
  <2>1. recorded \in Seq(Nat) /\ series.count = Len(recorded) /\ Len(recorded) \in Nat
    BY <2>0, LenProperties DEF SeriesOf
  <2> DEFINE V == SamplesOf(recorded)
  <2>2. Samples = V /\ V \in Seq(Nat) /\ Len(V) = Len(recorded)
    BY <2>1, SamplesAre, 0 \in Nat DEF Samples, SamplesOf
  <2>3. series.sum = FoldLeft(LAMBDA a, b : a + b, 0, Samples)
    BY <2>0, <2>2 DEF SeriesOf
  <2>4. ASSUME series.count > 0 PROVE recorded # <<>>
    BY <2>1, <2>4
  <2>5. ASSUME series.count > 0, NEW p \in Summaries(series), NEW k \in 1 .. 3
        PROVE  HasRank(Windowed, RankOf(Ranks[k], Len(Windowed)), p[k])
    <3>1. /\ series.window \in Seq(Int) /\ Windowed \in Seq(Int) /\ Len(series.window) > 0
          /\ Shuffled(Windowed, series.window)
      BY <2>0, <2>4, <2>5, RingIsWindowed
    <3>2. p[k] \in Int /\ HasRank(series.window, RankOf(Ranks[k], Len(series.window)), p[k])
      BY <3>1, SummariesRank
    <3>3. Len(series.window) = Len(Windowed)
      BY <3>1 DEF Shuffled
    <3>4. RankOf(Ranks[k], Len(Windowed)) \in Int
      <4>1. Len(Windowed) \in Nat \ {0}
        BY <3>1, <3>3, LenProperties
      <4>2. Ranks[k] \in 0 .. 100 /\ Ranks[k] \in Ranks[k] .. 100
        <5>1. Ranks \in Seq(0 .. 100) /\ k \in 1 .. Len(Ranks)
          BY SeriesAssumption
        <5>2. Ranks[k] \in 0 .. 100
          BY <5>1, ElementOfSeq
        <5>3. \A a \in 0 .. 100 : a \in a .. 100
          OBVIOUS
        <5> QED BY ONLY <5>2, <5>3
      <4>3. RankOf(Ranks[k], Len(Windowed)) \in 0 .. Len(Windowed) - 1
        BY ONLY <4>1, <4>2, RanksAscend
      <4> QED BY <4>3
    <3> QED BY <3>1, <3>2, <3>3, <3>4, ShuffledRank
  <2>6. ASSUME series.count > 0
        PROVE  series.least = Min(Range(Samples)) /\ series.most = Max(Range(Samples))
    <3> DEFINE n == Len(recorded)
               R == Range(V)
               l == series.least
               m == series.most
    <3>1. /\ \E i \in 1 .. n : l = V[i]
          /\ \A i \in 1 .. n : l <= V[i]
          /\ \E i \in 1 .. n : m = V[i]
          /\ \A i \in 1 .. n : m >= V[i]
      BY <2>0, <2>4, <2>6 DEF SeriesOf, Extremes
    <3>2. DOMAIN V = 1 .. n /\ \A i \in 1 .. n : V[i] \in Nat
      BY <2>2, ElementOfSeq
    <3> HIDE DEF V, n, l, m
    <3>3. R = {V[i] : i \in 1 .. n}
      BY <3>2 DEF Range
    <3>4. R \in SUBSET Int /\ l \in R /\ m \in R
      BY <3>1, <3>2, <3>3
    <3>5. (\A x \in R : l <= x) /\ (\A x \in R : x <= m)
      <4>1. \A i \in 1 .. n : V[i] <= m
        BY <3>1, <3>2, <3>4
      <4> QED BY <3>1, <3>3, <4>1
    <3> HIDE DEF R
    <3>6. Min(R) = l
      BY <3>4, <3>5, SmallestIs
    <3>7. Max(R) = m
      BY <3>4, <3>5, GreatestIs
    <3> QED BY <2>2, <3>6, <3>7 DEF R, l, m
  <2> QED BY <2>1, <2>3, <2>5, <2>6 DEF SummaryIsReal
<1> QED BY <1>1, DelayInvariant, PTL
=============================================================================
