----------------------------- MODULE TransitTracker -----------------------------
(***************************************************************************)
(* The network delay of a frame above the path's best case                 *)
(* (starfire-protocol metrics.rs, TransitTracker, as Pipeline::decode in   *)
(* client lib.rs feeds it).  A frame's transit is its arrival less the     *)
(* stamp its sender gave it, both counted from the first frame; its delay  *)
(* is its transit less the least one of the last WindowLen.  The least one *)
(* is kept in a queue of which only the entries from `head` on are alive.  *)
(* Stamps are ticks of the media clock, arrivals are nanoseconds, transits *)
(* and delays are microseconds.                                            *)
(***************************************************************************)
EXTENDS Integers, Sequences, FiniteSetsExt

CONSTANTS
  ClockRange,     \* the media clock counts modulo this (2^32)
  Hz,             \* its ticks in a second (90_000)
  Micro,          \* microseconds in a second
  Nano,           \* nanoseconds in a microsecond
  WindowLen,      \* how long a transit counts for the floor
  CompactAt,      \* dead entries from which on they may be dropped (64)
  Stamps,         \* stamps the first frame may carry
  SendSteps,      \* how far the sender's clock moves from one stamp to the next
  WaitSteps,      \* how far the client's clock moves between two frames
  MaxSent,        \* BOUND: how far the sender's clock gets from its first stamp
  MaxFrames       \* BOUND: frames observed

ASSUME ClockAssumption ==
  ClockRange \in Nat \ {0} /\ ClockRange % 2 = 0 /\ Stamps \subseteq 0 .. ClockRange - 1
ASSUME UnitsAssumption == {Hz, Micro, Nano} \subseteq Nat \ {0}
ASSUME SizesAssumption ==
  WindowLen \in Nat /\ CompactAt \in Nat \ {0} /\ MaxSent \in Nat /\ MaxFrames \in Nat
ASSUME StepsAssumption == SendSteps \subseteq Int /\ WaitSteps \subseteq Nat

VARIABLES
  epoch,     \* the first frame's stamp, in a set of at most one
  mins,      \* what `mins` holds: entries [at, transit]
  head,      \* how many of them are dead
  delay,     \* what the last observation returned
  now,       \* the client's clock at the last frame, from the first frame on
  sent,      \* the sender's clock at the last stamp, from the first one on
  seen       \* every frame's arrival and its real transit (history)

trackerVars == <<epoch, mins, head, delay>>
vars == <<trackerVars, now, sent, seen>>

Half  == ClockRange \div 2
Entry == [at : Nat, transit : Int]

-----------------------------------------------------------------------------
\* Ticks in microseconds, rounded toward 0.
Micros(ticks) ==
  IF ticks >= 0 THEN (ticks * Micro) \div Hz ELSE -((-ticks * Micro) \div Hz)

\* Mutant: the difference of two stamps is taken for an unsigned number.
DeltaUnsigned(earlier, later) == Micros((later - earlier) % ClockRange)

\* delta_us: the signed difference of two stamps, which is right if they are less than
\* half the clock's range apart.
Delta(earlier, later) ==
  LET d == (later - earlier) % ClockRange
  IN  Micros(IF d < Half THEN d ELSE d - ClockRange)

\* The transit of a frame stamped `ticks` after the first one by a clock that does not
\* wrap, and arrived `at` after it: each reading is rounded to microseconds.
Transit(at, ticks) == at \div Nano - Micros(ticks)

\* The dead entries once those too old at time `at` have left the front.
Evicted(at) ==
  Min({h \in head .. Len(mins) : h = Len(mins) \/ at - mins[h + 1].at <= WindowLen})

\* The entries left, of which the last h are alive, once those at the back that are no
\* less than the new transit are gone: they can never be the least one again.
Undercut(h, transit) ==
  Max({n \in h .. Len(mins) : n = h \/ mins[n].transit < transit})

\* The first n entries, of which h are dead; the dead ones are dropped when they are
\* many, and half of all.
Compacted(h, n) ==
  LET drop == h >= CompactAt /\ 2 * h >= n
  IN  [mins |-> SubSeq(mins, IF drop THEN h + 1 ELSE 1, n), head |-> IF drop THEN 0 ELSE h]

\* observe(): a frame arrives, stamped `stamp`, at time `at` of the first frame's clock.
\* The entry pushed is the frame's own, so the difference returned is never negative.
Observe(stamp, at) ==
  LET first   == IF epoch = {} THEN {stamp} ELSE epoch
      transit == at \div Nano - Delta(CHOOSE s \in first : TRUE, stamp)
      h       == Evicted(at)
      rest    == Compacted(h, Undercut(h, transit))
      queue   == Append(rest.mins, [at |-> at, transit |-> transit])
  IN  /\ epoch' = first
      /\ mins' = queue
      /\ head' = rest.head
      /\ delay' = transit - queue[rest.head + 1].transit

-----------------------------------------------------------------------------
(* The frames decode() is given: stamps drift and jitter, arrivals are in order. *)

FirstFrame ==
  /\ epoch = {}
  /\ \E stamp \in Stamps : Observe(stamp, 0)
  /\ seen' = {[at |-> 0, transit |-> 0]}
  /\ UNCHANGED <<now, sent>>

Frame ==
  /\ epoch # {} /\ Cardinality(seen) < MaxFrames
  /\ \E send \in SendSteps, wait \in WaitSteps, first \in epoch :
       /\ sent' = sent + send /\ sent' \in -MaxSent .. MaxSent
       /\ now' = now + wait
       /\ Observe((first + sent') % ClockRange, now')
       /\ seen' = seen \cup {[at |-> now', transit |-> Transit(now', sent')]}

Init ==
  /\ epoch = {} /\ mins = <<>> /\ head = 0 /\ delay = 0
  /\ now = 0 /\ sent = 0 /\ seen = {}

Next == FirstFrame \/ Frame

Spec == Init /\ [][Next]_vars

-----------------------------------------------------------------------------
(* Properties. *)

\* The types of the tracker; an entry is alive once a frame was seen, and the queue does
\* not grow with the dead: beyond CompactAt they are less than half of it.
TypeOK ==
  /\ epoch \subseteq 0 .. ClockRange - 1
  /\ mins \in Seq(Entry) /\ head \in 0 .. Len(mins)
  /\ (epoch = {} => mins = <<>>) /\ (epoch # {} => head < Len(mins))
  /\ head < CompactAt \/ 2 * head < Len(mins)
  /\ delay \in Int /\ now \in Nat /\ sent \in Int
  /\ seen \subseteq Entry

\* The real transits of the frames that count for the floor.
Recent == {f \in seen : now - f.at <= WindowLen}

\* The delay of a frame is "the extra delay this frame saw compared with the fastest
\* recent frame" (TransitTracker): its real transit, to the microsecond the clocks are read
\* to, less the least real one of the window, whatever the offset of the clocks, and
\* whether stamps wrap or not.
DelayIsReal ==
  epoch # {} => /\ \A f \in Recent : delay >= Transit(now, sent) - f.transit
                /\ \E f \in Recent : delay = Transit(now, sent) - f.transit
=============================================================================
