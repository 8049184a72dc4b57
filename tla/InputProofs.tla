------------------------------- MODULE InputProofs -------------------------------
(***************************************************************************)
(* Proofs about a user's input on its way to the host, for every keyboard, *)
(* every fraction of a step and every width of a delta.  InputCapture:     *)
(* nothing is stuck at the host but what was let go of where the app       *)
(* forwards nothing, and no motion of a captured pointer is lost.          *)
(* ControlThread: the host is told the motion and the messages that were   *)
(* issued, in their order, a Stop leaves nothing behind, and the thread    *)
(* implements InputChannel.                                                *)
(***************************************************************************)
EXTENDS InputCapture, ControlThread, DataLemmas

-----------------------------------------------------------------------------
(* What is held. *)

\* Who holds what the host or the mask has.
Holders == down \cup stray

\* The host was told of keys and of named buttons only, and of nothing before the
\* session.
ToldOnly ==
  /\ hostDown \subseteq {Vk[k] : k \in Sendable} \cup Buttons
  /\ ~live /\ loop # "stopped" => hostDown = {}

StuckInv == NothingStuck /\ ToldOnly

\* A key or button that was let go of without a message.
LetGo(i) == down' = down \ {i} /\ stray' = Strayed(i)

\* What a message about a key or a button does, without a session too.
LEMMA Told ==
  ASSUME NEW v, NEW mask, NEW pressed \in BOOLEAN, Running, ToldOnly,
         Send(Key(v, mask, pressed)) \/ Send(Button(v, pressed))
  PROVE  /\ hostDown' \subseteq hostDown \cup {v}
         /\ ~live => hostDown' = {}
         /\ ~pressed => v \notin hostDown' /\ hostDown' \subseteq hostDown
<1>1. CASE live
  <2>1. Heard(Key(v, mask, pressed)) \/ Heard(Button(v, pressed))
    BY <1>1 DEF Send
  <2>2. hostDown' = IF pressed THEN hostDown \cup {v} ELSE hostDown \ {v}
    BY <2>1 DEF Heard, Key, Button
  <2> QED BY <1>1, <2>2
<1>2. CASE ~live
  <2>1. hostDown' = hostDown /\ hostDown = {}
    BY <1>2 DEF Send, SendNothing, Running, ToldOnly
  <2> QED BY <1>2, <2>1
<1> QED BY <1>1, <1>2

\* Messages about the pointer and the wheel change nothing of what is down.
LEMMA ToldOfMotion ==
  ASSUME NEW m, m.kind \in {"rel", "abs", "scroll"}, Send(m)
  PROVE  hostDown' = hostDown
BY DEF Send, Heard, SendNothing

\* What is let go of without a message is astray.
LEMMA LetGoKeeps ==
  ASSUME StuckInv, NEW i, LetGo(i), hostDown' = hostDown, modifiers' = modifiers,
         UNCHANGED <<loop, live>>
  PROVE  StuckInv'
<1>1. ASSUME NEW c \in hostDown
      PROVE  \E j \in (down \cup stray)' : CodeOf(j) = c
  <2>1. PICK j \in Holders : CodeOf(j) = c
    BY DEF StuckInv, NothingStuck, Holders
  <2>2. CASE j = i
    BY <2>1, <2>2 DEF LetGo, Strayed
  <2>3. CASE j # i
    BY <2>1, <2>3 DEF LetGo, Strayed, Holders
  <2> QED BY <2>2, <2>3
<1>2. ASSUME NEW m \in modifiers
      PROVE  \E j \in (down \cup stray)' : m \in BitOf(j)
  <2>1. PICK j \in Holders : m \in BitOf(j)
    BY DEF StuckInv, NothingStuck, Holders
  <2>2. CASE j = i
    BY <2>1, <2>2 DEF LetGo, Strayed
  <2>3. CASE j # i
    BY <2>1, <2>3 DEF LetGo, Strayed, Holders
  <2> QED BY <2>2, <2>3
<1>3. NothingStuck'
  BY <1>1, <1>2 DEF NothingStuck, CodeOf, BitOf, Sendable
<1> QED BY <1>3 DEF StuckInv, ToldOnly, Sendable

\* A step that changes nothing of it, or only what more is held.
LEMMA HeldKeeps ==
  ASSUME StuckInv, hostDown' = hostDown, modifiers' = modifiers,
         Holders \subseteq (down \cup stray)',
         live' = live, loop' = loop \/ loop # "stopped"
  PROVE  StuckInv'
<1>1. NothingStuck'
  BY DEF StuckInv, NothingStuck, Holders, CodeOf, BitOf, Sendable
<1> QED BY <1>1 DEF StuckInv, ToldOnly, Sendable

\* A message names something that is held, or is a release of it.
LEMMA ButtonDownKeeps ==
  ASSUME StuckInv, NEW b \in Buttons \cup OddButtons, ButtonDown(b)
  PROVE  StuckInv'
<1> USE DEF ButtonDown
<1>1. CASE grabbed /\ Named(b)
  <2>1. Send(Button(b, TRUE)) /\ modifiers' = modifiers /\ UNCHANGED <<live, loop, stray>>
        /\ down' = down \cup {b} /\ Running
    BY <1>1
  <2>2. hostDown' \subseteq hostDown \cup {b} /\ (~live => hostDown' = {})
    BY <2>1, Told DEF StuckInv
  <2>3. b \in Buttons /\ CodeOf(b) = b
    BY <1>1, NamesAssumption DEF Named, CodeOf, Sendable
  <2>4. NothingStuck'
    BY <2>1, <2>2, <2>3 DEF StuckInv, NothingStuck, CodeOf, BitOf, Sendable
  <2>5. ToldOnly'
    BY <2>1, <2>2, <2>3 DEF StuckInv, ToldOnly, Sendable
  <2> QED BY <2>4, <2>5 DEF StuckInv
<1>2. CASE ~(grabbed /\ Named(b))
  BY <1>2, HeldKeeps DEF SendNothing, Holders
<1> QED BY <1>1, <1>2

\* A named button that is released while the pointer is captured is released at the
\* host; another was never down there.
LEMMA ButtonUpKeeps ==
  ASSUME StuckInv, NEW b \in Buttons \cup OddButtons, ButtonUp(b)
  PROVE  StuckInv'
<1> USE DEF ButtonUp
<1>1. CASE ~grabbed
  BY <1>1, LetGoKeeps DEF LetGo, SendNothing, appVars
<1>2. CASE grabbed
  <2>1. CodeOf(b) = b /\ BitOf(b) = {}
    BY NamesAssumption DEF CodeOf, BitOf, Sendable
  <2>2. modifiers' = modifiers /\ UNCHANGED <<live, loop>> /\ Running
        /\ down' = down \ {b} /\ stray' = stray \ {b}
    BY <1>2 DEF appVars
  <2>3. b \notin hostDown' /\ hostDown' \subseteq hostDown /\ (~live => hostDown' = {})
    <3>1. CASE Named(b)
      BY <1>2, <3>1, <2>2, Told DEF StuckInv
    <3>2. CASE ~Named(b)
      <4>1. b \notin hostDown
        BY <3>2, NamesAssumption DEF Named, StuckInv, ToldOnly, Sendable, Codes
      <4> QED BY <1>2, <3>2, <4>1 DEF SendNothing, StuckInv, ToldOnly, Running
    <3> QED BY <3>1, <3>2
  <2>4. NothingStuck'
    BY <2>1, <2>2, <2>3 DEF StuckInv, NothingStuck, CodeOf, BitOf, Sendable
  <2> QED BY <2>2, <2>3, <2>4 DEF StuckInv, ToldOnly, Sendable
<1> QED BY <1>1, <1>2

\* A key the app keeps, or does not know, is nothing to the host.
LEMMA KeyQuiet ==
  ASSUME NEW k, NEW pressed, HandleKey(k, pressed), Kept(k) \/ k \notin Sendable
  PROVE  hostDown' = hostDown /\ modifiers' = modifiers
BY DEF HandleKey, Release, Toggle, Ignore, Forward, SendNothing

LEMMA KeyDownKeeps ==
  ASSUME StuckInv, NEW k \in Keys, KeyDown(k)
  PROVE  StuckInv'
<1> USE DEF KeyDown
<1>1. CASE Kept(k) \/ k \notin Sendable
  BY <1>1, KeyQuiet, HeldKeeps DEF Holders
<1>2. CASE ~Kept(k) /\ k \in Sendable
  <2>1. Forward(k, TRUE)
    BY <1>2 DEF HandleKey, Ignore
  <2>2. Send(Key(Vk[k], modifiers', TRUE)) /\ modifiers' = modifiers \cup BitOf(k)
        /\ down' = down \cup {k} /\ UNCHANGED <<live, loop, stray>> /\ Running
    BY <1>2, <2>1 DEF Forward, Tracked, BitOf
  <2>3. hostDown' \subseteq hostDown \cup {CodeOf(k)} /\ (~live => hostDown' = {})
    BY <1>2, <2>2, Told DEF StuckInv, CodeOf
  <2>4. NothingStuck'
    BY <2>2, <2>3 DEF StuckInv, NothingStuck, CodeOf, BitOf, Sendable
  <2> QED BY <1>2, <2>2, <2>3, <2>4 DEF StuckInv, ToldOnly, CodeOf
<1> QED BY <1>1, <1>2

LEMMA KeyUpKeeps ==
  ASSUME StuckInv, NEW k \in Keys, KeyUp(k)
  PROVE  StuckInv'
<1> USE DEF KeyUp
<1>1. CASE Kept(k)
  BY <1>1, KeyQuiet, LetGoKeeps DEF LetGo
<1>2. CASE ~Kept(k)
  <2>1. down' = down \ {k} /\ stray' = stray \ {k} /\ UNCHANGED <<live, loop>> /\ Running
    BY <1>2
  <2>2. CASE k \notin Sendable
    <3>1. CodeOf(k) = k /\ BitOf(k) = {} /\ k \notin hostDown
      BY <2>2, NamesAssumption DEF CodeOf, BitOf, Sendable, StuckInv, ToldOnly, Codes
    <3>2. hostDown' = hostDown /\ modifiers' = modifiers
      BY <2>2, KeyQuiet
    <3>3. NothingStuck'
      BY <2>1, <3>1, <3>2 DEF StuckInv, NothingStuck, CodeOf, BitOf, Sendable
    <3> QED BY <2>1, <3>2, <3>3 DEF StuckInv, ToldOnly, Sendable
  <2>3. CASE k \in Sendable
    <3>1. Forward(k, FALSE)
      BY <1>2, <2>3 DEF HandleKey, Ignore
    <3>2. Send(Key(Vk[k], modifiers', FALSE)) /\ modifiers' = modifiers \ BitOf(k)
      BY <2>3, <3>1 DEF Forward, Tracked, BitOf
    <3>3. CodeOf(k) \notin hostDown' /\ hostDown' \subseteq hostDown /\ (~live => hostDown' = {})
      BY <2>1, <2>3, <3>2, Told DEF StuckInv, CodeOf
    <3>4. NothingStuck'
      BY <2>1, <3>2, <3>3 DEF StuckInv, NothingStuck, CodeOf, BitOf, Sendable
    <3> QED BY <2>1, <3>3, <3>4 DEF StuckInv, ToldOnly, Sendable
  <2> QED BY <2>2, <2>3
<1> QED BY <1>1, <1>2

\* Every step keeps the invariant.
LEMMA StepKeepsHeld ==
  ASSUME StuckInv, [Next]_vars PROVE StuckInv'
<1> USE DEF appVars, handVars, SendNothing
<1>1. ASSUME Resumed \/ Exit PROVE StuckInv'
  BY <1>1, HeldKeeps DEF Resumed, Exit, Running, Holders
<1>2. ASSUME FocusLost \/ FocusGained \/ Frame \/ UNCHANGED vars PROVE StuckInv'
  BY <1>2, HeldKeeps DEF FocusLost, FocusGained, Frame, Ungrab, Holders, vars
<1>3. ASSUME NEW b \in Buttons \cup OddButtons, ButtonDown(b) \/ ButtonUp(b) PROVE StuckInv'
  BY <1>3, ButtonDownKeeps, ButtonUpKeeps
<1>4. ASSUME NEW axes, Wheel(axes) PROVE StuckInv'
  <2>1. hostDown' = hostDown
    <3>1. CASE axes = {}
      BY <1>4, <3>1 DEF Wheel
    <3>2. ASSUME NEW axis \in axes PROVE hostDown' = hostDown
      <4>1. Send(Scroll(axis))
        BY <1>4, <3>2 DEF Wheel
      <4>2. Scroll(axis).kind \in {"rel", "abs", "scroll"}
        BY DEF Scroll
      <4> QED BY <4>1, <4>2, ToldOfMotion
    <3> QED BY <3>1, <3>2
  <2> QED BY <1>4, <2>1, HeldKeeps DEF Wheel, Holders
<1>5. ASSUME NEW x \in Positions, NEW y \in Positions, CursorMoved(x, y) PROVE StuckInv'
  <2>1. hostDown' = hostDown
    BY <1>5, ToldOfMotion DEF CursorMoved, Abs
  <2> QED BY <1>5, <2>1, HeldKeeps DEF CursorMoved, Holders
<1>6. ASSUME NEW dx \in Deltas, NEW dy \in Deltas, MouseMotion(dx, dy) PROVE StuckInv'
  <2>1. hostDown' = hostDown
    BY <1>6, ToldOfMotion DEF MouseMotion, Rel
  <2> QED BY <1>6, <2>1, HeldKeeps DEF MouseMotion, Holders
<1>7. ASSUME NEW k \in Keys, KeyDown(k) \/ KeyUp(k) PROVE StuckInv'
  BY <1>7, KeyDownKeeps, KeyUpKeeps
<1>8. ASSUME NEW i, ReleasedElsewhere(i) PROVE StuckInv'
  BY <1>8, LetGoKeeps DEF ReleasedElsewhere, LetGo
<1>9. ASSUME NEW e, Resized(e) PROVE StuckInv'
  BY <1>9, HeldKeeps DEF Resized, Holders
<1>10. ASSUME SessionStarts \/ StopClient PROVE StuckInv'
  BY <1>10 DEF SessionStarts, StopClient, StuckInv, NothingStuck, ToldOnly, CodeOf, BitOf, Sendable
<1> QED
  BY <1>1, <1>2, <1>3, <1>4, <1>5, <1>6, <1>7, <1>8, <1>9, <1>10 DEF Next, Pointer, Keyboard

\* However keys, buttons, captures and focus come and go, the host holds nothing down that
\* nobody holds, but for what was let go of where the app forwards nothing.
THEOREM NothingIsStuck == Spec => []NothingStuck
<1>1. Init => StuckInv
  BY DEF Init, StuckInv, NothingStuck, ToldOnly
<1>2. StuckInv /\ [Next]_vars => StuckInv'
  BY StepKeepsHeld
<1>3. StuckInv => NothingStuck
  BY DEF StuckInv
<1> QED BY <1>1, <1>2, <1>3, PTL DEF Spec

-----------------------------------------------------------------------------
(* What is carried. *)

\* While the pointer is captured, what was reported and not sent is the remainder.
CarriedInv ==
  /\ rest \in Int \X Int
  /\ grabbed => owed = rest

LEMMA Difference ==
  ASSUME NEW a \in Int, NEW b \in Int, NEW c \in Int, a = b + c
  PROVE  a - b = c /\ a - c = b
OBVIOUS

\* Dropping the fraction of a positive number, and of any.
LEMMA FractionOfNat ==
  ASSUME NEW n \in Nat
  PROVE  n \div Fine \in Nat /\ n - Fine * (n \div Fine) \in 0 .. Fine - 1
<1>1. Fine \in Nat /\ Fine > 0
  BY ScaleAssumption
<1>2. n \div Fine \in Nat /\ n % Fine \in 0 .. Fine - 1
  BY <1>1
<1>3. n = Fine * (n \div Fine) + (n % Fine)
  BY <1>1
<1>4. Fine * (n \div Fine) \in Int
  BY <1>1, <1>2
<1> DEFINE q == n \div Fine  p == Fine * q  r == n % Fine
<1> HIDE DEF r, p, q
<1>5. n = p + r /\ p \in Int /\ r \in Int
  BY <1>1, <1>2, <1>3, <1>4 DEF r, p, q
<1>6. n - p = r
  BY <1>5, Difference
<1> QED BY <1>2, <1>6 DEF r, p, q

LEMMA Fraction ==
  ASSUME NEW n \in Int
  PROVE  Trunc(n) \in Int /\ n - Fine * Trunc(n) \in 1 - Fine .. Fine - 1
<1>1. Fine \in Nat /\ Fine > 0
  BY ScaleAssumption
<1>2. CASE n >= 0
  <2>1. n \div Fine \in Nat /\ n - Fine * (n \div Fine) \in 0 .. Fine - 1
    BY <1>2, FractionOfNat
  <2> QED BY <1>1, <1>2, <2>1 DEF Trunc
<1>3. CASE n < 0
  <2> DEFINE q == (-n) \div Fine
  <2>1. q \in Nat /\ -n - Fine * q \in 0 .. Fine - 1
    BY <1>3, FractionOfNat
  <2>2. Trunc(n) = -q
    BY <1>3 DEF Trunc
  <2> HIDE DEF q
  <2>3. Fine * (-q) = -(Fine * q) /\ Fine * q \in Int
    BY <1>1, <2>1
  <2> QED BY <1>1, <2>1, <2>2, <2>3
<1> QED BY <1>2, <1>3

\* take_whole: nothing is lost, and a step or more is kept only beside a full message.
LEMMA TakenWhole ==
  ASSUME NEW acc \in Int
  PROVE  LET t == TakeWhole(acc)
         IN  /\ t.steps \in Int /\ t.rest \in Int
             /\ acc = t.rest + Fine * t.steps
             /\ t.rest \in 1 - Fine .. Fine - 1 \/ t.steps \in {-Half, Half - 1}
<1> DEFINE whole == Trunc(acc)  steps == Clamp(whole, -Half, Half - 1)
<1>1. whole \in Int /\ acc - Fine * whole \in 1 - Fine .. Fine - 1
  BY Fraction
<1>2. Fine \in Nat /\ Half \in Nat
  BY ScaleAssumption
<1>3. steps \in Int /\ (steps = whole \/ steps \in {-Half, Half - 1})
  BY <1>1, <1>2 DEF Clamp
<1>4. TakeWhole(acc) = [steps |-> steps, rest |-> acc - Fine * steps]
  BY DEF TakeWhole
<1> HIDE DEF steps, whole
<1>5. Fine * steps \in Int
  BY <1>2, <1>3
<1> DEFINE sent == Fine * steps
<1>6. sent \in Int /\ acc - sent \in Int /\ acc = (acc - sent) + sent
  <2> HIDE DEF sent
  <2>1. sent \in Int
    BY <1>5 DEF sent
  <2> QED BY <2>1
<1> QED BY <1>1, <1>3, <1>4, <1>6

\* One axis of a motion.
AxisCarried(a) == owed'[a] \in 1 - Fine .. Fine - 1 \/ Full(a)

LEMMA MotionKeeps ==
  ASSUME CarriedInv, NEW dx \in Deltas, NEW dy \in Deltas, MouseMotion(dx, dy), grabbed
  PROVE  /\ CarriedInv' /\ owed' = rest'
         /\ AxisCarried(1) /\ AxisCarried(2)
<1> DEFINE x == TakeWhole(rest[1] + dx)  y == TakeWhole(rest[2] + dy)
<1>1. dx \in Int /\ dy \in Int /\ rest[1] \in Int /\ rest[2] \in Int /\ rest = <<rest[1], rest[2]>>
      /\ owed = rest
  BY MotionAssumption DEF CarriedInv
<1>2. /\ x.steps \in Int /\ x.rest \in Int /\ rest[1] + dx = x.rest + Fine * x.steps
      /\ x.rest \in 1 - Fine .. Fine - 1 \/ x.steps \in {-Half, Half - 1}
  BY <1>1, TakenWhole
<1>3. /\ y.steps \in Int /\ y.rest \in Int /\ rest[2] + dy = y.rest + Fine * y.steps
      /\ y.rest \in 1 - Fine .. Fine - 1 \/ y.steps \in {-Half, Half - 1}
  BY <1>1, TakenWhole
<1>4. /\ rest' = <<x.rest, y.rest>> /\ grabbed' = grabbed
      /\ IF x.steps # 0 \/ y.steps # 0
         THEN owed' = <<owed[1] + (dx - Fine * x.steps), owed[2] + (dy - Fine * y.steps)>>
         ELSE owed' = <<owed[1] + dx, owed[2] + dy>>
  BY DEF MouseMotion
<1> HIDE DEF x, y
<1>5. Fine * x.steps \in Int /\ Fine * y.steps \in Int /\ Fine * 0 = 0
  BY <1>2, <1>3, ScaleAssumption
<1>6. owed' = <<x.rest, y.rest>>
  <2> DEFINE p == Fine * x.steps  q == Fine * y.steps
  <2>1. p \in Int /\ q \in Int /\ rest[1] + dx = x.rest + p /\ rest[2] + dy = y.rest + q
    BY <1>2, <1>3, <1>5
  <2>2. (x.steps = 0 => p = 0) /\ (y.steps = 0 => q = 0)
    BY <1>5
  <2>3. IF x.steps # 0 \/ y.steps # 0
        THEN owed' = <<owed[1] + (dx - p), owed[2] + (dy - q)>>
        ELSE owed' = <<owed[1] + dx, owed[2] + dy>>
    BY <1>4
  <2> HIDE DEF p, q
  <2>4. rest[1] + (dx - p) = x.rest /\ rest[2] + (dy - q) = y.rest
    <3>1. x.rest \in Int /\ y.rest \in Int
      BY <1>2, <1>3
    <3>2. \A a, b, c, d \in Int : a + b = c + d => a + (b - d) = c
      OBVIOUS
    <3> QED BY <1>1, <2>1, <3>1, <3>2
  <2> QED BY <1>1, <2>2, <2>3, <2>4
<1>7. CarriedInv' /\ owed' = rest'
  BY <1>2, <1>3, <1>4, <1>6 DEF CarriedInv
<1>8. AxisCarried(1)
  BY <1>1, <1>2, <1>6 DEF AxisCarried, Full
<1>9. AxisCarried(2)
  BY <1>1, <1>3, <1>6 DEF AxisCarried, Full
<1> QED BY <1>7, <1>8, <1>9

\* A step other than motion changes nothing, or begins or ends a capture.
LEMMA OthersKeepCarried ==
  ASSUME CarriedInv,
         \/ UNCHANGED <<rest, owed>> /\ (grabbed' = grabbed \/ Ungrab)
         \/ Grab
  PROVE  /\ CarriedInv'
         /\ grabbed' => owed' = rest' /\ (owed' # owed => AxisCarried(1) /\ AxisCarried(2))
<1>1. CASE Grab
  <2>1. owed' = <<0, 0>> /\ rest' = <<0, 0>> /\ 0 \in 1 - Fine .. Fine - 1
    BY <1>1, ScaleAssumption DEF Grab
  <2> QED BY <2>1 DEF CarriedInv, AxisCarried
<1>2. CASE UNCHANGED <<rest, owed>> /\ (grabbed' = grabbed \/ Ungrab)
  BY <1>2 DEF CarriedInv, Ungrab
<1> QED BY <1>1, <1>2

\* What MotionCarried says of a step.
Carried == grabbed' => owed' = rest' /\ (owed' # owed => \A a \in 1 .. 2 : AxisCarried(a))

LEMMA StepCarries ==
  ASSUME CarriedInv, [Next]_vars PROVE CarriedInv' /\ Carried
<1> USE DEF appVars
<1> DEFINE Goal == CarriedInv' /\ Carried
           Same == UNCHANGED <<rest, owed>> /\ (grabbed' = grabbed \/ Ungrab)
<1>1. ASSUME Same \/ Grab PROVE Goal
  <2>1. \A a \in 1 .. 2 : a = 1 \/ a = 2
    OBVIOUS
  <2> QED BY <1>1, <2>1, OthersKeepCarried DEF Carried
<1>2. ASSUME NEW dx \in Deltas, NEW dy \in Deltas, MouseMotion(dx, dy) PROVE Goal
  <2>1. CASE grabbed
    <3>1. \A a \in 1 .. 2 : a = 1 \/ a = 2
      OBVIOUS
    <3> QED BY <1>2, <2>1, <3>1, MotionKeeps DEF Carried
  <2>2. CASE ~grabbed
    <3>1. Same
      BY <1>2, <2>2 DEF MouseMotion
    <3> QED BY <3>1, <1>1
  <2> QED BY <2>1, <2>2
<1>3. ASSUME NEW b \in Buttons \cup OddButtons, ButtonDown(b) \/ ButtonUp(b) PROVE Same \/ Grab
  BY <1>3 DEF ButtonDown, ButtonUp
<1>4. ASSUME NEW axes, Wheel(axes) PROVE Same
  BY <1>4 DEF Wheel
<1>5. ASSUME NEW x \in Positions, NEW y \in Positions, CursorMoved(x, y) PROVE Same
  BY <1>5 DEF CursorMoved
<1>6. ASSUME NEW k, NEW pressed, HandleKey(k, pressed) PROVE Same
  BY <1>6 DEF HandleKey, Release, Toggle, Forward, Ignore, Ungrab
<1>7. ASSUME NEW k \in Keys, KeyDown(k) \/ KeyUp(k) PROVE Same
  BY <1>6, <1>7 DEF KeyDown, KeyUp
<1>8. ASSUME NEW i, ReleasedElsewhere(i) PROVE Same
  BY <1>8 DEF ReleasedElsewhere
<1>9. ASSUME NEW e, Resized(e) PROVE Same
  BY <1>9 DEF Resized
<1>10. ASSUME \/ Resumed \/ FocusLost \/ FocusGained \/ Frame \/ SessionStarts \/ Exit
              \/ StopClient \/ UNCHANGED vars
       PROVE  Same
  BY <1>10 DEF Resumed, FocusLost, FocusGained, Frame, SessionStarts, Exit, StopClient, vars, Ungrab
<1> HIDE DEF Goal, Same
<1>11. Goal
  BY <1>1, <1>2, <1>3, <1>4, <1>5, <1>7, <1>8, <1>9, <1>10 DEF Next, Pointer, Keyboard
<1> QED BY <1>11 DEF Goal

\* No motion of a captured pointer is lost: what was reported and not sent is carried, and
\* is less than a step unless a full message was sent.
THEOREM MotionIsCarried == Spec => MotionCarried
<1>1. Init => CarriedInv
  BY DEF Init, CarriedInv
<1>2. CarriedInv /\ [Next]_vars => CarriedInv'
  BY StepCarries
<1>3. CarriedInv /\ [Next]_vars =>
        [ grabbed' => /\ owed' = rest'
                      /\ owed' # owed =>
                           \A a \in 1 .. 2 : owed'[a] \in 1 - Fine .. Fine - 1 \/ Full(a) ]_vars
  BY StepCarries DEF Carried, AxisCarried
<1> QED BY <1>1, <1>2, <1>3, PTL DEF Spec, MotionCarried

-----------------------------------------------------------------------------
(* What a sequence of messages says. *)

\* What is said: moves of any width, and other messages.
AnyMove   == [kind : {"move"}, dx : Int, dy : Int]
Utterance == AnyMove \cup Other
Command   == Utterance \cup {Stop}

\* f reads s as far as n.
Reads(f, s, n) == f = [i \in 0 .. n |-> IF i = 0 THEN <<>> ELSE Joined(f[i - 1], s[i])]

LEMMA ReadingExists ==
  ASSUME NEW s, NEW n \in Nat
  PROVE  \E f : Reads(f, s, n)
<1> DEFINE T == {i \in 0 .. n : \E f : Reads(f, s, i)}
<1>1. 0 \in T
  <2>1. Reads([i \in 0 .. 0 |-> <<>>], s, 0)
    BY DEF Reads
  <2> QED BY <2>1
<1>2. ASSUME NEW i \in 0 .. n - 1, i \in T PROVE i + 1 \in T
  <2>1. PICK f : Reads(f, s, i)
    BY <1>2
  <2> DEFINE g == [j \in 0 .. i + 1 |-> IF j = i + 1 THEN Joined(f[i], s[j]) ELSE f[j]]
  <2>2. \A j \in 0 .. i : f[j] = IF j = 0 THEN <<>> ELSE Joined(f[j - 1], s[j])
    BY <2>1 DEF Reads
  <2>3. ASSUME NEW j \in 0 .. i + 1
        PROVE  g[j] = IF j = 0 THEN <<>> ELSE Joined(g[j - 1], s[j])
    <3>1. CASE j = i + 1
      <4>1. j # 0 /\ j - 1 = i /\ j - 1 \in 0 .. i + 1 /\ j - 1 # i + 1
        BY <3>1
      <4>2. g[j - 1] = f[i]
        BY <4>1
      <4>3. g[j] = Joined(f[i], s[j])
        BY <3>1
      <4> QED BY <4>1, <4>2, <4>3
    <3>2. CASE j # i + 1
      <4>1. j \in 0 .. i
        BY <3>2
      <4>2. g[j] = f[j]
        BY <3>2
      <4>3. CASE j = 0
        BY <2>2, <4>1, <4>2, <4>3
      <4>4. CASE j # 0
        <5>1. j - 1 \in 0 .. i + 1 /\ j - 1 # i + 1
          BY <4>1, <4>4
        <5>2. g[j - 1] = f[j - 1]
          BY <5>1
        <5>3. f[j] = Joined(f[j - 1], s[j])
          BY <2>2, <4>1, <4>4
        <5> QED BY <4>2, <4>4, <5>2, <5>3
      <4> QED BY <4>3, <4>4
    <3> QED BY <3>1, <3>2
  <2>4. g = [j \in 0 .. i + 1 |-> g[j]]
    OBVIOUS
  <2> HIDE DEF g
  <2>5. Reads(g, s, i + 1)
    <3>1. [j \in 0 .. i + 1 |-> g[j]]
            = [j \in 0 .. i + 1 |-> IF j = 0 THEN <<>> ELSE Joined(g[j - 1], s[j])]
      BY <2>3
    <3> QED BY <2>4, <3>1 DEF Reads
  <2> QED BY <2>5
<1>3. n \in T
  <2> HIDE DEF T
  <2>1. \A i \in 0 .. n : i \in T
    BY <1>1, <1>2, SegmentInduction
  <2> QED BY <2>1
<1> QED BY <1>3

\* Two readings agree as far as what they read agrees.
LEMMA ReadingsAgree ==
  ASSUME NEW s, NEW t, NEW m \in Nat, NEW n \in Nat, NEW f, NEW g, Reads(f, s, m), Reads(g, t, n),
         m <= n, \A i \in 1 .. m : s[i] = t[i]
  PROVE  \A i \in 0 .. m : f[i] = g[i]
<1> DEFINE T == {i \in 0 .. m : f[i] = g[i]}
<1>0. /\ \A i \in 0 .. m : f[i] = IF i = 0 THEN <<>> ELSE Joined(f[i - 1], s[i])
      /\ \A i \in 0 .. n : g[i] = IF i = 0 THEN <<>> ELSE Joined(g[i - 1], t[i])
  BY DEF Reads
<1>1. 0 \in T
  <2>1. 0 \in 0 .. m /\ 0 \in 0 .. n /\ 0 \in 0 .. m
    OBVIOUS
  <2> QED BY <1>0, <2>1
<1>2. ASSUME NEW i \in 0 .. m - 1, i \in T PROVE i + 1 \in T
  <2>1. i + 1 \in 0 .. m /\ i + 1 \in 0 .. n /\ i + 1 \in 1 .. m /\ i + 1 # 0 /\ (i + 1) - 1 = i
    OBVIOUS
  <2>2. f[i + 1] = Joined(f[i], s[i + 1]) /\ g[i + 1] = Joined(g[i], t[i + 1])
    BY <1>0, <2>1
  <2>3. f[i] = g[i] /\ s[i + 1] = t[i + 1]
    BY <1>2, <2>1
  <2> QED BY <2>1, <2>2, <2>3
<1>3. \A i \in 0 .. m : i \in T
  <2> HIDE DEF T
  <2> QED BY <1>1, <1>2, SegmentInduction
<1> QED BY <1>3

\* The meaning is the end of any reading.
LEMMA MeaningIs ==
  ASSUME NEW s, Len(s) \in Nat, NEW f, Reads(f, s, Len(s))
  PROVE  Meaning(s) = f[Len(s)]
<1> DEFINE Sound(u) == u = [i \in 0 .. Len(s) |-> IF i = 0 THEN <<>> ELSE Joined(u[i - 1], s[i])]
<1> DEFINE upTo == CHOOSE u : Sound(u)
<1>1. Meaning(s) = upTo[Len(s)]
  BY DEF Meaning
<1>2. Sound(f)
  BY DEF Reads
<1>3. Sound(upTo)
  <2>1. \E u : Sound(u)
    BY <1>2
  <2> HIDE DEF Sound
  <2> QED BY <2>1
<1>4. Reads(upTo, s, Len(s))
  BY <1>3 DEF Reads
<1> HIDE DEF upTo
<1>5. \A i \in 0 .. Len(s) : upTo[i] = f[i]
  BY <1>4, ReadingsAgree
<1> QED BY <1>1, <1>5

\* One step further.
LEMMA ReadingGrows ==
  ASSUME NEW s, NEW t, NEW n \in Nat, NEW f, NEW g, Reads(f, s, n), Reads(g, t, n + 1),
         \A i \in 1 .. n : s[i] = t[i]
  PROVE  g[n + 1] = Joined(f[n], t[n + 1])
<1>1. n + 1 \in Nat /\ n <= n + 1 /\ n \in 0 .. n
  OBVIOUS
<1>2. \A i \in 0 .. n : f[i] = g[i]
  BY <1>1, ReadingsAgree
<1>3. n + 1 \in 0 .. n + 1 /\ n + 1 # 0 /\ (n + 1) - 1 = n
  OBVIOUS
<1>4. \A i \in 0 .. n + 1 : g[i] = IF i = 0 THEN <<>> ELSE Joined(g[i - 1], t[i])
  BY DEF Reads
<1>5. g[n + 1] = Joined(g[n], t[n + 1])
  BY <1>3, <1>4
<1> QED BY <1>1, <1>2, <1>5

LEMMA MeaningOfNothing == Meaning(<<>>) = <<>>
<1>1. Len(<<>>) = 0
  BY EmptySeq
<1>2. PICK f : Reads(f, <<>>, 0)
  BY ReadingExists
<1>3. f[0] = <<>>
  BY <1>2 DEF Reads
<1> QED BY <1>1, <1>2, <1>3, MeaningIs

\* What one message more adds.
LEMMA MeaningGrows ==
  ASSUME NEW S, NEW s \in Seq(S), NEW m \in S
  PROVE  Meaning(Append(s, m)) = Joined(Meaning(s), m)
<1> DEFINE n == Len(s)
<1> DEFINE t == Append(s, m)
<1>1. n \in Nat /\ n + 1 \in Nat /\ n <= n + 1 /\ Len(t) = n + 1 /\ t[n + 1] = m /\ \A i \in 1 .. n : s[i] = t[i]
  BY LenProperties, AppendProperties
<1> HIDE DEF n, t
<1>2. PICK f : Reads(f, s, n)
  BY <1>1, ReadingExists
<1>3. PICK g : Reads(g, t, n + 1)
  BY <1>1, ReadingExists
<1>4. g[n + 1] = Joined(f[n], m)
  BY <1>1, <1>2, <1>3, ReadingGrows
<1>6. Meaning(s) = f[n]
  BY <1>1, <1>2, MeaningIs DEF n
<1>7. Meaning(t) = g[n + 1]
  BY <1>1, <1>3, MeaningIs
<1> QED BY <1>4, <1>6, <1>7 DEF t

\* What is said later is understood from what is understood so far.
LEMMA MeaningGoesOn ==
  ASSUME NEW S, NEW a \in Seq(S), NEW b \in Seq(S), NEW c \in Seq(S), Meaning(a) = Meaning(b)
  PROVE  Meaning(a \o c) = Meaning(b \o c)
<1> DEFINE T == {k \in 0 .. Len(c) : Meaning(a \o SubSeq(c, 1, k)) = Meaning(b \o SubSeq(c, 1, k))}
<1>0. Len(c) \in Nat
  BY LenProperties
<1>1. 0 \in T
  <2>1. SubSeq(c, 1, 0) = <<>>
    BY SubSeqProperties, EmptySeq
  <2>2. a \o <<>> = a /\ b \o <<>> = b
    BY ConcatEmptySeq
  <2>3. Meaning(a \o SubSeq(c, 1, 0)) = Meaning(b \o SubSeq(c, 1, 0))
    BY <2>1, <2>2
  <2> QED BY <1>0, <2>3
<1>2. ASSUME NEW k \in 0 .. Len(c) - 1, k \in T PROVE k + 1 \in T
  <2> DEFINE d == SubSeq(c, 1, k)
  <2>1. k + 1 \in 1 .. Len(c) /\ c[k + 1] \in S
    BY <1>0, ElementOfSeq
  <2>2. d \in Seq(S)
    BY <2>1, <1>0, SubSeqProperties
  <2>3. SubSeq(c, 1, k + 1) = Append(d, c[k + 1])
    <3>1. /\ Len(SubSeq(c, 1, k + 1)) = k + 1 /\ Len(d) = k
          /\ \A i \in 1 .. k + 1 : SubSeq(c, 1, k + 1)[i] = c[i]
          /\ \A i \in 1 .. k : d[i] = c[i]
          /\ SubSeq(c, 1, k + 1) \in Seq(S)
      BY <2>1, <1>0, SubSeqProperties
    <3> HIDE DEF d
    <3>2. /\ Append(d, c[k + 1]) \in Seq(S) /\ Len(Append(d, c[k + 1])) = k + 1
          /\ \A i \in 1 .. k + 1 : Append(d, c[k + 1])[i] = c[i]
      BY <2>1, <2>2, <3>1, AppendProperties
    <3> QED BY <3>1, <3>2, SeqEqual, SMTT(30)
  <2> HIDE DEF d
  <2>4. /\ a \o Append(d, c[k + 1]) = Append(a \o d, c[k + 1])
        /\ b \o Append(d, c[k + 1]) = Append(b \o d, c[k + 1])
        /\ a \o d \in Seq(S) /\ b \o d \in Seq(S)
    <3>1. \A e \in Seq(S) : e \o Append(d, c[k + 1]) = Append(e \o d, c[k + 1]) /\ e \o d \in Seq(S)
      BY <2>1, <2>2, AppendBehind
    <3> QED BY <3>1
  <2>5. Meaning(a \o d) = Meaning(b \o d)
    BY <1>2 DEF d
  <2>6. /\ Meaning(a \o Append(d, c[k + 1])) = Joined(Meaning(a \o d), c[k + 1])
        /\ Meaning(b \o Append(d, c[k + 1])) = Joined(Meaning(b \o d), c[k + 1])
    BY <2>1, <2>4, MeaningGrows
  <2>7. Meaning(a \o SubSeq(c, 1, k + 1)) = Meaning(b \o SubSeq(c, 1, k + 1))
    BY <2>3, <2>5, <2>6
  <2> QED BY <2>1, <2>7
<1>3. Len(c) \in T
  <2> HIDE DEF T
  <2>1. \A i \in 0 .. Len(c) : i \in T
    BY <1>0, <1>1, <1>2, SegmentInduction
  <2> QED BY <1>0, <2>1
<1>4. SubSeq(c, 1, Len(c)) = c
  BY SubSeqFull
<1> QED BY <1>3, <1>4

\* What is understood is said in moves and other messages.
LEMMA JoinedType ==
  ASSUME NEW s \in Seq(Utterance), NEW m \in Command
  PROVE  Joined(s, m) \in Seq(Utterance)
<1>1. CASE m = Stop
  BY <1>1 DEF Joined
<1>2. CASE m # Stop /\ s # <<>> /\ IsMove(Last(s)) /\ IsMove(m)
  <2>1. Len(s) \in Nat \ {0} /\ Last(s) = s[Len(s)] /\ Last(s) \in Utterance
    BY <1>2, EmptySeq, ElementOfSeq DEF Last
  <2>2. Last(s) \in AnyMove /\ m \in AnyMove
    BY <1>2, <2>1 DEF IsMove, Utterance, Command, Other, Stop
  <2>3. Sum(Last(s), m) \in Utterance
    BY <2>2 DEF Sum, AnyMove, Utterance
  <2>4. Front(s) \in Seq(Utterance)
    BY <2>1, SubSeqProperties, ElementOfSeq, FrontFacts
  <2> QED BY <1>2, <2>3, <2>4, AppendProperties DEF Joined
<1>3. CASE m # Stop /\ ~(s # <<>> /\ IsMove(Last(s)) /\ IsMove(m))
  <2>1. m \in Utterance
    BY <1>3 DEF Command
  <2> QED BY <1>3, <2>1, AppendProperties DEF Joined
<1> QED BY <1>1, <1>2, <1>3

LEMMA MeaningType ==
  ASSUME NEW s \in Seq(Command)
  PROVE  Meaning(s) \in Seq(Utterance)
<1> DEFINE n == Len(s)
<1>0. n \in Nat /\ \A i \in 1 .. n : s[i] \in Command
  BY LenProperties, ElementOfSeq
<1> HIDE DEF n
<1>1. PICK f : Reads(f, s, n)
  BY <1>0, ReadingExists
<1> DEFINE T == {i \in 0 .. n : f[i] \in Seq(Utterance)}
<1>2. \A i \in 0 .. n : f[i] = IF i = 0 THEN <<>> ELSE Joined(f[i - 1], s[i])
  BY <1>1 DEF Reads
<1>3. 0 \in T
  <2>1. 0 \in 0 .. n /\ f[0] = <<>>
    BY <1>0, <1>2
  <2>2. <<>> \in Seq(Utterance)
    BY EmptySeq
  <2> QED BY <2>1, <2>2
<1>4. ASSUME NEW i \in 0 .. n - 1, i \in T PROVE i + 1 \in T
  <2>1. i + 1 \in 0 .. n /\ i + 1 \in 1 .. n /\ i + 1 # 0 /\ (i + 1) - 1 = i
    BY <1>0
  <2>2. f[i + 1] = Joined(f[i], s[i + 1])
    BY <1>2, <2>1
  <2>3. f[i] \in Seq(Utterance)
    BY <1>4
  <2> QED BY <1>0, <2>1, <2>2, <2>3, JoinedType
<1>5. n \in T
  <2> HIDE DEF T
  <2>1. \A i \in 0 .. n : i \in T
    BY <1>0, <1>3, <1>4, SegmentInduction
  <2> QED BY <1>0, <2>1
<1>6. Meaning(s) = f[n]
  BY <1>0, <1>1, MeaningIs DEF n
<1> QED BY <1>5, <1>6

\* Two moves in a row say the same as their sum.
LEMMA SumSaysTheSame ==
  ASSUME NEW s \in Seq(Utterance), NEW x \in AnyMove, NEW y \in AnyMove
  PROVE  Joined(Joined(s, x), y) = Joined(s, Sum(x, y))
<1>1. /\ IsMove(x) /\ IsMove(y) /\ IsMove(Sum(x, y)) /\ Sum(x, y) \in AnyMove
      /\ x # Stop /\ y # Stop /\ Sum(x, y) # Stop
  BY DEF IsMove, AnyMove, Sum, Stop
<1>2. CASE s # <<>> /\ IsMove(Last(s))
  <2> DEFINE z == Last(s)
  <2>1. Len(s) \in Nat \ {0} /\ z \in Utterance
    BY <1>2, EmptySeq, ElementOfSeq DEF Last
  <2>2. z \in AnyMove
    BY <1>2, <2>1 DEF IsMove, Utterance, Other
  <2>3. Front(s) \in Seq(Utterance)
    BY <2>1, FrontFacts
  <2> DEFINE a == Append(Front(s), Sum(z, x))
  <2>4. Sum(z, x) \in AnyMove /\ IsMove(Sum(z, x))
    BY <2>2 DEF Sum, AnyMove, IsMove
  <2>5. Sum(Sum(z, x), y) = Sum(z, Sum(x, y))
    BY <2>2 DEF Sum, AnyMove
  <2> HIDE DEF z
  <2>6. a \in Seq(Utterance) /\ a # <<>> /\ Last(a) = Sum(z, x) /\ Front(a) = Front(s)
    BY <2>3, <2>4, AppendedFacts DEF Utterance
  <2>7. Joined(s, x) = a
    BY <1>1, <1>2 DEF Joined, z
  <2>8. Joined(a, y) = Append(Front(s), Sum(Sum(z, x), y))
    <3> HIDE DEF a
    <3> QED BY <1>1, <2>4, <2>6 DEF Joined
  <2>9. Joined(s, Sum(x, y)) = Append(Front(s), Sum(z, Sum(x, y)))
    BY <1>1, <1>2 DEF Joined, z
  <2> QED BY <2>5, <2>7, <2>8, <2>9
<1>3. CASE ~(s # <<>> /\ IsMove(Last(s)))
  <2> DEFINE a == Append(s, x)
  <2>1. a # <<>> /\ Last(a) = x /\ Front(a) = s
    BY AppendedFacts DEF Utterance
  <2>2. Joined(s, x) = a
    BY <1>1, <1>3 DEF Joined
  <2> HIDE DEF a
  <2>3. Joined(a, y) = Append(s, Sum(x, y))
    BY <1>1, <2>1 DEF Joined
  <2>4. Joined(s, Sum(x, y)) = Append(s, Sum(x, y))
    BY <1>1, <1>3 DEF Joined
  <2> QED BY <2>2, <2>3, <2>4
<1> QED BY <1>2, <1>3

\* Messages are said, and are no Stop.
LEMMA MessagesAre ==
  /\ Low \in Int /\ High \in Int
  /\ Message \subseteq Utterance /\ Message \subseteq Command /\ Utterance \subseteq Command
  /\ Input \subseteq Message
  /\ \A m \in Message : m # Stop /\ (IsMove(m) => m \in Move)
  /\ Message \cup {Stop} \subseteq Command
<1>1. Low \in Int /\ High \in Int /\ Low = -Limit /\ High = Limit - 1 /\ Limit \in Nat \ {0}
      /\ Step \in 0 .. Limit - 1
  BY RangeAssumption DEF Low, High
<1>2. Move \subseteq AnyMove
  BY <1>1 DEF Move, AnyMove
<1>3. Input \subseteq Message
  BY <1>1 DEF Input, Message, Move
<1>4. \A m \in Message : m # Stop /\ (IsMove(m) => m \in Move)
  BY DEF Message, Move, Other, Stop, IsMove
<1> QED BY <1>1, <1>2, <1>3, <1>4 DEF Message, Utterance, Command

\* Folding keeps what is said, and stays within what a message can carry.
LEMMA FoldedSays ==
  ASSUME NEW a \in Seq(Command), NEW b \in Seq(Message), NEW m \in Message
  PROVE  /\ Folded(b, m) \in Seq(Message)
         /\ Meaning(a \o Folded(b, m)) = Meaning(a \o Append(b, m))
<1>1. CASE b # <<>> /\ Merges(Last(b), m)
  <2> DEFINE f == Front(b)
             x == Last(b)
  <2>1. f \in Seq(Message) /\ x \in Message /\ b = Append(f, x)
    BY <1>1, FrontFacts
  <2> HIDE DEF f, x
  <2>2. x \in Move /\ m \in Move /\ x.dx + m.dx \in Low .. High /\ x.dy + m.dy \in Low .. High
    BY <1>1, <2>1, MessagesAre DEF Merges, x
  <2>3. Sum(x, m) \in Message
    BY <2>2 DEF Sum, Message, Move
  <2>4. Folded(b, m) = Append(f, Sum(x, m))
    BY <1>1 DEF Folded, f, x
  <2>5. Folded(b, m) \in Seq(Message)
    BY <2>1, <2>3, <2>4, AppendProperties
  <2>6. f \in Seq(Command) /\ x \in Command /\ m \in Command /\ Sum(x, m) \in Command
        /\ b \in Seq(Command)
    BY <2>1, <2>3, MessagesAre, SeqMonotonic
  <2>7. x \in AnyMove /\ m \in AnyMove
    BY <2>2, MessagesAre DEF Move, AnyMove
  <2> DEFINE g == a \o f
  <2>8. g \in Seq(Command) /\ a \o Append(f, Sum(x, m)) = Append(g, Sum(x, m)) /\ a \o b = Append(g, x)
    BY <2>1, <2>6, AppendBehind
  <2>9. a \o Append(b, m) = Append(Append(g, x), m)
    <3>1. a \o Append(b, m) = Append(a \o b, m)
      BY <2>6, AppendBehind
    <3> QED BY <2>8, <3>1
  <2> HIDE DEF g
  <2>10. Append(g, x) \in Seq(Command)
    BY <2>6, <2>8, AppendProperties
  <2>11. Meaning(Append(Append(g, x), m)) = Joined(Meaning(Append(g, x)), m)
    BY <2>6, <2>10, MeaningGrows
  <2>12. Meaning(Append(g, x)) = Joined(Meaning(g), x)
    BY <2>6, <2>8, MeaningGrows
  <2>13. Meaning(Append(g, Sum(x, m))) = Joined(Meaning(g), Sum(x, m))
    BY <2>6, <2>8, MeaningGrows
  <2>14. Meaning(g) \in Seq(Utterance)
    BY <2>8, MeaningType
  <2>15. Joined(Joined(Meaning(g), x), m) = Joined(Meaning(g), Sum(x, m))
    BY <2>7, <2>14, SumSaysTheSame
  <2> QED BY <2>4, <2>5, <2>8, <2>9, <2>11, <2>12, <2>13, <2>15
<1>2. CASE ~(b # <<>> /\ Merges(Last(b), m))
  BY <1>2, AppendProperties DEF Folded
<1> QED BY <1>1, <1>2

-----------------------------------------------------------------------------
(* The control thread. *)

\* Where messages are, where the thread is.
ControlTypes ==
  /\ cmds \in Seq(Message \cup {Stop}) /\ batch \in Seq(Message) /\ wire \in Seq(Message)
  /\ issued \in Seq(Message)
  /\ thread \in {"receive", "drain", "send", "service", "gone"}
  /\ stopping \in BOOLEAN /\ ended \in BOOLEAN /\ dropped \in BOOLEAN

NoStop(s) == \A i \in 1 .. Len(s) : s[i] # Stop

\* The end is said once and taken once, and between rounds there is nothing in hand.
StopInv ==
  /\ ~dropped => NoStop(cmds)
  /\ \A i, j \in 1 .. Len(cmds) : cmds[i] = Stop /\ cmds[j] = Stop => i = j
  /\ stopping => dropped /\ NoStop(cmds) /\ thread \in {"drain", "send", "gone"}
  /\ thread \in {"receive", "service"} => batch = <<>>
  /\ thread = "gone" /\ ~ended => stopping /\ batch = <<>>

SaysTheSame == Meaning((wire \o batch) \o cmds) = Meaning(issued)

ControlInv == ControlTypes /\ StopInv /\ SaysTheSame

\* The queue without its first command.
LEMMA QueueTaken ==
  ASSUME ControlTypes, cmds # <<>>, SaysTheSame
  PROVE  /\ Tail(cmds) \in Seq(Message \cup {Stop}) /\ Head(cmds) \in Message \cup {Stop}
         /\ Head(cmds) = cmds[1] /\ Len(Tail(cmds)) = Len(cmds) - 1 /\ Len(cmds) \in Nat \ {0}
         /\ \A i \in 1 .. Len(Tail(cmds)) : Tail(cmds)[i] = cmds[i + 1]
         /\ Head(cmds) = Stop => Meaning((wire \o batch) \o Tail(cmds)) = Meaning(issued)
         /\ Head(cmds) # Stop =>
              /\ Meaning((wire \o Append(batch, Head(cmds))) \o Tail(cmds)) = Meaning(issued)
              /\ Meaning((wire \o Folded(batch, Head(cmds))) \o Tail(cmds)) = Meaning(issued)
              /\ Folded(batch, Head(cmds)) \in Seq(Message)
<1> DEFINE m == Head(cmds)
           left == Tail(cmds)
           a == wire \o batch
<1>1. Len(cmds) \in Nat \ {0} /\ m = cmds[1]
  BY EmptySeq DEF ControlTypes
<1>2. /\ left \in Seq(Message \cup {Stop}) /\ m \in Message \cup {Stop}
      /\ Len(left) = Len(cmds) - 1 /\ \A i \in 1 .. Len(left) : left[i] = cmds[i + 1]
  BY HeadTailProperties DEF ControlTypes
<1>3. /\ wire \in Seq(Command) /\ batch \in Seq(Command) /\ cmds \in Seq(Command)
      /\ left \in Seq(Command) /\ m \in Command /\ batch \in Seq(Message)
  BY <1>2, MessagesAre, SeqMonotonic DEF ControlTypes
<1>4. a \in Seq(Command)
  BY <1>3, ConcatProperties
<1>5. a \o cmds = Append(a, m) \o left /\ Append(a, m) \in Seq(Command)
  BY <1>3, <1>4, HeadMoves, SMTT(30)
<1>6. wire \o Append(batch, m) = Append(a, m)
  BY <1>3, AppendBehind
<1>7. Meaning(a \o cmds) = Meaning(issued)
  BY DEF SaysTheSame
<1> HIDE DEF m, left, a
<1>8. ASSUME m = Stop PROVE Meaning(a \o left) = Meaning(issued)
  <2>1. Meaning(Append(a, m)) = Joined(Meaning(a), m)
    BY <1>3, <1>4, MeaningGrows
  <2>2. Meaning(Append(a, m)) = Meaning(a)
    BY <1>8, <2>1 DEF Joined
  <2>3. Meaning(Append(a, m) \o left) = Meaning(a \o left)
    BY <1>3, <1>4, <1>5, <2>2, MeaningGoesOn, ZenonT(40)
  <2> QED BY <1>5, <1>7, <2>3
<1>9. ASSUME m # Stop
      PROVE  /\ Meaning((wire \o Append(batch, m)) \o left) = Meaning(issued)
             /\ Meaning((wire \o Folded(batch, m)) \o left) = Meaning(issued)
             /\ Folded(batch, m) \in Seq(Message)
  <2>1. m \in Message
    BY <1>2, <1>9
  <2>2. Folded(batch, m) \in Seq(Message)
        /\ Meaning(wire \o Folded(batch, m)) = Meaning(wire \o Append(batch, m))
    BY <1>3, <2>1, FoldedSays
  <2>3. Meaning((wire \o Append(batch, m)) \o left) = Meaning(issued)
    BY <1>5, <1>6, <1>7
  <2>4. Folded(batch, m) \in Seq(Command)
    BY <2>2, MessagesAre, SeqMonotonic
  <2>5. wire \o Folded(batch, m) \in Seq(Command) /\ wire \o Append(batch, m) \in Seq(Command)
    BY <1>3, <1>5, <1>6, <2>4, ConcatProperties
  <2>6. Meaning((wire \o Folded(batch, m)) \o left) = Meaning((wire \o Append(batch, m)) \o left)
    BY <1>3, <2>2, <2>5, MeaningGoesOn
  <2> QED BY <2>2, <2>3, <2>6
<1> QED BY <1>1, <1>2, <1>8, <1>9 DEF m, left, a

LEMMA ControlStarts == ControlInit => ControlInv
<1> SUFFICES ASSUME ControlInit PROVE ControlInv
  OBVIOUS
<1>1. ControlTypes
  BY EmptySeq DEF ControlInit, ControlTypes
<1>2. StopInv
  BY EmptySeq DEF ControlInit, StopInv, NoStop
<1>3. (wire \o batch) \o cmds = issued
  <2>1. <<>> \in Seq(Message)
    BY EmptySeq
  <2>2. <<>> \o <<>> = <<>>
    BY <2>1, ConcatEmptySeq
  <2> QED BY <2>2 DEF ControlInit
<1> QED BY <1>1, <1>2, <1>3 DEF ControlInv, SaysTheSame

LEMMA IssueKeeps ==
  ASSUME ControlInv, NEW m \in Input, Issue(m) PROVE ControlInv'
<1>1. m \in Message /\ m # Stop
  BY MessagesAre
<1>2. /\ cmds \in Seq(Message \cup {Stop}) /\ issued \in Seq(Message) /\ Len(cmds) \in Nat
      /\ cmds' = Append(cmds, m) /\ issued' = Append(issued, m)
      /\ thread # "gone" /\ UNCHANGED <<batch, wire, thread, stopping, ended, dropped>>
  BY LenProperties DEF ControlInv, ControlTypes, Issue
<1>3. /\ cmds' \in Seq(Message \cup {Stop}) /\ issued' \in Seq(Message)
      /\ Len(cmds') = Len(cmds) + 1 /\ \A i \in 1 .. Len(cmds) : cmds'[i] = cmds[i]
      /\ cmds'[Len(cmds) + 1] = m
  BY <1>1, <1>2, AppendProperties
<1>4. ControlTypes'
  BY <1>2, <1>3 DEF ControlInv, ControlTypes
<1>5. StopInv'
  <2>1. \A i \in 1 .. Len(cmds') : cmds'[i] = Stop => i \in 1 .. Len(cmds) /\ cmds[i] = Stop
    BY <1>1, <1>2, <1>3
  <2>2. NoStop(cmds) => NoStop(cmds')
    BY <2>1 DEF NoStop
  <2> QED BY <1>2, <2>1, <2>2 DEF ControlInv, StopInv
<1>6. SaysTheSame'
  <2> DEFINE all == (wire \o batch) \o cmds
  <2>1. /\ wire \o batch \in Seq(Command) /\ cmds \in Seq(Command) /\ issued \in Seq(Command)
        /\ m \in Command
    <3>1. wire \in Seq(Command) /\ batch \in Seq(Command) /\ cmds \in Seq(Command)
          /\ issued \in Seq(Command)
      BY MessagesAre, SeqMonotonic DEF ControlInv, ControlTypes
    <3>2. wire \o batch \in Seq(Command)
      BY <3>1, ConcatProperties
    <3> QED BY <1>1, <3>1, <3>2, MessagesAre
  <2>2. (wire \o batch) \o Append(cmds, m) = Append(all, m) /\ all \in Seq(Command)
    BY <2>1, AppendBehind
  <2>3. Meaning(all) = Meaning(issued)
    BY DEF ControlInv, SaysTheSame
  <2> HIDE DEF all
  <2>4. Meaning(Append(all, m)) = Joined(Meaning(all), m)
    BY <2>1, <2>2, MeaningGrows
  <2>5. Meaning(Append(issued, m)) = Joined(Meaning(issued), m)
    BY <2>1, MeaningGrows
  <2>6. Meaning((wire \o batch) \o cmds') = Meaning(issued')
    BY <1>2, <2>2, <2>3, <2>4, <2>5
  <2> QED BY <1>2, <2>6 DEF SaysTheSame
<1> QED BY <1>4, <1>5, <1>6 DEF ControlInv

LEMMA DropKeeps ==
  ASSUME ControlInv, DropSession PROVE ControlInv'
<1>1. /\ cmds \in Seq(Message \cup {Stop}) /\ Len(cmds) \in Nat
      /\ ~dropped /\ dropped' = TRUE
      /\ UNCHANGED <<batch, wire, thread, stopping, ended, issued>>
  BY LenProperties DEF ControlInv, ControlTypes, DropSession
<1>2. CASE thread = "gone"
  <2>1. cmds' = cmds
    BY <1>2 DEF DropSession
  <2> QED BY <1>1, <1>2, <2>1 DEF ControlInv, ControlTypes, StopInv, SaysTheSame
<1>3. CASE thread # "gone"
  <2>1. cmds' = Append(cmds, Stop)
    BY <1>3 DEF DropSession
  <2>2. /\ cmds' \in Seq(Message \cup {Stop}) /\ Len(cmds') = Len(cmds) + 1
        /\ \A i \in 1 .. Len(cmds) : cmds'[i] = cmds[i]
    <3>1. Stop \in Message \cup {Stop}
      OBVIOUS
    <3> QED BY <1>1, <2>1, <3>1, AppendProperties
  <2>3. ControlTypes'
    BY <1>1, <2>2 DEF ControlInv, ControlTypes
  <2>4. StopInv'
    <3>1. NoStop(cmds) /\ ~stopping
      BY <1>1 DEF ControlInv, StopInv
    <3>2. \A i \in 1 .. Len(cmds') : cmds'[i] = Stop => i = Len(cmds) + 1
      BY <1>1, <2>2, <3>1 DEF NoStop
    <3> QED BY <1>1, <1>3, <3>1, <3>2 DEF ControlInv, StopInv
  <2>5. SaysTheSame'
    <3> DEFINE all == (wire \o batch) \o cmds
    <3>1. wire \o batch \in Seq(Command) /\ cmds \in Seq(Command) /\ Stop \in Command
      <4>1. wire \in Seq(Command) /\ batch \in Seq(Command) /\ cmds \in Seq(Command)
        BY MessagesAre, SeqMonotonic DEF ControlInv, ControlTypes
      <4> QED BY <4>1, ConcatProperties DEF Command
    <3>2. (wire \o batch) \o Append(cmds, Stop) = Append(all, Stop) /\ all \in Seq(Command)
      BY <3>1, AppendBehind
    <3>3. Meaning(all) = Meaning(issued)
      BY DEF ControlInv, SaysTheSame
    <3> HIDE DEF all
    <3>4. Meaning(Append(all, Stop)) = Meaning(all)
      BY <3>1, <3>2, MeaningGrows DEF Joined
    <3>5. Meaning((wire \o batch) \o cmds') = Meaning(issued)
      BY <2>1, <3>2, <3>3, <3>4
    <3> QED BY <1>1, <3>5 DEF SaysTheSame
  <2> QED BY <2>3, <2>4, <2>5 DEF ControlInv
<1> QED BY <1>2, <1>3

\* Taking a command, the first of a round or one that piled up.
LEMMA TakingKeeps ==
  ASSUME ControlInv, cmds # <<>>, thread' = "drain", cmds' = Tail(cmds),
         stopping' = (stopping \/ Head(cmds) = Stop),
         \/ Head(cmds) = Stop /\ batch' = batch
         \/ Head(cmds) # Stop /\ batch' \in {Folded(batch, Head(cmds)), Append(batch, Head(cmds))},
         UNCHANGED <<wire, ended, dropped, issued>>
  PROVE  ControlInv'
<1>1. ControlTypes /\ StopInv /\ SaysTheSame
  BY DEF ControlInv
<1> DEFINE m == Head(cmds)
<1>2. /\ cmds' \in Seq(Message \cup {Stop}) /\ m \in Message \cup {Stop}
      /\ m = cmds[1] /\ Len(cmds') = Len(cmds) - 1 /\ Len(cmds) \in Nat \ {0}
      /\ \A i \in 1 .. Len(cmds') : cmds'[i] = cmds[i + 1]
      /\ m = Stop => Meaning((wire \o batch) \o cmds') = Meaning(issued)
      /\ m # Stop =>
           /\ Meaning((wire \o Append(batch, m)) \o cmds') = Meaning(issued)
           /\ Meaning((wire \o Folded(batch, m)) \o cmds') = Meaning(issued)
           /\ Folded(batch, m) \in Seq(Message)
  BY <1>1, QueueTaken
<1>3. Meaning((wire \o batch') \o cmds') = Meaning(issued)
  BY <1>2
<1>4. batch' \in Seq(Message)
  <2>1. CASE m = Stop
    BY <1>1, <2>1 DEF ControlTypes
  <2>2. CASE m # Stop
    <3>1. m \in Message /\ batch \in Seq(Message)
      BY <1>1, <1>2, <2>2 DEF ControlTypes
    <3>2. Append(batch, m) \in Seq(Message)
      BY <3>1, AppendProperties
    <3> QED BY <1>2, <2>2, <3>2
  <2> QED BY <2>1, <2>2
<1>5. (stopping' = stopping \/ stopping') /\ (stopping' => stopping \/ m = Stop)
  BY <1>1 DEF ControlTypes
<1> HIDE DEF m
<1>6. ControlTypes'
  <2>1. stopping' \in BOOLEAN
    OBVIOUS
  <2> QED BY <1>1, <1>2, <1>4, <2>1 DEF ControlTypes
<1>7. StopInv'
  <2>1. \A i \in 1 .. Len(cmds') : i + 1 \in 1 .. Len(cmds) /\ i + 1 # 1
    BY <1>2
  <2>2. 1 \in 1 .. Len(cmds)
    BY <1>2
  <2>3. NoStop(cmds) => NoStop(cmds') /\ m # Stop
    BY <1>2, <2>1, <2>2 DEF NoStop
  <2>4. m = Stop => NoStop(cmds') /\ dropped
    BY <1>1, <1>2, <2>1, <2>2, <2>3 DEF NoStop, StopInv
  <2>5. \A i, j \in 1 .. Len(cmds') : cmds'[i] = Stop /\ cmds'[j] = Stop => i = j
    <3>1. ASSUME NEW i \in 1 .. Len(cmds'), NEW j \in 1 .. Len(cmds'), cmds'[i] = Stop, cmds'[j] = Stop
          PROVE  i = j
      <4>1. cmds[i + 1] = Stop /\ cmds[j + 1] = Stop
        BY <1>2, <3>1
      <4>2. i + 1 = j + 1
        BY <1>1, <2>1, <4>1 DEF StopInv
      <4> QED BY <4>2
    <3> QED BY <3>1
  <2>6. ~dropped' => NoStop(cmds')
    BY <1>1, <2>3 DEF StopInv
  <2>7. stopping' => dropped' /\ NoStop(cmds')
    BY <1>1, <1>5, <2>3, <2>4 DEF StopInv
  <2> QED BY <2>5, <2>6, <2>7 DEF StopInv
<1>8. SaysTheSame'
  BY <1>3 DEF SaysTheSame
<1> QED BY <1>6, <1>7, <1>8 DEF ControlInv

LEMMA SendKeeps ==
  ASSUME ControlInv, SendBatch PROVE ControlInv'
<1>1. /\ wire \in Seq(Message) /\ batch \in Seq(Message) /\ stopping \in BOOLEAN
      /\ wire' = wire \o batch /\ batch' = <<>>
      /\ thread = "send" /\ thread' = IF stopping THEN "gone" ELSE "service"
      /\ UNCHANGED <<cmds, stopping, ended, dropped, issued>>
  BY DEF ControlInv, ControlTypes, SendBatch
<1>2. wire' \in Seq(Message) /\ batch' \in Seq(Message) /\ wire' \o batch' = wire \o batch
  <2>1. wire \o batch \in Seq(Message)
    BY <1>1, ConcatProperties
  <2>2. (wire \o batch) \o <<>> = wire \o batch
    BY <2>1, ConcatEmptySeq
  <2> QED BY <1>1, <2>1, <2>2, EmptySeq
<1>3. ControlTypes'
  BY <1>1, <1>2 DEF ControlInv, ControlTypes
<1>4. StopInv'
  BY <1>1 DEF ControlInv, StopInv
<1>5. SaysTheSame'
  BY <1>1, <1>2 DEF ControlInv, SaysTheSame
<1> QED BY <1>3, <1>4, <1>5 DEF ControlInv

LEMMA ControlKeeps == ControlInv /\ [ControlNext]_controlVars => ControlInv'
<1> SUFFICES ASSUME ControlInv, [ControlNext]_controlVars PROVE ControlInv'
  OBVIOUS
<1> USE DEF ControlInv
<1>1. ASSUME NEW m \in Input, Issue(m) PROVE ControlInv'
  BY <1>1, IssueKeeps
<1>2. CASE DropSession
  BY <1>2, DropKeeps
<1>3. CASE Receive
  <2>1. CASE cmds = <<>>
    BY <1>3, <2>1 DEF Receive, ControlTypes, StopInv, SaysTheSame
  <2>2. CASE cmds # <<>>
    <3>1. ~stopping /\ stopping \in BOOLEAN
      BY <1>3 DEF Receive, StopInv, ControlTypes
    <3> QED BY <1>3, <2>2, <3>1, TakingKeeps DEF Receive
  <2> QED BY <2>1, <2>2
<1>4. CASE Drain
  BY <1>4, TakingKeeps DEF Drain
<1>5. CASE Drained
  BY <1>5 DEF Drained, ControlTypes, StopInv, SaysTheSame
<1>6. CASE SendBatch
  BY <1>6, SendKeeps
<1>7. CASE SendFails
  BY <1>7 DEF SendFails, ControlTypes, StopInv, SaysTheSame
<1>8. CASE Service
  BY <1>8 DEF Service, ControlTypes, StopInv, SaysTheSame
<1>9. CASE PollLost
  BY <1>9 DEF PollLost, ControlTypes, StopInv, SaysTheSame
<1>10. CASE UNCHANGED controlVars
  BY <1>10 DEF controlVars, ControlTypes, StopInv, SaysTheSame
<1> QED
  BY <1>1, <1>2, <1>3, <1>4, <1>5, <1>6, <1>7, <1>8, <1>9, <1>10 DEF ControlNext, Loop

\* Whatever is folded, wherever the overflow check splits a run and whenever the thread
\* takes what piled up, the host is told the motion and the messages that were issued, in
\* their order, in moves that fit their field (session.rs control_loop, input.rs
\* merge_mouse_rel).
THEOREM MotionIsPreserved == ControlSpec => []MotionPreserved
<1>1. ControlInv => MotionPreserved
  <2> SUFFICES ASSUME ControlInv PROVE MotionPreserved
    OBVIOUS
  <2>1. wire \o batch \in Seq(Message)
    BY ConcatProperties DEF ControlInv, ControlTypes
  <2>2. \A m \in Range(wire \o batch) : m \in Message
    BY <2>1, RangeOfSeq
  <2> QED BY <2>2 DEF MotionPreserved, ControlInv, SaysTheSame
<1> QED BY ControlStarts, ControlKeeps, <1>1, PTL DEF ControlSpec

\* A thread that ends without a failure has sent what was issued before the Stop, and no
\* Stop is left for it (control_loop sends the batch, then returns).
THEOREM StopLeavesNothing == ControlSpec => []StopSendsAll
<1>1. ControlInv => StopSendsAll
  <2> SUFFICES ASSUME ControlInv PROVE StopSendsAll
    OBVIOUS
  <2>1. DOMAIN cmds = 1 .. Len(cmds)
    BY LenProperties DEF ControlInv, ControlTypes
  <2> QED BY <2>1 DEF StopSendsAll, ControlInv, StopInv, NoStop
<1> QED BY ControlStarts, ControlKeeps, <1>1, PTL DEF ControlSpec

-----------------------------------------------------------------------------
(* The control thread is an InputChannel. *)

ChannelVars == <<batch \o cmds, wire, thread # "gone">>

\* What is waiting to be said, in hand and queued.
LEMMA WaitingType ==
  ASSUME ControlTypes
  PROVE  /\ batch \in Seq(Message \cup {Stop}) /\ cmds \in Seq(Message \cup {Stop})
         /\ batch \o cmds \in Seq(Message \cup {Stop})
         /\ Len(batch \o cmds) = Len(batch) + Len(cmds) /\ Len(batch) \in Nat /\ Len(cmds) \in Nat
         /\ \A i \in 1 .. Len(batch) : (batch \o cmds)[i] = batch[i] /\ batch[i] \in Message
         /\ DOMAIN (batch \o cmds) = 1 .. Len(batch) + Len(cmds)
<1>1. batch \in Seq(Message \cup {Stop}) /\ cmds \in Seq(Message \cup {Stop})
  BY SeqMonotonic DEF ControlTypes
<1>2. /\ batch \o cmds \in Seq(Message \cup {Stop})
      /\ Len(batch \o cmds) = Len(batch) + Len(cmds)
      /\ \A i \in 1 .. Len(batch) + Len(cmds) :
           (batch \o cmds)[i] = IF i <= Len(batch) THEN batch[i] ELSE cmds[i - Len(batch)]
  BY <1>1, ConcatProperties
<1>3. Len(batch) \in Nat /\ Len(cmds) \in Nat
  BY <1>1, LenProperties
<1>4. DOMAIN (batch \o cmds) = 1 .. Len(batch \o cmds)
  BY <1>2, LenProperties
<1>5. \A i \in 1 .. Len(batch) : batch[i] \in Message
  BY ElementOfSeq DEF ControlTypes
<1> QED BY <1>1, <1>2, <1>3, <1>4, <1>5

LEMMA SameRemoval ==
  ASSUME NEW s, NEW i PROVE Channel!RemoveAt(s, i) = RemoveAt(s, i)
BY DEF Channel!RemoveAt, RemoveAt

LEMMA TakingIsHeard ==
  ASSUME ControlInv, cmds # <<>>, thread \in {"receive", "drain"}, thread' = "drain",
         cmds' = Tail(cmds), wire' = wire,
         \/ Head(cmds) = Stop /\ batch' = batch
         \/ Head(cmds) # Stop /\ batch' = Append(batch, Head(cmds))
         \/ Head(cmds) # Stop /\ batch' = Folded(batch, Head(cmds))
  PROVE  [Channel!ChannelNext]_ChannelVars
<1> DEFINE S == Message \cup {Stop}
           m == Head(cmds)
           said == batch \o cmds
<1>1. /\ batch \in Seq(S) /\ cmds \in Seq(S) /\ said \in Seq(S)
      /\ Len(said) = Len(batch) + Len(cmds) /\ Len(batch) \in Nat /\ Len(cmds) \in Nat
      /\ DOMAIN said = 1 .. Len(batch) + Len(cmds)
  BY WaitingType DEF ControlInv
<1>2. m \in S /\ Tail(cmds) \in Seq(S) /\ said = Append(batch, m) \o Tail(cmds)
  BY <1>1, HeadMoves
<1>3. (thread # "gone") = TRUE /\ (thread # "gone")' = TRUE /\ (batch \o cmds)' = batch' \o Tail(cmds)
  OBVIOUS
<1>4. CASE m = Stop /\ batch' = batch
  <2>1. /\ RemoveAt(said, Len(batch) + 1) = batch \o Tail(cmds)
        /\ Len(batch) + 1 \in 1 .. Len(said) /\ said[Len(batch) + 1] = m
    BY <1>1, TakenOut
  <2>2. Channel!Notice(Len(batch) + 1)
    <3>1. said[Len(batch) + 1] = Channel!Stop
      BY <1>4, <2>1 DEF Stop, Channel!Stop
    <3>2. batch' \o Tail(cmds) = Channel!RemoveAt(said, Len(batch) + 1)
      BY <1>4, <2>1, SameRemoval
    <3> QED BY <1>3, <3>1, <3>2 DEF Channel!Notice
  <2>3. Len(batch) + 1 \in DOMAIN said
    BY <1>1, <2>1
  <2> QED BY <2>2, <2>3 DEF Channel!ChannelNext
<1>5. CASE m # Stop /\ batch' = Append(batch, m)
  BY <1>2, <1>3, <1>5 DEF ChannelVars
<1>6. CASE m # Stop /\ batch' = Folded(batch, m)
  <2>1. CASE ~(batch # <<>> /\ Merges(Last(batch), m))
    BY <1>2, <1>3, <1>6, <2>1 DEF ChannelVars, Folded
  <2>2. CASE batch # <<>> /\ Merges(Last(batch), m)
    <3> DEFINE f == Front(batch)
               x == Last(batch)
               n == Len(batch)
    <3>1. f \in Seq(Message) /\ x \in Message /\ batch = Append(f, x) /\ n = Len(f) + 1 /\ n \in Nat \ {0}
      <4>1. batch \in Seq(Message) /\ batch # <<>>
        BY <2>2 DEF ControlInv, ControlTypes
      <4>2. n \in Nat \ {0}
        BY <4>1, EmptySeq
      <4>3. f \in Seq(Message) /\ x \in Message /\ batch = Append(f, x) /\ Len(f) = n - 1
        BY <4>1, FrontFacts
      <4> HIDE DEF n, f, x
      <4> QED BY <4>2, <4>3
    <3>2. batch' = Append(f, Sum(x, m))
      BY <1>6, <2>2 DEF Folded
    <3> HIDE DEF f, x, n
    <3>3. /\ IsMove(x) /\ IsMove(m)
          /\ x.dx + m.dx \in Low .. High /\ x.dy + m.dy \in Low .. High
      BY <2>2 DEF Merges, x
    <3>4. m \in Message
      BY <1>2, <1>6
    <3>5. x \in Move /\ m \in Move
      BY <3>1, <3>3, <3>4, MessagesAre
    <3>6. Sum(x, m) \in Message
      BY <3>3, <3>5 DEF Sum, Message, Move
    <3>7. f \in Seq(S) /\ x \in S /\ Sum(x, m) \in S
      BY <3>1, <3>6, SeqMonotonic
    <3>8. said[n] = x /\ [said EXCEPT ![n] = Sum(x, m)] = Append(f, Sum(x, m)) \o cmds
      <4> DEFINE y == Sum(x, m)
      <4>1. cmds \in Seq(S) /\ f \in Seq(S) /\ x \in S /\ y \in S
        BY <1>1, <3>7
      <4> HIDE DEF S, y
      <4>2. /\ [(Append(f, x) \o cmds) EXCEPT ![Len(f) + 1] = y] = Append(f, y) \o cmds
            /\ (Append(f, x) \o cmds)[Len(f) + 1] = x
        BY <4>1, ReplacedAt
      <4>3. said = Append(f, x) \o cmds /\ n = Len(f) + 1
        BY <3>1
      <4> QED BY <4>2, <4>3 DEF y
    <3>9. RemoveAt(batch' \o cmds, n + 1) = batch' \o Tail(cmds)
      <4>1. batch' \in Seq(S) /\ Len(batch') = Len(f) + 1
        BY <3>2, <3>7, AppendProperties
      <4>2. RemoveAt(batch' \o cmds, Len(batch') + 1) = batch' \o Tail(cmds)
        BY <1>1, <4>1, TakenOut
      <4> QED BY <3>1, <4>1, <4>2
    <3>10. said[n + 1] = m /\ Len(cmds) # 0
      BY <1>1, TakenOut, EmptySeq DEF n
    <3>11. n \in 1 .. Len(said) - 1
      BY <1>1, <3>1, <3>10 DEF n
    <3>12. Channel!Fold(n)
      <4>1. Channel!Sum(said[n], said[n + 1]) = Sum(x, m)
        BY <3>8, <3>10 DEF Channel!Sum, Sum
      <4>2. Channel!InputMove(said[n]) /\ Channel!InputMove(said[n + 1])
            /\ Channel!Fits(said[n], said[n + 1])
        BY <3>3, <3>8, <3>10 DEF Channel!InputMove, Channel!Fits, IsMove
      <4>3. batch' \o Tail(cmds)
              = Channel!RemoveAt([said EXCEPT ![n] = Channel!Sum(said[n], said[n + 1])], n + 1)
        BY <3>2, <3>8, <3>9, <4>1, SameRemoval
      <4> QED BY <1>3, <4>2, <4>3 DEF Channel!Fold
    <3> QED BY <3>11, <3>12 DEF Channel!ChannelNext
  <2> QED BY <2>1, <2>2
<1> QED BY <1>4, <1>5, <1>6

LEMMA SayingIsSaid ==
  ASSUME ControlInv, NEW m \in Message \cup {Stop}, thread # "gone", cmds' = Append(cmds, m),
         UNCHANGED <<batch, wire, thread>>
  PROVE  Channel!ChannelNext
<1>1. batch \in Seq(Message \cup {Stop}) /\ cmds \in Seq(Message \cup {Stop})
  BY WaitingType DEF ControlInv
<1>2. batch \o Append(cmds, m) = Append(batch \o cmds, m)
  BY <1>1, AppendBehind
<1>3. (batch \o cmds)' = Append(batch \o cmds, m) /\ (thread # "gone")' = (thread # "gone")
  BY <1>2
<1>4. Channel!Say(m)
  BY <1>3 DEF Channel!Say
<1>5. m \in Channel!Message \cup {Channel!Stop}
  BY DEF Message, Move, Other, Stop, Channel!Message, Channel!Move, Channel!Other, Channel!Stop
<1> QED BY <1>4, <1>5 DEF Channel!ChannelNext

LEMMA SendingIsHeard ==
  ASSUME ControlInv, SendBatch PROVE Channel!ChannelNext
<1> DEFINE said == batch \o cmds
           n == Len(batch)
<1>1. /\ said \in Seq(Message \cup {Stop}) /\ Len(said) = n + Len(cmds) /\ n \in Nat /\ Len(cmds) \in Nat
      /\ batch \in Seq(Message \cup {Stop}) /\ cmds \in Seq(Message \cup {Stop})
      /\ \A i \in 1 .. n : said[i] = batch[i] /\ batch[i] \in Message
  BY WaitingType DEF ControlInv
<1>2. SubSeq(said, 1, n) = batch /\ SubSeq(said, n + 1, Len(said)) = cmds
  BY <1>1, ConcatParts
<1>3. /\ wire' = wire \o batch /\ (batch \o cmds)' = <<>> \o cmds
      /\ (thread # "gone") = TRUE /\ (thread # "gone")' \in BOOLEAN
  BY DEF SendBatch
<1>4. <<>> \o cmds = cmds
  BY <1>1, ConcatEmptySeq
<1>5. \A i \in 1 .. n : said[i] # Channel!Stop
  <2>1. Channel!Stop = Stop
    BY DEF Stop, Channel!Stop
  <2> QED BY <1>1, <2>1, MessagesAre
<1>6. Channel!Hear(n)
  BY <1>2, <1>3, <1>4, <1>5 DEF Channel!Hear
<1>7. n \in 0 .. Len(said)
  BY <1>1
<1> QED BY <1>6, <1>7 DEF Channel!ChannelNext

LEMMA ChannelStep ==
  ControlInv /\ [ControlNext]_controlVars => [Channel!ChannelNext]_ChannelVars
<1> SUFFICES ASSUME ControlInv, [ControlNext]_controlVars PROVE [Channel!ChannelNext]_ChannelVars
  OBVIOUS
<1>1. ASSUME NEW m \in Input, Issue(m) PROVE Channel!ChannelNext
  <2>1. m \in Message \cup {Stop}
    BY MessagesAre
  <2> QED BY <1>1, <2>1, SayingIsSaid DEF Issue
<1>2. CASE DropSession
  <2>1. CASE thread # "gone"
    <3>1. cmds' = Append(cmds, Stop) /\ UNCHANGED <<batch, wire, thread>> /\ Stop \in Message \cup {Stop}
      BY <1>2, <2>1 DEF DropSession
    <3>2. Channel!ChannelNext
      BY <2>1, <3>1, SayingIsSaid
    <3> QED BY <3>2
  <2>2. CASE thread = "gone"
    BY <1>2, <2>2 DEF DropSession, ChannelVars
  <2> QED BY <2>1, <2>2
<1>3. CASE Receive
  <2>1. CASE cmds = <<>>
    BY <1>3, <2>1 DEF Receive, ChannelVars
  <2>2. CASE cmds # <<>>
    <3>1. /\ thread = "receive" /\ thread' = "drain" /\ cmds' = Tail(cmds) /\ wire' = wire
          /\ \/ Head(cmds) = Stop /\ batch' = batch
             \/ Head(cmds) # Stop /\ batch' = Append(batch, Head(cmds))
      BY <1>3, <2>2 DEF Receive
    <3> QED BY <2>2, <3>1, TakingIsHeard
  <2> QED BY <2>1, <2>2
<1>4. CASE Drain
  <2>1. /\ thread = "drain" /\ thread' = "drain" /\ cmds # <<>> /\ cmds' = Tail(cmds) /\ wire' = wire
        /\ \/ Head(cmds) = Stop /\ batch' = batch
           \/ Head(cmds) # Stop /\ batch' = Folded(batch, Head(cmds))
    BY <1>4 DEF Drain
  <2> QED BY <2>1, TakingIsHeard
<1>5. CASE Drained
  BY <1>5 DEF Drained, ChannelVars
<1>6. CASE SendBatch
  BY <1>6, SendingIsHeard
<1>7. CASE SendFails
  <2>1. Channel!Close
    BY <1>7 DEF SendFails, Channel!Close
  <2> QED BY <2>1 DEF Channel!ChannelNext
<1>8. CASE Service
  BY <1>8 DEF Service, ChannelVars
<1>9. CASE PollLost
  <2>1. Channel!Close
    BY <1>9 DEF PollLost, Channel!Close
  <2> QED BY <2>1 DEF Channel!ChannelNext
<1>10. CASE UNCHANGED controlVars
  BY <1>10 DEF controlVars, ChannelVars
<1> QED
  BY <1>1, <1>2, <1>3, <1>4, <1>5, <1>6, <1>7, <1>8, <1>9, <1>10 DEF ControlNext, Loop

\* Queue, batch and folding are invisible: the thread is the reliable, ordered channel whose
\* one liberty is to join moves that follow one another (session.rs control_loop).
THEOREM ImplementsInputChannel == ControlSpec => KeepsOrder
<1>1. ControlInit => Channel!ChannelInit
  <2> SUFFICES ASSUME ControlInit PROVE Channel!ChannelInit
    OBVIOUS
  <2>1. <<>> \in Seq(Message)
    BY EmptySeq
  <2>2. <<>> \o <<>> = <<>>
    BY <2>1, ConcatEmptySeq
  <2> QED BY <2>2 DEF ControlInit, Channel!ChannelInit
<1> QED
  BY <1>1, ControlStarts, ControlKeeps, ChannelStep, PTL
     DEF ControlSpec, KeepsOrder, Channel!ChannelSpec, ChannelVars
=============================================================================
