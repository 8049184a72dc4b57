------------------------------ MODULE InputCapture ------------------------------
(***************************************************************************)
(* The desktop app's event loop (app main.rs, App): the window's keyboard, *)
(* buttons, wheel and pointer become messages to the host.  A click        *)
(* captures the pointer, after which motion goes out as whole relative     *)
(* steps; Esc or the loss of focus releases it, after which the pointer's  *)
(* position goes out.  Messages reach the host in order once there is a    *)
(* session (ControlThread says how) and nowhere before.  What the operating*)
(* system and the host hold down is kept beside the app's own state.       *)
(***************************************************************************)
EXTENDS Integers, FiniteSets

CONSTANTS
  Keys,        \* the keyboard's keys, named as in Vk
  Buttons,     \* the buttons map_button knows
  OddButtons,  \* and those it does not
  Fine,        \* the smallest motion is 1 / Fine of a step
  Half,        \* a step count is in -Half .. Half - 1 (2^15 for an i16)
  Deltas,      \* motions an event reports on one axis, in units of 1 / Fine
  MaxRest,     \* BOUND: motion carried on one axis
  Positions,   \* places an event reports for the pointer, across and down
  Extents,     \* sizes the window may have
  MaxHeld,     \* BOUND: keys and buttons held at once
  Stream       \* the picture's extent, across and down

ASSUME ScaleAssumption  == Fine \in Nat \ {0} /\ Half \in Nat \ {0} /\ MaxRest \in Nat /\ MaxHeld \in Nat
ASSUME MotionAssumption == Deltas \subseteq Int /\ Positions \subseteq Int
ASSUME SizeAssumption   == Extents \subseteq Nat /\ Stream \in 0 .. Half - 1

VARIABLES
  loop,        \* "starting", "running", "exiting" or "stopped"
  grabbed, modifiers, fullscreen,
  streamSize,  \* stream_size is known
  rest,        \* rel_remainder, across and down
  extent,      \* the window's size
  live,        \* the client has a session to send to
  focused,     \* the window has the keyboard
  down,        \* keys and buttons that are held (the user's hands)
  hostDown,    \* keys and buttons the host was told are down, and not yet up
  stray,       \* those released where the app does not forward it (history)
  owed,        \* motion reported and not sent, since the last capture (history)
  aim          \* the place in the picture the host was told last, if no motion came since

appVars  == <<loop, grabbed, modifiers, fullscreen, streamSize, rest, extent>>
handVars == <<focused, down, stray>>
vars == <<appVars, live, handVars, hostDown, owed, aim>>

-----------------------------------------------------------------------------
(* Keys and messages. *)

\* vk_from_keycode: the code a key is sent as; one for both Shift keys.  A key that
\* is not here is not sent.
Vk == [shift_left |-> "shift", shift_right |-> "shift", super_left |-> "lwin",
       super_right |-> "rwin", letter |-> "letter", escape |-> "escape", f11 |-> "f11"]

Sendable == Keys \cap DOMAIN Vk

Codes == {Vk[k] : k \in DOMAIN Vk}

\* Buttons are no keys, and nothing that is not sent has the name of something that is.
ASSUME NamesAssumption ==
  /\ Buttons \cap OddButtons = {}
  /\ (Buttons \cup OddButtons) \cap (Keys \cup Codes) = {}
  /\ (Keys \ DOMAIN Vk) \cap Codes = {}

\* map_button knows the rest.
Named(b) == b \in Buttons

\* The bit of a code in the modifier mask: one for both Windows keys.
Bits   == [shift |-> "SHIFT", lwin |-> "META", rwin |-> "META"]
Bit(c) == IF c \in DOMAIN Bits THEN {Bits[c]} ELSE {}

\* track_modifier.
Tracked(vk, pressed) == IF pressed THEN modifiers \cup Bit(vk) ELSE modifiers \ Bit(vk)

Anywhere == <<>>

\* What an item is known as at the host, and the modifier it stands for.
CodeOf(i) == IF i \in Sendable THEN Vk[i] ELSE i
BitOf(i)  == IF i \in Sendable THEN Bit(Vk[i]) ELSE {}

\* An item is let go of without a message: it is astray if the host or the mask has it.
Strayed(i) == IF CodeOf(i) \in hostDown \/ BitOf(i) \cap modifiers # {} THEN stray \cup {i} ELSE stray

Key(vk, mask, pressed) == [kind |-> "key", id |-> vk, mask |-> mask, pressed |-> pressed]
Button(b, pressed)     == [kind |-> "button", id |-> b, pressed |-> pressed]
Rel(steps)             == [kind |-> "rel", steps |-> steps]
Abs(place)             == [kind |-> "abs", place |-> place]
Scroll(axis)           == [kind |-> "scroll", axis |-> axis]

\* What a message does at the host.
Heard(m) ==
  /\ hostDown' = CASE m.kind \in {"key", "button"} /\ m.pressed -> hostDown \cup {m.id}
                   [] m.kind \in {"key", "button"} /\ ~m.pressed -> hostDown \ {m.id}
                   [] OTHER -> hostDown
  /\ aim' = CASE m.kind = "abs" -> m.place
              [] m.kind = "rel" -> Anywhere
              [] OTHER -> aim

SendNothing == UNCHANGED <<hostDown, aim>>

\* App::send, and Client::send_input behind it.
Send(m) == IF live THEN Heard(m) ELSE SendNothing

-----------------------------------------------------------------------------
(* Motion. *)

Trunc(n)        == IF n >= 0 THEN n \div Fine ELSE -((-n) \div Fine)
Clamp(n, lo, hi) == IF n < lo THEN lo ELSE IF n > hi THEN hi ELSE n

\* Mutant: the fraction is forgotten.
TakeForgetting(acc) == [steps |-> Clamp(Trunc(acc), -Half, Half - 1), rest |-> 0]

\* take_whole.
TakeWhole(acc) ==
  LET whole == Clamp(Trunc(acc), -Half, Half - 1)
  IN  [steps |-> whole, rest |-> acc - Fine * whole]

\* The place in the picture of a place in the window, to the nearest pixel.
Scaled(at) == (2 * Clamp(at, 0, extent) * Stream + extent) \div (2 * extent)

-----------------------------------------------------------------------------
(* The window and its pointer. *)

Hands == {held \in SUBSET (Keys \cup Buttons \cup OddButtons) : Cardinality(held) <= MaxHeld}

Running == loop = "running"

\* resumed: the window and its renderer, or the end of the app.
Resumed ==
  /\ loop = "starting"
  /\ \/ loop' = "running" /\ fullscreen' \in BOOLEAN
     \/ loop' = "exiting" /\ UNCHANGED fullscreen
  /\ UNCHANGED <<grabbed, modifiers, streamSize, rest, extent, live, handVars, hostDown, owed, aim>>

Grab ==
  /\ grabbed' = TRUE
  /\ rest' = <<0, 0>> /\ owed' = <<0, 0>>

Ungrab == grabbed' = FALSE /\ UNCHANGED <<rest, owed>>

\* Focused(false); Focused(true) is not handled.
FocusLost ==
  /\ Running /\ focused /\ focused' = FALSE
  /\ Ungrab /\ SendNothing
  /\ UNCHANGED <<loop, modifiers, fullscreen, streamSize, extent, live, down, stray>>

FocusGained ==
  /\ Running /\ ~focused /\ focused' = TRUE
  /\ SendNothing /\ UNCHANGED <<appVars, live, down, stray, owed>>

\* MouseInput.  A press while the pointer is free captures it and is not forwarded; its
\* release is.
ButtonDown(b) ==
  /\ Running /\ focused /\ b \notin down
  /\ down' = down \cup {b} /\ down' \in Hands
  /\ IF grabbed THEN UNCHANGED <<grabbed, rest, owed>> ELSE Grab
  /\ IF grabbed /\ Named(b) THEN Send(Button(b, TRUE)) ELSE SendNothing
  /\ UNCHANGED <<loop, modifiers, fullscreen, streamSize, extent, live, focused, stray>>

\* Mutant: a release is never forwarded.
ButtonUpDropped(b) ==
  /\ Running /\ focused /\ b \in down
  /\ down' = down \ {b}
  /\ stray' = IF grabbed THEN stray \ {b} ELSE Strayed(b)
  /\ SendNothing
  /\ UNCHANGED <<appVars, live, focused, owed>>

ButtonUp(b) ==
  /\ Running /\ focused /\ b \in down
  /\ down' = down \ {b}
  /\ stray' = IF grabbed THEN stray \ {b} ELSE Strayed(b)
  /\ IF grabbed /\ Named(b) THEN Send(Button(b, FALSE)) ELSE SendNothing
  /\ UNCHANGED <<appVars, live, focused, owed>>

\* MouseWheel, whether or not the pointer is captured: a message for each axis that
\* turned, of which none changes what the host holds down or where it points.
Wheel(axes) ==
  /\ Running
  /\ \A axis \in axes : Send(Scroll(axis))
  /\ axes = {} => SendNothing
  /\ UNCHANGED <<appVars, live, handVars, owed>>

\* CursorMoved, send_abs_cursor.
CursorMoved(x, y) ==
  /\ Running
  /\ IF ~grabbed /\ streamSize /\ extent # 0 THEN Send(Abs(<<Scaled(x), Scaled(y)>>)) ELSE SendNothing
  /\ UNCHANGED <<appVars, live, handVars, owed>>

\* device_event: raw motion.
MouseMotion(dx, dy) ==
  /\ Running
  /\ LET x == TakeWhole(rest[1] + dx)
         y == TakeWhole(rest[2] + dy)
         moved == grabbed /\ (x.steps # 0 \/ y.steps # 0)
     IN  /\ {x.rest, y.rest} \subseteq -MaxRest .. MaxRest
         /\ rest' = IF grabbed THEN <<x.rest, y.rest>> ELSE rest
         /\ owed' = IF ~grabbed THEN owed
                    ELSE IF moved THEN <<owed[1] + dx - Fine * x.steps, owed[2] + dy - Fine * y.steps>>
                    ELSE <<owed[1] + dx, owed[2] + dy>>
         /\ IF moved THEN Send(Rel(<<x.steps, y.steps>>)) ELSE SendNothing
  /\ UNCHANGED <<loop, grabbed, modifiers, fullscreen, streamSize, extent, live, handVars>>

-----------------------------------------------------------------------------
(* The keyboard. *)

\* A key the app keeps to itself: Esc while the pointer is captured, pressed or
\* released, and F11.
Kept(k) == k = "f11" \/ (k = "escape" /\ grabbed)

Forward(k, pressed) ==
  /\ k \in Sendable
  /\ modifiers' = Tracked(Vk[k], pressed)
  /\ Send(Key(Vk[k], modifiers', pressed))
  /\ UNCHANGED <<grabbed, rest, owed, fullscreen>>

Ignore(k) ==
  /\ k \notin Sendable
  /\ SendNothing /\ UNCHANGED <<grabbed, modifiers, rest, owed, fullscreen>>

Release(k) ==
  /\ k = "escape" /\ Ungrab
  /\ SendNothing /\ UNCHANGED <<modifiers, fullscreen>>

\* set_fullscreen.
Toggle(k, pressed) ==
  /\ k = "f11" /\ fullscreen' = IF pressed THEN ~fullscreen ELSE fullscreen
  /\ SendNothing /\ UNCHANGED <<grabbed, modifiers, rest, owed>>

HandleKey(k, pressed) ==
  \/ Kept(k) /\ (Release(k) \/ Toggle(k, pressed))
  \/ ~Kept(k) /\ (Forward(k, pressed) \/ Ignore(k))

\* KeyboardInput; a held key repeats.
KeyDown(k) ==
  /\ Running /\ focused
  /\ down' = down \cup {k} /\ down' \in Hands
  /\ HandleKey(k, TRUE)
  /\ UNCHANGED <<loop, streamSize, extent, live, focused, stray>>

KeyUp(k) ==
  /\ Running /\ focused /\ k \in down
  /\ down' = down \ {k}
  /\ stray' = IF Kept(k) THEN Strayed(k) ELSE stray \ {k}
  /\ HandleKey(k, FALSE)
  /\ UNCHANGED <<loop, streamSize, extent, live, focused>>

\* Something is let go of while another window has the focus: no event comes.
ReleasedElsewhere(i) ==
  /\ Running /\ ~focused /\ i \in down
  /\ down' = down \ {i} /\ stray' = Strayed(i)
  /\ SendNothing /\ UNCHANGED <<appVars, live, focused, owed>>

-----------------------------------------------------------------------------
(* The client's events and the end. *)

\* user_event Frame; the first one comes from a session.
Frame ==
  /\ Running /\ live /\ ~streamSize /\ streamSize' = TRUE
  /\ SendNothing
  /\ UNCHANGED <<loop, grabbed, modifiers, fullscreen, rest, extent, live, handVars, owed>>

Resized(e) ==
  /\ Running /\ extent' = e
  /\ SendNothing
  /\ UNCHANGED <<loop, grabbed, modifiers, fullscreen, streamSize, rest, live, handVars, owed>>

\* The pipeline thread has set its session up.
SessionStarts ==
  /\ loop \in {"starting", "running"} /\ ~live /\ live' = TRUE
  /\ SendNothing /\ UNCHANGED <<appVars, handVars, owed>>

\* user_event Stopped, CloseRequested, and a Tick at the end of a benchmark.
Exit ==
  /\ Running /\ loop' = "exiting"
  /\ SendNothing
  /\ UNCHANGED <<grabbed, modifiers, fullscreen, streamSize, rest, extent, live, handVars, owed>>

\* run_app returns and main stops the client, which ends the session.
StopClient ==
  /\ loop = "exiting" /\ loop' = "stopped"
  /\ live' = FALSE
  /\ UNCHANGED <<grabbed, modifiers, fullscreen, streamSize, rest, extent, handVars, hostDown, owed, aim>>

-----------------------------------------------------------------------------
Init ==
  /\ loop = "starting" /\ grabbed = FALSE /\ modifiers = {} /\ fullscreen = FALSE
  /\ streamSize = FALSE /\ rest = <<0, 0>> /\ extent \in Extents
  /\ live = FALSE /\ focused = TRUE /\ down = {} /\ hostDown = {} /\ stray = {}
  /\ owed = <<0, 0>> /\ aim = Anywhere

Pointer ==
  \/ \E b \in Buttons \cup OddButtons : ButtonDown(b) \/ ButtonUp(b)
  \/ \E axes \in SUBSET {"across", "down"} : Wheel(axes)
  \/ \E x, y \in Positions : CursorMoved(x, y)
  \/ \E dx, dy \in Deltas : MouseMotion(dx, dy)

Keyboard ==
  \/ \E k \in Keys : KeyDown(k) \/ KeyUp(k)
  \/ \E i \in Keys \cup Buttons \cup OddButtons : ReleasedElsewhere(i)

Next ==
  \/ Resumed \/ FocusLost \/ FocusGained \/ Pointer \/ Keyboard
  \/ Frame \/ SessionStarts \/ Exit \/ StopClient
  \/ \E e \in Extents : Resized(e)

\* The event loop returns once it was told to.
Spec == Init /\ [][Next]_vars /\ WF_vars(StopClient)

-----------------------------------------------------------------------------
(* Properties. *)

\* The host holds nothing down that nobody holds, and the mask names no such modifier,
\* unless it was let go of where the app forwards nothing: while another window had the
\* focus, with the pointer free (a button), or by an Esc that freed the pointer.
NothingStuck ==
  /\ \A c \in hostDown : \E i \in down \cup stray : CodeOf(i) = c
  /\ \A m \in modifiers : \E i \in down \cup stray : m \in BitOf(i)

\* No motion is lost while the pointer is captured: what was reported and not sent is
\* what is carried (rel_remainder, "slow, precise movement is not rounded away"), and
\* that is less than one step unless a full message was sent (take_whole, "clamped, never
\* wraps").
Full(a) == \E d \in Deltas, steps \in {-Half, Half - 1} : owed[a] + d = owed'[a] + Fine * steps
MotionCarried ==
  [][ grabbed' =>
        /\ owed' = rest'
        /\ owed' # owed =>
             \A a \in 1 .. 2 : owed'[a] \in 1 - Fine .. Fine - 1 \/ Full(a) ]_vars
=============================================================================
