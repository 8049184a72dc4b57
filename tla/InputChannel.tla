------------------------------ MODULE InputChannel ------------------------------
(***************************************************************************)
(* What the control channel promises for input ("reliable, in order",      *)
(* session.rs): the host hears what was said, in the order it was said;    *)
(* the one liberty is that two relative mouse moves in a row may be heard  *)
(* as one move with their sum.                                             *)
(***************************************************************************)
EXTENDS Integers, Sequences, SequencesExt

CONSTANTS Low, High,   \* the range of one delta (i16)
          Others       \* messages that are not relative mouse moves

Move    == [kind : {"move"}, dx : Low .. High, dy : Low .. High]
Other   == [kind : {"other"}, id : Others]
Message == Move \cup Other
Stop    == [kind |-> "stop"]

VARIABLES said,    \* said and not yet heard; Stop marks the end of the session
          heard,   \* heard by the host
          open

InputMove(m) == m.kind = "move"

Fits(a, b) == a.dx + b.dx \in Low .. High /\ a.dy + b.dy \in Low .. High
Sum(a, b)  == [kind |-> "move", dx |-> a.dx + b.dx, dy |-> a.dy + b.dy]

ChannelInit == said = <<>> /\ heard = <<>> /\ open = TRUE

Say(m) ==
  /\ open
  /\ said' = Append(said, m)
  /\ UNCHANGED <<heard, open>>

\* The host hears the next n messages; the channel may close behind them.
Hear(n) ==
  /\ open
  /\ \A i \in 1 .. n : said[i] # Stop
  /\ heard' = heard \o SubSeq(said, 1, n)
  /\ said' = SubSeq(said, n + 1, Len(said))
  /\ open' \in BOOLEAN

Fold(i) ==
  /\ open
  /\ InputMove(said[i]) /\ InputMove(said[i + 1]) /\ Fits(said[i], said[i + 1])
  /\ said' = RemoveAt([said EXCEPT ![i] = Sum(said[i], said[i + 1])], i + 1)
  /\ UNCHANGED <<heard, open>>

\* The end mark is noticed, ahead of what was said before it or not.
Notice(i) ==
  /\ open
  /\ said[i] = Stop
  /\ said' = RemoveAt(said, i)
  /\ UNCHANGED <<heard, open>>

Close ==
  /\ open
  /\ open' = FALSE
  /\ UNCHANGED <<said, heard>>

ChannelNext ==
  \/ \E m \in Message \cup {Stop} : Say(m)
  \/ \E n \in 0 .. Len(said) : Hear(n)
  \/ \E i \in 1 .. Len(said) - 1 : Fold(i)
  \/ \E i \in DOMAIN said : Notice(i)
  \/ Close

ChannelSpec == ChannelInit /\ [][ChannelNext]_<<said, heard, open>>
=============================================================================
