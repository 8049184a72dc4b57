----------------------------- MODULE FramePathProofs -----------------------------
(***************************************************************************)
(* Proofs about FramePath and MacFramePath, on either system and on every  *)
(* path, for every number of samples, every size of the ring and every     *)
(* choice the decoder makes: no picture is overwritten while it may still  *)
(* be drawn, the newest frame is the one shown, the decoder keeps samples  *)
(* to decode into, and a frame is timed by its own submission.             *)
(***************************************************************************)
EXTENDS MacFramePath, DataLemmas, TLAPS

-----------------------------------------------------------------------------
(* The inductive invariant. *)

Held == Frames(out) \cup hand \cup slot \cup last \cup prev

\* How many frames ago texture k was written last, of a ring that is at r.
Back(r, k) == IF k <= r.idx THEN r.idx - k ELSE (r.idx - k) + RingSize

\* Nobody else gets a sample that is held.
DirectOk(f) == f.surface \in Samples /\ picture[f.surface] = f.unit

\* Planes belong to one frame.
PlanesOk(f) == f.surface = <<Memory, f.unit>> /\ picture[f.surface] = f.unit

\* A texture at k, of ring t: of an old ring, or as many frames old as the ring has
\* turned since.
CopyAt(f, t, k) ==
  /\ f.surface = <<t, k>>
  /\ t = ring.format => newest - f.unit >= Back(ring, k)
  /\ newest - f.unit < RingSize => picture[f.surface] = f.unit

CopyOk(f) == \E t \in 0 .. ring.format, k \in 0 .. RingSize - 1 : CopyAt(f, t, k)

FrameOk(f) ==
  /\ f.unit \in Unit
  /\ path = "direct" => DirectOk(f)
  /\ path = "copy"   => CopyOk(f)
  /\ path = "planes" => PlanesOk(f)

PathTypes ==
  /\ out \in Seq(Frame)
  /\ path \in {"unknown", "direct", "copy", "planes"}
  /\ picture \in [Surface -> Nat]
  /\ format \in 0 .. MaxFormats
  /\ ring.format \in 0 .. format /\ ring.idx \in 0 .. RingSize - 1

HeldIntact ==
  /\ \A f \in Held : FrameOk(f)
  /\ path = "unknown" => Held = {}
  /\ path # "planes" => shown = <<last, prev>>

\* The access unit is not in the decoder yet.
Waiting == thread \in {"input", "clear", "retry", "decode"}

\* The decoder returns access units in the order they were pushed.
InOrder ==
  /\ pushed \in 0 .. MaxPushed /\ newest \in 0 .. pushed
  /\ Waiting => newest < pushed
  /\ inside \in Seq(Unit)
  /\ \A i \in 1 .. Len(inside) :
       newest < inside[i] /\ inside[i] <= pushed /\ (Waiting => inside[i] < pushed)
  /\ \A i, j \in 1 .. Len(inside) : i < j => inside[i] < inside[j]

OfMac == platform = "macos" => inside = <<>> /\ path \in {"direct", "planes"}

IntactInv == PathTypes /\ HeldIntact /\ InOrder /\ OfMac

-----------------------------------------------------------------------------
(* Who holds what. *)

\* Frames that are passed on, dropped or held no longer stay intact.
LEMMA PassedOnStaysIntact ==
  ASSUME PathTypes, HeldIntact, Held' \subseteq Held, out' \in Seq(Frame),
         UNCHANGED <<path, picture, ring, newest>>, format' \in format .. MaxFormats,
         path # "planes" => shown' = <<last', prev'>>
  PROVE  PathTypes' /\ HeldIntact'
<1>1. PathTypes'
  BY DEF PathTypes
<1>2. \A f : FrameOk(f) => FrameOk(f)'
  <2> SUFFICES ASSUME NEW f, FrameOk(f) PROVE FrameOk(f)'
    OBVIOUS
  <2>1. DirectOk(f) => DirectOk(f)'
    BY DEF DirectOk
  <2>2. PlanesOk(f) => PlanesOk(f)'
    BY DEF PlanesOk
  <2>3. CopyOk(f) => CopyOk(f)'
    BY DEF CopyOk, CopyAt, Back
  <2> QED BY <2>1, <2>2, <2>3 DEF FrameOk, Unit
<1>3. HeldIntact'
  BY <1>2 DEF HeldIntact
<1> QED BY <1>1, <1>3

\* The frames of a queue that is longer by one, and the last one.
LEMMA FramesAppend ==
  ASSUME NEW s \in Seq(Frame), NEW f \in Frame
  PROVE  Append(s, f) \in Seq(Frame) /\ Frames(Append(s, f)) = Frames(s) \cup {f}
<1>1. /\ Append(s, f) \in Seq(Frame) /\ Len(Append(s, f)) = Len(s) + 1
      /\ \A i \in 1 .. Len(s) : Append(s, f)[i] = s[i]
      /\ Append(s, f)[Len(s) + 1] = f
  BY AppendProperties
<1>2. DOMAIN s = 1 .. Len(s) /\ DOMAIN Append(s, f) = 1 .. Len(s) + 1 /\ Len(s) \in Nat
  BY <1>1
<1>3. DOMAIN Append(s, f) = DOMAIN s \cup {Len(s) + 1}
  BY <1>2
<1> QED BY <1>1, <1>2, <1>3 DEF Frames

LEMMA LastIsThere ==
  ASSUME NEW s \in Seq(Frame), s # <<>>
  PROVE  Last(s) \in Frames(s)
<1>1. Len(s) \in DOMAIN s
  BY EmptySeq
<1> QED BY <1>1 DEF Last, Frames

\* The step by which a new frame f joins the queue.
Joins(f) ==
  /\ f \in Frame /\ out' = Append(out, f)
  /\ UNCHANGED <<hand, slot, last, prev, shown>>

LEMMA JoinedHeld ==
  ASSUME PathTypes, NEW f, Joins(f)
  PROVE  out' \in Seq(Frame) /\ Held' = Held \cup {f}
<1>1. out' \in Seq(Frame) /\ Frames(out') = Frames(out) \cup {f}
  BY FramesAppend DEF Joins, PathTypes
<1>2. Frames(out)' = Frames(out')
  BY DEF Frames
<1> QED BY <1>1, <1>2 DEF Held, Joins

-----------------------------------------------------------------------------
(* A new frame, on each path. *)

\* A picture in a sample that nobody holds.
LEMMA DirectStaysIntact ==
  ASSUME PathTypes, HeldIntact, path \in {"unknown", "direct"},
         NEW sample \in Free, NEW u \in Unit, NEW pts \in Unit \cup {NoStamp},
         Joins([unit |-> u, pts |-> pts, surface |-> sample]),
         picture' = [picture EXCEPT ![sample] = u], path' = "direct",
         UNCHANGED <<ring, format>>
  PROVE  PathTypes' /\ HeldIntact'
<1> DEFINE new == [unit |-> u, pts |-> pts, surface |-> sample]
<1>1. sample \in Samples /\ sample \in Surface /\ \A f \in Held : f.surface # sample
  BY DEF Free, Kept, Held, Surface
<1>2. picture' \in [Surface -> Nat] /\ picture'[sample] = u
      /\ \A s \in Surface : s # sample => picture'[s] = picture[s]
  BY <1>1 DEF PathTypes, Unit
<1>3. out' \in Seq(Frame) /\ Held' = Held \cup {new}
  BY JoinedHeld
<1>4. PathTypes'
  BY <1>2, <1>3 DEF PathTypes
<1>5. FrameOk(new)'
  BY <1>1, <1>2 DEF FrameOk, DirectOk
<1>6. ASSUME NEW f \in Held PROVE FrameOk(f)'
  <2>1. path = "direct" /\ FrameOk(f)
    BY <1>6 DEF HeldIntact
  <2>2. f.surface \in Surface /\ f.surface # sample
    BY <1>1, <1>6, <2>1 DEF FrameOk, DirectOk, Surface
  <2> QED BY <1>2, <2>1, <2>2 DEF FrameOk, DirectOk
<1>7. HeldIntact'
  BY <1>3, <1>5, <1>6 DEF HeldIntact, Joins
<1> QED BY <1>4, <1>7

\* A copy in planes of its own.
LEMMA PlanesStayIntact ==
  ASSUME PathTypes, HeldIntact, path = "planes",
         NEW sample \in Samples, NEW u \in Unit, NEW pts \in Unit \cup {NoStamp},
         Joins([unit |-> u, pts |-> pts, surface |-> <<Memory, u>>]),
         picture' = [picture EXCEPT ![sample] = u, ![<<Memory, u>>] = u],
         UNCHANGED <<path, ring, format>>
  PROVE  PathTypes' /\ HeldIntact'
<1> DEFINE new == [unit |-> u, pts |-> pts, surface |-> <<Memory, u>>]
<1>1. sample \in Surface /\ \A v \in Unit : <<Memory, v>> \in Surface /\ <<Memory, v>> # sample
  BY SizesAssumption, TextureAssumption DEF Surface, Memory, Unit
<1>2. picture' \in [Surface -> Nat]
      /\ \A v \in Unit : picture'[<<Memory, v>>] = IF v = u THEN u ELSE picture[<<Memory, v>>]
  BY <1>1, SMTT(30) DEF PathTypes, Unit
<1>3. out' \in Seq(Frame) /\ Held' = Held \cup {new}
  BY JoinedHeld
<1>4. PathTypes'
  BY <1>2, <1>3 DEF PathTypes
<1>5. FrameOk(new)'
  BY <1>2 DEF FrameOk, PlanesOk
<1>6. ASSUME NEW f \in Held PROVE FrameOk(f)'
  <2>1. FrameOk(f)
    BY <1>6 DEF HeldIntact
  <2> QED BY <1>2, <2>1 DEF FrameOk, PlanesOk
<1>7. HeldIntact'
  BY <1>3, <1>5, <1>6 DEF HeldIntact, Joins
<1> QED BY <1>4, <1>7

\* The ring turns by one, or starts anew.
LEMMA RingTurns ==
  ASSUME PathTypes, ring' = NextTexture, UNCHANGED format
  PROVE  /\ ring'.format = format /\ ring'.idx \in 0 .. RingSize - 1
         /\ Back(ring', ring'.idx) = 0
         /\ ring.format = format =>
              /\ Back(ring, ring'.idx) = RingSize - 1
              /\ \A k \in 0 .. RingSize - 1 : k # ring'.idx => Back(ring', k) = Back(ring, k) + 1
<1> DEFINE R == RingSize  i == ring.idx  n == ring'.idx
<1>1. R \in Nat /\ R > 0 /\ i \in 0 .. R - 1
  BY SizesAssumption DEF PathTypes
<1>2. ring'.format = format /\ n = (IF ring.format = format THEN (i + 1) % R ELSE 1 % R)
  BY DEF NextTexture
<1>3. n \in 0 .. R - 1
  BY <1>1, <1>2
<1>4. ring.format = format => n = IF i = R - 1 THEN 0 ELSE i + 1
  BY <1>1, <1>2
<1>5. Back(ring', n) = 0
  BY <1>3 DEF Back
<1>6. ring.format = format => Back(ring, n) = R - 1
  BY <1>1, <1>4 DEF Back
<1>7. ASSUME ring.format = format, NEW k \in 0 .. R - 1, k # n PROVE Back(ring', k) = Back(ring, k) + 1
  BY <1>1, <1>4, <1>7 DEF Back
<1> QED BY <1>2, <1>3, <1>5, <1>6, <1>7

\* A copy in the ring's next texture.
LEMMA CopyStaysIntact ==
  ASSUME PathTypes, HeldIntact, path \in {"unknown", "copy"},
         NEW sample \in Samples, NEW u \in Unit, NEW pts \in Unit \cup {NoStamp},
         NEW t1, NEW k1, t1 = NextTexture.format, k1 = NextTexture.idx,
         Joins([unit |-> u, pts |-> pts, surface |-> <<t1, k1>>]),
         picture' = [picture EXCEPT ![sample] = u, ![<<t1, k1>>] = u],
         path' = "copy", ring' = NextTexture, UNCHANGED format,
         newest \in Nat, newest < u, newest' = u
  PROVE  PathTypes' /\ HeldIntact'
<1> DEFINE new == [unit |-> u, pts |-> pts, surface |-> <<t1, k1>>]
<1>1. /\ t1 = format /\ k1 \in 0 .. RingSize - 1 /\ Back(ring', k1) = 0
      /\ ring.format = format =>
           /\ Back(ring, k1) = RingSize - 1
           /\ \A k \in 0 .. RingSize - 1 : k # k1 => Back(ring', k) = Back(ring, k) + 1
  BY RingTurns
<1>2. /\ format \in 0 .. MaxFormats /\ ring.format \in 0 .. format
      /\ MaxFormats \in Nat /\ RingSize \in Nat
  BY SizesAssumption DEF PathTypes
<1>3. sample \in Surface
      /\ \A t \in 0 .. MaxFormats, k \in 0 .. RingSize - 1 : <<t, k>> \in Surface /\ <<t, k>> # sample
  BY <1>2, TextureAssumption DEF Surface
<1>4. /\ picture' \in [Surface -> Nat] /\ picture'[<<t1, k1>>] = u
      /\ \A t \in 0 .. MaxFormats, k \in 0 .. RingSize - 1 :
           <<t, k>> # <<t1, k1>> => picture'[<<t, k>>] = picture[<<t, k>>]
  <2>1. <<t1, k1>> \in Surface /\ picture \in [Surface -> Nat] /\ u \in Nat
    BY <1>1, <1>2, <1>3 DEF PathTypes, Unit
  <2> QED BY <1>3, <2>1
<1>5. out' \in Seq(Frame) /\ Held' = Held \cup {new}
  BY JoinedHeld
<1>6. PathTypes'
  BY <1>1, <1>2, <1>4, <1>5, SMTT(30) DEF PathTypes
<1>7. FrameOk(new)'
  <2>1. CopyAt(new, t1, k1)'
    <3>1. new.surface = <<t1, k1>> /\ new.unit = u /\ u \in Nat
      BY DEF Unit
    <3>2. newest' - u = 0
      BY <3>1
    <3>3. Back(ring', k1) = 0 /\ picture'[<<t1, k1>>] = u
      BY <1>1, <1>4
    <3> HIDE DEF new
    <3> QED BY <3>1, <3>2, <3>3 DEF CopyAt
  <2>2. t1 \in (0 .. ring.format)' /\ k1 \in 0 .. RingSize - 1
    BY <1>1, <1>2
  <2> QED BY <2>1, <2>2 DEF FrameOk, CopyOk
<1>8. ASSUME NEW f \in Held PROVE FrameOk(f)'
  <2>1. path = "copy" /\ FrameOk(f)
    BY <1>8 DEF HeldIntact
  <2>2. PICK t \in 0 .. ring.format, k \in 0 .. RingSize - 1 : CopyAt(f, t, k)
    BY <2>1 DEF FrameOk, CopyOk
  <2>3. f.unit \in Nat /\ u \in Nat /\ u - f.unit >= (newest - f.unit) + 1
    BY <2>1 DEF FrameOk, Unit
  <2>4. Back(ring, k) \in Int /\ t \in 0 .. MaxFormats
    BY <1>2, SMTT(30) DEF PathTypes, Back
  <2>5. t = t1 => u - f.unit >= Back(ring', k)
    <3>1. CASE k = k1
      <4>1. t = t1 => newest - f.unit >= RingSize - 1
        BY <1>1, <2>2, <3>1, <1>2 DEF CopyAt
      <4>2. Back(ring', k) = 0
        BY <1>1, <3>1
      <4> QED BY <1>2, <2>3, <4>1, <4>2
    <3>2. CASE k # k1
      <4>1. t = t1 => newest - f.unit >= Back(ring, k) /\ Back(ring', k) = Back(ring, k) + 1
        BY <1>1, <1>2, <2>2, <3>2 DEF CopyAt
      <4> QED BY <2>3, <2>4, <4>1
    <3> QED BY <3>1, <3>2
  <2>6. u - f.unit < RingSize => picture'[f.surface] = f.unit
    <3>1. CASE <<t, k>> = <<t1, k1>>
      <4>1. newest - f.unit >= RingSize - 1
        BY <1>1, <1>2, <2>2, <3>1 DEF CopyAt
      <4> QED BY <1>2, <2>3, <4>1
    <3>2. CASE <<t, k>> # <<t1, k1>>
      <4>1. u - f.unit < RingSize => newest - f.unit < RingSize
        BY <1>2, <2>3
      <4>2. f.surface = <<t, k>> /\ (newest - f.unit < RingSize => picture[<<t, k>>] = f.unit)
        BY <2>2 DEF CopyAt
      <4>3. picture'[<<t, k>>] = picture[<<t, k>>]
        BY <1>4, <2>4, <3>2
      <4> QED BY <4>1, <4>2, <4>3
    <3> QED BY <3>1, <3>2
  <2>7. CopyAt(f, t, k)'
    BY <2>2, <2>5, <2>6 DEF CopyAt
  <2>8. t \in (0 .. ring.format)'
    BY <1>1, <1>2
  <2> QED BY <2>1, <2>7, <2>8 DEF FrameOk, CopyOk
<1>9. \A f \in Held' : FrameOk(f)'
  <2> HIDE DEF new
  <2> QED BY <1>5, <1>7, <1>8
<1>10. HeldIntact'
  BY <1>9 DEF HeldIntact, Joins
<1> QED BY <1>6, <1>10

-----------------------------------------------------------------------------
(* The steps. *)

\* What is at the head of the decoder is newer than anything it returned.
LEMMA HeadIsNewer ==
  ASSUME InOrder, inside # <<>>
  PROVE  /\ Head(inside) \in Unit /\ newest \in Nat /\ newest < Head(inside)
         /\ Head(inside) <= pushed /\ (Waiting => Head(inside) < pushed)
         /\ Tail(inside) \in Seq(Unit) /\ Len(Tail(inside)) = Len(inside) - 1
         /\ Len(inside) \in Nat \ {0}
         /\ \A i \in 1 .. Len(Tail(inside)) :
              /\ i + 1 \in 1 .. Len(inside)
              /\ Tail(inside)[i] = inside[i + 1] /\ Head(inside) < inside[i + 1]
<1>1. inside \in Seq(Unit) /\ Len(inside) \in Nat \ {0} /\ Head(inside) = inside[1]
      /\ 1 \in 1 .. Len(inside)
  BY EmptySeq DEF InOrder
<1>2. /\ Head(inside) \in Unit /\ Tail(inside) \in Seq(Unit) /\ Len(Tail(inside)) = Len(inside) - 1
      /\ \A i \in 1 .. Len(Tail(inside)) : Tail(inside)[i] = inside[i + 1]
  BY <1>1, HeadTailProperties
<1>3. ASSUME NEW i \in 1 .. Len(Tail(inside))
      PROVE  i + 1 \in 1 .. Len(inside) /\ Head(inside) < inside[i + 1]
  <2>1. i + 1 \in 1 .. Len(inside) /\ 1 < i + 1
    BY <1>1, <1>2
  <2> QED BY <1>1, <2>1 DEF InOrder
<1>4. newest \in Nat /\ newest < Head(inside) /\ Head(inside) <= pushed
      /\ (Waiting => Head(inside) < pushed)
  BY <1>1 DEF InOrder
<1> QED BY <1>1, <1>2, <1>3, <1>4

\* The head leaves the decoder, as a picture or without one.
LEMMA HeadLeaves ==
  ASSUME InOrder, inside # <<>>, inside' = Tail(inside), newest' \in {newest, Head(inside)},
         UNCHANGED <<pushed, thread>>
  PROVE  InOrder'
<1>1. Waiting' = Waiting
  BY DEF Waiting
<1>2. newest' \in 0 .. pushed /\ (Waiting => newest' < pushed)
  BY HeadIsNewer DEF InOrder, Unit
<1>3. ASSUME NEW i \in 1 .. Len(Tail(inside))
      PROVE  /\ newest' < Tail(inside)[i] /\ Tail(inside)[i] <= pushed
             /\ Waiting => Tail(inside)[i] < pushed
  <2>1. i + 1 \in 1 .. Len(inside) /\ Tail(inside)[i] = inside[i + 1] /\ Head(inside) < inside[i + 1]
    BY HeadIsNewer
  <2> QED BY <2>1 DEF InOrder
<1>4. ASSUME NEW i \in 1 .. Len(Tail(inside)), NEW j \in 1 .. Len(Tail(inside)), i < j
      PROVE  Tail(inside)[i] < Tail(inside)[j]
  <2>1. i + 1 \in 1 .. Len(inside) /\ j + 1 \in 1 .. Len(inside) /\ i + 1 < j + 1
        /\ Tail(inside)[i] = inside[i + 1] /\ Tail(inside)[j] = inside[j + 1]
    BY <1>4, HeadIsNewer
  <2> QED BY <2>1 DEF InOrder
<1>5. Tail(inside) \in Seq(Unit)
  BY HeadIsNewer
<1> QED BY <1>1, <1>2, <1>3, <1>4, <1>5 DEF InOrder

\* The decoder takes the access unit that was pushed.
LEMMA AcceptKeepsOrder ==
  ASSUME InOrder, Accept PROVE InOrder'
<1>1. Waiting /\ ~Waiting' /\ newest < pushed /\ inside' = Append(inside, pushed)
      /\ pushed \in Unit /\ UNCHANGED <<pushed, newest>>
  BY DEF Accept, Waiting, InOrder, Unit
<1>2. /\ inside' \in Seq(Unit) /\ Len(inside') = Len(inside) + 1 /\ Len(inside) \in Nat
      /\ \A i \in 1 .. Len(inside) : inside'[i] = inside[i]
      /\ inside'[Len(inside) + 1] = pushed
  BY <1>1, AppendProperties DEF InOrder
<1>3. ASSUME NEW i \in 1 .. Len(inside')
      PROVE  newest < inside'[i] /\ inside'[i] <= pushed
  <2>1. i \in 1 .. Len(inside) \/ i = Len(inside) + 1
    BY <1>2
  <2> QED BY <1>1, <1>2, <2>1 DEF InOrder
<1>4. ASSUME NEW i \in 1 .. Len(inside'), NEW j \in 1 .. Len(inside'), i < j
      PROVE  inside'[i] < inside'[j]
  <2>1. i \in 1 .. Len(inside) /\ (j \in 1 .. Len(inside) \/ j = Len(inside) + 1)
    BY <1>2, <1>4
  <2> QED BY <1>1, <1>2, <1>4, <2>1 DEF InOrder
<1> QED BY <1>1, <1>2, <1>3, <1>4 DEF InOrder

\* Every other step leaves the decoder's queue alone; one that makes the pipeline thread
\* wait for the decoder pushes a new access unit, or the thread was waiting already.
LEMMA OthersKeepOrder ==
  ASSUME InOrder, UNCHANGED <<inside, newest>>, pushed' \in {pushed, pushed + 1},
         pushed' <= MaxPushed, Waiting' => Waiting \/ pushed' = pushed + 1
  PROVE  InOrder'
<1>1. MaxPushed \in Nat /\ pushed \in Nat /\ newest \in 0 .. pushed
  BY SizesAssumption DEF InOrder
<1>2. pushed' \in 0 .. MaxPushed /\ newest \in 0 .. pushed'
  BY <1>1
<1>3. Waiting' => newest < pushed'
  BY <1>1 DEF InOrder
<1>4. ASSUME NEW i \in 1 .. Len(inside)
      PROVE  newest < inside[i] /\ inside[i] <= pushed' /\ (Waiting' => inside[i] < pushed')
  <2>1. inside[i] \in Nat
    <3>1. inside \in Seq(Unit)
      BY DEF InOrder
    <3>2. inside[i] \in Unit
      BY <3>1, ElementOfSeq
    <3> QED BY <1>1, <3>2 DEF Unit
  <2>2. newest < inside[i] /\ inside[i] <= pushed /\ (Waiting => inside[i] < pushed)
    BY DEF InOrder
  <2> QED BY <1>1, <2>1, <2>2
<1>5. inside \in Seq(Unit) /\ \A i, j \in 1 .. Len(inside) : i < j => inside[i] < inside[j]
  BY DEF InOrder
<1> QED BY <1>2, <1>3, <1>4, <1>5 DEF InOrder

LEMMA OutputStaysIntact ==
  ASSUME IntactInv, Output PROVE PathTypes' /\ HeldIntact' /\ InOrder'
<1> USE DEF IntactInv
<1>1. PICK sample \in Free, pts \in {Head(inside), NoStamp} :
        \/ path \in {"unknown", "direct"} /\ OutputDirect(sample, pts)
        \/ path \in {"unknown", "copy"} /\ OutputCopy(sample, pts)
        \/ path = "planes" /\ OutputPlanes(sample, pts)
  BY DEF Output
<1> DEFINE u == Head(inside)
<1>2. /\ inside # <<>> /\ newest' = u /\ inside' = Tail(inside)
      /\ UNCHANGED <<thread, pushed, format, hand, slot, last, prev, shown>>
  BY DEF Output, rendererVars
<1>3. u \in Unit /\ newest \in Nat /\ newest < u
  BY <1>2, HeadIsNewer
<1>4. InOrder'
  BY <1>2, HeadLeaves
<1>5. sample \in Samples /\ pts \in Unit \cup {NoStamp}
  BY <1>1, <1>3 DEF Free
<1> DEFINE New(surface) == [unit |-> u, pts |-> pts, surface |-> surface]
<1>6. ASSUME NEW surface \in Surface, out' = Append(out, New(surface)) PROVE Joins(New(surface))
  BY <1>2, <1>3, <1>5, <1>6 DEF Joins, Frame
<1>7. CASE path \in {"unknown", "direct"} /\ OutputDirect(sample, pts)
  <2>1. sample \in Surface
    BY <1>5 DEF Surface
  <2>2. Joins(New(sample))
    BY <1>6, <1>7, <2>1 DEF OutputDirect
  <2> QED BY <1>2, <1>3, <1>4, <1>5, <1>7, <2>2, DirectStaysIntact DEF OutputDirect
<1>8. CASE path \in {"unknown", "copy"} /\ OutputCopy(sample, pts)
  <2>1. PICK t1, k1 : t1 = NextTexture.format /\ k1 = NextTexture.idx
    OBVIOUS
  <2>2. ring' = NextTexture
    BY <1>8 DEF OutputCopy
  <2>3. <<t1, k1>> \in Surface
    BY <1>2, <2>1, <2>2, RingTurns DEF Surface, PathTypes
  <2>4. Joins(New(<<t1, k1>>)) /\ path' = "copy"
        /\ picture' = [picture EXCEPT ![sample] = u, ![<<t1, k1>>] = u]
    BY <1>6, <1>8, <2>1, <2>3 DEF OutputCopy
  <2> QED BY <1>2, <1>3, <1>4, <1>5, <1>8, <2>1, <2>2, <2>4, CopyStaysIntact
<1>9. CASE path = "planes" /\ OutputPlanes(sample, pts)
  <2>1. <<Memory, u>> \in Surface
    BY <1>3 DEF Surface
  <2>2. Joins(New(<<Memory, u>>))
    BY <1>6, <1>9, <2>1 DEF OutputPlanes
  <2> QED BY <1>2, <1>3, <1>4, <1>5, <1>9, <2>2, PlanesStayIntact DEF OutputPlanes
<1> QED BY <1>1, <1>7, <1>8, <1>9

LEMMA CallbackStaysIntact ==
  ASSUME IntactInv, platform = "macos", Callback PROVE IntactInv'
<1> USE DEF IntactInv
<1>1. /\ thread = "decode" /\ thread' = "drain" /\ newest' = pushed
      /\ UNCHANGED <<platform, pushed, inside, path, format, ring, hand, slot, last, prev, shown>>
  BY DEF Callback, macVars, rendererVars
<1>2. PICK surface \in Free : Retained(surface) \/ Copied(surface)
  BY DEF Callback
<1>3. pushed \in Unit /\ inside = <<>> /\ path \in {"direct", "planes"} /\ newest <= pushed
  BY <1>1 DEF InOrder, Waiting, Unit, OfMac
<1>4. InOrder'
  BY <1>1, <1>3 DEF InOrder, Waiting, Unit
<1>5. surface \in Samples /\ surface \in Surface /\ <<Memory, pushed>> \in Surface
  BY <1>2, <1>3 DEF Free, Surface
<1>6. CASE Retained(surface)
  <2>1. Joins([unit |-> pushed, pts |-> pushed, surface |-> surface])
    BY <1>1, <1>3, <1>5, <1>6 DEF Joins, Retained, Frame
  <2>2. path = "direct" /\ path' = "direct" /\ picture' = [picture EXCEPT ![surface] = pushed]
    BY <1>1, <1>6 DEF Retained
  <2> QED BY <1>1, <1>3, <1>4, <2>1, <2>2, DirectStaysIntact DEF OfMac
<1>7. CASE Copied(surface)
  <2>1. Joins([unit |-> pushed, pts |-> pushed, surface |-> <<Memory, pushed>>])
    BY <1>1, <1>3, <1>5, <1>7 DEF Joins, Copied, Frame
  <2>2. path = "planes"
        /\ picture' = [picture EXCEPT ![surface] = pushed, ![<<Memory, pushed>>] = pushed]
    BY <1>7 DEF Copied
  <2> QED BY <1>1, <1>3, <1>4, <1>5, <2>1, <2>2, PlanesStayIntact DEF OfMac
<1> QED BY <1>2, <1>6, <1>7

\* Every other step lets go of frames, or passes them on.
LEMMA QuietStaysIntact ==
  ASSUME IntactInv, UNCHANGED <<path, picture, ring, newest, inside, platform>>,
         format' \in format .. MaxFormats, Held' \subseteq Held, out' \in {out, <<>>},
         path # "planes" => shown' = <<last', prev'>>,
         pushed' \in {pushed, pushed + 1}, pushed' <= MaxPushed,
         Waiting' => Waiting \/ pushed' = pushed + 1
  PROVE  IntactInv'
<1>1. out' \in Seq(Frame)
  <2>1. out \in Seq(Frame) /\ <<>> \in Seq(Frame)
    BY EmptySeq DEF IntactInv, PathTypes
  <2> QED BY <2>1
<1>2. PathTypes' /\ HeldIntact'
  BY <1>1, PassedOnStaysIntact DEF IntactInv
<1>3. InOrder'
  BY OthersKeepOrder DEF IntactInv
<1> QED BY <1>2, <1>3 DEF IntactInv, OfMac

\* The pipeline thread's own steps, on either system.
Hands == UNCHANGED <<out, hand, slot, last, prev, shown>>

LEMMA HandsKeepHeld ==
  ASSUME Hands PROVE Held' = Held
BY DEF Hands, Held, Frames

\* The access unit that push() is at gives no frame, or the picture's size changes.
Quiet ==
  \/ UNCHANGED vars
  \/ Submit \/ Refuse \/ Cleared \/ PushFails \/ FormatChanged
  \/ EnsureSession \/ CallbackEmpty \/ Refused

LEMMA QuietKeeps ==
  ASSUME Quiet, pushed \in Nat, format \in Nat
  PROVE  /\ Hands /\ UNCHANGED <<path, picture, ring, newest, inside>>
         /\ \/ format' = format
            \/ format < MaxFormats /\ format' = format + 1
         /\ \/ pushed' = pushed /\ (Waiting' => Waiting)
            \/ pushed < MaxPushed /\ pushed' = pushed + 1
<1> USE DEF Hands, Waiting, decoderVars, rendererVars
<1>1. CASE UNCHANGED vars
  BY <1>1 DEF vars
<1>2. CASE Submit
  BY <1>2 DEF Submit
<1>3. CASE Refuse
  BY <1>3 DEF Refuse
<1>4. CASE Cleared
  BY <1>4 DEF Cleared
<1>5. CASE PushFails
  BY <1>5 DEF PushFails
<1>6. CASE FormatChanged
  BY <1>6 DEF FormatChanged
<1>7. CASE EnsureSession
  BY <1>7 DEF EnsureSession
<1>8. CASE CallbackEmpty
  BY <1>8 DEF CallbackEmpty
<1>9. CASE Refused
  BY <1>9 DEF Refused
<1> QED BY <1>1, <1>2, <1>3, <1>4, <1>5, <1>6, <1>7, <1>8, <1>9 DEF Quiet

LEMMA PipelineStaysIntact ==
  ASSUME IntactInv, UNCHANGED platform, Quiet PROVE IntactInv'
<1>1. /\ pushed \in 0 .. MaxPushed /\ format \in 0 .. MaxFormats
      /\ MaxFormats \in Nat /\ MaxPushed \in Nat
      /\ (path # "planes" => shown = <<last, prev>>)
  BY SizesAssumption DEF IntactInv, InOrder, PathTypes, HeldIntact
<1>2. /\ Hands /\ UNCHANGED <<path, picture, ring, newest, inside>>
      /\ \/ format' = format
         \/ format < MaxFormats /\ format' = format + 1
      /\ \/ pushed' = pushed /\ (Waiting' => Waiting)
         \/ pushed < MaxPushed /\ pushed' = pushed + 1
  BY <1>1, QuietKeeps
<1>3. format' \in format .. MaxFormats
  BY <1>1, <1>2
<1>4. /\ pushed' \in {pushed, pushed + 1} /\ pushed' <= MaxPushed
      /\ Waiting' => Waiting \/ pushed' = pushed + 1
  BY <1>1, <1>2
<1>5. Held' \subseteq Held /\ out' \in {out, <<>>} /\ (path # "planes" => shown' = <<last', prev'>>)
  BY <1>1, <1>2, HandsKeepHeld DEF Hands
<1> QED BY <1>2, <1>3, <1>4, <1>5, QuietStaysIntact

LEMMA DrainedStaysIntact ==
  ASSUME IntactInv, UNCHANGED platform, Drained PROVE IntactInv'
<1>1. /\ pushed \in 0 .. MaxPushed /\ format \in 0 .. MaxFormats /\ MaxFormats \in Nat
      /\ (path # "planes" => shown = <<last, prev>>) /\ out \in Seq(Frame)
  BY SizesAssumption DEF IntactInv, InOrder, PathTypes, HeldIntact
<1>2. /\ out' = <<>> /\ hand' = (IF out = <<>> THEN {} ELSE {Last(out)})
      /\ UNCHANGED <<slot, last, prev, shown, path, picture, ring, newest, inside, format, pushed>>
      /\ ~Waiting'
  BY DEF Drained, rendererVars, Waiting
<1>3. Frames(out') = {}
  BY <1>2 DEF Frames
<1>4. hand' \subseteq Frames(out)
  BY <1>1, <1>2, LastIsThere
<1>5. Held' \subseteq Held
  BY <1>2, <1>3, <1>4 DEF Held, Frames
<1> QED BY <1>1, <1>2, <1>5, QuietStaysIntact

LEMMA PassingStaysIntact ==
  ASSUME IntactInv, UNCHANGED platform, Publish \/ Present \/ Upload PROVE IntactInv'
<1>1. /\ pushed \in 0 .. MaxPushed /\ format \in 0 .. MaxFormats /\ MaxFormats \in Nat
      /\ (path # "planes" => shown = <<last, prev>>)
  BY SizesAssumption DEF IntactInv, InOrder, PathTypes, HeldIntact
<1>2. /\ UNCHANGED <<out, path, picture, ring, newest, inside, format, pushed>>
      /\ Waiting' => Waiting
      /\ Held' \subseteq Held
  BY DEF Publish, Present, Upload, decoderVars, rendererVars, Waiting, Held, Frames
<1>3. path # "planes" => shown' = <<last', prev'>>
  BY <1>1 DEF Publish, Present, Upload, rendererVars
<1> QED BY <1>1, <1>2, <1>3, QuietStaysIntact

LEMMA StepStaysIntact ==
  ASSUME IntactInv, [BothNext]_<<vars, macVars>> PROVE IntactInv'
<1>1. CASE UNCHANGED <<vars, macVars>>
  BY <1>1, PipelineStaysIntact DEF macVars, Quiet
<1>2. CASE platform = "windows" /\ Next /\ UNCHANGED macVars
  <2>1. OfMac' /\ UNCHANGED platform
    BY <1>2 DEF OfMac, macVars
  <2>2. CASE Output
    BY <2>1, <2>2, OutputStaysIntact DEF IntactInv
  <2>3. CASE Accept
    <3>1. /\ Hands /\ UNCHANGED <<path, picture, ring, newest, format>>
      BY <2>3 DEF Accept, Hands, rendererVars
    <3>2. Held' = Held
      BY <3>1, HandsKeepHeld
    <3>3. PathTypes' /\ HeldIntact'
      BY <3>1, <3>2, PassedOnStaysIntact, SizesAssumption DEF IntactInv, Hands, PathTypes, HeldIntact
    <3>4. InOrder'
      BY <2>3, AcceptKeepsOrder DEF IntactInv
    <3> QED BY <2>1, <3>3, <3>4 DEF IntactInv
  <2>4. CASE Swallow
    <3>1. /\ Hands /\ UNCHANGED <<path, picture, ring, newest, format>>
      BY <2>4 DEF Swallow, Hands, rendererVars
    <3>2. Held' = Held
      BY <3>1, HandsKeepHeld
    <3>3. PathTypes' /\ HeldIntact'
      BY <3>1, <3>2, PassedOnStaysIntact, SizesAssumption DEF IntactInv, Hands, PathTypes, HeldIntact
    <3>4. InOrder'
      BY <2>4, HeadLeaves DEF IntactInv, Swallow
    <3> QED BY <2>1, <3>3, <3>4 DEF IntactInv
  <2>5. CASE Submit \/ Refuse \/ Cleared \/ PushFails \/ FormatChanged
    BY <2>1, <2>5, PipelineStaysIntact DEF Quiet
  <2>6. CASE Drained
    BY <2>1, <2>6, DrainedStaysIntact
  <2>7. CASE Publish \/ Present \/ Upload
    BY <2>1, <2>7, PassingStaysIntact
  <2> QED BY <1>2, <2>2, <2>3, <2>4, <2>5, <2>6, <2>7 DEF Next
<1>3. CASE platform = "macos" /\ MacNext
  <2>1. CASE Callback
    BY <1>3, <2>1, CallbackStaysIntact
  <2>2. CASE EnsureSession \/ CallbackEmpty
    <3>1. UNCHANGED platform
      BY <2>2 DEF EnsureSession, CallbackEmpty
    <3> QED BY <2>2, <3>1, PipelineStaysIntact DEF Quiet
  <2>3. CASE NoSession \/ DecodeFails \/ SinkFails
    <3>1. Refused /\ UNCHANGED platform
      BY <2>3 DEF NoSession, DecodeFails, SinkFails, Refused
    <3> QED BY <3>1, PipelineStaysIntact DEF Quiet
  <2>4. CASE SinkDrained
    BY <2>4, DrainedStaysIntact DEF SinkDrained, macVars
  <2>5. CASE Submit /\ UNCHANGED macVars
    BY <2>5, PipelineStaysIntact DEF macVars, Quiet
  <2>6. CASE ((Publish \/ Upload) /\ UNCHANGED macVars) \/ Draw
    BY <2>6, PassingStaysIntact DEF Draw, macVars
  <2> QED BY <1>3, <2>1, <2>2, <2>3, <2>4, <2>5, <2>6 DEF MacNext
<1> QED BY <1>1, <1>2, <1>3 DEF BothNext

-----------------------------------------------------------------------------
(* The theorem. *)

LEMMA StartIsIntact ==
  ASSUME BothInit PROVE IntactInv
<1>1. PICK known \in {"unknown", "direct", "planes"} :
        InitOn(known) /\ (platform = "macos" => known # "unknown")
  BY DEF BothInit, Init
<1>2. Held = {}
  BY <1>1 DEF InitOn, Held, Frames
<1>3. PathTypes
  BY <1>1, SizesAssumption DEF InitOn, PathTypes
<1>4. HeldIntact
  BY <1>1, <1>2 DEF InitOn, HeldIntact
<1>5. InOrder
  BY <1>1, SizesAssumption DEF InitOn, InOrder, Waiting
<1>6. OfMac
  BY <1>1 DEF InitOn, OfMac
<1> QED BY <1>3, <1>4, <1>5, <1>6 DEF IntactInv

LEMMA InvImpliesIntact ==
  ASSUME IntactInv PROVE Intact
<1> SUFFICES ASSUME NEW f \in Needed, path = "direct" \/ newest - f.unit < RingSize
             PROVE  picture[f.surface] = f.unit
  BY DEF Intact
<1>1. f \in Held
  BY DEF Needed, Held, IntactInv, HeldIntact
<1>2. FrameOk(f) /\ path \in {"direct", "copy", "planes"}
  BY <1>1 DEF IntactInv, HeldIntact, PathTypes
<1>3. CASE path = "direct"
  BY <1>2, <1>3 DEF FrameOk, DirectOk
<1>4. CASE path = "planes"
  BY <1>2, <1>4 DEF FrameOk, PlanesOk
<1>5. CASE path = "copy"
  BY <1>2, <1>5 DEF FrameOk, CopyOk, CopyAt
<1> QED BY <1>2, <1>3, <1>4, <1>5

\* On either system and every path, no frame's picture is overwritten while it may still be
\* drawn: a sample is not used again while the queue, the slot or the renderer holds it, and
\* a texture of the ring keeps its picture for RingSize - 1 further frames.
THEOREM PicturesIntact == BothSpec => []Intact
<1>1. BothInit => IntactInv
  BY StartIsIntact
<1>2. IntactInv /\ [BothNext]_<<vars, macVars>> => IntactInv'
  BY StepStaysIntact
<1>3. IntactInv => Intact
  BY InvImpliesIntact
<1> QED BY <1>1, <1>2, <1>3, PTL DEF BothSpec

-----------------------------------------------------------------------------
(* The newest frame is the one that is shown. *)

\* push() is under way.
Pushing == thread \in {"input", "clear", "retry", "drain", "decode"}

\* Only the last access unit's push may have failed since the thread was idle.
FailedPushes ==
  /\ thread \in {"idle", "publish", "input", "clear", "retry", "drain", "decode"}
  /\ pushed \in Nat /\ failed \subseteq 0 .. pushed
  /\ thread # "idle" => pushed \notin failed

\* The newest frame that came out is the last one of the queue, or else the one that push()
\* returned, or else the one in the slot.
NewestLast ==
  /\ thread = "idle" /\ pushed \notin failed => out = <<>>
  /\ out # <<>> => Last(out).unit = newest
  /\ thread # "publish" => hand = {}
  /\ thread = "publish" => out = <<>>
  /\ \A f \in hand : f.unit = newest
  /\ out = <<>> /\ hand = {} => \A f \in slot : f.unit = newest

Single(S) == \A f, g \in S : f = g

OneEach == Single(hand) /\ Single(slot) /\ Single(last) /\ Single(prev)

ShownInv == FailedPushes /\ NewestLast /\ OneEach

\* The pipeline thread goes on, starts a push or gives it up; no frame comes out.
GoesOn ==
  thread' = thread \/ (Pushing /\ Pushing')

Starts ==
  /\ thread = "idle" /\ Pushing' /\ pushed' = pushed + 1 /\ UNCHANGED failed
  /\ submitted' = Append(IF Len(submitted) >= SubmittedLimit THEN Tail(submitted) ELSE submitted,
                         pushed + 1)

GivesUp ==
  /\ Pushing /\ thread' = "idle" /\ UNCHANGED pushed /\ failed' = failed \cup {pushed}
  /\ submitted' = Front(submitted)

Goes == (GoesOn /\ UNCHANGED <<pushed, failed, submitted>>) \/ Starts \/ GivesUp

\* A frame comes out while push() is under way.
Comes(f) ==
  /\ Pushing /\ Pushing' /\ UNCHANGED <<pushed, failed, submitted>>
  /\ Joins(f) /\ newest' = f.unit /\ newest < f.unit /\ f.pts \in {f.unit, NoStamp}

\* The pipeline thread's steps, as far as they matter to what is shown.
PipelineStep ==
  \/ Goes /\ UNCHANGED <<out, newest, hand, slot, last, prev>>
  \/ \E f : Comes(f)
  \/ Drained
  \/ Publish

LEMMA StepIsPipelineStep ==
  ASSUME IntactInv, [BothNext]_<<vars, macVars>>
  PROVE  PipelineStep \/ Present
<1> DEFINE Same == UNCHANGED <<out, newest, hand, slot, last, prev>>
<1>1. CASE UNCHANGED <<vars, macVars>>
  BY <1>1 DEF vars, decoderVars, rendererVars, Goes, GoesOn, PipelineStep
<1>2. CASE Submit \/ Accept \/ Refuse \/ Swallow \/ FormatChanged \/ Cleared \/ PushFails \/ Upload
  <2>1. Same
    BY <1>2 DEF Submit, Accept, Refuse, Swallow, FormatChanged, Cleared, PushFails, Upload,
                decoderVars, rendererVars
  <2>2. Goes
    BY <1>2 DEF Submit, Accept, Refuse, Swallow, FormatChanged, Cleared, PushFails, Upload,
                Goes, GoesOn, Starts, GivesUp, Pushing, Draining
  <2> QED BY <2>1, <2>2 DEF PipelineStep
<1>3. CASE EnsureSession \/ CallbackEmpty \/ NoSession \/ DecodeFails \/ SinkFails
  <2>1. Same
    BY <1>3 DEF EnsureSession, CallbackEmpty, NoSession, DecodeFails, SinkFails, Refused,
                decoderVars, rendererVars
  <2>2. Goes
    BY <1>3 DEF EnsureSession, CallbackEmpty, NoSession, DecodeFails, SinkFails, Refused,
                Goes, GoesOn, Starts, GivesUp, Pushing
  <2> QED BY <2>1, <2>2 DEF PipelineStep
<1>4. CASE Output
  <2>1. Head(inside) \in Unit /\ newest < Head(inside)
    BY <1>4, HeadIsNewer DEF IntactInv, Output
  <2>2. PICK f : /\ f \in Frame /\ out' = Append(out, f) /\ f.unit = Head(inside)
                /\ f.pts \in {f.unit, NoStamp}
    <3>1. PICK sample \in Free, pts \in {Head(inside), NoStamp} :
            \/ path \in {"unknown", "direct"} /\ OutputDirect(sample, pts)
            \/ path \in {"unknown", "copy"} /\ OutputCopy(sample, pts)
            \/ path = "planes" /\ OutputPlanes(sample, pts)
      BY <1>4 DEF Output
    <3>2. ASSUME NEW surface \in Surface,
                 out' = Append(out, [unit |-> Head(inside), pts |-> pts, surface |-> surface])
          PROVE  \E f : /\ f \in Frame /\ out' = Append(out, f) /\ f.unit = Head(inside)
                         /\ f.pts \in {f.unit, NoStamp}
      BY <2>1, <3>2 DEF Frame
    <3>3. CASE OutputDirect(sample, pts)
      <4>1. sample \in Surface
        BY DEF Free, Surface
      <4> QED BY <3>2, <3>3, <4>1 DEF OutputDirect
    <3>4. CASE OutputCopy(sample, pts)
      <4>1. <<NextTexture.format, NextTexture.idx>> \in Surface
        <5>1. ring' = NextTexture /\ UNCHANGED format
          BY <1>4, <3>4 DEF OutputCopy, Output
        <5> QED BY <5>1, RingTurns DEF Surface, PathTypes, IntactInv
      <4> QED BY <3>2, <3>4, <4>1 DEF OutputCopy
    <3>5. CASE OutputPlanes(sample, pts)
      <4>1. <<Memory, Head(inside)>> \in Surface
        BY <2>1 DEF Surface
      <4> QED BY <3>2, <3>5, <4>1 DEF OutputPlanes
    <3> QED BY <3>1, <3>3, <3>4, <3>5
  <2>3. Comes(f)
    BY <1>4, <2>1, <2>2 DEF Output, Draining, Pushing, Comes, Joins, rendererVars
  <2> QED BY <2>3 DEF PipelineStep
<1>5. CASE Callback
  <2>1. PICK surface \in Free : Retained(surface) \/ Copied(surface)
    BY <1>5 DEF Callback
  <2>2. pushed \in Unit /\ newest < pushed
    BY <1>5 DEF IntactInv, InOrder, Waiting, Unit, Callback
  <2>3. PICK f : f \in Frame /\ out' = Append(out, f) /\ f.unit = pushed /\ f.pts = pushed
    <3>1. surface \in Surface /\ <<Memory, pushed>> \in Surface
      BY <2>2 DEF Free, Surface
    <3>2. ASSUME NEW texture \in Surface,
                 out' = Append(out, [unit |-> pushed, pts |-> pushed, surface |-> texture])
          PROVE  \E f : f \in Frame /\ out' = Append(out, f) /\ f.unit = pushed /\ f.pts = pushed
      BY <2>2, <3>2 DEF Frame
    <3> QED BY <2>1, <3>1, <3>2 DEF Retained, Copied
  <2>4. Comes(f)
    BY <1>5, <2>2, <2>3 DEF Callback, Pushing, Comes, Joins, rendererVars
  <2> QED BY <2>4 DEF PipelineStep
<1>6. CASE Drained \/ Publish
  BY <1>6 DEF PipelineStep
<1> QED BY <1>1, <1>2, <1>3, <1>4, <1>5, <1>6 DEF BothNext, Next, MacNext, SinkDrained, Draw

LEMMA GoesKeepsShown ==
  ASSUME ShownInv, Goes, UNCHANGED <<out, newest, hand, slot, last, prev>>
  PROVE  ShownInv'
<1>1. FailedPushes'
  <2>1. FailedPushes
    BY DEF ShownInv
  <2>2. failed' \subseteq 0 .. pushed' /\ pushed' \in Nat
    <3>1. /\ pushed' = pushed \/ pushed' = pushed + 1
          /\ failed' \subseteq failed \cup {pushed}
      BY DEF Goes, Starts, GivesUp
    <3>2. pushed \in Nat /\ failed \subseteq 0 .. pushed
      BY <2>1 DEF FailedPushes
    <3> QED BY <3>1, <3>2
  <2>3. thread' # "idle" => pushed' \notin failed'
    BY <2>1 DEF FailedPushes, Goes, GoesOn, Starts, GivesUp, Pushing
  <2> QED BY <2>1, <2>2, <2>3 DEF FailedPushes, Goes, GoesOn, Starts, GivesUp, Pushing
<1>2. NewestLast'
  BY DEF ShownInv, FailedPushes, NewestLast, Goes, GoesOn, Starts, GivesUp, Pushing
<1>3. OneEach'
  BY DEF ShownInv, OneEach, Single
<1> QED BY <1>1, <1>2, <1>3 DEF ShownInv

LEMMA ComesKeepsShown ==
  ASSUME IntactInv, ShownInv, NEW f, Comes(f) PROVE ShownInv'
<1>1. FailedPushes'
  BY DEF ShownInv, FailedPushes, Comes, Pushing
<1>2. out' # <<>> /\ Last(out') = f
  <2>1. out \in Seq(Frame) /\ f \in Frame /\ out' = Append(out, f)
    BY DEF IntactInv, PathTypes, Comes, Joins
  <2> QED BY <2>1, AppendProperties DEF Last
<1>3. NewestLast'
  BY <1>2 DEF ShownInv, NewestLast, Comes, Joins, Pushing
<1>4. OneEach'
  BY DEF ShownInv, OneEach, Single, Comes, Joins
<1> QED BY <1>1, <1>3, <1>4 DEF ShownInv

LEMMA PassingKeepsShown ==
  ASSUME ShownInv, Drained \/ Publish \/ Present PROVE ShownInv'
<1>1. CASE Drained
  <2>1. FailedPushes'
    BY <1>1 DEF ShownInv, FailedPushes, Drained
  <2>2. NewestLast'
    BY <1>1 DEF ShownInv, NewestLast, Drained
  <2>3. OneEach'
    BY <1>1 DEF ShownInv, OneEach, Single, Drained, rendererVars
  <2> QED BY <2>1, <2>2, <2>3 DEF ShownInv
<1>2. CASE Publish
  <2>1. FailedPushes'
    BY <1>2 DEF ShownInv, FailedPushes, Publish
  <2>2. NewestLast'
    BY <1>2 DEF ShownInv, NewestLast, Publish, decoderVars
  <2>3. OneEach'
    BY <1>2 DEF ShownInv, OneEach, Single, Publish, rendererVars
  <2> QED BY <2>1, <2>2, <2>3 DEF ShownInv
<1>3. CASE Present
  <2>1. FailedPushes'
    BY <1>3 DEF ShownInv, FailedPushes, Present
  <2>2. NewestLast'
    BY <1>3 DEF ShownInv, NewestLast, Present, decoderVars
  <2>3. OneEach'
    BY <1>3 DEF ShownInv, OneEach, Single, Present
  <2> QED BY <2>1, <2>2, <2>3 DEF ShownInv
<1> QED BY <1>1, <1>2, <1>3

LEMMA StepKeepsShown ==
  ASSUME IntactInv, ShownInv, [BothNext]_<<vars, macVars>> PROVE ShownInv'
<1>1. PipelineStep \/ Present
  BY StepIsPipelineStep
<1> QED BY <1>1, GoesKeepsShown, ComesKeepsShown, PassingKeepsShown DEF PipelineStep

LEMMA StartIsShown ==
  ASSUME BothInit PROVE ShownInv
<1>1. PICK known \in {"unknown", "direct", "planes"} : InitOn(known)
  BY DEF BothInit, Init
<1> QED BY <1>1 DEF InitOn, ShownInv, FailedPushes, NewestLast, OneEach, Single

LEMMA InvImpliesNewest ==
  ASSUME ShownInv PROVE NeverBehind
BY DEF ShownInv, NewestLast, NeverBehind

\* On either system and every path, the slot holds the newest frame that ever came out of
\* the decoder after every push that worked: what is shown is never behind what is decoded,
\* though frames of pushes that failed stay in the queue and are drained by a later one.
THEOREM ShowsNewest == BothSpec => []NeverBehind
<1>1. BothInit => IntactInv /\ ShownInv
  BY StartIsIntact, StartIsShown
<1>2. IntactInv /\ ShownInv /\ [BothNext]_<<vars, macVars>> => (IntactInv /\ ShownInv)'
  BY StepStaysIntact, StepKeepsShown
<1>3. ShownInv => NeverBehind
  BY InvImpliesNewest
<1> QED BY <1>1, <1>2, <1>3, PTL DEF BothSpec

-----------------------------------------------------------------------------
(* The decoder's samples. *)

\* A set of at most one element lies in one of one element.
LEMMA SingleInOne ==
  ASSUME NEW S, Single(S)
  PROVE  \E x : S \subseteq {x}
<1>1. CASE S = {}
  BY <1>1
<1>2. CASE S # {}
  <2>1. PICK x : x \in S
    BY <1>2
  <2> QED BY <2>1 DEF Single
<1> QED BY <1>1, <1>2

LEMMA WithoutOne ==
  ASSUME NEW S, IsFiniteSet(S), NEW x
  PROVE  /\ IsFiniteSet(S \ {x}) /\ Cardinality(S) \in Nat /\ Cardinality(S \ {x}) \in Nat
         /\ Cardinality(S \ {x}) >= Cardinality(S) - 1
<1>1. IsFiniteSet(S \ {x}) /\ Cardinality(S) \in Nat
  BY FS_RemoveElement, FS_CardinalityType
<1>2. Cardinality(S \ {x}) = IF x \in S THEN Cardinality(S) - 1 ELSE Cardinality(S)
  BY FS_RemoveElement
<1>3. Cardinality(S \ {x}) \in Nat
  BY <1>1, FS_CardinalityType
<1> QED BY <1>1, <1>2, <1>3

LEMMA ThreeAreKept ==
  ASSUME NEW S, IsFiniteSet(S), NEW K, NEW a, NEW b, NEW c, K \subseteq {a, b, c}
  PROVE  Cardinality(S \ K) \in Nat /\ Cardinality(S \ K) >= Cardinality(S) - 3
<1> DEFINE A == S \ {a}
           B == A \ {b}
           T == B \ {c}
<1>1. IsFiniteSet(S \ K) /\ T \subseteq S \ K
  BY FS_Difference
<1>2. /\ IsFiniteSet(A) /\ Cardinality(A) \in Nat /\ Cardinality(S) \in Nat
      /\ Cardinality(A) >= Cardinality(S) - 1
  BY WithoutOne
<1> HIDE DEF A
<1>3. IsFiniteSet(B) /\ Cardinality(B) \in Nat /\ Cardinality(B) >= Cardinality(A) - 1
  BY <1>2, WithoutOne
<1> HIDE DEF B
<1>4. IsFiniteSet(T) /\ Cardinality(T) \in Nat /\ Cardinality(T) >= Cardinality(B) - 1
  BY <1>3, WithoutOne
<1> HIDE DEF T
<1>5. Cardinality(T) <= Cardinality(S \ K) /\ Cardinality(S \ K) \in Nat
  BY <1>1, FS_Subset, FS_CardinalityType
<1> QED BY <1>2, <1>3, <1>4, <1>5

LEMMA InvImpliesSamples ==
  ASSUME ShownInv PROVE SamplesSuffice
<1> SUFFICES ASSUME thread = "idle", pushed \notin failed
             PROVE  Cardinality(Free) >= Cardinality(Samples) - 3
  BY DEF SamplesSuffice
<1>1. Frames(out) = {} /\ hand = {}
  BY DEF ShownInv, NewestLast, Frames
<1>2. PICK x, y, z : slot \subseteq {x} /\ last \subseteq {y} /\ prev \subseteq {z}
  BY SingleInOne DEF ShownInv, OneEach
<1>3. Kept \subseteq {x.surface, y.surface, z.surface}
  BY <1>1, <1>2 DEF Kept
<1> HIDE DEF Kept
<1> QED BY <1>3, ThreeAreKept, SamplesAssumption DEF Free

\* On either system and every path, between pushes all of the decoder's samples but three
\* are free for it, unless the last push failed.
THEOREM ThreeSamplesAreEnough == BothSpec => []SamplesSuffice
<1>1. BothInit => IntactInv /\ ShownInv
  BY StartIsIntact, StartIsShown
<1>2. IntactInv /\ ShownInv /\ [BothNext]_<<vars, macVars>> => (IntactInv /\ ShownInv)'
  BY StepStaysIntact, StepKeepsShown
<1>3. ShownInv => SamplesSuffice
  BY InvImpliesSamples
<1> QED BY <1>1, <1>2, <1>3, PTL DEF BothSpec

-----------------------------------------------------------------------------
(* The submissions that are remembered. *)

\* Access units in order, none newer than p, with no gap at the end too small for them.
Sorted(s, p) ==
  /\ s \in Seq(1 .. p)
  /\ \A i \in 1 .. Len(s) : s[i] + (Len(s) - i) <= p
  /\ \A i, j \in 1 .. Len(s) : i < j => s[i] < s[j]

Has(s, u) == \E i \in 1 .. Len(s) : s[i] = u

LEMMA SortedSuffix ==
  ASSUME NEW p \in Nat, NEW s, Sorted(s, p), NEW m \in 1 .. Len(s) + 1, NEW t,
         t = SubSeq(s, m, Len(s))
  PROVE  /\ Sorted(t, p)
         /\ \A k \in 1 .. Len(s) : k >= m => Has(t, s[k])
<1>1. s \in Seq(1 .. p) /\ Len(s) \in Nat /\ \A i \in m .. Len(s) : s[i] \in 1 .. p
  BY ElementOfSeq DEF Sorted
<1>2. /\ t \in Seq(1 .. p) /\ Len(t) = Len(s) - m + 1
      /\ \A i \in 1 .. Len(s) - m + 1 : t[i] = s[m + i - 1]
  BY <1>1, SubSeqProperties, SMTT(30)
<1>3. ASSUME NEW i \in 1 .. Len(t) PROVE t[i] + (Len(t) - i) <= p
  <2> DEFINE k == m + i - 1
  <2>1. t[i] = s[k] /\ k \in 1 .. Len(s) /\ s[k] \in Nat /\ Len(t) - i = Len(s) - k
    BY <1>1, <1>2
  <2> HIDE DEF k
  <2>2. s[k] + (Len(s) - k) <= p
    BY <2>1 DEF Sorted
  <2> QED BY <2>1, <2>2
<1>4. ASSUME NEW i \in 1 .. Len(t), NEW j \in 1 .. Len(t), i < j PROVE t[i] < t[j]
  <2>1. /\ m + i - 1 \in 1 .. Len(s) /\ m + j - 1 \in 1 .. Len(s) /\ m + i - 1 < m + j - 1
        /\ t[i] = s[m + i - 1] /\ t[j] = s[m + j - 1]
    BY <1>1, <1>2, <1>4
  <2> QED BY <2>1 DEF Sorted
<1>5. ASSUME NEW k \in 1 .. Len(s), k >= m PROVE Has(t, s[k])
  <2>1. k - m + 1 \in 1 .. Len(t) /\ m + (k - m + 1) - 1 = k
    BY <1>1, <1>2, <1>5
  <2>2. t[k - m + 1] = s[k]
    BY <1>2, <2>1
  <2> QED BY <2>1, <2>2 DEF Has
<1> QED BY <1>2, <1>3, <1>4, <1>5 DEF Sorted

LEMMA SortedAppend ==
  ASSUME NEW p, p \in Nat, NEW s, Sorted(s, p)
  PROVE  /\ Sorted(Append(s, p + 1), p + 1) /\ Append(s, p + 1) # <<>>
         /\ Last(Append(s, p + 1)) = p + 1 /\ Has(Append(s, p + 1), p + 1)
         /\ \A u : Has(s, u) => Has(Append(s, p + 1), u)
<1> DEFINE t == Append(s, p + 1)
<1>1. s \in Seq(1 .. p + 1)
  BY SeqMonotonic DEF Sorted
<1>2. /\ t \in Seq(1 .. p + 1) /\ t # <<>> /\ Len(t) = Len(s) + 1 /\ Len(s) \in Nat
      /\ \A i \in 1 .. Len(s) : t[i] = s[i] /\ s[i] \in 1 .. p
      /\ t[Len(s) + 1] = p + 1
  <2>1. p + 1 \in 1 .. p + 1
    OBVIOUS
  <2>2. \A i \in 1 .. Len(s) : s[i] \in 1 .. p
    BY ElementOfSeq DEF Sorted
  <2>3. Len(s) \in Nat
    BY <1>1, LenProperties
  <2>4. /\ t \in Seq(1 .. p + 1) /\ t # <<>> /\ Len(t) = Len(s) + 1
        /\ \A i \in 1 .. Len(s) : t[i] = s[i]
        /\ t[Len(s) + 1] = p + 1
    <3> DEFINE S == 1 .. p + 1
               e == p + 1
    <3>1. s \in Seq(S) /\ e \in S
      BY <1>1, <2>1
    <3> HIDE DEF S, e
    <3> DEFINE u == Append(s, e)
    <3>2. /\ u \in Seq(S) /\ u # <<>> /\ Len(u) = Len(s) + 1
          /\ \A i \in 1 .. Len(s) : u[i] = s[i]
          /\ u[Len(s) + 1] = e
      BY <3>1, AppendProperties
    <3>3. u = t
      BY DEF e
    <3> HIDE DEF u, t
    <3> QED BY <3>2, <3>3 DEF S, e
  <2> QED BY <2>2, <2>3, <2>4
<1> HIDE DEF t
<1>3. ASSUME NEW i \in 1 .. Len(t) PROVE t[i] + (Len(t) - i) <= p + 1
  <2>1. CASE i = Len(s) + 1
    BY <1>2, <2>1
  <2>2. CASE i \in 1 .. Len(s)
    <3>1. s[i] + (Len(s) - i) <= p
      BY <2>2 DEF Sorted
    <3> QED BY <1>2, <2>2, <3>1, SMTT(30)
  <2> QED BY <1>2, <2>1, <2>2
<1>4. ASSUME NEW i \in 1 .. Len(t), NEW j \in 1 .. Len(t), i < j PROVE t[i] < t[j]
  <2>1. i \in 1 .. Len(s)
    BY <1>2, <1>4
  <2>2. CASE j \in 1 .. Len(s)
    BY <1>2, <1>4, <2>1, <2>2 DEF Sorted
  <2>3. CASE j = Len(s) + 1
    BY <1>2, <2>1, <2>3
  <2> QED BY <1>2, <2>2, <2>3
<1>5. Last(t) = p + 1
  BY <1>2 DEF Last
<1>6. Has(t, p + 1) /\ \A u : Has(s, u) => Has(t, u)
  <2>1. \A i \in 1 .. Len(s) : i \in 1 .. Len(t)
    BY <1>2
  <2>2. Len(s) + 1 \in 1 .. Len(t)
    BY <1>2
  <2> QED BY <1>2, <2>1, <2>2 DEF Has
<1> QED BY <1>2, <1>3, <1>4, <1>5, <1>6 DEF Sorted, t

LEMMA SortedFront ==
  ASSUME NEW p \in Nat, NEW s, Sorted(s, p), s # <<>>, NEW t, t = Front(s)
  PROVE  Sorted(t, p) /\ \A u : Has(s, u) /\ u # Last(s) => Has(t, u)
<1>1. PICK n \in Nat \ {0} : Len(s) = n
  BY EmptySeq DEF Sorted
<1>2. \A i \in 1 .. n : s[i] \in 1 .. p
  BY <1>1, ElementOfSeq DEF Sorted
<1>3. /\ t \in Seq(1 .. p)
      /\ Len(t) = IF 1 <= n - 1 THEN (n - 1) - 1 + 1 ELSE 0
      /\ \A i \in 1 .. (n - 1) - 1 + 1 : t[i] = s[1 + i - 1]
  <2>1. \A i \in 1 .. n - 1 : s[i] \in 1 .. p
    BY <1>2
  <2>2. t = SubSeq(s, 1, n - 1)
    BY <1>1 DEF Front
  <2> QED BY <2>1, <2>2, SubSeqProperties
<1>4. Len(t) = n - 1
  BY <1>3
<1>5. ASSUME NEW i \in 1 .. n - 1 PROVE t[i] = s[i]
  <2>1. i \in 1 .. (n - 1) - 1 + 1 /\ 1 + i - 1 = i
    OBVIOUS
  <2> QED BY <1>3, <2>1
<1>6. ASSUME NEW i \in 1 .. Len(t) PROVE t[i] + (Len(t) - i) <= p
  <2>1. i \in 1 .. Len(s) /\ t[i] = s[i] /\ s[i] \in Nat
    BY <1>1, <1>2, <1>4, <1>5
  <2>2. s[i] + (n - i) <= p
    BY <1>1, <2>1 DEF Sorted
  <2> QED BY <1>4, <2>1, <2>2
<1>7. ASSUME NEW i \in 1 .. Len(t), NEW j \in 1 .. Len(t), i < j PROVE t[i] < t[j]
  <2>1. i \in 1 .. Len(s) /\ j \in 1 .. Len(s) /\ t[i] = s[i] /\ t[j] = s[j]
    BY <1>1, <1>4, <1>5
  <2> QED BY <1>7, <2>1 DEF Sorted
<1>8. ASSUME NEW u, Has(s, u), u # Last(s) PROVE Has(t, u)
  <2>1. PICK i \in 1 .. n : s[i] = u
    BY <1>1, <1>8 DEF Has
  <2>2. i # n
    BY <1>1, <1>8, <2>1 DEF Last
  <2>3. i \in 1 .. n - 1
    BY <2>2
  <2> QED BY <1>4, <1>5, <2>1, <2>3 DEF Has
<1> QED BY <1>3, <1>6, <1>7, <1>8 DEF Sorted

\* A frame came out after every frame before it, unless it is on its way to the slot.
Fresh(u) == u > newest \/ \E f \in Frames(out) \cup hand : f.unit = u

\* Submissions are not forgotten while their frame may still be published, except those
\* whose push failed and those that SubmittedLimit others displaced.
Remembered ==
  /\ Sorted(submitted, pushed)
  /\ Pushing => submitted # <<>> /\ Last(submitted) = pushed
  /\ \A u \in (1 .. pushed) \ failed :
       u + SubmittedLimit > pushed /\ Fresh(u) => Has(submitted, u)
  /\ \A f \in Frames(out) \cup hand : f.pts \in {f.unit, NoStamp}

\* What is left of the submissions once a frame is published: those after it, and whether
\* its own was found.
LEMMA MatchFinds ==
  ASSUME NEW p \in Nat, Sorted(submitted, p), NEW pts \in Nat, NEW rest, rest = Match(pts),
         NEW found \in BOOLEAN, found = (rest # <<>> /\ Head(rest) = pts),
         NEW left, left = IF found THEN Tail(rest) ELSE rest
  PROVE  /\ Sorted(left, p)
         /\ \A u : Has(submitted, u) /\ u > pts => Has(left, u)
         /\ Has(submitted, pts) => found
<1>1. PICK n \in Nat : Len(submitted) = n /\ submitted \in Seq(1 .. p)
  BY LenProperties DEF Sorted
<1>2. \A i \in 1 .. n : submitted[i] \in 1 .. p
  BY <1>1, ElementOfSeq
<1> DEFINE I == {i \in 1 .. Len(submitted) : submitted[i] >= pts}
<1>3. PICK first : first = (IF I # {} THEN Min(I) ELSE 0) /\ rest = From(first)
  BY DEF Match, SelectInSeq
<1>4. \/ first = 0 /\ \A i \in 1 .. n : ~ (submitted[i] >= pts)
      \/ /\ first \in 1 .. n /\ submitted[first] >= pts
         /\ \A i \in 1 .. n : submitted[i] >= pts => first <= i
  <2>1. I # {} => Min(I) \in I /\ \A i \in I : Min(I) <= i
    BY <1>1, LeastPosition
  <2> QED BY <1>1, <1>3, <2>1
<1> HIDE DEF I
<1>5. CASE first = 0
  <2>1. rest = <<>> /\ ~found /\ left = <<>>
    BY <1>3, <1>5 DEF From
  <2>2. Sorted(left, p)
    BY <2>1, EmptySeq DEF Sorted
  <2>3. ~ \E u : Has(submitted, u) /\ u >= pts
    BY <1>1, <1>2, <1>4, <1>5 DEF Has
  <2> QED BY <1>1, <1>2, <1>4, <1>5, <2>2, <2>3 DEF Has
<1>6. CASE first # 0
  <2>1. /\ first \in 1 .. n /\ submitted[first] >= pts
        /\ \A i \in 1 .. n : submitted[i] >= pts => first <= i
    BY <1>4, <1>6
  <2>2. rest = SubSeq(submitted, first, n)
    BY <1>1, <1>3, <1>6 DEF From
  <2>3. rest # <<>> /\ Head(rest) = submitted[first] /\ Tail(rest) = SubSeq(submitted, first + 1, n)
    <3>1. Head(rest) = submitted[first] /\ Tail(rest) = SubSeq(submitted, first + 1, n)
      BY <1>1, <2>1, <2>2, HeadTailOfSubSeq
    <3>2. Len(rest) = n - first + 1
      BY <1>1, <1>2, <2>1, <2>2, SubSeqProperties
    <3> QED BY <2>1, <3>1, <3>2, EmptySeq
  <2>4. found = (submitted[first] = pts)
    BY <2>3
  <2>5. PICK m \in {first, first + 1} :
          left = SubSeq(submitted, m, n) /\ (m = first + 1 => submitted[first] = pts)
    <3>1. CASE found
      BY <2>3, <2>4, <3>1
    <3>2. CASE ~found
      <4>1. first # first + 1
        BY <2>1
      <4> QED BY <2>2, <3>2, <4>1
    <3> QED BY <3>1, <3>2
  <2>6. Sorted(left, p) /\ \A k \in 1 .. n : k >= m => Has(left, submitted[k])
    <3>1. m \in 1 .. n + 1
      BY <2>1, <2>5
    <3> QED BY <1>1, <2>5, <3>1, SortedSuffix
  <2>7. ASSUME NEW u, Has(submitted, u), u > pts PROVE Has(left, u)
    <3>1. PICK k \in 1 .. n : submitted[k] = u
      BY <1>1, <2>7 DEF Has
    <3>2. first <= k
      BY <1>2, <2>1, <2>7, <3>1
    <3>3. k >= m
      BY <1>2, <2>1, <2>5, <2>7, <3>1, <3>2
    <3> QED BY <2>6, <3>1, <3>3
  <2>8. ASSUME Has(submitted, pts) PROVE found
    <3>1. PICK k \in 1 .. n : submitted[k] = pts
      BY <1>1, <2>8 DEF Has
    <3>2. first <= k
      BY <1>2, <2>1, <3>1
    <3>3. first < k => submitted[first] < submitted[k]
      BY <1>1, <2>1 DEF Sorted
    <3>4. submitted[first] \in Nat /\ submitted[k] \in Nat
      BY <1>2, <2>1, <3>1
    <3>5. ~ (first < k)
      BY <2>1, <3>1, <3>3, <3>4
    <3>6. first = k
      BY <2>1, <3>2, <3>5
    <3> QED BY <2>4, <3>1, <3>6
  <2> QED BY <2>6, <2>7, <2>8
<1> QED BY <1>5, <1>6

\* A new submission displaces the oldest one when SubmittedLimit are remembered.
LEMMA SubmitRemembers ==
  ASSUME Remembered, ShownInv, NEW kept,
         kept = IF Len(submitted) >= SubmittedLimit THEN Tail(submitted) ELSE submitted
  PROVE  /\ Sorted(kept, pushed)
         /\ \A u \in 1 .. pushed :
              Has(submitted, u) /\ u + SubmittedLimit > pushed + 1 => Has(kept, u)
<1>1. PICK n \in Nat : Len(submitted) = n /\ submitted \in Seq(1 .. pushed)
  BY LenProperties DEF Remembered, Sorted
<1>2. pushed \in Nat /\ SubmittedLimit \in Nat \ {0}
  BY SizesAssumption DEF ShownInv, FailedPushes
<1>3. CASE ~ (n >= SubmittedLimit)
  BY <1>1, <1>3 DEF Remembered
<1>4. CASE n >= SubmittedLimit
  <2>1. submitted # <<>> /\ n >= 1
    BY <1>1, <1>2, <1>4, EmptySeq
  <2>2. kept = SubSeq(submitted, 2, n)
    BY <1>1, <1>4, <2>1, TailIsSubSeq
  <2>3. Sorted(kept, pushed) /\ \A k \in 1 .. n : k >= 2 => Has(kept, submitted[k])
    <3>1. 2 \in 1 .. n + 1
      BY <2>1
    <3> QED BY <1>1, <1>2, <2>2, <3>1, SortedSuffix DEF Remembered
  <2>4. ASSUME NEW u \in 1 .. pushed, Has(submitted, u), u + SubmittedLimit > pushed + 1
        PROVE  Has(kept, u)
    <3>1. PICK k \in 1 .. n : submitted[k] = u
      BY <1>1, <2>4 DEF Has
    <3>2. u + (n - k) <= pushed
      BY <1>1, <3>1 DEF Remembered, Sorted
    <3>3. k >= 2
      BY <1>2, <1>4, <2>4, <3>2
    <3> QED BY <2>3, <3>1, <3>3
  <2> QED BY <2>3, <2>4
<1> QED BY <1>1, <1>3, <1>4

LEMMA GoesRemembers ==
  ASSUME IntactInv, ShownInv, Remembered, Goes, UNCHANGED <<out, newest, hand, slot, last, prev>>
  PROVE  Remembered'
<1>1. /\ \A u : Fresh(u)' <=> Fresh(u)
      /\ \A f \in (Frames(out) \cup hand)' : f.pts \in {f.unit, NoStamp}
  BY DEF Fresh, Frames, Remembered
<1>2. pushed \in Nat /\ newest \in 0 .. pushed /\ SubmittedLimit \in Nat \ {0}
  BY SizesAssumption DEF IntactInv, InOrder, ShownInv, FailedPushes
<1>3. CASE GoesOn /\ UNCHANGED <<pushed, failed, submitted>>
  <2>1. Pushing' => Pushing
    BY <1>3 DEF GoesOn, Pushing
  <2> QED BY <1>1, <1>3, <2>1 DEF Remembered
<1>4. CASE Starts
  <2>1. PICK kept : kept = IF Len(submitted) >= SubmittedLimit THEN Tail(submitted) ELSE submitted
    OBVIOUS
  <2>2. /\ Sorted(kept, pushed)
        /\ \A u \in 1 .. pushed :
             Has(submitted, u) /\ u + SubmittedLimit > pushed + 1 => Has(kept, u)
    BY <2>1, SubmitRemembers
  <2>3. /\ Sorted(submitted', pushed + 1) /\ submitted' # <<>> /\ Last(submitted') = pushed + 1
        /\ Has(submitted', pushed + 1) /\ \A u : Has(kept, u) => Has(submitted', u)
    <3>1. submitted' = Append(kept, pushed + 1)
      BY <1>4, <2>1 DEF Starts
    <3>2. PICK t : t = Append(kept, pushed + 1)
      OBVIOUS
    <3>3. /\ Sorted(t, pushed + 1) /\ t # <<>> /\ Last(t) = pushed + 1
          /\ Has(t, pushed + 1) /\ \A u : Has(kept, u) => Has(t, u)
      <4>1. pushed \in Nat /\ Sorted(kept, pushed)
        BY <1>2, <2>2
      <4> QED BY <3>2, <4>1, SortedAppend
    <3> QED BY <3>1, <3>2, <3>3
  <2>4. ASSUME NEW u \in (1 .. pushed + 1) \ failed, u + SubmittedLimit > pushed + 1, Fresh(u)
        PROVE  Has(submitted', u)
    <3>1. CASE u = pushed + 1
      BY <2>3, <3>1
    <3>2. CASE u # pushed + 1
      <4>1. u \in (1 .. pushed) \ failed /\ u + SubmittedLimit > pushed
        BY <1>2, <2>4, <3>2
      <4>2. Has(submitted, u)
        BY <2>4, <4>1 DEF Remembered
      <4> QED BY <2>2, <2>3, <2>4, <4>1, <4>2
    <3> QED BY <3>1, <3>2
  <2> QED BY <1>1, <1>4, <2>3, <2>4 DEF Remembered, Starts
<1>5. CASE GivesUp
  <2>1. Sorted(submitted', pushed)
        /\ \A u : Has(submitted, u) /\ u # pushed => Has(submitted', u)
    BY <1>2, <1>5, SortedFront DEF Remembered, GivesUp
  <2>2. ASSUME NEW u \in (1 .. pushed) \ failed', u + SubmittedLimit > pushed, Fresh(u)
        PROVE  Has(submitted', u)
    <3>1. u \in (1 .. pushed) \ failed /\ u # pushed
      BY <1>5, <2>2 DEF GivesUp
    <3> QED BY <2>1, <2>2, <3>1 DEF Remembered
  <2>3. ~Pushing'
    BY <1>5 DEF GivesUp, Pushing
  <2> QED BY <1>1, <1>5, <2>1, <2>2, <2>3 DEF Remembered, GivesUp
<1> QED BY <1>3, <1>4, <1>5 DEF Goes

LEMMA ComesRemembers ==
  ASSUME IntactInv, Remembered, NEW f, Comes(f) PROVE Remembered'
<1>1. /\ newest \in Nat /\ f \in Frame /\ newest' = f.unit /\ newest < f.unit
      /\ f.pts \in {f.unit, NoStamp}
      /\ UNCHANGED <<pushed, failed, submitted, hand>> /\ Pushing
  BY DEF IntactInv, InOrder, Comes, Joins
<1>2. Frames(out)' = Frames(out) \cup {f}
  <2>1. Frames(out') = Frames(out) \cup {f}
    BY FramesAppend DEF IntactInv, PathTypes, Comes, Joins
  <2> QED BY <2>1 DEF Frames
<1>3. f.unit \in Nat
  BY <1>1 DEF Frame, Unit
<1>4. ASSUME NEW u \in Nat, Fresh(u)' PROVE Fresh(u)
  BY <1>1, <1>2, <1>3, <1>4 DEF Fresh
<1>5. ASSUME NEW u \in (1 .. pushed) \ failed, u + SubmittedLimit > pushed, Fresh(u)'
      PROVE  Has(submitted, u)
  BY <1>4, <1>5 DEF Remembered
<1>6. \A g \in (Frames(out) \cup hand)' : g.pts \in {g.unit, NoStamp}
  BY <1>1, <1>2 DEF Remembered
<1> QED BY <1>1, <1>5, <1>6 DEF Remembered

LEMMA DrainedRemembers ==
  ASSUME IntactInv, Remembered, Drained PROVE Remembered'
<1>1. /\ out \in Seq(Frame) /\ out' = <<>> /\ hand' = (IF out = <<>> THEN {} ELSE {Last(out)})
      /\ UNCHANGED <<pushed, failed, submitted, newest>> /\ ~Pushing'
  BY DEF IntactInv, PathTypes, Drained, Pushing
<1>2. (Frames(out) \cup hand)' \subseteq Frames(out)
  BY <1>1, LastIsThere DEF Frames
<1>3. \A u : Fresh(u)' => Fresh(u)
  BY <1>1, <1>2 DEF Fresh
<1> QED BY <1>1, <1>2, <1>3 DEF Remembered

\* The frame that push() returned, and its submission.
LEMMA PublishMatches ==
  ASSUME IntactInv, ShownInv, Remembered, Publish
  PROVE  \E f \in hand, found \in BOOLEAN :
           /\ f.unit \in Unit /\ f.unit = newest /\ f.pts \in {f.unit, NoStamp}
           /\ Sorted(submitted', pushed)
           /\ \A u : Has(submitted, u) /\ u > f.pts => Has(submitted', u)
           /\ Has(submitted, f.pts) => found
           /\ timed' = IF found THEN timed \cup {f.pts} ELSE timed
<1>1. PICK f \in hand :
        LET rest  == Match(f.pts)
            found == rest # <<>> /\ Head(rest) = f.pts
        IN  /\ submitted' = IF found THEN Tail(rest) ELSE rest
            /\ timed' = IF found THEN timed \cup {f.pts} ELSE timed
  BY DEF Publish
<1>2. PICK rest, found : rest = Match(f.pts) /\ found = (rest # <<>> /\ Head(rest) = f.pts)
  OBVIOUS
<1>3. f.unit \in Unit /\ f.unit = newest /\ f.pts \in {f.unit, NoStamp}
  <2>1. f \in Held
    BY DEF Held
  <2> QED BY <2>1 DEF IntactInv, HeldIntact, FrameOk, ShownInv, NewestLast, Remembered
<1>4. pushed \in Nat /\ f.pts \in Nat
  BY <1>3 DEF ShownInv, FailedPushes, Unit, NoStamp
<1>5. PICK left : left = IF found THEN Tail(rest) ELSE rest
  OBVIOUS
<1>6. /\ Sorted(left, pushed)
      /\ \A u : Has(submitted, u) /\ u > f.pts => Has(left, u)
      /\ Has(submitted, f.pts) => found
  <2>1. found \in BOOLEAN /\ Sorted(submitted, pushed)
    BY <1>2 DEF Remembered
  <2> QED BY <1>2, <1>4, <1>5, <2>1, MatchFinds
<1>7. /\ submitted' = left
      /\ timed' = IF found THEN timed \cup {f.pts} ELSE timed
  BY <1>1, <1>2, <1>5
<1> QED BY <1>2, <1>3, <1>6, <1>7

LEMMA PublishRemembers ==
  ASSUME IntactInv, ShownInv, Remembered, Publish PROVE Remembered'
<1>1. PICK f \in hand :
        /\ f.unit \in Unit /\ f.unit = newest /\ f.pts \in {f.unit, NoStamp}
        /\ Sorted(submitted', pushed)
        /\ \A u : Has(submitted, u) /\ u > f.pts => Has(submitted', u)
  BY PublishMatches
<1>2. /\ UNCHANGED <<pushed, failed, newest, out>> /\ ~Pushing' /\ hand' = {}
      /\ Frames(out) = {} /\ Frames(out)' = {}
  BY DEF Publish, decoderVars, Pushing, ShownInv, NewestLast, Frames
<1>3. ASSUME NEW u \in (1 .. pushed) \ failed, u + SubmittedLimit > pushed, Fresh(u)'
      PROVE  Has(submitted', u)
  <2>1. u > newest
    BY <1>2, <1>3 DEF Fresh
  <2>2. Fresh(u) /\ u > f.pts
    BY <1>1, <2>1 DEF Fresh, Unit, NoStamp
  <2>3. Has(submitted, u)
    BY <1>3, <2>2 DEF Remembered
  <2> QED BY <1>1, <2>2, <2>3
<1> QED BY <1>1, <1>2, <1>3 DEF Remembered

LEMMA StepRemembers ==
  ASSUME IntactInv, ShownInv, Remembered, [BothNext]_<<vars, macVars>> PROVE Remembered'
<1>1. PipelineStep \/ Present
  BY StepIsPipelineStep
<1>2. CASE Present
  <2>1. /\ UNCHANGED <<pushed, failed, submitted>> /\ (Pushing' <=> Pushing)
        /\ \A u : Fresh(u)' <=> Fresh(u)
        /\ (Frames(out) \cup hand)' = Frames(out) \cup hand
    BY <1>2 DEF Present, decoderVars, Pushing, Fresh, Frames
  <2> QED BY <2>1 DEF Remembered
<1> QED BY <1>1, <1>2, GoesRemembers, ComesRemembers, DrainedRemembers, PublishRemembers
        DEF PipelineStep

\* The frame that is published finds its submission.
LEMMA PublishedIsTimed ==
  ASSUME IntactInv, ShownInv, Remembered, Publish,
         NEW g \in slot', g.pts # NoStamp, g.unit \notin failed, g.unit + SubmittedLimit > pushed
  PROVE  g.unit \in timed'
<1>1. PICK f \in hand, found \in BOOLEAN :
        /\ f.unit \in Unit /\ f.unit = newest /\ f.pts \in {f.unit, NoStamp}
        /\ Has(submitted, f.pts) => found
        /\ timed' = IF found THEN timed \cup {f.pts} ELSE timed
  BY PublishMatches
<1>2. g = f
  BY DEF Publish, ShownInv, OneEach, Single
<1>3. f.unit \in (1 .. pushed) \ failed /\ Fresh(f.unit)
  <2>1. newest \in 0 .. pushed
    BY DEF IntactInv, InOrder
  <2> QED BY <1>1, <1>2, <2>1 DEF Fresh, Unit
<1>4. Has(submitted, f.pts) /\ f.pts = f.unit
  BY <1>1, <1>2, <1>3 DEF Remembered
<1> QED BY <1>1, <1>2, <1>4

LEMMA StartRemembers ==
  ASSUME BothInit PROVE Remembered
<1>1. PICK known \in {"unknown", "direct", "planes"} : InitOn(known)
  BY DEF BothInit, Init
<1>2. Sorted(<<>>, 0)
  BY EmptySeq DEF Sorted
<1> QED BY <1>1, <1>2 DEF InitOn, Remembered, Pushing, Frames

\* On either system and every path, a frame that is published with its stamp finds its own
\* submission, so that its timeline is recorded, unless its push failed or SubmittedLimit
\* others were made since: the frames given up before it, those that failed and those the
\* decoder swallowed never take its place.
THEOREM TimelineFound == BothSpec => Timed
<1>1. BothInit => IntactInv /\ ShownInv /\ Remembered
  BY StartIsIntact, StartIsShown, StartRemembers
<1>2. IntactInv /\ ShownInv /\ Remembered /\ [BothNext]_<<vars, macVars>>
      => (IntactInv /\ ShownInv /\ Remembered)'
  BY StepStaysIntact, StepKeepsShown, StepRemembers
<1>3. IntactInv /\ ShownInv /\ Remembered /\ [BothNext]_<<vars, macVars>>
      => [ \A f \in slot' \ slot :
             f.pts # NoStamp /\ f.unit \notin failed /\ f.unit + SubmittedLimit > pushed
             => f.unit \in timed' ]_vars
  <2> SUFFICES ASSUME IntactInv, ShownInv, Remembered, [BothNext]_<<vars, macVars>>,
                      NEW f \in slot' \ slot, f.pts # NoStamp, f.unit \notin failed,
                      f.unit + SubmittedLimit > pushed
               PROVE  f.unit \in timed'
    OBVIOUS
  <2>1. PipelineStep \/ Present
    BY StepIsPipelineStep
  <2>2. slot' # slot
    OBVIOUS
  <2>3. Publish
    BY <2>1, <2>2 DEF PipelineStep, Comes, Joins, Drained, Present
  <2> QED BY <2>3, PublishedIsTimed
<1> QED BY <1>1, <1>2, <1>3, PTL DEF BothSpec, Timed
=============================================================================
