------------------------------- MODULE ReceivePath -------------------------------
(***************************************************************************)
(* Datagram buffers on the receive path (starfire-core session.rs          *)
(* recv_loop, recycle_into): the receive threads take buffers from a pool, *)
(* forward them filled to the pipeline thread, which gives video buffers   *)
(* back and passes audio on with its buffer.  Buffers are interchangeable, *)
(* so the pool is a number.  These are the steps of the path; Session says *)
(* when they are taken.                                                    *)
(***************************************************************************)
EXTENDS Integers, Sequences, FiniteSets

CONSTANTS Streams,     \* the media sockets, each with its receive thread
          PoolLimit,   \* POOL_LIMIT
          MaxQueued,   \* BOUND: datagrams waiting for the pipeline thread
          MaxMade      \* BOUND: buffers allocated (and so audio datagrams)

ASSUME StreamsAssumption == IsFiniteSet(Streams)
ASSUME LimitAssumption == PoolLimit \in Nat /\ MaxQueued \in Nat /\ MaxMade \in Nat

VARIABLES
  pool,      \* buffers in the pool
  holding,   \* receive threads that have a buffer
  events,    \* filled buffers on their way to the pipeline thread
  pushing,   \* the pipeline thread is reading a video datagram
  made,      \* buffers allocated so far (history)
  peak,      \* the longest `events` so far (history)
  gone       \* buffers that left with an audio datagram (history)

pathVars == <<pool, holding, events, pushing, made, peak, gone>>

\* What the host sends, told apart by its port.
Kinds == {"video", "audio"}

\* recycle_into.
Recycled == IF pool < PoolLimit THEN pool + 1 ELSE pool

Take(t) ==
  /\ t \notin holding
  /\ \/ pool > 0 /\ pool' = pool - 1 /\ UNCHANGED made
     \/ pool = 0 /\ made < MaxMade /\ made' = made + 1 /\ UNCHANGED pool
  /\ holding' = holding \cup {t}
  /\ UNCHANGED <<events, pushing, peak, gone>>

\* A datagram from the host goes to the pipeline thread with its buffer.
Datagram(t, kind) ==
  /\ t \in holding /\ Len(events) < MaxQueued
  /\ events' = Append(events, kind)
  /\ peak' = IF Len(events') > peak THEN Len(events') ELSE peak
  /\ holding' = holding \ {t}
  /\ UNCHANGED <<pool, pushing, made, gone>>

\* Mutant: the buffer of a read that brought nothing is dropped.
NothingForgetsBuffer(t) ==
  /\ t \in holding
  /\ holding' = holding \ {t}
  /\ UNCHANGED <<pool, events, pushing, made, peak, gone>>

\* A foreign datagram, a read that timed out, an error.
Nothing(t) ==
  /\ t \in holding
  /\ holding' = holding \ {t}
  /\ pool' = Recycled
  /\ UNCHANGED <<events, pushing, made, peak, gone>>

\* The pipeline thread: push_at, then recycle.  Audio goes to the embedder, or
\* nowhere, and its buffer with it.
Consume ==
  /\ ~pushing /\ events # <<>>
  /\ pushing' = (Head(events) = "video")
  /\ events' = Tail(events)
  /\ gone' = IF Head(events) = "audio" THEN gone + 1 ELSE gone
  /\ UNCHANGED <<pool, holding, made, peak>>

GiveBack ==
  /\ pushing
  /\ pushing' = FALSE
  /\ pool' = Recycled
  /\ UNCHANGED <<holding, events, made, peak, gone>>

PathInit ==
  /\ pool = 0 /\ holding = {} /\ events = <<>> /\ pushing = FALSE
  /\ made = 0 /\ peak = 0 /\ gone = 0

-----------------------------------------------------------------------------
\* What is in use at most: a buffer for each thread and for each datagram of the
\* longest backlog, and the one being read.
InUse == Cardinality(Streams) + peak + 1

\* Receiving allocates for the longest backlog and for the audio datagrams, and
\* nothing else, as long as the pool can hold what is in use: no buffer of a video
\* datagram or of a read that brought nothing is lost (recv_loop, recycle_into).
OnlyAudioTakesBuffers == InUse <= PoolLimit => made <= InUse + gone

\* The claim of StreamSession::recycle (session.rs:569: "so steady-state receive does
\* not allocate per packet"): once the longest backlog has its buffers, no more are made.
SteadyReceive == InUse <= PoolLimit => made <= InUse
=============================================================================
