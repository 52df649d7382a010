------------------------- MODULE StreamTransformers -------------------------
(***************************************************************************)
(* The stream transformers of kizzasi_inference::streaming                 *)
(* (crates/kizzasi-inference/src/streaming.rs) that keep something: the    *)
(* one that collects items into chunks, the one that waits for a pause and *)
(* the one that slows items down.                                          *)
(*                                                                         *)
(* A transformer runs only while its consumer waits for the next item, so  *)
(* its timer may be looked at long after it was due.  Time is measured     *)
(* relative to the next tick of the interval.  Inputs are numbered.        *)
(***************************************************************************)
EXTENDS Integers, Sequences

CONSTANTS
  Kinds,       \* the transformers considered
  ChunkSize,   \* buffer_size of the buffer transformer
  Period,      \* duration of the debounce, rate of the throttle transformer
  MaxInputs,   \* bound: items of the source
  MaxLate      \* bound: how long after it was due a tick is looked at

TransformersAssumption ==
  /\ Kinds \subseteq {"buffer", "debounce", "throttle"}
  /\ Period \in Nat \ {0} /\ {ChunkSize, MaxInputs, MaxLate} \subseteq Nat

VARIABLES
  kind,              \* the transformer
  produced, ended,   \* items the source has produced; whether it has ended
  wanting,           \* the consumer waits for the next item
  pc,                \* where the transformer is: "new" until it is polled, "read", "hold",
                     \* "close" when only the end is left, "done"
  taken,             \* items it has read
  kept,              \* what it keeps: the buffer, last_item, or the item on hold
  due,               \* time until the next tick, negative when it is late
  emitted,           \* what the consumer has got (history)
  quiet,             \* time since an item was read, up to Period (history)
  phase, fresh       \* time since the first poll modulo Period; whether it was 0 again
                     \* since the last item was emitted (history)

vars == <<kind, produced, ended, wanting, pc, taken, kept, due, emitted, quiet, phase, fresh>>
source == <<kind, produced, ended>>
clock == <<due, quiet, phase>>

Init ==
  /\ kind \in Kinds
  /\ produced = 0 /\ ended = FALSE
  /\ wanting = FALSE /\ pc = "new" /\ taken = 0 /\ kept = <<>>
  /\ due = 0 /\ emitted = <<>> /\ quiet = 0 /\ phase = 0 /\ fresh = TRUE

Exhausted == ended /\ taken = produced

\* yield: the consumer has its item, and the transformer stops until it is polled again.
Yield(items) ==
  /\ emitted' = Append(emitted, [items |-> items, quiet |-> quiet, fresh |-> fresh])
  /\ wanting' = FALSE /\ fresh' = FALSE

Silent == UNCHANGED <<emitted, wanting, fresh>>

-----------------------------------------------------------------------------
(* The source, the time and the consumer *)

Produce ==
  /\ ~ended /\ produced < MaxInputs
  /\ produced' = produced + 1
  /\ UNCHANGED <<kind, ended, pc, taken, kept, clock>> /\ Silent

EndSource ==
  /\ ~ended
  /\ ended' = TRUE
  /\ UNCHANGED <<kind, produced, pc, taken, kept, clock>> /\ Silent

Tick ==
  /\ kind # "buffer" /\ pc \in {"read", "hold"} /\ due > -MaxLate
  /\ due' = due - 1
  /\ quiet' = IF kind = "debounce" /\ quiet < Period THEN quiet + 1 ELSE quiet
  /\ phase' = (phase + 1) % Period
  /\ fresh' = (fresh \/ phase' = 0)
  /\ UNCHANGED <<source, wanting, pc, taken, kept, emitted>>

\* The first tick of an interval is due at once.
Poll ==
  /\ ~wanting /\ pc # "done"
  /\ wanting' = TRUE
  /\ pc' = IF pc = "new" THEN "read" ELSE pc
  /\ UNCHANGED <<source, taken, kept, clock, emitted, fresh>>

-----------------------------------------------------------------------------
(* The transformers *)

Take ==
  /\ wanting /\ pc = "read" /\ taken < produced
  /\ taken' = taken + 1

BufferItem ==
  /\ kind = "buffer" /\ Take
  /\ LET buffer == Append(kept, taken')
     IN  IF Len(buffer) >= ChunkSize
         THEN Yield(buffer) /\ kept' = <<>>
         ELSE kept' = buffer /\ Silent
  /\ UNCHANGED <<source, pc, clock>>

\* A new item takes the place of the last one and starts the timer anew.
DebounceItem ==
  /\ kind = "debounce" /\ Take
  /\ kept' = <<taken'>> /\ due' = Period /\ quiet' = 0
  /\ UNCHANGED <<source, pc, phase>> /\ Silent

\* Ticks that were missed come in a burst, but find nothing to emit after the first.
DebounceTick ==
  /\ kind = "debounce" /\ wanting /\ pc = "read" /\ due <= 0
  /\ due' = due + Period
  /\ kept' = <<>>
  /\ IF kept = <<>> THEN Silent ELSE Yield(kept)
  /\ UNCHANGED <<source, pc, taken, quiet, phase>>

ThrottleItem ==
  /\ kind = "throttle" /\ Take
  /\ kept' = <<taken'>> /\ pc' = "hold"
  /\ UNCHANGED <<source, clock>> /\ Silent

\* Mutant of ThrottleTick: the ticks that were missed come in a burst.
ThrottleTickBurst ==
  /\ kind = "throttle" /\ wanting /\ pc = "hold" /\ due <= 0
  /\ due' = due + Period
  /\ Yield(kept)
  /\ kept' = <<>> /\ pc' = "read"
  /\ UNCHANGED <<source, taken, quiet, phase>>

\* MissedTickBehavior::Skip: the next tick is the next multiple of the period.
ThrottleTick ==
  /\ kind = "throttle" /\ wanting /\ pc = "hold" /\ due <= 0
  /\ due' = due + Period * (((-due) \div Period) + 1)
  /\ Yield(kept)
  /\ kept' = <<>> /\ pc' = "read"
  /\ UNCHANGED <<source, taken, quiet, phase>>

\* The source has ended: what is left is emitted.
Flush ==
  /\ wanting /\ pc = "read" /\ Exhausted /\ kept # <<>>
  /\ Yield(kept)
  /\ kept' = <<>> /\ pc' = "close"
  /\ UNCHANGED <<source, taken, clock>>

Close ==
  /\ wanting
  /\ \/ pc = "close"
     \/ pc = "read" /\ Exhausted /\ kept = <<>>
  /\ pc' = "done" /\ wanting' = FALSE
  /\ UNCHANGED <<source, taken, kept, clock, emitted, fresh>>

-----------------------------------------------------------------------------
Transform == BufferItem \/ DebounceItem \/ ThrottleItem \/ ThrottleTick \/ Flush \/ Close

Next == Produce \/ EndSource \/ Tick \/ Poll \/ DebounceTick \/ Transform

\* Time passes, the consumer keeps reading, and select! takes a branch that stays ready.
Fairness == WF_vars(Tick) /\ WF_vars(Poll) /\ WF_vars(Transform)

FairSpec == Init /\ [][Next]_vars /\ Fairness

-----------------------------------------------------------------------------
(* Properties *)

Pieces == [items : Seq(1..MaxInputs), quiet : 0..Period, fresh : BOOLEAN]

\* Every variable keeps its type.
TypeOK ==
  /\ kind \in Kinds /\ produced \in 0..MaxInputs /\ ended \in BOOLEAN
  /\ wanting \in BOOLEAN /\ pc \in {"new", "read", "hold", "close", "done"}
  /\ taken \in 0..produced /\ kept \in Seq(1..taken) /\ emitted \in Seq(Pieces)
  /\ due \in -MaxLate..Period + MaxLate
  /\ quiet \in 0..Period /\ phase \in 0..Period - 1 /\ fresh \in BOOLEAN

Newest(x, items) == IF items = <<>> THEN x ELSE items[Len(items)]

\* The newest item the consumer had before it got its n-th piece.
Before(n) == IF n = 1 THEN 0 ELSE Newest(0, emitted[n - 1].items)

\* Items that come after item x; the debounce may skip an item for a newer one.
Follow(x, items) ==
  \A i \in DOMAIN items :
    LET last == IF i = 1 THEN x ELSE items[i - 1]
    IN  IF kind = "debounce" THEN last < items[i] ELSE items[i] = last + 1

\* No transformer changes the order of what it reads.  The buffer and the throttle lose
\* nothing; the debounce may skip an item only for a newer one.
OrderKept ==
  /\ \A n \in DOMAIN emitted :
       emitted[n].items # <<>> /\ Follow(Before(n), emitted[n].items)
  /\ LET last == Before(Len(emitted) + 1)
     IN  Follow(last, kept) /\ Newest(last, kept) = taken

\* Chunks are full, but for the last one of a source that has ended.
ChunksFull ==
  kind = "buffer" =>
    /\ Len(kept) < ChunkSize \/ kept = <<>>
    /\ \A n \in DOMAIN emitted :
         \/ Len(emitted[n].items) >= ChunkSize
         \/ n = Len(emitted) /\ pc \in {"close", "done"}

\* However late the consumer comes back, the debounce emits an item only after a pause of
\* its period, or at the end of the source.
EmitsAfterPause ==
  kind = "debounce" =>
    \A n \in DOMAIN emitted :
      \/ emitted[n].quiet = Period
      \/ n = Len(emitted) /\ pc \in {"close", "done"}

\* However late the consumer comes back, the throttle emits at most one item in each period
\* counted from the first poll.
OnePerPeriod == kind = "throttle" => \A n \in DOMAIN emitted : emitted[n].fresh

\* The contract of the three transformers.
TransformInv == TypeOK /\ OrderKept /\ ChunksFull /\ EmitsAfterPause /\ OnePerPeriod

\* The output ends after the source did.
OutputEnds == ended ~> pc = "done"
=============================================================================
