--------------------------- MODULE UnboundedQueue ---------------------------
(***************************************************************************)
(* kizzasi_io::lockfree::UnboundedQueue                                    *)
(* (crates/kizzasi-io/src/lockfree.rs): a segmented queue and, beside it,  *)
(* a counter that len reads.  The queue and the counter change in two      *)
(* atomic steps, which other threads see one without the other.  The       *)
(* counter is a usize: it wraps at Width.                                  *)
(***************************************************************************)
EXTENDS Integers, Sequences, FiniteSets

CONSTANTS
  Threads,
  Width,     \* usize holds 0..Width-1
  MaxItems   \* bound: items pushed

\* The parameters it is meant for.
UnboundedAssumption ==
  /\ IsFiniteSet(Threads) /\ {Width, MaxItems} \subseteq Nat /\ MaxItems < Width

VARIABLES
  queue,       \* the SegQueue, external
  itemCount,   \* item_count
  pc,          \* where each thread is
  pushed,      \* items pushed so far
  popped       \* items popped, in the order they left the queue (history)

vars == <<queue, itemCount, pc, pushed, popped>>

Wrap(n) == n % Width

Init ==
  /\ queue = <<>> /\ itemCount = 0
  /\ pc = [t \in Threads |-> "idle"]
  /\ pushed = 0 /\ popped = <<>>

Push(t) ==
  /\ pc[t] = "idle" /\ pushed < MaxItems
  /\ pushed' = pushed + 1
  /\ queue' = Append(queue, pushed + 1)
  /\ pc' = [pc EXCEPT ![t] = "pushed"]
  /\ UNCHANGED <<itemCount, popped>>

CountPush(t) ==
  /\ pc[t] = "pushed"
  /\ itemCount' = Wrap(itemCount + 1)
  /\ pc' = [pc EXCEPT ![t] = "idle"]
  /\ UNCHANGED <<queue, pushed, popped>>

\* A pop that finds the queue empty changes nothing.
Pop(t) ==
  /\ pc[t] = "idle" /\ queue # <<>>
  /\ popped' = Append(popped, Head(queue))
  /\ queue' = Tail(queue)
  /\ pc' = [pc EXCEPT ![t] = "popped"]
  /\ UNCHANGED <<itemCount, pushed>>

\* Mutant of CountPop: the counter stops at zero.
CountPopSaturating(t) ==
  /\ pc[t] = "popped"
  /\ itemCount' = IF itemCount = 0 THEN 0 ELSE itemCount - 1
  /\ pc' = [pc EXCEPT ![t] = "idle"]
  /\ UNCHANGED <<queue, pushed, popped>>

CountPop(t) ==
  /\ pc[t] = "popped"
  /\ itemCount' = Wrap(itemCount - 1)
  /\ pc' = [pc EXCEPT ![t] = "idle"]
  /\ UNCHANGED <<queue, pushed, popped>>

Next == \E t \in Threads : Push(t) \/ CountPush(t) \/ Pop(t) \/ CountPop(t)

Spec == Init /\ [][Next]_vars

-----------------------------------------------------------------------------
(* Properties *)

\* Every variable keeps its type.
TypeOK ==
  /\ queue \in Seq(1..MaxItems) /\ popped \in Seq(1..MaxItems)
  /\ itemCount \in 0..Width - 1
  /\ pc \in [Threads -> {"idle", "pushed", "popped"}]
  /\ pushed \in 0..MaxItems

At(where) == Cardinality({t \in Threads : pc[t] = where})

\* Whatever order the two atomic steps of pushes and pops fall in, the counter is the
\* length of the queue but for the threads between their steps, modulo its width: it
\* is exact again when nobody is.
CountSettles == itemCount = Wrap(Len(queue) + At("popped") - At("pushed"))
=============================================================================
