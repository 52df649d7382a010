----------------------------- MODULE RingBuffer -----------------------------
(***************************************************************************)
(* kizzasi_io::lockfree::LockFreeRingBuffer                                *)
(* (crates/kizzasi-io/src/lockfree.rs).                                    *)
(*                                                                         *)
(* write takes &mut self, so nothing else runs during it; read takes &self *)
(* and is a sequence of atomic loads and a store, which several readers    *)
(* may interleave.  A load acquires what a store released, so each load    *)
(* and store is a step here.  Items are numbered in the order of writing.  *)
(***************************************************************************)
EXTENDS Integers, Sequences

CONSTANTS
  Capacity,   \* capacity
  Readers,    \* threads that read
  MaxItems    \* bound: items written

\* The parameters it is meant for.
RingAssumption == Capacity \in Nat \ {0, 1} /\ MaxItems \in Nat

Slots == 0..Capacity - 1
Empty == 0
Items == 1..MaxItems

VARIABLES
  buffer, writePos, readPos, overwriteFlag,   \* the fields
  written,                                    \* items written so far
  pc, readIdx,                                \* where each reader is, its read_idx
  got                                         \* what each reader has returned (history)

vars == <<buffer, writePos, readPos, overwriteFlag, written, pc, readIdx, got>>
reading == <<pc, readIdx, got>>

Init ==
  /\ buffer = [s \in Slots |-> Empty]
  /\ writePos = 0 /\ readPos = 0
  /\ overwriteFlag = FALSE
  /\ written = 0
  /\ pc = [r \in Readers |-> "idle"]
  /\ readIdx = [r \in Readers |-> 0]
  /\ got = [r \in Readers |-> <<>>]

Succ(n) == (n + 1) % Capacity

\* The borrow of write excludes every reader.
Unborrowed == \A r \in Readers : pc[r] = "idle"

\* Mutant of Write: fullness is compared before the position advances.
WriteCompareFirst ==
  /\ Unborrowed /\ written < MaxItems
  /\ written' = written + 1
  /\ buffer' = [buffer EXCEPT ![writePos] = written + 1]
  /\ writePos' = Succ(writePos)
  /\ IF writePos = readPos
     THEN readPos' = Succ(readPos) /\ overwriteFlag' = TRUE
     ELSE UNCHANGED <<readPos, overwriteFlag>>
  /\ UNCHANGED reading

Write ==
  /\ Unborrowed /\ written < MaxItems
  /\ written' = written + 1
  /\ buffer' = [buffer EXCEPT ![writePos] = written + 1]
  /\ writePos' = Succ(writePos)
  /\ IF writePos' = readPos
     THEN readPos' = Succ(readPos) /\ overwriteFlag' = TRUE
     ELSE UNCHANGED <<readPos, overwriteFlag>>
  /\ UNCHANGED reading

LoadReadPos(r) ==
  /\ pc[r] = "idle"
  /\ pc' = [pc EXCEPT ![r] = "loaded"]
  /\ readIdx' = [readIdx EXCEPT ![r] = readPos]
  /\ UNCHANGED <<buffer, writePos, readPos, overwriteFlag, written, got>>

\* None when the buffer is empty; otherwise the item is cloned.
LoadWritePos(r) ==
  /\ pc[r] = "loaded"
  /\ IF readIdx[r] = writePos
     THEN pc' = [pc EXCEPT ![r] = "idle"] /\ UNCHANGED got
     ELSE /\ pc' = [pc EXCEPT ![r] = "store"]
          /\ got' = [got EXCEPT ![r] = Append(@, buffer[readIdx[r]])]
  /\ UNCHANGED <<buffer, writePos, readPos, overwriteFlag, written, readIdx>>

StoreReadPos(r) ==
  /\ pc[r] = "store"
  /\ pc' = [pc EXCEPT ![r] = "idle"]
  /\ readPos' = Succ(readIdx[r])
  /\ UNCHANGED <<buffer, writePos, overwriteFlag, written, readIdx, got>>

WasOverwritten ==
  /\ overwriteFlag' = FALSE
  /\ UNCHANGED <<buffer, writePos, readPos, written, reading>>

Next ==
  \/ Write \/ WasOverwritten
  \/ \E r \in Readers : LoadReadPos(r) \/ LoadWritePos(r) \/ StoreReadPos(r)

Spec == Init /\ [][Next]_vars

-----------------------------------------------------------------------------
(* Properties *)

\* available
Available == IF writePos >= readPos THEN writePos - readPos
             ELSE Capacity - readPos + writePos

\* Every variable keeps its type.
TypeOK ==
  /\ buffer \in [Slots -> Items \cup {Empty}]
  /\ {writePos, readPos} \subseteq Slots
  /\ overwriteFlag \in BOOLEAN
  /\ written \in 0..MaxItems
  /\ pc \in [Readers -> {"idle", "loaded", "store"}]
  /\ readIdx \in [Readers -> Slots]
  /\ got \in [Readers -> Seq(Items \cup {Empty})]

Contents == [n \in 1..Available |-> buffer[(readPos + n - 1) % Capacity]]

\* With one reader the buffer is the queue of OverwriteQueue, with room for one item
\* less than its capacity.
Queue == INSTANCE OverwriteQueue WITH
  queue <- Contents, overwritten <- overwriteFlag, Room <- Capacity - 1
QueueContract == Queue!QueueSpec
=============================================================================
