--------------------------- MODULE OverwriteQueue ---------------------------
(***************************************************************************)
(* What a ring buffer with overwrite semantics promises: a queue of the    *)
(* latest Room items, first in first out; an item written to a full queue  *)
(* takes the place of the oldest, which overwritten remembers until it is  *)
(* asked.                                                                  *)
(***************************************************************************)
EXTENDS Naturals, Sequences

CONSTANTS Items, Room

VARIABLES queue, overwritten

queueVars == <<queue, overwritten>>

QueueInit == queue = <<>> /\ overwritten = FALSE

Put(i) ==
  IF Len(queue) < Room
  THEN queue' = Append(queue, i) /\ UNCHANGED overwritten
  ELSE queue' = Append(Tail(queue), i) /\ overwritten' = TRUE

Take ==
  /\ queue # <<>>
  /\ queue' = Tail(queue)
  /\ UNCHANGED overwritten

AskOverwritten ==
  /\ overwritten' = FALSE
  /\ UNCHANGED queue

QueueNext == (\E i \in Items : Put(i)) \/ Take \/ AskOverwritten

QueueSpec == QueueInit /\ [][QueueNext]_queueVars
=============================================================================
