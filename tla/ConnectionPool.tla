--------------------------- MODULE ConnectionPool ---------------------------
(***************************************************************************)
(* kizzasi::pool::ConnectionPool (crates/kizzasi/src/pool.rs).             *)
(*                                                                         *)
(* Tasks share a deque of idle connections and its statistics behind one   *)
(* async mutex, and a fair semaphore with max_connections permits.  A task *)
(* may lose the processor at every await, so each critical section of the  *)
(* mutex and each call of the factory is a step of its own, and pc names   *)
(* the await the task is suspended at.                                     *)
(*                                                                         *)
(* The time of an idle connection is abstracted: whether the connection at *)
(* the front has outlived idle_timeout is a choice made when it is looked  *)
(* at.  What the factory answers is a choice too.                          *)
(***************************************************************************)
EXTENDS Integers, Sequences, FiniteSets

CONSTANTS
  Callers,            \* tasks that call acquire and release
  Shrinkers,          \* tasks that call shrink
  Conns,              \* connections the factory can make: the bound on created
  NoConn,
  MinConnections,     \* PoolConfig::min_connections
  MaxConnections,     \* PoolConfig::max_connections
  MaxAttempts,        \* MAX_VALIDATION_ATTEMPTS, 4 in the code
  ValidateOnAcquire,  \* PoolConfig::validate_on_acquire
  ValidateOnRelease,  \* PoolConfig::validate_on_release
  AllowCancel,        \* may a pending acquire or release future be dropped?
  MaxCalls            \* bound: how many times acquire is called in all

ASSUME PoolAssumption ==
  /\ IsFiniteSet(Callers)
  /\ NoConn \notin Conns
  /\ MinConnections \in Nat
  /\ MaxConnections \in Nat
  /\ MinConnections <= MaxConnections
  /\ MaxAttempts \in Nat \ {0}
  /\ ValidateOnAcquire \in BOOLEAN
  /\ ValidateOnRelease \in BOOLEAN
  /\ AllowCancel \in BOOLEAN
  /\ MaxCalls \in Nat

VARIABLES
  idle,      \* PoolState::idle, front first
  stats,     \* PoolState::stats
  permits,   \* available permits of the semaphore
  waiters,   \* tasks queued on the semaphore, first come first served
  pc,        \* where each caller is suspended
  conn,      \* the connection a caller has in hand
  attempt,   \* loop counter of acquire
  spc,       \* where each shrinker is
  need,      \* connections a shrinker has still to create
  spare,     \* the connection it has made and not yet put into the deque
  born,      \* connections the factory has made
  retired,   \* connections destroyed or dropped
  calls,     \* how many times acquire was called
  forgotten  \* permits owed by futures that were dropped (history)

vars == <<idle, stats, permits, waiters, pc, conn, attempt, spc, need,
          spare, born, retired, calls, forgotten>>

shrinkVars == <<spc, need, spare>>
historyVars == <<calls, forgotten>>

-----------------------------------------------------------------------------
(* States of a task inside acquire: "wait" for a permit, "lookup" under the *)
(* lock, "create" and "validate" in the factory, "made" with a connection   *)
(* whose creation is not counted yet, "discard" destroying an invalid       *)
(* candidate, "account" and "fail" about to update the statistics.  "have": *)
(* acquire returned Ok.  Inside release: "rvalidate" and "rdiscard" in the  *)
(* factory, "rstats", "rpush" about to take the lock, "rpermit" about to    *)
(* return the permit.  "ready": no call is pending.  A shrinker at "fill"   *)
(* is in the factory, at "put" it has what the factory made.                *)

HoldingPcs == {"made", "validate", "account", "have", "rvalidate", "rpush"}

OwingPcs == HoldingPcs \cup {"lookup", "create", "discard", "rdiscard", "rpermit"}

\* A connection here is counted as created and not as destroyed.
CountedPcs == (HoldingPcs \ {"made"}) \cup {"discard", "rdiscard", "rstats"}

ActivePcs == {"have", "rvalidate", "rdiscard", "rstats", "rpush"}

Pcs == OwingPcs \cup {"ready", "wait", "fail", "rstats"}

At(S) == {c \in Callers : pc[c] \in S}

\* Connections somebody still has: the live ones.
Live ==
  {idle[i] : i \in DOMAIN idle} \cup {conn[c] : c \in At(HoldingPcs)}
    \cup {spare[m] : m \in {n \in Shrinkers : spc[n] = "put"}}

Goto(c, label) == pc' = [pc EXCEPT ![c] = label]

Hand(c, k) == conn' = [conn EXCEPT ![c] = k]

-----------------------------------------------------------------------------
(* ConnectionPool::new fills the pool up to min_connections, or less when   *)
(* the factory fails.                                                       *)
Init ==
  /\ \E n \in 0..MinConnections : \E s \in [1..n -> Conns] :
       /\ \A i, j \in 1..n : s[i] = s[j] => i = j
       /\ idle = s
       /\ born = {s[i] : i \in 1..n}
       /\ stats = [created |-> n, destroyed |-> 0, active |-> 0, idle |-> n,
                   acquires |-> 0, failures |-> 0, releases |-> 0]
  /\ permits = MaxConnections
  /\ waiters = <<>>
  /\ pc = [c \in Callers |-> "ready"]
  /\ conn = [c \in Callers |-> NoConn]
  /\ attempt = [c \in Callers |-> 0]
  /\ spc = [m \in Shrinkers |-> "ready"]
  /\ need = [m \in Shrinkers |-> 0]
  /\ spare = [m \in Shrinkers |-> NoConn]
  /\ retired = {}
  /\ calls = 0
  /\ forgotten = 0

-----------------------------------------------------------------------------
(* acquire *)

BeginAcquire(c) ==
  /\ pc[c] = "ready"
  /\ calls < MaxCalls
  /\ calls' = calls + 1
  /\ waiters' = Append(waiters, c)
  /\ Goto(c, "wait")
  /\ UNCHANGED <<idle, stats, permits, conn, attempt, shrinkVars, born,
                 retired, forgotten>>

\* permit.forget(): from here on the task owes the semaphore a permit.
GetPermit(c) ==
  /\ pc[c] = "wait"
  /\ waiters # <<>> /\ Head(waiters) = c
  /\ permits > 0
  /\ permits' = permits - 1
  /\ waiters' = Tail(waiters)
  /\ attempt' = [attempt EXCEPT ![c] = 0]
  /\ Goto(c, "lookup")
  /\ UNCHANGED <<idle, stats, conn, shrinkVars, born, retired, historyVars>>

LeaveQueue(c) ==
  \E i \in DOMAIN waiters :
    /\ waiters[i] = c
    /\ waiters' = SubSeq(waiters, 1, i - 1) \o SubSeq(waiters, i + 1, Len(waiters))

\* acquire_timeout expires before a permit arrives: Err, and no statistic moves.
AcquireTimeout(c) ==
  /\ pc[c] = "wait"
  /\ LeaveQueue(c)
  /\ Goto(c, "ready")
  /\ UNCHANGED <<idle, stats, permits, conn, attempt, shrinkVars, born,
                 retired, historyVars>>

\* try_acquire_idle: the front connection has expired.  It is destroyed with
\* the lock released, and the loop takes the lock again.
LookupExpired(c) ==
  /\ pc[c] = "lookup"
  /\ idle # <<>>
  /\ idle' = Tail(idle)
  /\ retired' = retired \cup {Head(idle)}
  /\ stats' = [stats EXCEPT !.destroyed = @ + 1, !.idle = @ - 1]
  /\ UNCHANGED <<permits, waiters, pc, conn, attempt, shrinkVars, born,
                 historyVars>>

\* Mutant of LookupIdle: the connection is peeked at, not popped.
LookupIdlePeek(c) ==
  /\ pc[c] = "lookup"
  /\ idle # <<>>
  /\ idle' = idle
  /\ Hand(c, Head(idle))
  /\ stats' = [stats EXCEPT !.idle = @ - 1]
  /\ Goto(c, IF ValidateOnAcquire THEN "validate" ELSE "account")
  /\ UNCHANGED <<permits, waiters, attempt, shrinkVars, born, retired,
                 historyVars>>

LookupIdle(c) ==
  /\ pc[c] = "lookup"
  /\ idle # <<>>
  /\ idle' = Tail(idle)
  /\ Hand(c, Head(idle))
  /\ stats' = [stats EXCEPT !.idle = @ - 1]
  /\ Goto(c, IF ValidateOnAcquire THEN "validate" ELSE "account")
  /\ UNCHANGED <<permits, waiters, attempt, shrinkVars, born, retired,
                 historyVars>>

\* Mutant of LookupNone: a connection is created even when one is idle.
LookupAlwaysCreates(c) ==
  /\ pc[c] = "lookup"
  /\ Goto(c, "create")
  /\ UNCHANGED <<idle, stats, permits, waiters, conn, attempt, shrinkVars,
                 born, retired, historyVars>>

LookupNone(c) ==
  /\ pc[c] = "lookup"
  /\ idle = <<>>
  /\ Goto(c, "create")
  /\ UNCHANGED <<idle, stats, permits, waiters, conn, attempt, shrinkVars,
                 born, retired, historyVars>>

CreateOk(c) ==
  /\ pc[c] = "create"
  /\ \E k \in Conns \ born :
       /\ Hand(c, k)
       /\ born' = born \cup {k}
  /\ Goto(c, "made")
  /\ UNCHANGED <<idle, stats, permits, waiters, attempt, shrinkVars, retired,
                 historyVars>>

\* The lock is taken after the factory answered: until then nobody counts the
\* connection.
CountCreated(c) ==
  /\ pc[c] = "made"
  /\ stats' = [stats EXCEPT !.created = @ + 1]
  /\ Goto(c, IF ValidateOnAcquire THEN "validate" ELSE "account")
  /\ UNCHANGED <<idle, permits, waiters, conn, attempt, shrinkVars, born,
                 retired, historyVars>>

\* Mutant of CreateErr: the early return forgets the permit.
CreateErrKeepsPermit(c) ==
  /\ pc[c] = "create"
  /\ Goto(c, "fail")
  /\ UNCHANGED <<idle, stats, permits, waiters, conn, attempt, shrinkVars, born,
                 retired, historyVars>>

\* The permit goes back before the lock is taken to count the failure.
CreateErr(c) ==
  /\ pc[c] = "create"
  /\ permits' = permits + 1
  /\ Goto(c, "fail")
  /\ UNCHANGED <<idle, stats, waiters, conn, attempt, shrinkVars, born,
                 retired, historyVars>>

ValidateOk(c) ==
  /\ pc[c] = "validate"
  /\ Goto(c, "account")
  /\ UNCHANGED <<idle, stats, permits, waiters, conn, attempt, shrinkVars,
                 born, retired, historyVars>>

ValidateBad(c) ==
  /\ pc[c] = "validate"
  /\ retired' = retired \cup {conn[c]}
  /\ Hand(c, NoConn)
  /\ Goto(c, "discard")
  /\ UNCHANGED <<idle, stats, permits, waiters, attempt, shrinkVars, born,
                 historyVars>>

\* The destroyed candidate is counted; the last attempt gives the permit back.
Discarded(c) ==
  /\ pc[c] = "discard"
  /\ stats' = [stats EXCEPT !.destroyed = @ + 1]
  /\ \/ /\ attempt[c] + 1 = MaxAttempts
        /\ permits' = permits + 1
        /\ Goto(c, "fail")
        /\ UNCHANGED attempt
     \/ /\ attempt[c] + 1 # MaxAttempts
        /\ attempt' = [attempt EXCEPT ![c] = @ + 1]
        /\ Goto(c, "lookup")
        /\ UNCHANGED permits
  /\ UNCHANGED <<idle, waiters, conn, shrinkVars, born, retired, historyVars>>

CountFailure(c) ==
  /\ pc[c] = "fail"
  /\ stats' = [stats EXCEPT !.failures = @ + 1]
  /\ Goto(c, "ready")
  /\ UNCHANGED <<idle, permits, waiters, conn, attempt, shrinkVars, born,
                 retired, historyVars>>

Account(c) ==
  /\ pc[c] = "account"
  /\ stats' = [stats EXCEPT !.acquires = @ + 1, !.active = @ + 1]
  /\ Goto(c, "have")
  /\ UNCHANGED <<idle, permits, waiters, conn, attempt, shrinkVars, born,
                 retired, historyVars>>

-----------------------------------------------------------------------------
(* release *)

SaturatingDec(n) == IF n > 0 THEN n - 1 ELSE 0

BeginRelease(c) ==
  /\ pc[c] = "have"
  /\ Goto(c, IF ValidateOnRelease THEN "rvalidate" ELSE "rpush")
  /\ UNCHANGED <<idle, stats, permits, waiters, conn, attempt, shrinkVars,
                 born, retired, historyVars>>

ReleaseValid(c) ==
  /\ pc[c] = "rvalidate"
  /\ Goto(c, "rpush")
  /\ UNCHANGED <<idle, stats, permits, waiters, conn, attempt, shrinkVars,
                 born, retired, historyVars>>

ReleaseInvalid(c) ==
  /\ pc[c] = "rvalidate"
  /\ retired' = retired \cup {conn[c]}
  /\ Hand(c, NoConn)
  /\ Goto(c, "rdiscard")
  /\ UNCHANGED <<idle, stats, permits, waiters, attempt, shrinkVars, born,
                 historyVars>>

\* An invalid connection was destroyed: the permit first, then the lock.
ReleaseDiscard(c) ==
  /\ pc[c] = "rdiscard"
  /\ permits' = permits + 1
  /\ Goto(c, "rstats")
  /\ UNCHANGED <<idle, stats, waiters, conn, attempt, shrinkVars, born,
                 retired, historyVars>>

ReleaseCount(c) ==
  /\ pc[c] = "rstats"
  /\ stats' = [stats EXCEPT !.destroyed = @ + 1, !.active = SaturatingDec(@)]
  /\ Goto(c, "ready")
  /\ UNCHANGED <<idle, permits, waiters, conn, attempt, shrinkVars, born,
                 retired, historyVars>>

\* Mutant of ReleasePush: the connection stays counted as active.
ReleasePushKeepsActive(c) ==
  /\ pc[c] = "rpush"
  /\ idle' = Append(idle, conn[c])
  /\ Hand(c, NoConn)
  /\ stats' = [stats EXCEPT !.releases = @ + 1, !.idle = @ + 1]
  /\ Goto(c, "rpermit")
  /\ UNCHANGED <<permits, waiters, attempt, shrinkVars, born, retired,
                 historyVars>>

ReleasePush(c) ==
  /\ pc[c] = "rpush"
  /\ idle' = Append(idle, conn[c])
  /\ Hand(c, NoConn)
  /\ stats' = [stats EXCEPT !.releases = @ + 1, !.idle = @ + 1,
                            !.active = SaturatingDec(@)]
  /\ Goto(c, "rpermit")
  /\ UNCHANGED <<permits, waiters, attempt, shrinkVars, born, retired,
                 historyVars>>

ReleasePermit(c) ==
  /\ pc[c] = "rpermit"
  /\ permits' = permits + 1
  /\ Goto(c, "ready")
  /\ UNCHANGED <<idle, stats, waiters, conn, attempt, shrinkVars, born,
                 retired, historyVars>>

-----------------------------------------------------------------------------
(* A future dropped at an await runs no further line of its function: the   *)
(* connection it had in hand is dropped with it.  A waiter leaves the queue *)
(* of the semaphore.  "rpermit" is not an await.                            *)
Cancel(c) ==
  /\ AllowCancel
  /\ pc[c] \notin {"ready", "have", "rpermit"}
  /\ IF pc[c] = "wait" THEN LeaveQueue(c) ELSE UNCHANGED waiters
  /\ retired' = retired \cup ({conn[c]} \ {NoConn})
  /\ Hand(c, NoConn)
  /\ Goto(c, "ready")
  /\ forgotten' = IF pc[c] \in OwingPcs THEN forgotten + 1 ELSE forgotten
  /\ UNCHANGED <<idle, stats, permits, attempt, shrinkVars, born, calls>>

-----------------------------------------------------------------------------
(* shrink, and the ensure_min_connections it ends with *)

BeginShrink(m) ==
  /\ spc[m] = "ready"
  /\ spc' = [spc EXCEPT ![m] = "shrink"]
  /\ UNCHANGED <<idle, stats, permits, waiters, pc, conn, attempt, need, spare,
                 born, retired, historyVars>>

\* Mutant of ShrinkPop: destroyed connections are not taken off the deque, and
\* the counter goes below zero without the guard on it.
ShrinkPopUnderflow(m) ==
  /\ spc[m] = "shrink"
  /\ stats' = [stats EXCEPT !.idle = @ - 1, !.destroyed = @ + 1]
  /\ stats.idle >= 0
  /\ UNCHANGED <<idle, permits, waiters, pc, conn, attempt, shrinkVars, born,
                 retired, historyVars>>

\* Pop from the back, destroy with the lock released, and loop.
ShrinkPop(m) ==
  /\ spc[m] = "shrink"
  /\ stats.idle > MinConnections
  /\ idle # <<>>
  /\ idle' = SubSeq(idle, 1, Len(idle) - 1)
  /\ retired' = retired \cup {idle[Len(idle)]}
  /\ stats' = [stats EXCEPT !.idle = @ - 1, !.destroyed = @ + 1]
  /\ UNCHANGED <<permits, waiters, pc, conn, attempt, shrinkVars, born,
                 historyVars>>

ShrinkDone(m) ==
  /\ spc[m] = "shrink"
  /\ stats.idle <= MinConnections \/ idle = <<>>
  /\ spc' = [spc EXCEPT ![m] = "count"]
  /\ UNCHANGED <<idle, stats, permits, waiters, pc, conn, attempt, need, spare,
                 born, retired, historyVars>>

\* stats.total_connections() is read under the lock and used after it.
CountLive(m) ==
  /\ spc[m] = "count"
  /\ LET total == stats.active + stats.idle
     IN  /\ need' = [need EXCEPT ![m] =
                       IF total < MinConnections THEN MinConnections - total ELSE 0]
         /\ spc' = [spc EXCEPT ![m] =
                      IF total < MinConnections THEN "fill" ELSE "ready"]
  /\ UNCHANGED <<idle, stats, permits, waiters, pc, conn, attempt, spare,
                 born, retired, historyVars>>

\* The factory answers first, and the lock is taken afterwards.
FillOk(m) ==
  /\ spc[m] = "fill"
  /\ \E k \in Conns \ born :
       /\ spare' = [spare EXCEPT ![m] = k]
       /\ born' = born \cup {k}
  /\ spc' = [spc EXCEPT ![m] = "put"]
  /\ UNCHANGED <<idle, stats, permits, waiters, pc, conn, attempt, need, retired,
                 historyVars>>

FillPut(m) ==
  /\ spc[m] = "put"
  /\ idle' = Append(idle, spare[m])
  /\ spare' = [spare EXCEPT ![m] = NoConn]
  /\ stats' = [stats EXCEPT !.created = @ + 1, !.idle = @ + 1]
  /\ need' = [need EXCEPT ![m] = @ - 1]
  /\ spc' = [spc EXCEPT ![m] = IF need[m] = 1 THEN "ready" ELSE "fill"]
  /\ UNCHANGED <<permits, waiters, pc, conn, attempt, born, retired, historyVars>>

FillErr(m) ==
  /\ spc[m] = "fill"
  /\ need' = [need EXCEPT ![m] = 0]
  /\ spc' = [spc EXCEPT ![m] = "ready"]
  /\ UNCHANGED <<idle, stats, permits, waiters, pc, conn, attempt, spare,
                 born, retired, historyVars>>

-----------------------------------------------------------------------------
Lookup(c) == LookupExpired(c) \/ LookupIdle(c) \/ LookupNone(c)

Acquire(c) ==
  \/ GetPermit(c) \/ Lookup(c)
  \/ CreateOk(c) \/ CountCreated(c) \/ CreateErr(c)
  \/ ValidateOk(c) \/ ValidateBad(c) \/ Discarded(c)
  \/ CountFailure(c) \/ Account(c)

Release(c) ==
  \/ BeginRelease(c) \/ ReleaseValid(c) \/ ReleaseInvalid(c)
  \/ ReleaseDiscard(c) \/ ReleaseCount(c)
  \/ ReleasePush(c) \/ ReleasePermit(c)

Shrink(m) ==
  \/ BeginShrink(m) \/ ShrinkPop(m) \/ ShrinkDone(m)
  \/ CountLive(m) \/ FillOk(m) \/ FillPut(m) \/ FillErr(m)

\* The clients have made all their calls.
Finished ==
  /\ calls = MaxCalls
  /\ \A c \in Callers : pc[c] = "ready"
  /\ UNCHANGED vars

Next ==
  \/ Finished
  \/ \E c \in Callers : \/ BeginAcquire(c) \/ AcquireTimeout(c)
                        \/ Acquire(c) \/ Release(c) \/ Cancel(c)
  \/ \E m \in Shrinkers : Shrink(m)

Spec == Init /\ [][Next]_vars

(* The runtime polls every task that can move, the factory answers, and a   *)
(* caller releases what it acquired.  Nothing forces a timeout, a new call  *)
(* or a shrink.                                                             *)
FairSpec ==
  /\ Spec
  /\ \A c \in Callers : WF_vars(Acquire(c)) /\ WF_vars(Release(c))

-----------------------------------------------------------------------------
(* Properties *)

StatsType == [created : Nat, destroyed : Nat, active : Nat, idle : Nat,
              acquires : Nat, failures : Nat, releases : Nat]

\* Every variable keeps its type.
TypeOK ==
  /\ idle \in Seq(Conns)
  /\ stats \in StatsType
  /\ permits \in Nat
  /\ waiters \in Seq(Callers)
  /\ pc \in [Callers -> Pcs]
  /\ conn \in [Callers -> Conns \cup {NoConn}]
  /\ attempt \in [Callers -> 0..(MaxAttempts - 1)]
  /\ spc \in [Shrinkers -> {"ready", "shrink", "count", "fill", "put"}]
  /\ need \in [Shrinkers -> 0..MinConnections]
  /\ spare \in [Shrinkers -> Conns \cup {NoConn}]
  /\ born \subseteq Conns
  /\ retired \subseteq born
  /\ calls \in 0..MaxCalls
  /\ forgotten \in Nat

\* A connection has one owner: it is in the deque once, or in the hands of one
\* task or shrinker, and neither once the factory destroyed it.  Reaping, shrinking and
\* releasing hand connections over with the lock released in between.
Ownership ==
  /\ \A c \in Callers : conn[c] # NoConn <=> pc[c] \in HoldingPcs
  /\ \A c, d \in Callers : conn[c] = conn[d] /\ conn[c] # NoConn => c = d
  /\ \A i, j \in DOMAIN idle : idle[i] = idle[j] => i = j
  /\ \A c \in Callers : \A i \in DOMAIN idle : conn[c] # idle[i]
  /\ \A m \in Shrinkers : spare[m] # NoConn <=> spc[m] = "put"
  /\ \A m, n \in Shrinkers : spare[m] = spare[n] /\ spare[m] # NoConn => m = n
  /\ \A m \in Shrinkers, c \in Callers : spare[m] = conn[c] => conn[c] = NoConn
  /\ \A m \in Shrinkers : \A i \in DOMAIN idle : spare[m] # idle[i]
  /\ Live \subseteq born \ retired

\* Every permit is accounted for: each of the seven ways out of acquire and
\* release returns it exactly once, and no path mints one.  A future dropped
\* after it forgot its permit takes the permit with it.
PermitsConserved ==
  permits + Cardinality(At(OwingPcs)) + forgotten = MaxConnections

\* The statistics of idle and active connections are exact, so saturating_sub
\* never hides an underflow.  Created less destroyed is what is idle, in a
\* task's hands, or destroyed and not counted so yet; the one connection it
\* leaves out is that which the factory has just handed to a task, or to a
\* shrinker, that does not have the lock yet.  Reaping and shrinking count a
\* connection as destroyed when they take it off the deque.
StatsExact ==
  /\ stats.idle = Len(idle)
  /\ stats.active = Cardinality(At(ActivePcs))
  /\ stats.created - stats.destroyed = Len(idle) + Cardinality(At(CountedPcs))

\* "max_connections: Maximum number of connections allowed", idle ones included.
LiveWithinMax == Cardinality(Live) <= MaxConnections

\* A task queued on the semaphore does not wait for ever, although no timeout
\* is forced: permits come back on every path and the queue is fair.
WaitersServed ==
  \A c \in Callers : pc[c] = "wait" ~> pc[c] \in {"have", "ready"}

-----------------------------------------------------------------------------
(* What the callers see: a connection is lent from the return of acquire to *)
(* the call of release.                                                     *)
Lease == INSTANCE LeasePool WITH
  lease <- [c \in Callers |-> IF pc[c] = "have" THEN conn[c] ELSE NoConn]

\* The pool implements the contract: exclusive leases, never more than
\* max_connections of them, and no lease of a connection that was retired.
LeaseContract == Lease!LeaseSpec
=============================================================================
