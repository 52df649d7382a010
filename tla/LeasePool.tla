----------------------------- MODULE LeasePool -----------------------------
(***************************************************************************)
(* What a connection pool promises its callers, with none of its           *)
(* machinery: a caller is lent a connection nobody else holds, at most     *)
(* MaxConnections are lent at any time, and a connection that was retired  *)
(* (destroyed by the factory, or dropped) is never lent again.             *)
(*                                                                         *)
(* ConnectionPool implements this contract.                                *)
(***************************************************************************)
EXTENDS Integers, FiniteSets

CONSTANTS
  Callers,         \* the tasks that borrow connections
  Conns,           \* every connection the factory may ever make
  MaxConnections,  \* PoolConfig::max_connections
  NoConn           \* what a caller without a lease has

VARIABLES
  lease,           \* the connection each caller has been lent
  retired          \* connections that no longer exist

leaseVars == <<lease, retired>>

Borrowers == {c \in Callers : lease[c] # NoConn}

LeaseTypeOK ==
  /\ lease \in [Callers -> Conns \cup {NoConn}]
  /\ retired \subseteq Conns

LeaseInit ==
  /\ lease = [c \in Callers |-> NoConn]
  /\ retired = {}

Lend(c, k) ==
  /\ lease[c] = NoConn
  /\ k \in Conns \ retired
  /\ \A d \in Callers : lease[d] # k
  /\ Cardinality(Borrowers) < MaxConnections
  /\ lease' = [lease EXCEPT ![c] = k]
  /\ UNCHANGED retired

GiveBack(c) ==
  /\ lease[c] # NoConn
  /\ lease' = [lease EXCEPT ![c] = NoConn]
  /\ UNCHANGED retired

Retire(k) ==
  /\ k \in Conns \ retired
  /\ \A d \in Callers : lease[d] # k
  /\ retired' = retired \cup {k}
  /\ UNCHANGED lease

LeaseNext ==
  \/ \E c \in Callers, k \in Conns : Lend(c, k)
  \/ \E c \in Callers : GiveBack(c)
  \/ \E k \in Conns : Retire(k)

LeaseSpec == LeaseInit /\ [][LeaseNext]_leaseVars
============================================================================
