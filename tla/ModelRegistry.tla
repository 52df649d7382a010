--------------------------- MODULE ModelRegistry ---------------------------
(***************************************************************************)
(* kizzasi::versioning::ModelRegistry (crates/kizzasi/src/versioning.rs).  *)
(*                                                                         *)
(* A registry of model versions, one of them active and at most one a      *)
(* canary, and the routing of requests between the two.  All methods take  *)
(* &mut self or &self, so a call is a step, and the hazards are sequences  *)
(* of calls: a rollout that is begun, advanced, resized, interrupted by    *)
(* another deployment and begun again.                                     *)
(*                                                                         *)
(* The strategy a version was deployed with is kept in its metadata and    *)
(* read back when a request is routed.  A request is mix64 of its id       *)
(* modulo 10000: the canary test takes it modulo 100, the rolling test     *)
(* compares it with the migrated share.  The share is a rational here.     *)
(* Not modelled: get_mut, which lets the caller overwrite the metadata.    *)
(***************************************************************************)
EXTENDS Integers, FiniteSets

CONSTANTS
  Versions,      \* versions that may be registered
  NoVersion,
  Percents,      \* the traffic_percent of the Canary deployments
  BatchSizes,    \* the batch_size of the Rolling deployments
  Totals,        \* what set_rollout_instances is called with
  Requests       \* hashes of request ids

RegistryAssumption ==
  /\ NoVersion \notin Versions
  /\ Percents \subseteq 0..255
  /\ BatchSizes \cup Totals \subseteq Nat
  /\ Requests \subseteq 0..9999

\* DEFAULT_ROLLOUT_INSTANCES
DefaultInstances == 10

Immediate == [kind |-> "Immediate", n |-> 0]
BlueGreen == [kind |-> "BlueGreen", n |-> 0]
Canary(percent) == [kind |-> "Canary", n |-> percent]
Rolling(size) == [kind |-> "Rolling", n |-> size]
Strategies == {Immediate, BlueGreen} \cup {Canary(p) : p \in Percents}
                \cup {Rolling(b) : b \in BatchSizes}

VARIABLES
  deployment,   \* metadata.deployment of each registered version
  active,       \* active_version
  canary,       \* canary_version
  rolled,       \* rolled_instances
  total,        \* total_instances
  call          \* the last call (history)

vars == <<deployment, active, canary, rolled, total, call>>

Registered == DOMAIN deployment

Init ==
  /\ deployment = [v \in {} |-> Immediate]
  /\ active = NoVersion /\ canary = NoVersion
  /\ rolled = 0 /\ total = 0
  /\ call = "new"

-----------------------------------------------------------------------------
\* A version comes with metadata of its own; the first one becomes active.
Register(v, s) ==
  /\ v \notin Registered
  /\ deployment' = [w \in Registered \cup {v} |-> IF w = v THEN s ELSE deployment[w]]
  /\ active' = IF active = NoVersion THEN v ELSE active
  /\ call' = "register"
  /\ UNCHANGED <<canary, rolled, total>>

Larger(m, n) == IF m > n THEN m ELSE n
Smaller(m, n) == IF m < n THEN m ELSE n

\* deploy once its arguments are found to be good: the strategy is recorded.
Deployed(v, s) ==
  /\ v \in Registered
  /\ deployment' = [deployment EXCEPT ![v] = s]
  /\ call' = "deploy"

DeployImmediate(v) ==
  /\ Deployed(v, Immediate)
  /\ active' = v /\ canary' = NoVersion
  /\ rolled' = 0 /\ total' = 0

\* The active version is kept.
DeployCanary(v, percent) ==
  /\ percent <= 100
  /\ Deployed(v, Canary(percent))
  /\ canary' = v
  /\ UNCHANGED <<active, rolled, total>>

DeployBlueGreen(v) ==
  /\ Deployed(v, BlueGreen)
  /\ canary' = v
  /\ UNCHANGED <<active, rolled, total>>

\* Mutant of DeployRolling: what was migrated before is not forgotten.
DeployRollingKept(v, size) ==
  /\ size > 0
  /\ Deployed(v, Rolling(size))
  /\ canary' = v
  /\ total' = Larger(total, DefaultInstances)
  /\ UNCHANGED <<active, rolled>>

\* A rollout starts with no traffic on the new version.
DeployRolling(v, size) ==
  /\ size > 0
  /\ Deployed(v, Rolling(size))
  /\ canary' = v
  /\ rolled' = 0
  /\ total' = Larger(total, DefaultInstances)
  /\ UNCHANGED active

Deploy(v) ==
  \/ DeployImmediate(v) \/ DeployBlueGreen(v)
  \/ \E p \in Percents : DeployCanary(v, p)
  \/ \E b \in BatchSizes : DeployRolling(v, b)

PromoteCanary ==
  /\ canary # NoVersion
  /\ active' = canary /\ canary' = NoVersion
  /\ call' = "promote"
  /\ UNCHANGED <<deployment, rolled, total>>

Rollback(v) ==
  /\ v \in Registered
  /\ active' = v /\ canary' = NoVersion
  /\ call' = "rollback"
  /\ UNCHANGED <<deployment, rolled, total>>

SetRolloutInstances(n) ==
  /\ n > 0
  /\ total' = n /\ rolled' = Smaller(rolled, n)
  /\ call' = "resize"
  /\ UNCHANGED <<deployment, active, canary>>

Rollout == canary # NoVersion /\ deployment[canary].kind = "Rolling"

\* The last batch makes the new version active and forgets the sizes.
AdvanceRollout ==
  /\ Rollout
  /\ LET all == IF total = 0 THEN DefaultInstances ELSE total
         done == Smaller(rolled + deployment[canary].n, all)
     IN  IF done >= all
         THEN /\ active' = canary /\ canary' = NoVersion
              /\ rolled' = 0 /\ total' = 0
         ELSE /\ rolled' = done /\ total' = all
              /\ UNCHANGED <<active, canary>>
  /\ call' = "advance"
  /\ UNCHANGED deployment

\* Mutant of Remove: only the active version is protected.
RemoveCanary(v) ==
  /\ v \in Registered \ {active}
  /\ deployment' = [w \in Registered \ {v} |-> deployment[w]]
  /\ call' = "remove"
  /\ UNCHANGED <<active, canary, rolled, total>>

Remove(v) ==
  /\ v \in Registered \ {active, canary}
  /\ deployment' = [w \in Registered \ {v} |-> deployment[w]]
  /\ call' = "remove"
  /\ UNCHANGED <<active, canary, rolled, total>>

\* The comparison with rolled_fraction, multiplied out.
Migrated(request, done, all) == request * all < done * 10000

\* should_use_new_version_at
UsesNew(s, request) ==
  \/ s.kind = "Immediate"
  \/ s.kind = "Canary" /\ request % 100 < s.n
  \/ s.kind = "Rolling" /\ Migrated(request, rolled, total)

SelectForRequest(request) ==
  IF canary \in Registered /\ UsesNew(deployment[canary], request) THEN canary ELSE active

Next ==
  \/ \E v \in Versions :
       \/ \E s \in Strategies : Register(v, s)
       \/ Deploy(v) \/ Rollback(v) \/ Remove(v)
  \/ PromoteCanary \/ AdvanceRollout
  \/ \E n \in Totals : SetRolloutInstances(n)

Spec == Init /\ [][Next]_vars

-----------------------------------------------------------------------------
(* Properties *)

TypeOK ==
  /\ Registered \subseteq Versions /\ \A v \in Registered : deployment[v] \in Strategies
  /\ {active, canary} \subseteq Versions \cup {NoVersion}
  /\ {rolled, total} \subseteq Nat
  /\ call \in {"new", "register", "deploy", "promote", "rollback", "resize", "advance", "remove"}

\* Routing never meets a version that is gone: the active one and the canary are
\* registered, and there is an active one as soon as there is any.
Resolvable ==
  /\ {active, canary} \ {NoVersion} \subseteq Registered
  /\ active = NoVersion => Registered = {}

\* Nothing waits under a strategy that was not accepted or that would take all the
\* traffic at once: the canary was staged by Canary, BlueGreen or Rolling, with a
\* percentage of at most 100 or batches of at least one instance.
CanaryStaged ==
  canary # NoVersion =>
    LET s == deployment[canary]
    IN  /\ s.kind # "Immediate"
        /\ s.kind = "Canary" => s.n <= 100
        /\ s.kind = "Rolling" => s.n > 0

\* A rollout never migrates more instances than it has.
RolloutBounded == Rollout => total > 0 /\ rolled <= total

\* Types, versions, strategies and sizes together.
RegistryInv == TypeOK /\ Resolvable /\ CanaryStaged /\ RolloutBounded

\* "The share of requests routed to the new version equals the share of instances
\* already migrated": a batch moves requests to the new version and none away from
\* it, up to the last, which leaves nothing on the old one; a promotion moves all
\* the others.  A rollout begins with no request on the new version, and to register
\* or remove versions moves none.
TrafficShifts ==
  [][\A q \in Requests :
       LET before == SelectForRequest(q)
           after == SelectForRequest(q)'
       IN  /\ call' \in {"advance", "promote"} =>
                /\ after # before => after = canary
                /\ canary' = NoVersion => after = canary
           /\ call' = "deploy" /\ Rollout' => after = active
           /\ call' \in {"register", "remove"} /\ active # NoVersion => after = before]_vars
=============================================================================
