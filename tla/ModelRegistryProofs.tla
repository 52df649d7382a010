------------------------ MODULE ModelRegistryProofs ------------------------
(***************************************************************************)
(* Theorems about ModelRegistry, for every set of versions and of sizes.   *)
(***************************************************************************)
EXTENDS ModelRegistry, TLAPS

\* What Init and the calls need to know of the constants.
LEMMA StrategyKinds ==
  ASSUME RegistryAssumption
  PROVE /\ NoVersion \notin Versions
        /\ Immediate \in Strategies /\ BlueGreen \in Strategies
        /\ \A p \in Percents : p \in Nat /\ Canary(p) \in Strategies
        /\ \A b \in BatchSizes : b \in Nat /\ Rolling(b) \in Strategies
        /\ \A n \in Totals : n \in Nat
        /\ \A s \in Strategies : s.n \in Nat
<1>1. /\ NoVersion \notin Versions
      /\ \A p \in Percents : p \in Nat
      /\ \A b \in BatchSizes : b \in Nat
      /\ \A n \in Totals : n \in Nat
  <2>1. Percents \subseteq 0..255 /\ BatchSizes \cup Totals \subseteq Nat
    BY DEF RegistryAssumption
  <2>2. NoVersion \notin Versions
    BY DEF RegistryAssumption
  <2>3. \A p \in Percents : p \in Nat
    BY <2>1
  <2>4. (\A b \in BatchSizes : b \in Nat) /\ (\A n \in Totals : n \in Nat)
    BY <2>1
  <2> QED
    BY <2>2, <2>3, <2>4
<1>2. /\ Immediate \in Strategies /\ BlueGreen \in Strategies
      /\ \A p \in Percents : Canary(p) \in Strategies
      /\ \A b \in BatchSizes : Rolling(b) \in Strategies
  BY DEF Strategies
<1>3. ASSUME NEW s \in Strategies PROVE s.n \in Nat
  BY <1>1 DEF Strategies, Immediate, BlueGreen, Canary, Rolling
<1> QED
  BY <1>1, <1>2, <1>3

\* A new registry is empty.
LEMMA RegistryInitial == ASSUME RegistryAssumption, Init PROVE RegistryInv
BY SMT DEF Init, RegistryAssumption, RegistryInv, TypeOK, Resolvable, CanaryStaged,
           RolloutBounded, Rollout, Registered

\* Every call keeps the invariant.
LEMMA RegistryStep ==
  ASSUME RegistryAssumption, RegistryInv, [Next]_vars
  PROVE RegistryInv'
<1> USE StrategyKinds
<1> USE DEF RegistryInv, TypeOK, Resolvable, CanaryStaged, RolloutBounded, Rollout, Registered
<1>1. ASSUME NEW v \in Versions, NEW s \in Strategies, Register(v, s) PROVE RegistryInv'
  BY <1>1 DEF Register
<1>2. ASSUME NEW v \in Versions, DeployImmediate(v) PROVE RegistryInv'
  BY <1>2 DEF DeployImmediate, Deployed, Immediate
<1>3. ASSUME NEW v \in Versions, NEW p \in Percents, DeployCanary(v, p) PROVE RegistryInv'
  BY <1>3 DEF DeployCanary, Deployed, Canary
<1>4. ASSUME NEW v \in Versions, DeployBlueGreen(v) PROVE RegistryInv'
  BY <1>4 DEF DeployBlueGreen, Deployed, BlueGreen
<1>5. ASSUME NEW v \in Versions, NEW b \in BatchSizes, DeployRolling(v, b) PROVE RegistryInv'
  BY <1>5 DEF DeployRolling, Deployed, Rolling, Larger, DefaultInstances
<1>6. CASE PromoteCanary
  BY <1>6 DEF PromoteCanary
<1>7. ASSUME NEW v \in Versions, Rollback(v) PROVE RegistryInv'
  BY <1>7 DEF Rollback
<1>8. ASSUME NEW n \in Totals, SetRolloutInstances(n) PROVE RegistryInv'
  BY <1>8 DEF SetRolloutInstances, Smaller
<1>9. CASE AdvanceRollout
  BY <1>9 DEF AdvanceRollout, Smaller, DefaultInstances
<1>10. ASSUME NEW v \in Versions, Remove(v) PROVE RegistryInv'
  BY <1>10 DEF Remove
<1>11. CASE UNCHANGED vars
  BY <1>11 DEF vars
<1> QED
  BY <1>1, <1>2, <1>3, <1>4, <1>5, <1>6, <1>7, <1>8, <1>9, <1>10, <1>11 DEF Next, Deploy

\* The registry always routes to a version it has, under a strategy it accepted, and a
\* rollout never migrates more instances than there are.
THEOREM RegistryConsistent == ASSUME RegistryAssumption PROVE Spec => []RegistryInv
<1>1. Init => RegistryInv
  BY RegistryInitial
<1>2. RegistryInv /\ [Next]_vars => RegistryInv'
  BY RegistryStep
<1> QED
  BY <1>1, <1>2, PTL DEF Spec

-----------------------------------------------------------------------------
\* Where a request goes, with UsesNew as a condition on the sizes.
Routing ==
  \A q \in Requests :
    /\ SelectForRequest(q) \in {active, canary}
    /\ canary = NoVersion => SelectForRequest(q) = active
    /\ Rollout => SelectForRequest(q) =
                    IF Migrated(q, rolled, total) THEN canary ELSE active

LEMMA RoutingHolds == ASSUME RegistryAssumption PROVE RegistryInv => Routing
<1> SUFFICES ASSUME RegistryInv, NEW q \in Requests
             PROVE  /\ SelectForRequest(q) \in {active, canary}
                    /\ canary = NoVersion => SelectForRequest(q) = active
                    /\ Rollout => SelectForRequest(q) =
                                    IF Migrated(q, rolled, total) THEN canary ELSE active
  BY DEF Routing
<1>1. canary = NoVersion => canary \notin Registered
  BY StrategyKinds DEF RegistryInv, TypeOK
<1>2. Rollout => canary \in Registered
  BY DEF RegistryInv, Resolvable, Rollout
<1>3. Rollout => (UsesNew(deployment[canary], q) <=> Migrated(q, rolled, total))
  BY DEF UsesNew, Rollout
<1> QED
  BY <1>1, <1>2, <1>3 DEF SelectForRequest

\* The share of a rollout that did not shrink serves the requests it served, and that of
\* one that begins serves none.
LEMMA Shares ==
  /\ \A q, n, m, k \in Nat : m <= k /\ Migrated(q, m, n) => Migrated(q, k, n)
  /\ \A q, n \in Nat : ~ Migrated(q, 0, n)
BY DEF Migrated

LEMMA RoutingNext == ASSUME RegistryAssumption PROVE RegistryInv' => Routing'
BY RoutingHolds, PTL

\* What a call does to the version a request goes to.
LEMMA TrafficStep ==
  ASSUME RegistryAssumption, RegistryInv, RegistryInv', NEW q \in Requests, Next
  PROVE  /\ call' \in {"advance", "promote"} =>
              /\ SelectForRequest(q)' # SelectForRequest(q) => SelectForRequest(q)' = canary
              /\ canary' = NoVersion => SelectForRequest(q)' = canary
         /\ call' = "deploy" /\ Rollout' => SelectForRequest(q)' = active
         /\ call' \in {"register", "remove"} /\ active # NoVersion =>
              SelectForRequest(q)' = SelectForRequest(q)
<1>. DEFINE before == SelectForRequest(q)
            after == SelectForRequest(q)'
<1>1. /\ before \in {active, canary}
      /\ canary = NoVersion => before = active
      /\ Rollout => before = IF Migrated(q, rolled, total) THEN canary ELSE active
  BY RoutingHolds DEF Routing
<1>2. /\ after \in {active', canary'}
      /\ canary' = NoVersion => after = active'
      /\ Rollout' => after = IF Migrated(q, rolled', total') THEN canary' ELSE active'
  BY RoutingNext DEF Routing
<1>3. q \in Nat
  BY DEF RegistryAssumption
<1> HIDE DEF before, after
<1>4. ASSUME NEW v \in Versions, NEW s \in Strategies, Register(v, s), active # NoVersion
      PROVE  after = before
  <2>1. canary # v
    BY <1>4, StrategyKinds DEF Register, RegistryInv, Resolvable
  <2>2. (canary \in Registered') = (canary \in Registered)
    BY <1>4, <2>1 DEF Register, Registered
  <2>3. canary \in Registered => deployment'[canary] = deployment[canary]
    BY <1>4, <2>1 DEF Register, Registered
  <2> QED
    BY <1>4, <2>2, <2>3 DEF Register, before, after, SelectForRequest, UsesNew
<1>5. ASSUME NEW v \in Versions, Remove(v)
      PROVE  after = before
  <2>1. canary # v
    BY <1>5 DEF Remove
  <2>2. (canary \in Registered') = (canary \in Registered)
    BY <1>5, <2>1 DEF Remove, Registered
  <2>3. canary \in Registered => deployment'[canary] = deployment[canary]
    BY <1>5, <2>1 DEF Remove, Registered
  <2> QED
    BY <1>5, <2>2, <2>3 DEF Remove, before, after, SelectForRequest, UsesNew
<1>6. ASSUME PromoteCanary
      PROVE  after = canary
  BY <1>2, <1>6 DEF PromoteCanary
<1>7. ASSUME AdvanceRollout
      PROVE  /\ after # before => after = canary
             /\ canary' = NoVersion => after = canary
  <2>1. ASSUME canary' = NoVersion PROVE active' = canary
    <3>1. canary # NoVersion
      BY <1>7 DEF AdvanceRollout, Rollout
    <3> QED
      BY <1>7, <2>1, <3>1 DEF AdvanceRollout
  <2>2. ASSUME canary' # NoVersion
        PROVE  after # before => after = canary
    <3>1. /\ canary' = canary /\ active' = active /\ deployment' = deployment
          /\ Rollout /\ rolled' = Smaller(rolled + deployment[canary].n, total')
          /\ total' = IF total = 0 THEN DefaultInstances ELSE total
      BY <1>7, <2>2 DEF AdvanceRollout
    <3>2. /\ total \in Nat /\ rolled \in Nat /\ deployment[canary].n \in Nat
          /\ total > 0 /\ rolled <= total
      BY <3>1, StrategyKinds
         DEF RegistryInv, TypeOK, RolloutBounded, Rollout, Resolvable, Registered
    <3>3. total' = total /\ rolled' \in Nat /\ rolled' >= rolled
      BY <3>1, <3>2 DEF Smaller
    <3>4. Migrated(q, rolled, total) => Migrated(q, rolled', total')
      BY <1>3, <3>2, <3>3, Shares
    <3>5. Rollout'
      BY <3>1, <2>2 DEF Rollout
    <3> QED
      BY <1>1, <1>2, <3>1, <3>4, <3>5
  <2> QED
    BY <1>2, <2>1, <2>2
<1>8. ASSUME NEW v \in Versions, Deploy(v), Rollout'
      PROVE  after = active
  <2>1. \E b \in BatchSizes : DeployRolling(v, b)
    <3>1. canary' # NoVersion /\ deployment'[canary'].kind = "Rolling"
      BY <1>8 DEF Rollout
    <3>2. ~ DeployImmediate(v)
      BY <3>1 DEF DeployImmediate
    <3>3. ~ DeployBlueGreen(v)
      BY <3>1 DEF DeployBlueGreen, Deployed, BlueGreen, Registered
    <3>4. ASSUME NEW p \in Percents PROVE ~ DeployCanary(v, p)
      BY <3>1 DEF DeployCanary, Deployed, Canary, Registered
    <3> QED
      BY <1>8, <3>2, <3>3, <3>4 DEF Deploy
  <2>2. /\ total' \in Nat /\ rolled' = 0 /\ active' = active
    BY <2>1 DEF DeployRolling, RegistryInv, TypeOK
  <2>3. ~ Migrated(q, rolled', total')
    BY <1>3, <2>2, Shares
  <2> QED
    BY <1>2, <1>8, <2>2, <2>3
<1>9. /\ PromoteCanary => call' = "promote"
      /\ AdvanceRollout => call' = "advance"
      /\ \A n \in Totals : SetRolloutInstances(n) => call' = "resize"
      /\ \A v \in Versions :
           /\ \A s \in Strategies : Register(v, s) => call' = "register"
           /\ Deploy(v) => call' = "deploy"
           /\ Rollback(v) => call' = "rollback"
           /\ Remove(v) => call' = "remove"
  BY DEF PromoteCanary, AdvanceRollout, SetRolloutInstances, Register, Deploy, DeployImmediate,
         DeployCanary, DeployBlueGreen, DeployRolling, Deployed, Rollback, Remove
<1>10. /\ call' \in {"advance", "promote"} =>
            /\ after # before => after = canary
            /\ canary' = NoVersion => after = canary
       /\ call' = "deploy" /\ Rollout' => after = active
       /\ call' \in {"register", "remove"} /\ active # NoVersion => after = before
  BY <1>4, <1>5, <1>6, <1>7, <1>8, <1>9 DEF Next
<1> QED
  BY <1>10 DEF before, after

\* Under a rollout, requests only ever move to the new version, the last batch moves all of
\* them, and none moves when a rollout begins or versions come and go.
THEOREM RolloutMovesForward == ASSUME RegistryAssumption PROVE Spec => TrafficShifts
<1>1. Init => RegistryInv
  BY RegistryInitial
<1>2. RegistryInv /\ [Next]_vars => RegistryInv'
  BY RegistryStep
<1>3. ASSUME RegistryInv, RegistryInv', [Next]_vars
      PROVE  [\A q \in Requests :
       LET before == SelectForRequest(q)
           after == SelectForRequest(q)'
       IN  /\ call' \in {"advance", "promote"} =>
                /\ after # before => after = canary
                /\ canary' = NoVersion => after = canary
           /\ call' = "deploy" /\ Rollout' => after = active
           /\ call' \in {"register", "remove"} /\ active # NoVersion => after = before]_vars
  BY <1>3, TrafficStep
<1> QED
  BY <1>1, <1>2, <1>3, PTL DEF Spec, TrafficShifts
=============================================================================
