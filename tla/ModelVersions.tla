---------------------------- MODULE ModelVersions ----------------------------
(***************************************************************************)
(* kizzasi_inference::versioning::ModelVersionManager                      *)
(* (crates/kizzasi-inference/src/versioning.rs): the versions of one       *)
(* model, what their requests say of their health, and the choice of a     *)
(* fallback.  Every method is one critical section.  Versions are numbers  *)
(* in the order of semantic versions, a request is fast, slow or an error, *)
(* and whether health_check_interval has passed is a choice.               *)
(***************************************************************************)
EXTENDS Naturals, FiniteSets, FiniteSetsExt

CONSTANTS
  Releases,      \* versions, a set of numbers
  NoRelease,     \* no version
  Strategies,    \* values of fallback_strategy, without the version
  Named,         \* the version of SpecificVersion
  MaxErrors,     \* max_error_rate, as errors in ten requests
  MaxSlow,       \* max_latency_ms, as slow ones in ten requests
  MaxRequests,   \* bound: requests recorded
  MaxChecks      \* bound: health checks

VersionsAssumption ==
  /\ Strategies \subseteq {"NextVersion", "PreviousStable", "SpecificVersion", "NoFallback"}
  /\ IsFiniteSet(Releases) /\ Releases \subseteq Nat /\ NoRelease \notin Releases
  /\ {MaxErrors, MaxSlow, MaxRequests, MaxChecks} \subseteq Nat

VARIABLES
  strategy, autoRecovery,   \* config
  stable,                   \* registered version -> is_stable
  stats,                    \* registered version -> requests, errors, slow ones, last check
  active,                   \* active_versions of the model
  requests, checks,         \* history: the bounds above
  blamed,                   \* history: version -> requests of its statistics that were in a
                            \* verdict against it, and in none for it since
  twice                     \* history: versions of which run_health_checks did so again

config == <<strategy, autoRecovery>>
vars == <<config, stable, stats, active, requests, checks, blamed, twice>>

Outcomes == {"fast", "slow", "error"}
NoStats == [requests |-> 0, errors |-> 0, slow |-> 0, last |-> "Never"]
Registered == DOMAIN stable

Init ==
  /\ strategy \in Strategies /\ autoRecovery \in BOOLEAN
  /\ stable = [v \in {} |-> FALSE] /\ stats = [v \in {} |-> NoStats] /\ active = NoRelease
  /\ requests = 0 /\ checks = 0 /\ blamed = [v \in Releases |-> 0] /\ twice = {}

RegisterVersion(v, isStable) ==
  /\ v \notin Registered
  /\ stable' = [w \in Registered \cup {v} |-> IF w = v THEN isStable ELSE stable[w]]
  /\ stats' = [w \in Registered \cup {v} |-> IF w = v THEN NoStats ELSE stats[w]]
  /\ UNCHANGED <<config, active, requests, checks, blamed, twice>>

SetActiveVersion(v) ==
  /\ v \in Registered /\ active' = v
  /\ UNCHANGED <<config, stable, stats, requests, checks, blamed, twice>>

RecordRequest(v, outcome) ==
  /\ v \in Registered /\ requests < MaxRequests /\ requests' = requests + 1
  /\ stats' = [stats EXCEPT ![v].requests = @ + 1,
                            ![v].errors = IF outcome = "error" THEN @ + 1 ELSE @,
                            ![v].slow = IF outcome = "slow" THEN @ + 1 ELSE @]
  /\ UNCHANGED <<config, stable, active, checks, blamed, twice>>

-----------------------------------------------------------------------------
(* Health checks *)

\* to_health_check: nothing is wrong with a version that had no request.
Verdict(s) ==
  IF s.errors * 10 > MaxErrors * s.requests THEN "Unhealthy"
  ELSE IF s.slow * 10 > MaxSlow * s.requests THEN "Degraded"
  ELSE "Healthy"

Checked(s) == [s EXCEPT !.last = Verdict(s)]
Against(s) == s.last \in {"Unhealthy", "Degraded"}

\* Mutant of Judged: auto_recovery is read nowhere.
JudgedAll(s) == s

\* The statistics that a check in the interval judges.
Judged(s) == IF autoRecovery /\ Against(s) THEN NoStats ELSE s

Blames(s) == IF Against(Checked(s)) THEN s.requests ELSE 0

HealthCheck(v) ==
  /\ v \in Registered /\ checks < MaxChecks /\ checks' = checks + 1
  /\ stats' = [stats EXCEPT ![v] = Checked(@)]
  /\ blamed' = [blamed EXCEPT ![v] = Blames(stats[v])]
  /\ UNCHANGED <<config, stable, active, requests, twice>>

\* run_health_checks: every version that was never checked, and those of which the last
\* check is old enough.
RunHealthChecks(due) ==
  /\ checks < MaxChecks /\ checks' = checks + 1
  /\ {v \in Registered : stats[v].last = "Never"} \subseteq due /\ due \subseteq Registered
  /\ due # {}
  /\ stats' = [v \in Registered |-> IF v \in due THEN Checked(Judged(stats[v])) ELSE stats[v]]
  /\ blamed' = [v \in Releases |-> IF v \in due THEN Blames(Judged(stats[v])) ELSE blamed[v]]
  /\ twice' = twice \cup {v \in due : Against(stats'[v]) /\ blamed[v] > 0}
  /\ UNCHANGED <<config, stable, active, requests>>

\* get_fallback_version; the entries are sorted, the newest first.
Candidates(current) ==
  IF strategy = "NextVersion" THEN {v \in Registered : v < current}
  ELSE IF strategy = "PreviousStable" THEN {v \in Registered : stable[v] /\ v # current}
  ELSE IF strategy = "NoFallback" THEN {}
  ELSE {v \in Registered : v # current}      \* of which SpecificVersion asks for one

FallbackVersion(current) ==
  IF strategy = "SpecificVersion"
  THEN IF Named \in Candidates(current) THEN Named ELSE NoRelease
  ELSE IF Candidates(current) = {} THEN NoRelease ELSE Max(Candidates(current))

\* A caller that finds the active version unusable turns to the fallback.
FallBack ==
  /\ active # NoRelease /\ stats[active].last = "Unhealthy"
  /\ FallbackVersion(active) # NoRelease
  /\ active' = FallbackVersion(active)
  /\ UNCHANGED <<config, stable, stats, requests, checks, blamed, twice>>

Next ==
  \/ \E v \in Releases :
       \/ \E isStable \in BOOLEAN : RegisterVersion(v, isStable)
       \/ SetActiveVersion(v) \/ HealthCheck(v)
       \/ \E outcome \in Outcomes : RecordRequest(v, outcome)
  \/ \E due \in SUBSET Releases : RunHealthChecks(due)
  \/ FallBack

Spec == Init /\ [][Next]_vars

-----------------------------------------------------------------------------
(* Properties *)

TypeOK ==
  /\ strategy \in Strategies /\ autoRecovery \in BOOLEAN
  /\ Registered \subseteq Releases /\ DOMAIN stats = Registered
  /\ \A v \in Registered :
       /\ stable[v] \in BOOLEAN
       /\ stats[v].errors + stats[v].slow <= stats[v].requests
       /\ stats[v].requests <= requests
       /\ stats[v].last \in {"Never", "Healthy", "Degraded", "Unhealthy"}
  /\ active \in Registered \cup {NoRelease}
  /\ requests \in 0..MaxRequests /\ checks \in 0..MaxChecks

\* A fallback is another version that is registered; the next version is below the current
\* one, so that a caller who falls back again and again comes to an end.
FallbackOther ==
  \A v \in Registered :
    LET next == FallbackVersion(v)
    IN next # NoRelease => /\ next \in Registered \ {v}
                           /\ strategy = "NextVersion" => next < v

\* "Instead of being held down forever by one historical bad patch": with auto_recovery a
\* periodic verdict against a version rests on no request that was in an earlier one, unless
\* it was found healthy with it in between.
BlamedOnce == autoRecovery => twice = {}

\* Types, fallbacks and what the verdicts rest on together.
VersionsInv == TypeOK /\ FallbackOther /\ BlamedOnce
=============================================================================
