--------------------------- MODULE ServicesProofs ---------------------------
(***************************************************************************)
(* The services of MCServices, for every value of their constants, one     *)
(* part at a time.  SampleProofs has the rest.                             *)
(***************************************************************************)
EXTENDS MCServices, FiniteSetTheorems, SequenceTheorems, WellFoundedInduction, TLAPS

\* A step of the whole is a step of each part, or leaves the part alone.
LEMMA PartSteps ==
  ASSUME [AllNext]_allVars
  PROVE  /\ [Predictor!Next]_predictorVars /\ [Ring!Next]_ringVars
         /\ [Unbounded!Next]_unboundedVars /\ [Signal!Next]_signalVars
         /\ [Alloc!Next]_allocVars /\ [Decoder!Next]_decoderVars
         /\ [Trainer!Next]_trainerVars /\ [Mux!Next]_muxVars
         /\ [Ltl!Next]_ltlVars /\ [Managed!Next]_versionVars
BY DEF AllNext, OnlyMoves, allVars

-----------------------------------------------------------------------------
(* ModelVersionManager *)

LEMMA MinExists ==
  ASSUME NEW S \in SUBSET Nat, S # {}
  PROVE  \E x \in S : \A y \in S : x <= y
<1>1. PICK x \in S : \A y \in S : ~(<<y, x>> \in OpToRel(<, Nat))
  BY NatLessThanWellFounded, WFMin, ZenonT(60)
<1>2. \A y \in S : ~(y < x)
  BY <1>1 DEF OpToRel
<1> QED
  BY <1>2

\* A finite set of numbers has a greatest one: the one with the fewest above it.
LEMMA MaxExists ==
  ASSUME NEW S \in SUBSET Nat, IsFiniteSet(S), S # {}
  PROVE  Managed!Max(S) \in S
<1> DEFINE Above(x) == {y \in S : y > x}
           Counts == {Cardinality(Above(x)) : x \in S}
<1>1. \A x \in S : IsFiniteSet(Above(x)) /\ Cardinality(Above(x)) \in Nat
  BY FS_Subset, FS_CardinalityType
<1>2. Counts \in SUBSET Nat /\ Counts # {}
  BY <1>1
<1>3. PICK n \in Counts : \A m \in Counts : n <= m
  BY <1>2, MinExists
<1>4. PICK x \in S : n = Cardinality(Above(x))
  BY <1>3
<1>5. ASSUME NEW y \in S, ~(x >= y) PROVE FALSE
  <2>1. y \in Nat /\ x \in Nat /\ y > x
    BY <1>5
  <2>2. Above(y) \subseteq Above(x) /\ y \in Above(x) /\ y \notin Above(y)
    <3>1. y \in Above(x) /\ y \notin Above(y)
      BY <2>1
    <3>2. ASSUME NEW z \in Above(y) PROVE z \in Above(x)
      <4>1. z \in S /\ z \in Nat /\ z > y
        OBVIOUS
      <4>2. z > x
        BY <2>1, <4>1
      <4> QED  BY <4>1, <4>2
    <3> QED  BY <3>1, <3>2
  <2>3. Cardinality(Above(y)) < Cardinality(Above(x))
    BY <1>1, <2>2, FS_Subset
  <2>4. Cardinality(Above(y)) \in Counts /\ Cardinality(Above(y)) \in Nat
    BY <1>1
  <2>5. n <= Cardinality(Above(y)) /\ n \in Nat
    BY <1>2, <1>3, <2>4
  <2> HIDE DEF Above, Counts
  <2> QED  BY <1>4, <2>3, <2>4, <2>5
<1>6. \E z \in S : \A y \in S : z >= y
  BY <1>5
<1> QED  BY <1>6 DEF Managed!Max

LEMMA ManagedSets == ASSUME NEW S PROVE Managed!IsFiniteSet(S) <=> IsFiniteSet(S)
BY DEF IsFiniteSet, Managed!IsFiniteSet

Figures == [requests : Nat, errors : Nat, slow : Nat,
            last : {"Never", "Healthy", "Degraded", "Unhealthy"}]
Sound(s, n) == s \in Figures /\ s.errors + s.slow <= s.requests /\ s.requests <= n

\* The inductive invariant: what is counted against a version is in its statistics, and
\* those were judged against it.
ManagedTypes ==
  /\ fallback \in Fallbacks /\ autoRecovery \in BOOLEAN
  /\ DOMAIN stable \subseteq Releases /\ stable \in [DOMAIN stable -> BOOLEAN]
  /\ DOMAIN health = DOMAIN stable /\ health \in [DOMAIN health -> Figures]
  /\ \A v \in DOMAIN health : Sound(health[v], recorded)
  /\ active \in DOMAIN stable \cup {NoRelease}
  /\ recorded \in 0..MaxRecorded /\ checks \in 0..MaxChecks
ManagedBlame ==
  /\ blamed \in [Releases -> Nat]
  /\ \A v \in Releases : blamed[v] > 0 => v \in DOMAIN health /\ Managed!Against(health[v])
  /\ autoRecovery => twice = {}
ManagedSafe == ManagedTypes /\ ManagedBlame

\* A check of sound figures.
LEMMA CheckedFigures ==
  ASSUME Managed!VersionsAssumption, NEW n \in Nat, NEW s \in Figures, Sound(s, n)
  PROVE  /\ Sound(Managed!Checked(s), n)
         /\ Managed!Blames(s) \in Nat
         /\ Managed!Blames(s) > 0 => Managed!Against(Managed!Checked(s))
         /\ Sound(Managed!Judged(s), n) /\ Managed!Judged(s) \in Figures
         /\ autoRecovery /\ Managed!Against(s) => ~Managed!Against(Managed!Checked(Managed!Judged(s)))
<1>1. Managed!Verdict(s) \in {"Healthy", "Degraded", "Unhealthy"}
  BY DEF Managed!Verdict
<1>2. /\ Managed!Checked(s) \in Figures
      /\ Managed!Checked(s).errors = s.errors /\ Managed!Checked(s).slow = s.slow
      /\ Managed!Checked(s).requests = s.requests /\ Managed!Checked(s).last = Managed!Verdict(s)
  BY <1>1 DEF Managed!Checked, Figures
<1>3. /\ Managed!NoStats \in Figures /\ Managed!NoStats.errors = 0 /\ Managed!NoStats.slow = 0
      /\ Managed!NoStats.requests = 0 /\ Sound(Managed!NoStats, n)
  BY DEF Managed!NoStats, Figures, Sound
<1>4. Managed!Verdict(Managed!NoStats) = "Healthy"
  BY <1>3 DEF Managed!Verdict, Managed!VersionsAssumption
<1>5. Managed!Checked(Managed!NoStats).last = "Healthy"
  BY <1>4 DEF Managed!Checked, Managed!NoStats
<1>6. Sound(Managed!Checked(s), n)
  BY <1>2 DEF Sound
<1>7. Managed!Blames(s) \in Nat /\ (Managed!Blames(s) > 0 => Managed!Against(Managed!Checked(s)))
  BY DEF Managed!Blames, Figures
<1>8. Sound(Managed!Judged(s), n) /\ Managed!Judged(s) \in Figures
  BY <1>3 DEF Managed!Judged
<1>9. ASSUME autoRecovery, Managed!Against(s)
      PROVE  ~Managed!Against(Managed!Checked(Managed!Judged(s)))
  BY <1>5, <1>9 DEF Managed!Judged, Managed!Against
<1> QED  BY <1>6, <1>7, <1>8, <1>9

LEMMA FiguresExcept ==
  ASSUME NEW s \in Figures, NEW a \in Nat, NEW b \in Nat, NEW c \in Nat
  PROVE  [s EXCEPT !.requests = a, !.errors = b, !.slow = c] \in Figures
<1>1. [s EXCEPT !.requests = a] \in Figures
  BY DEF Figures
<1>2. [[s EXCEPT !.requests = a] EXCEPT !.errors = b] \in Figures
  BY <1>1 DEF Figures
<1> QED
  BY <1>2 DEF Figures

LEMMA RegisterKeeps ==
  ASSUME Managed!VersionsAssumption, ManagedSafe, NEW v \in Releases, NEW b \in BOOLEAN,
         Managed!RegisterVersion(v, b)
  PROVE  ManagedSafe'
<1> USE DEF ManagedSafe, Managed!Registered
<1>1. /\ v \notin DOMAIN stable
      /\ stable' = [w \in DOMAIN stable \cup {v} |-> IF w = v THEN b ELSE stable[w]]
      /\ health' = [w \in DOMAIN stable \cup {v} |-> IF w = v THEN Managed!NoStats ELSE health[w]]
      /\ UNCHANGED <<fallback, autoRecovery, active, recorded, checks, blamed, twice>>
  BY DEF Managed!RegisterVersion, Managed!config
<1>2. Managed!NoStats \in Figures /\ (recorded \in Nat => Sound(Managed!NoStats, recorded))
  BY DEF Managed!NoStats, Figures, Sound
<1>3. ManagedTypes'
  BY <1>1, <1>2 DEF ManagedTypes, Managed!VersionsAssumption
<1>4. ManagedBlame'
  BY <1>1 DEF ManagedTypes, ManagedBlame
<1> QED  BY <1>3, <1>4

LEMMA RecordKeeps ==
  ASSUME Managed!VersionsAssumption, ManagedSafe, NEW v \in Releases,
         NEW outcome \in Managed!Outcomes, Managed!RecordRequest(v, outcome)
  PROVE  ManagedSafe'
<1> USE DEF ManagedSafe, Managed!Registered
<1> DEFINE s == health[v]
           t == [requests |-> s.requests + 1,
                 errors |-> IF outcome = "error" THEN s.errors + 1 ELSE s.errors,
                 slow |-> IF outcome = "slow" THEN s.slow + 1 ELSE s.slow, last |-> s.last]
<1>1. /\ v \in DOMAIN stable /\ recorded < MaxRecorded /\ recorded' = recorded + 1
      /\ UNCHANGED <<fallback, autoRecovery, stable, active, checks, blamed, twice>>
  BY DEF Managed!RecordRequest, Managed!config
<1>2. s \in Figures /\ Sound(s, recorded) /\ recorded \in Nat
  BY <1>1 DEF ManagedTypes
<1>3. health' = [health EXCEPT ![v] = t]
  <2>1. health' = [health EXCEPT ![v].requests = @ + 1,
                                 ![v].errors = IF outcome = "error" THEN @ + 1 ELSE @,
                                 ![v].slow = IF outcome = "slow" THEN @ + 1 ELSE @]
    BY DEF Managed!RecordRequest
  <2>2. s = [requests |-> s.requests, errors |-> s.errors, slow |-> s.slow, last |-> s.last]
    BY <1>2 DEF Figures
  <2>3. health' = [health EXCEPT ![v] = [s EXCEPT
                     !.requests = @ + 1,
                     !.errors = IF outcome = "error" THEN @ + 1 ELSE @,
                     !.slow = IF outcome = "slow" THEN @ + 1 ELSE @]]
    BY <1>1, <2>1 DEF ManagedTypes
  <2>4. t = [s EXCEPT !.requests = @ + 1,
                      !.errors = IF outcome = "error" THEN @ + 1 ELSE @,
                      !.slow = IF outcome = "slow" THEN @ + 1 ELSE @]
    <3> DEFINE u == [s EXCEPT !.requests = @ + 1,
                              !.errors = IF outcome = "error" THEN @ + 1 ELSE @,
                              !.slow = IF outcome = "slow" THEN @ + 1 ELSE @]
    <3>1. s.requests \in Nat /\ s.errors \in Nat /\ s.slow \in Nat
      BY <1>2 DEF Figures
    <3>2. /\ u \in Figures /\ u.requests = s.requests + 1 /\ u.last = s.last
          /\ u.errors = IF outcome = "error" THEN s.errors + 1 ELSE s.errors
          /\ u.slow = IF outcome = "slow" THEN s.slow + 1 ELSE s.slow
      <4> HIDE DEF s
      <4>1. s \in [requests : Nat, errors : Nat, slow : Nat,
                   last : {"Never", "Healthy", "Degraded", "Unhealthy"}]
        BY <1>2 DEF Figures
      <4>2. u.last = s.last
        BY <4>1
      <4>3. u.requests = s.requests + 1
        BY <3>1, <4>1
      <4>4. u.errors = IF outcome = "error" THEN s.errors + 1 ELSE s.errors
        BY <3>1, <4>1
      <4>5. u.slow = IF outcome = "slow" THEN s.slow + 1 ELSE s.slow
        BY <3>1, <4>1
      <4>6. u \in Figures
        <5> DEFINE a == s.requests + 1
                   b == IF outcome = "error" THEN s.errors + 1 ELSE s.errors
                   c == IF outcome = "slow" THEN s.slow + 1 ELSE s.slow
        <5>1. a \in Nat /\ b \in Nat /\ c \in Nat
          BY <3>1
        <5>2. u = [s EXCEPT !.requests = a, !.errors = b, !.slow = c]
          OBVIOUS
        <5> HIDE DEF a, b, c, u
        <5> QED  BY <1>2, <5>1, <5>2, FiguresExcept, ZenonT(60)
      <4> QED  BY <4>2, <4>3, <4>4, <4>5, <4>6
    <3>3. u = [requests |-> u.requests, errors |-> u.errors, slow |-> u.slow, last |-> u.last]
      <4> HIDE DEF u
      <4> QED  BY <3>2 DEF Figures
    <3>4. t = u
      <4> HIDE DEF u, s
      <4> QED  BY <3>2, <3>3 DEF t
    <3> QED  BY <3>4 DEF u
  <2> HIDE DEF t, s
  <2> QED  BY <2>3, <2>4
<1>4. t \in Figures /\ Sound(t, recorded') /\ t.last = s.last
  BY <1>1, <1>2 DEF Figures, Sound
<1> HIDE DEF s, t
<1>5. \A w \in DOMAIN health : Sound(health[w], recorded')
  BY <1>1, <1>2 DEF ManagedTypes, Sound, Figures
<1>6. ManagedTypes'
  BY <1>1, <1>3, <1>4, <1>5 DEF ManagedTypes, Managed!VersionsAssumption
<1>7. ManagedBlame'
  BY <1>1, <1>3, <1>4 DEF ManagedBlame, ManagedTypes, Managed!Against, s
<1> QED  BY <1>6, <1>7

LEMMA CheckKeeps ==
  ASSUME Managed!VersionsAssumption, ManagedSafe, NEW v \in Releases, Managed!HealthCheck(v)
  PROVE  ManagedSafe'
<1> USE DEF ManagedSafe, Managed!Registered
<1>1. /\ v \in DOMAIN stable /\ checks < MaxChecks /\ checks' = checks + 1
      /\ health' = [health EXCEPT ![v] = Managed!Checked(health[v])]
      /\ blamed' = [blamed EXCEPT ![v] = Managed!Blames(health[v])]
      /\ UNCHANGED <<fallback, autoRecovery, stable, active, recorded, twice>>
  BY DEF Managed!HealthCheck, Managed!config
<1>2. health[v] \in Figures /\ Sound(health[v], recorded) /\ recorded \in Nat
  BY <1>1 DEF ManagedTypes
<1>3. /\ Sound(Managed!Checked(health[v]), recorded)
      /\ Managed!Blames(health[v]) \in Nat
      /\ Managed!Blames(health[v]) > 0 => Managed!Against(Managed!Checked(health[v]))
  BY <1>2, CheckedFigures
<1>4. ManagedTypes'
  BY <1>1, <1>3 DEF ManagedTypes, Managed!VersionsAssumption, Sound
<1>5. ManagedBlame'
  BY <1>1, <1>3 DEF ManagedBlame, ManagedTypes
<1> QED  BY <1>4, <1>5

LEMMA RunKeeps ==
  ASSUME Managed!VersionsAssumption, ManagedSafe, NEW due \in SUBSET Releases,
         Managed!RunHealthChecks(due)
  PROVE  ManagedSafe'
<1> USE DEF ManagedSafe, Managed!Registered
<1>1. /\ due \subseteq DOMAIN stable /\ checks < MaxChecks /\ checks' = checks + 1
      /\ health' = [v \in DOMAIN stable |->
                     IF v \in due THEN Managed!Checked(Managed!Judged(health[v])) ELSE health[v]]
      /\ blamed' = [v \in Releases |->
                     IF v \in due THEN Managed!Blames(Managed!Judged(health[v])) ELSE blamed[v]]
      /\ twice' = twice \cup {v \in due : Managed!Against(health'[v]) /\ blamed[v] > 0}
      /\ UNCHANGED <<fallback, autoRecovery, stable, active, recorded>>
  BY DEF Managed!RunHealthChecks, Managed!config
<1>2. \A v \in DOMAIN stable : health[v] \in Figures /\ Sound(health[v], recorded)
  BY DEF ManagedTypes
<1>3. recorded \in Nat
  BY DEF ManagedTypes
<1>4. ASSUME NEW v \in DOMAIN stable
      PROVE  /\ Sound(Managed!Checked(Managed!Judged(health[v])), recorded)
             /\ Managed!Blames(Managed!Judged(health[v])) \in Nat
             /\ Managed!Blames(Managed!Judged(health[v])) > 0
                  => Managed!Against(Managed!Checked(Managed!Judged(health[v])))
             /\ autoRecovery /\ Managed!Against(health[v])
                  => ~Managed!Against(Managed!Checked(Managed!Judged(health[v])))
  <2>1. /\ Sound(Managed!Judged(health[v]), recorded) /\ Managed!Judged(health[v]) \in Figures
        /\ autoRecovery /\ Managed!Against(health[v])
             => ~Managed!Against(Managed!Checked(Managed!Judged(health[v])))
    BY <1>2, <1>3, CheckedFigures
  <2> QED  BY <1>3, <2>1, CheckedFigures
<1>5. ManagedTypes'
  <2>1. \A v \in DOMAIN stable : Sound(health'[v], recorded)
    BY <1>1, <1>2, <1>4
  <2>2. health' \in [DOMAIN stable -> Figures]
    BY <1>1, <2>1 DEF Sound
  <2> QED  BY <1>1, <2>1, <2>2 DEF ManagedTypes, Managed!VersionsAssumption
<1>6. ManagedBlame'
  <2>1. blamed' \in [Releases -> Nat]
    BY <1>1, <1>4 DEF ManagedBlame
  <2>2. ASSUME NEW v \in Releases, blamed'[v] > 0
        PROVE  v \in DOMAIN health' /\ Managed!Against(health'[v])
    BY <1>1, <1>4, <2>2 DEF ManagedBlame, ManagedTypes
  <2>3. ASSUME autoRecovery PROVE twice' = {}
    <3>1. \A v \in due : blamed[v] > 0 => Managed!Against(health[v])
      BY <1>1 DEF ManagedBlame
    <3>2. \A v \in due : ~(Managed!Against(health'[v]) /\ blamed[v] > 0)
      BY <1>1, <1>4, <2>3, <3>1
    <3> QED  BY <1>1, <2>3, <3>2 DEF ManagedBlame
  <2> QED  BY <1>1, <2>1, <2>2, <2>3 DEF ManagedBlame
<1> QED  BY <1>5, <1>6

LEMMA FallbackIsOther ==
  ASSUME Managed!VersionsAssumption, ManagedTypes PROVE Managed!FallbackOther
<1> USE DEF Managed!Registered
<1> SUFFICES ASSUME NEW v \in DOMAIN stable, Managed!FallbackVersion(v) # NoRelease
             PROVE  /\ Managed!FallbackVersion(v) \in DOMAIN stable \ {v}
                    /\ fallback = "NextVersion" => Managed!FallbackVersion(v) < v
  BY DEF Managed!FallbackOther
<1>1. /\ DOMAIN stable \subseteq Nat /\ IsFiniteSet(DOMAIN stable)
  <2>1. IsFiniteSet(Releases) /\ Releases \subseteq Nat /\ DOMAIN stable \subseteq Releases
    BY ManagedSets DEF Managed!VersionsAssumption, ManagedTypes
  <2> QED  BY <2>1, FS_Subset
<1>2. /\ Managed!Candidates(v) \subseteq DOMAIN stable \ {v}
      /\ fallback = "NextVersion" => \A w \in Managed!Candidates(v) : w < v
  BY <1>1 DEF Managed!Candidates
<1>3. Managed!FallbackVersion(v) \in Managed!Candidates(v)
  <2>1. CASE fallback = "SpecificVersion"
    BY <2>1 DEF Managed!FallbackVersion
  <2>2. CASE fallback # "SpecificVersion"
    <3>1. Managed!Candidates(v) # {} /\ Managed!FallbackVersion(v) = Managed!Max(Managed!Candidates(v))
      BY <2>2 DEF Managed!FallbackVersion
    <3>2. Managed!Candidates(v) \in SUBSET Nat /\ IsFiniteSet(Managed!Candidates(v))
      BY <1>1, <1>2, FS_Subset
    <3> QED  BY <3>1, <3>2, MaxExists
  <2> QED  BY <2>1, <2>2
<1> QED  BY <1>2, <1>3

LEMMA ManagedStep ==
  ASSUME Managed!VersionsAssumption, ManagedSafe, [Managed!Next]_versionVars
  PROVE  ManagedSafe'
<1>1. ASSUME NEW v \in Releases, Managed!SetActiveVersion(v) PROVE ManagedSafe'
  BY <1>1 DEF Managed!SetActiveVersion, Managed!config, Managed!Registered, ManagedSafe,
              ManagedTypes, ManagedBlame
<1>2. ASSUME Managed!FallBack PROVE ManagedSafe'
  <2>1. /\ active # NoRelease /\ Managed!FallbackVersion(active) # NoRelease
        /\ active' = Managed!FallbackVersion(active)
        /\ UNCHANGED <<fallback, autoRecovery, stable, health, recorded, checks, blamed, twice>>
    BY <1>2 DEF Managed!FallBack, Managed!config
  <2>2. active' \in DOMAIN stable
    BY <2>1, FallbackIsOther DEF Managed!FallbackOther, Managed!Registered, ManagedSafe, ManagedTypes
  <2> QED  BY <2>1, <2>2 DEF ManagedSafe, ManagedTypes, ManagedBlame
<1>3. CASE UNCHANGED versionVars
  BY <1>3 DEF versionVars, ManagedSafe, ManagedTypes, ManagedBlame
<1> QED
  BY <1>1, <1>2, <1>3, RegisterKeeps, RecordKeeps, CheckKeeps, RunKeeps DEF Managed!Next

LEMMA ManagedInitial ==
  ASSUME Managed!VersionsAssumption, Managed!Init PROVE ManagedSafe
BY DEF Managed!VersionsAssumption, Managed!Init, ManagedSafe, ManagedTypes, ManagedBlame

LEMMA ManagedImplies ==
  ASSUME Managed!VersionsAssumption, ManagedSafe PROVE Managed!VersionsInv
<1>1. Managed!TypeOK
  BY DEF ManagedSafe, ManagedTypes, Sound, Figures, Managed!TypeOK, Managed!Registered
<1> QED
  BY <1>1, FallbackIsOther DEF ManagedSafe, ManagedBlame, Managed!VersionsInv, Managed!BlamedOnce

\* A fallback never chooses the version that failed, and with auto_recovery no request is
\* held against a version twice: for any versions, limits and order of calls.
THEOREM FallbacksCorrect == AllSpec => []VersionsInv
<1>1. AllInit => ManagedSafe
  BY ManagedInitial, ServicesAssumption DEF AllInit
<1>2. ManagedSafe /\ [AllNext]_allVars => ManagedSafe'
  BY PartSteps, ManagedStep, ServicesAssumption
<1>3. ManagedSafe => VersionsInv
  BY ManagedImplies, ServicesAssumption DEF VersionsInv
<1> QED
  BY <1>1, <1>2, <1>3, PTL DEF AllSpec

-----------------------------------------------------------------------------
(* DistributedPredictor *)

\* What the count is after one more thing is added or taken away.
LEMMA OneMore ==
  ASSUME NEW S, NEW x, IsFiniteSet(S)
  PROVE  /\ IsFiniteSet(S \cup {x}) /\ IsFiniteSet(S \ {x}) /\ Cardinality(S) \in Nat
         /\ x \notin S => Cardinality(S \cup {x}) = Cardinality(S) + 1
         /\ x \in S => Cardinality(S \ {x}) = Cardinality(S) - 1 /\ Cardinality(S) > 0
<1>1. x \in S => Cardinality(S) # 0
  BY FS_EmptySet
<1> QED  BY <1>1, FS_AddElement, FS_RemoveElement, FS_CardinalityType

Locals == [attempts : Nat, view : Seq(Predictor!Workers), at : Nat, target : 0..NumWorkers,
           least : Nat, gone : SUBSET Predictor!Workers]
Answers == {"none", "ok", "err", "lost"}
Selected == {"reserve", "send", "full", "closed", "mark", "await", "settle"}

\* What is true of one call, given its locals l, its answer a, the flags of the workers and
\* where they are: the worker it selected is none that it found gone, and is dead when the
\* call is about to mark it.
CallOk(p, l, a, flags, at) ==
  /\ p = "scan" => l.at >= 1
  /\ p = "loads" => l.at >= 1 /\ l.view # <<>> /\ (l.at > 1 => l.target \in Predictor!Workers)
  /\ p \in Selected => l.target \in Predictor!Workers
  /\ a # "none" => p \in {"await", "settle", "mark"}
  /\ p \in {"closed", "mark"} \/ a = "lost" => at[l.target] = "dead"
  /\ \A w \in l.gone : ~flags[w]
  /\ l.target \notin l.gone /\ \A i \in DOMAIN l.view : l.view[i] \notin l.gone

\* The calls that hold a slot of w, and those that wait for its answer.
Holders(w, p, l) == {c \in Clients : p[c] \in Predictor!CountedPcs /\ l[c].target = w}
Waiters(w, p, l, a) == {c \in Clients : p[c] = "await" /\ a[c] = "none" /\ l[c].target = w}
\* The requests in a channel.
Requests(q) == {i \in DOMAIN q : q[i].kind = "Predict"}
Busy(p) == IF p = "busy" THEN 1 ELSE 0

CallTypes ==
  /\ clientPc \in [Clients -> Predictor!CallerPcs] /\ loc \in [Clients -> Locals]
  /\ answer \in [Clients -> Answers]
WorkTypes ==
  /\ workQueue \in [Predictor!Workers -> Seq(Predictor!Messages)]
  /\ wpc \in [Predictor!Workers -> {"starting", "idle", "busy", "stopping", "dead"}]
  /\ job \in [Predictor!Workers -> Predictor!Messages]
  /\ installed \in [Predictor!Workers -> 0..MaxUpdates]
  /\ healthy \in [Predictor!Workers -> BOOLEAN]
CountTypes ==
  /\ current \in 0..(CounterSpan - 1) /\ predicts \in 0..MaxPredicts
  /\ rules \in 0..MaxUpdates /\ bcast \in 0..NumWorkers
  /\ balancing \in Balancing /\ cut \in BOOLEAN
  /\ pending \in [Predictor!Workers -> Nat] /\ gone \in [Predictor!Workers -> Nat]

\* The inductive invariant.
CallsOk ==
  /\ \A c \in Clients : CallOk(clientPc[c], loc[c], answer[c], healthy, wpc)
  /\ \A w \in Predictor!Workers : ~healthy[w] => wpc[w] \in {"stopping", "dead"}
\* Who sent a message waits for it, and sent no other: V are the calls that wait for the
\* worker, f is the sender of the request it runs.
QueueOk(q, f, V) ==
  \A i \in DOMAIN q :
    /\ q[i].kind # "Predict" => q[i].from \notin Clients
    /\ q[i].from \in Clients =>
         /\ q[i].from \in V /\ q[i].from # f
         /\ \A j \in DOMAIN q : q[i].from = q[j].from => i = j
JobOk(p, f, V) == (p = "busy" /\ f \in Clients => f \in V) /\ (p # "busy" => f \notin Clients)
SendersWait ==
  \A w \in Predictor!Workers :
    /\ JobOk(wpc[w], job[w].from, Waiters(w, clientPc, loc, answer))
    /\ QueueOk(workQueue[w], job[w].from, Waiters(w, clientPc, loc, answer))
SlotsCounted ==
  \A w \in Predictor!Workers :
    /\ pending[w] = gone[w] + Cardinality(Holders(w, clientPc, loc))
    /\ Cardinality(Requests(workQueue[w])) + Busy(wpc[w])
         <= gone[w] + Cardinality(Waiters(w, clientPc, loc, answer))
\* The rules in force behind each message are the ones it carries, and behind the last one
\* they are the coordinator's, for the workers that a broadcast has reached.
Before(q, i, v) == IF i = 1 THEN v ELSE q[i - 1].version
RulesCarried ==
  /\ bcast # 0 => \A c \in Clients : clientPc[c] = "ready"
  /\ cut \/ \A w \in Predictor!Workers :
       /\ wpc[w] = "busy" => installed[w] = job[w].version
       /\ \A i \in Requests(workQueue[w]) :
            workQueue[w][i].version = Before(workQueue[w], i, installed[w])
       /\ wpc[w] # "dead" /\ (bcast = 0 \/ w < bcast) =>
            Before(workQueue[w], Len(workQueue[w]) + 1, installed[w]) = rules
PredictorSafe ==
  CallTypes /\ WorkTypes /\ CountTypes /\ CallsOk /\ SendersWait /\ SlotsCounted /\ RulesCarried
LEMMA PredictorConstants ==
  ASSUME Predictor!PredictorAssumption
  PROVE  /\ IsFiniteSet(Clients) /\ Predictor!NoOne \notin Clients /\ NumWorkers \in Nat
         /\ QueueRoom \in Nat \ {0} /\ CounterSpan \in Nat \ {0} /\ MaxPredicts \in Nat
         /\ MaxUpdates \in Nat /\ Predictor!Workers = 1..NumWorkers /\ Tries \in Nat
<1>1. Predictor!IsFiniteSet(Clients) <=> IsFiniteSet(Clients)
  BY DEF Predictor!IsFiniteSet, IsFiniteSet
<1> QED  BY <1>1 DEF Predictor!PredictorAssumption, Predictor!Workers

LEMMA NoLocalsOk ==
  ASSUME Predictor!PredictorAssumption
  PROVE  /\ Predictor!NoLocals \in Locals /\ Predictor!NoLocals.at = 0
         /\ Predictor!NoLocals.view = <<>> /\ Predictor!NoLocals.target = 0
         /\ Predictor!NoLocals.gone = {} /\ 0 \notin Predictor!Workers
<1>1. NumWorkers \in Nat /\ 0 \in 0..NumWorkers /\ <<>> \in Seq(Predictor!Workers)
  BY PredictorConstants
<1> QED  BY <1>1, PredictorConstants DEF Predictor!NoLocals, Locals

\* The assignments to the locals of a call keep their types.
LEMMA LocalsExcept ==
  ASSUME NEW l \in Locals, NEW n \in Nat, NEW m \in Nat, NEW v \in Seq(Predictor!Workers),
         NEW t \in 0..NumWorkers, NEW g \in SUBSET Predictor!Workers
  PROVE  /\ [l EXCEPT !.at = n, !.view = v] \in Locals
         /\ [l EXCEPT !.target = t, !.view = v, !.at = n] \in Locals
         /\ [l EXCEPT !.at = n, !.target = t] \in Locals
         /\ [l EXCEPT !.at = n, !.target = t, !.least = m] \in Locals
         /\ [l EXCEPT !.view = v, !.at = n, !.least = m] \in Locals
         /\ [l EXCEPT !.attempts = m, !.at = n] \in Locals
         /\ [l EXCEPT !.attempts = m, !.at = n, !.gone = g] \in Locals
<1>1. ASSUME NEW k \in Locals
      PROVE  /\ [k EXCEPT !.at = n] \in Locals /\ [k EXCEPT !.view = v] \in Locals
             /\ [k EXCEPT !.target = t] \in Locals /\ [k EXCEPT !.least = m] \in Locals
             /\ [k EXCEPT !.attempts = m] \in Locals /\ [k EXCEPT !.gone = g] \in Locals
  BY DEF Locals
<1>2. /\ [[l EXCEPT !.at = n] EXCEPT !.view = v] \in Locals
      /\ [[l EXCEPT !.at = n] EXCEPT !.target = t] \in Locals
      /\ [[[l EXCEPT !.at = n] EXCEPT !.target = t] EXCEPT !.least = m] \in Locals
      /\ [[[l EXCEPT !.target = t] EXCEPT !.view = v] EXCEPT !.at = n] \in Locals
      /\ [[[l EXCEPT !.view = v] EXCEPT !.at = n] EXCEPT !.least = m] \in Locals
      /\ [[l EXCEPT !.attempts = m] EXCEPT !.at = n] \in Locals
      /\ [[[l EXCEPT !.attempts = m] EXCEPT !.at = n] EXCEPT !.gone = g] \in Locals
  BY <1>1
<1>3. [l EXCEPT !.at = n, !.view = v] = [[l EXCEPT !.at = n] EXCEPT !.view = v]
  BY DEF Locals
<1>4. [l EXCEPT !.target = t, !.view = v, !.at = n]
        = [[[l EXCEPT !.target = t] EXCEPT !.view = v] EXCEPT !.at = n]
  BY DEF Locals
<1>5. [l EXCEPT !.at = n, !.target = t] = [[l EXCEPT !.at = n] EXCEPT !.target = t]
  BY DEF Locals
<1>6. [l EXCEPT !.at = n, !.target = t, !.least = m]
        = [[[l EXCEPT !.at = n] EXCEPT !.target = t] EXCEPT !.least = m]
  BY DEF Locals
<1>7. [l EXCEPT !.view = v, !.at = n, !.least = m]
        = [[[l EXCEPT !.view = v] EXCEPT !.at = n] EXCEPT !.least = m]
  BY DEF Locals
<1>8. [l EXCEPT !.attempts = m, !.at = n] = [[l EXCEPT !.attempts = m] EXCEPT !.at = n]
  BY DEF Locals
<1>9. [l EXCEPT !.attempts = m, !.at = n, !.gone = g]
        = [[[l EXCEPT !.attempts = m] EXCEPT !.at = n] EXCEPT !.gone = g]
  BY DEF Locals
<1> QED  BY <1>2, <1>3, <1>4, <1>5, <1>6, <1>7, <1>8, <1>9

LEMMA StartLocals ==
  ASSUME Predictor!PredictorAssumption, NEW m \in Nat, NEW n \in Nat,
         NEW g \in SUBSET Predictor!Workers
  PROVE  /\ [Predictor!NoLocals EXCEPT !.attempts = m, !.at = n] \in Locals
         /\ [Predictor!NoLocals EXCEPT !.attempts = m, !.at = n, !.gone = g] \in Locals
<1>1. PICK l \in Locals : l = Predictor!NoLocals
  BY NoLocalsOk
<1>2. 0 \in 0..NumWorkers /\ <<>> \in Seq(Predictor!Workers)
  BY PredictorConstants
<1>3. /\ [l EXCEPT !.attempts = m, !.at = n] \in Locals
      /\ [l EXCEPT !.attempts = m, !.at = n, !.gone = g] \in Locals
  BY <1>2, LocalsExcept, ZenonT(60)
<1> QED  BY <1>1, <1>3

\* A step of the call of c that keeps what CallOk says of it.
Moves(c) ==
  /\ CallTypes'
  /\ \A d \in Clients \ {c} :
       clientPc'[d] = clientPc[d] /\ loc'[d] = loc[d] /\ answer'[d] = answer[d]
CallOf(c) ==
  /\ Moves(c) /\ CallOk(clientPc'[c], loc'[c], answer'[c], healthy', wpc)
  /\ clientPc[c] = "ready" => bcast = 0
  /\ current' \in 0..(CounterSpan - 1) /\ predicts' \in 0..MaxPredicts
  /\ UNCHANGED <<wpc, job, installed, rules, bcast, gone, cut, balancing>>
\* It does not wait for an answer, before or after.
Quiet(c) ==
  /\ clientPc[c] # "await" \/ answer[c] # "none"
  /\ clientPc'[c] # "await" \/ answer'[c] # "none"
SameSlot(c) ==
  /\ clientPc'[c] \in Predictor!CountedPcs <=> clientPc[c] \in Predictor!CountedPcs
  /\ clientPc'[c] \in Predictor!CountedPcs => loc'[c].target = loc[c].target
Stays(c) == Quiet(c) /\ SameSlot(c) /\ UNCHANGED <<healthy, pending, workQueue>>

LEMMA LeaveMoves ==
  ASSUME Predictor!PredictorAssumption, CallTypes, NEW c \in Clients, Predictor!Leave(c), NEW flags
  PROVE  /\ Moves(c) /\ CallOk(clientPc'[c], loc'[c], answer'[c], flags, wpc)
         /\ clientPc'[c] = "ready" /\ answer'[c] = "none"
<1>1. /\ clientPc' = [clientPc EXCEPT ![c] = "ready"]
      /\ loc' = [loc EXCEPT ![c] = Predictor!NoLocals]
      /\ answer' = [answer EXCEPT ![c] = "none"]
  BY DEF Predictor!Leave, Predictor!Goto
<1>2. /\ clientPc'[c] = "ready" /\ answer'[c] = "none" /\ loc'[c] = Predictor!NoLocals
      /\ \A d \in Clients \ {c} :
           clientPc'[d] = clientPc[d] /\ loc'[d] = loc[d] /\ answer'[d] = answer[d]
      /\ CallTypes'
  BY <1>1, NoLocalsOk DEF CallTypes, Predictor!CallerPcs, Answers
<1>3. CallOk("ready", Predictor!NoLocals, "none", flags, wpc)
  BY NoLocalsOk DEF CallOk, Selected
<1> QED  BY <1>2, <1>3 DEF Moves

LEMMA RetryMoves ==
  ASSUME Predictor!PredictorAssumption, CallTypes, NEW c \in Clients,
         NEW found \in SUBSET Predictor!Workers, Predictor!Retry(c, found),
         NEW flags, \A w \in found : ~flags[w]
  PROVE  /\ Moves(c) /\ CallOk(clientPc'[c], loc'[c], answer'[c], flags, wpc)
         /\ clientPc'[c] \in {"ready", "scan"} /\ answer'[c] = "none"
<1>1. CASE Predictor!Leave(c)
  BY <1>1, LeaveMoves
<1>2. CASE ~Predictor!Leave(c)
  <2> DEFINE l == [Predictor!NoLocals EXCEPT !.attempts = loc[c].attempts + 1,
                                             !.at = 1, !.gone = found]
  <2>1. /\ clientPc' = [clientPc EXCEPT ![c] = "scan"] /\ loc' = [loc EXCEPT ![c] = l]
        /\ answer' = [answer EXCEPT ![c] = "none"]
    BY <1>2 DEF Predictor!Retry, Predictor!Goto
  <2>2. loc[c].attempts \in Nat
    BY DEF CallTypes, Locals
  <2>3. l \in Locals
    <3>1. loc[c].attempts + 1 \in Nat /\ 1 \in Nat
      BY <2>2
    <3> QED  BY <3>1, StartLocals, ZenonT(60)
  <2>4. l.at = 1 /\ l.gone = found /\ l.view = <<>> /\ l.target = 0
    BY NoLocalsOk DEF Locals, Predictor!NoLocals
  <2> HIDE DEF l
  <2>5. /\ clientPc'[c] = "scan" /\ answer'[c] = "none" /\ loc'[c] = l
        /\ \A d \in Clients \ {c} :
             clientPc'[d] = clientPc[d] /\ loc'[d] = loc[d] /\ answer'[d] = answer[d]
        /\ CallTypes'
    BY <2>1, <2>3 DEF CallTypes, Predictor!CallerPcs, Answers
  <2>6. CallOk("scan", l, "none", flags, wpc)
    BY <2>4, NoLocalsOk DEF CallOk, Selected
  <2> QED  BY <2>5, <2>6 DEF Moves
<1> QED  BY <1>1, <1>2

LEMMA BeginStays ==
  ASSUME Predictor!PredictorAssumption, PredictorSafe, NEW c \in Clients, Predictor!Begin(c)
  PROVE  CallOf(c) /\ Stays(c)
<1> DEFINE l == [Predictor!NoLocals EXCEPT !.attempts = 1, !.at = 1]
<1>1. /\ clientPc[c] = "ready" /\ bcast = 0 /\ predicts < MaxPredicts /\ predicts' = predicts + 1
      /\ clientPc' = [clientPc EXCEPT ![c] = "scan"] /\ loc' = [loc EXCEPT ![c] = l]
      /\ UNCHANGED <<answer, current, healthy, pending, workQueue, wpc, job, installed, rules,
                     bcast, gone, cut, balancing>>
  BY DEF Predictor!Begin, Predictor!Goto, Predictor!sideVars, Predictor!workerVars, Predictor!ruleVars
<1>2. l \in Locals
  <2>1. 1 \in Nat
    OBVIOUS
  <2> QED  BY StartLocals, <2>1, ZenonT(60)
<1>3. l.at = 1 /\ l.gone = {} /\ l.view = <<>> /\ l.target = 0
  BY NoLocalsOk DEF Locals, Predictor!NoLocals
<1> HIDE DEF l
<1>4. /\ clientPc'[c] = "scan" /\ loc'[c] = l /\ Moves(c)
  BY <1>1, <1>2 DEF CallTypes, Predictor!CallerPcs, Answers, PredictorSafe, Moves
<1>5. answer'[c] = "none"
  BY <1>1 DEF PredictorSafe, CallsOk, CallOk, CallTypes
<1>6. CallOk("scan", l, "none", healthy', wpc)
  BY <1>3, NoLocalsOk DEF CallOk, Selected
<1>7. current' \in 0..(CounterSpan - 1) /\ predicts' \in 0..MaxPredicts
  BY <1>1, PredictorConstants DEF PredictorSafe, CountTypes
<1>8. Quiet(c) /\ SameSlot(c)
  BY <1>1, <1>4 DEF Quiet, SameSlot, Predictor!CountedPcs
<1> QED  BY <1>1, <1>4, <1>5, <1>6, <1>7, <1>8 DEF CallOf, Stays

\* What is known of the call of c at any of its steps.
LEMMA CallFacts ==
  ASSUME PredictorSafe, NEW c \in Clients
  PROVE  /\ clientPc[c] \in Predictor!CallerPcs /\ loc[c] \in Locals /\ answer[c] \in Answers
         /\ loc[c].attempts \in Nat /\ loc[c].view \in Seq(Predictor!Workers)
         /\ loc[c].at \in Nat /\ loc[c].target \in 0..NumWorkers /\ loc[c].least \in Nat
         /\ loc[c].gone \in SUBSET Predictor!Workers
         /\ CallOk(clientPc[c], loc[c], answer[c], healthy, wpc)
BY DEF PredictorSafe, CallTypes, Locals, CallsOk

\* Only the locals of the call change, and where it is.
LEMMA SelectMoves ==
  ASSUME Predictor!PredictorAssumption, PredictorSafe, NEW c \in Clients, NEW l \in Locals,
         NEW p \in Predictor!CallerPcs,
         clientPc[c] \in {"scan", "loads"}, p \in {"scan", "loads", "reserve"},
         clientPc' = [clientPc EXCEPT ![c] = p] \/ (p = clientPc[c] /\ clientPc' = clientPc),
         loc' = [loc EXCEPT ![c] = l], l.gone = loc[c].gone,
         l.view = loc[c].view \/ \A i \in DOMAIN l.view : l.view[i] \notin l.gone,
         p = "scan" => l.at >= 1,
         p = "loads" => l.at >= 1 /\ l.view # <<>> /\ (l.at > 1 => l.target \in Predictor!Workers),
         p = "reserve" => l.target \in Predictor!Workers,
         l.target \notin l.gone,
         current' \in 0..(CounterSpan - 1),
         UNCHANGED <<answer, healthy, pending, workQueue, wpc, job, installed, rules, bcast, predicts,
                     gone, cut, balancing>>
  PROVE  CallOf(c) /\ Stays(c)
<1>1. /\ clientPc'[c] = p /\ loc'[c] = l
      /\ \A d \in Clients \ {c} : clientPc'[d] = clientPc[d] /\ loc'[d] = loc[d]
      /\ clientPc' \in [Clients -> Predictor!CallerPcs] /\ loc' \in [Clients -> Locals]
  BY DEF PredictorSafe, CallTypes
<1>2. Moves(c)
  BY <1>1 DEF Moves, PredictorSafe, CallTypes
<1>3. answer[c] = "none"
  BY CallFacts DEF CallOk
<1>4. CallOk(p, l, "none", healthy, wpc)
  BY CallFacts DEF CallOk, Selected
<1>5. Quiet(c) /\ SameSlot(c)
  BY <1>1 DEF Quiet, SameSlot, Predictor!CountedPcs
<1>6. predicts' \in 0..MaxPredicts
  BY DEF PredictorSafe, CountTypes
<1> QED  BY <1>1, <1>2, <1>3, <1>4, <1>5, <1>6 DEF CallOf, Stays

LEMMA ScanStays ==
  ASSUME Predictor!PredictorAssumption, PredictorSafe, NEW c \in Clients, Predictor!Scan(c)
  PROVE  CallOf(c) /\ Stays(c)
<1> DEFINE k == loc[c]
           v == IF healthy[k.at] THEN Append(k.view, k.at) ELSE k.view
           l == [k EXCEPT !.at = k.at + 1, !.view = v]
<1>1. /\ clientPc[c] = "scan" /\ k.at \in Predictor!Workers /\ clientPc' = clientPc
      /\ UNCHANGED <<answer, current, healthy, pending, workQueue, wpc, job, installed, rules, bcast,
                     predicts, gone, cut, balancing>>
  BY DEF Predictor!Scan, Predictor!sideVars, Predictor!workerVars, Predictor!ruleVars
<1>2. loc' = [loc EXCEPT ![c] = l]
  BY DEF Predictor!Scan, PredictorSafe, CallTypes
<1>3. /\ k \in Locals /\ k.view \in Seq(Predictor!Workers) /\ k.at \in Nat /\ k.at >= 1
      /\ k.gone \in SUBSET Predictor!Workers
      /\ k.target \notin k.gone /\ k.target \in 0..NumWorkers /\ k.least \in Nat
      /\ \A w \in k.gone : ~healthy[w]
      /\ \A i \in DOMAIN k.view : k.view[i] \notin k.gone
  BY <1>1, CallFacts DEF CallOk
<1>4. v \in Seq(Predictor!Workers) /\ k.at + 1 \in Nat
  BY <1>1, <1>3
<1>5. \A i \in DOMAIN v : v[i] \notin k.gone
  BY <1>1, <1>3
<1> HIDE DEF v
<1>6. l \in Locals
  <2> HIDE DEF k
  <2> QED  BY <1>3, <1>4, LocalsExcept, ZenonT(60)
<1>7. l.at = k.at + 1 /\ l.view = v /\ l.gone = k.gone /\ l.target = k.target
  <2> HIDE DEF k
  <2> QED  BY <1>3 DEF Locals
<1> HIDE DEF l
<1>8. current' \in 0..(CounterSpan - 1) /\ "scan" \in Predictor!CallerPcs
  BY <1>1 DEF PredictorSafe, CountTypes, Predictor!CallerPcs
<1>9. l.at >= 1
  BY <1>3, <1>7
<1> QED  BY <1>1, <1>2, <1>3, <1>5, <1>6, <1>7, <1>8, <1>9, SelectMoves

LEMMA PickStays ==
  ASSUME Predictor!PredictorAssumption, PredictorSafe, NEW c \in Clients,
         Predictor!PickRoundRobin(c) \/ Predictor!PickRandom(c)
  PROVE  CallOf(c) /\ Stays(c)
<1> DEFINE k == loc[c]
<1>1. /\ k \in Locals /\ k.view \in Seq(Predictor!Workers) /\ k.least \in Nat
      /\ k.gone \in SUBSET Predictor!Workers
      /\ \A i \in DOMAIN k.view : k.view[i] \notin k.gone
  BY CallFacts DEF CallOk
<1>2. current \in 0..(CounterSpan - 1) /\ CounterSpan \in Nat \ {0}
  BY PredictorConstants DEF PredictorSafe, CountTypes
<1>3. clientPc[c] = "scan" /\ current' \in 0..(CounterSpan - 1)
  <2>1. (current + 1) % CounterSpan \in 0..(CounterSpan - 1)
    BY <1>2
  <2> QED  BY <1>2, <2>1 DEF Predictor!PickRoundRobin, Predictor!PickRandom, Predictor!Scanned
<1>4. PICK i \in DOMAIN k.view : Predictor!Select(c, k.view[i])
  <2>1. CASE Predictor!PickRandom(c)
    BY <2>1 DEF Predictor!PickRandom
  <2>2. CASE Predictor!PickRoundRobin(c)
    <3>1. k.view # <<>> /\ Predictor!Select(c, k.view[(current % Len(k.view)) + 1])
      BY <2>2 DEF Predictor!PickRoundRobin
    <3>2. Len(k.view) \in Nat \ {0} /\ DOMAIN k.view = 1..Len(k.view)
      BY <1>1, <3>1, EmptySeq
    <3>3. current \in Int /\ (current % Len(k.view)) \in 0..(Len(k.view) - 1)
      BY <1>2, <3>2
    <3>4. (current % Len(k.view)) + 1 \in DOMAIN k.view
      <4> DEFINE n == Len(k.view)
                 r == current % n
      <4>1. n \in Nat \ {0} /\ DOMAIN k.view = 1..n /\ r \in 0..(n - 1)
        BY <3>2, <3>3
      <4> HIDE DEF n, r
      <4>2. r + 1 \in 1..n
        BY <4>1
      <4> QED  BY <4>1, <4>2 DEF r, n
    <3> QED  BY <3>1, <3>4
  <2> QED  BY <2>1, <2>2
<1> DEFINE w == k.view[i]
           l == [k EXCEPT !.target = w, !.view = <<>>, !.at = 0]
<1>5. w \in Predictor!Workers /\ w \in 0..NumWorkers /\ w \notin k.gone /\ <<>> \in Seq(Predictor!Workers)
  BY <1>1, PredictorConstants, SMTT(60)
<1>6. /\ loc' = [loc EXCEPT ![c] = l] /\ clientPc' = [clientPc EXCEPT ![c] = "reserve"]
      /\ UNCHANGED <<answer, healthy, pending, workQueue, wpc, job, installed, rules, bcast,
                     predicts, gone, cut, balancing>>
  <2>1. loc' = [loc EXCEPT ![c] = l] /\ clientPc' = [clientPc EXCEPT ![c] = "reserve"]
    BY <1>4 DEF Predictor!Select, Predictor!Goto, PredictorSafe, CallTypes
  <2> QED  BY <2>1 DEF Predictor!PickRoundRobin, Predictor!PickRandom, Predictor!sideVars,
                       Predictor!workerVars, Predictor!ruleVars
<1> HIDE DEF w
<1>7. l \in Locals
  <2> HIDE DEF k
  <2>1. 0 \in Nat
    OBVIOUS
  <2> QED  BY <1>1, <1>5, LocalsExcept, <2>1, ZenonT(60)
<1>8. l.at = 0 /\ l.view = <<>> /\ l.gone = k.gone /\ l.target = w
  <2> HIDE DEF k
  <2> QED  BY <1>1 DEF Locals
<1> HIDE DEF l
<1>9. "reserve" \in Predictor!CallerPcs /\ \A j \in DOMAIN l.view : l.view[j] \notin l.gone
  BY <1>8 DEF Predictor!CallerPcs
<1> QED  BY <1>3, <1>5, <1>6, <1>7, <1>8, <1>9, SelectMoves

LEMMA LoadsStay ==
  ASSUME Predictor!PredictorAssumption, PredictorSafe, NEW c \in Clients,
         Predictor!StartLoads(c) \/ Predictor!ReadLoad(c) \/ Predictor!PickLeastLoaded(c)
  PROVE  CallOf(c) /\ Stays(c)
<1> DEFINE k == loc[c]
<1>1. /\ k \in Locals /\ k.view \in Seq(Predictor!Workers) /\ k.least \in Nat /\ k.at \in Nat
      /\ k.gone \in SUBSET Predictor!Workers /\ k.target \in 0..NumWorkers
      /\ k.target \notin k.gone
      /\ \A i \in DOMAIN k.view : k.view[i] \notin k.gone
      /\ clientPc[c] = "loads" =>
           k.at >= 1 /\ k.view # <<>> /\ (k.at > 1 => k.target \in Predictor!Workers)
  BY CallFacts DEF CallOk
<1>2. /\ UNCHANGED <<answer, current, healthy, pending, workQueue, wpc, job, installed, rules, bcast,
                     predicts, gone, cut, balancing>>
      /\ current' \in 0..(CounterSpan - 1)
      /\ clientPc[c] \in {"scan", "loads"}
      /\ "loads" \in Predictor!CallerPcs /\ "reserve" \in Predictor!CallerPcs
  BY DEF Predictor!StartLoads, Predictor!ReadLoad, Predictor!PickLeastLoaded, Predictor!Scanned,
         Predictor!sideVars, Predictor!workerVars, Predictor!ruleVars,
         PredictorSafe, CountTypes, Predictor!CallerPcs
<1>3. 0 \in 0..NumWorkers /\ <<>> \in Seq(Predictor!Workers) /\ 0 \in Nat /\ 1 \in Nat
      /\ 0 \notin k.gone
  BY <1>1, PredictorConstants
<1>4. CASE Predictor!StartLoads(c)
  <2> DEFINE l == [k EXCEPT !.at = 1, !.target = 0]
  <2>1. /\ loc' = [loc EXCEPT ![c] = l] /\ clientPc' = [clientPc EXCEPT ![c] = "loads"]
        /\ k.view # <<>>
    BY <1>4 DEF Predictor!StartLoads, Predictor!Goto, PredictorSafe, CallTypes
  <2>2. l \in Locals
    <3> HIDE DEF k
    <3> QED  BY <1>1, <1>3, LocalsExcept, ZenonT(60)
  <2>3. l.at = 1 /\ l.view = k.view /\ l.gone = k.gone /\ l.target = 0
    <3> HIDE DEF k
    <3> QED  BY <1>1 DEF Locals
  <2> HIDE DEF l
  <2>4. l.at >= 1 /\ ~(l.at > 1)
    BY <2>3
  <2> QED  BY <1>2, <1>3, <2>1, <2>2, <2>3, <2>4, SelectMoves
<1>5. CASE Predictor!ReadLoad(c)
  <2> DEFINE w == k.view[k.at]
             better == k.target = 0 \/ pending[w] < k.least
             t == IF better THEN w ELSE k.target
             m == IF better THEN pending[w] ELSE k.least
             l == [k EXCEPT !.at = k.at + 1, !.target = t, !.least = m]
  <2>1. clientPc[c] = "loads" /\ k.at \in DOMAIN k.view /\ clientPc' = clientPc
    BY <1>5 DEF Predictor!ReadLoad
  <2>2. loc' = [loc EXCEPT ![c] = l]
    BY <1>5 DEF Predictor!ReadLoad, Predictor!Target, PredictorSafe, CallTypes
  <2>3. w \in Predictor!Workers /\ w \notin k.gone /\ pending[w] \in Nat
    <3>1. w \in Predictor!Workers /\ w \notin k.gone
      BY <1>1, <2>1
    <3>2. pending \in [Predictor!Workers -> Nat]
      BY DEF PredictorSafe, CountTypes
    <3> HIDE DEF w
    <3> QED  BY <3>1, <3>2
  <2>4. t \in Predictor!Workers /\ t \in 0..NumWorkers /\ t \notin k.gone /\ m \in Nat
    BY <1>1, <2>3, PredictorConstants, SMTT(60)
  <2> HIDE DEF t, m
  <2>5. l \in Locals
    <3> HIDE DEF k
    <3>1. k.at + 1 \in Nat
      BY <1>1
    <3> QED  BY <1>1, <1>3, <2>4, <3>1, LocalsExcept, ZenonT(60)
  <2>6. l.at = k.at + 1 /\ l.view = k.view /\ l.gone = k.gone /\ l.target = t
    <3> HIDE DEF k
    <3> QED  BY <1>1 DEF Locals
  <2> HIDE DEF l
  <2>7. l.at >= 1 /\ l.view # <<>>
    BY <1>1, <2>1, <2>6
  <2> QED  BY <1>2, <2>1, <2>2, <2>4, <2>5, <2>6, <2>7, SelectMoves
<1>6. CASE Predictor!PickLeastLoaded(c)
  <2> DEFINE l == [k EXCEPT !.view = <<>>, !.at = 0, !.least = 0]
  <2>1. /\ loc' = [loc EXCEPT ![c] = l] /\ clientPc' = [clientPc EXCEPT ![c] = "reserve"]
        /\ clientPc[c] = "loads" /\ k.at \notin DOMAIN k.view
    BY <1>6 DEF Predictor!PickLeastLoaded, Predictor!Goto, PredictorSafe, CallTypes
  <2>2. l \in Locals
    <3> HIDE DEF k
    <3> QED  BY <1>1, <1>3, LocalsExcept, ZenonT(60)
  <2>3. l.at = 0 /\ l.view = <<>> /\ l.gone = k.gone /\ l.target = k.target
    <3> HIDE DEF k
    <3> QED  BY <1>1 DEF Locals
  <2>4. k.target \in Predictor!Workers
    <3>1. DOMAIN k.view = 1..Len(k.view) /\ Len(k.view) \in Nat \ {0}
      BY <1>1, <2>1, EmptySeq
    <3>2. k.at > 1
      BY <1>1, <2>1, <3>1
    <3> QED  BY <1>1, <2>1, <3>2
  <2> HIDE DEF l
  <2>5. \A j \in DOMAIN l.view : l.view[j] \notin l.gone
    BY <2>3
  <2> QED  BY <1>1, <1>2, <2>1, <2>2, <2>3, <2>4, <2>5, SelectMoves
<1> QED  BY <1>4, <1>5, <1>6

\* The slot that a call takes, and gives back.
Reserves(c) ==
  /\ Quiet(c) /\ clientPc[c] \notin Predictor!CountedPcs /\ clientPc'[c] \in Predictor!CountedPcs
  /\ loc'[c].target \in Predictor!Workers
  /\ pending' = [pending EXCEPT ![loc'[c].target] = @ + 1] /\ UNCHANGED <<healthy, workQueue>>
GivesUp(c) ==
  /\ Quiet(c) /\ clientPc[c] \in Predictor!CountedPcs /\ clientPc'[c] \notin Predictor!CountedPcs
  /\ pending' = [pending EXCEPT ![loc[c].target] = IF @ > 0 THEN @ - 1 ELSE 0]
  /\ UNCHANGED <<healthy, workQueue>>
Sends(c) ==
  /\ clientPc[c] = "send" /\ clientPc'[c] = "await" /\ answer'[c] = "none"
  /\ loc'[c] = loc[c] /\ wpc[loc[c].target] # "dead"
  /\ workQueue' = [workQueue EXCEPT ![loc[c].target] = Append(@, Predictor!Request(c, rules))]
  /\ UNCHANGED <<healthy, pending>>
Marks(c) ==
  /\ Quiet(c) /\ SameSlot(c)
  /\ loc[c].target \in Predictor!Workers /\ wpc[loc[c].target] = "dead"
  /\ healthy' = [healthy EXCEPT ![loc[c].target] = FALSE] /\ UNCHANGED <<pending, workQueue>>

\* The call moves to p, with the same locals and the same answer.
LEMMA GotoMoves ==
  ASSUME PredictorSafe, NEW c \in Clients, NEW p \in Predictor!CallerPcs, Predictor!Goto(c, p),
         UNCHANGED <<loc, answer>>
  PROVE  Moves(c) /\ clientPc'[c] = p
BY DEF Predictor!Goto, PredictorSafe, CallTypes, Moves

LEMMA StaysSame ==
  ASSUME PredictorSafe
  PROVE  UNCHANGED <<current, predicts>> => /\ current' \in 0..(CounterSpan - 1)
                                            /\ predicts' \in 0..MaxPredicts
BY DEF PredictorSafe, CountTypes

LEMMA QuietCalls ==
  ASSUME Predictor!PredictorAssumption, PredictorSafe, NEW c \in Clients,
         Predictor!NoneHealthy(c) \/ Predictor!TrySendErr(c) \/ Predictor!Receive(c)
  PROVE  CallOf(c) /\ Stays(c)
<1>1. UNCHANGED <<current, healthy, pending, workQueue, wpc, job, installed, rules, bcast, predicts,
                  gone, cut, balancing>>
  BY DEF Predictor!NoneHealthy, Predictor!TrySendErr, Predictor!Receive, Predictor!sideVars,
         Predictor!workerVars, Predictor!ruleVars
<1>2. current' \in 0..(CounterSpan - 1) /\ predicts' \in 0..MaxPredicts
  BY <1>1, StaysSame
<1>3. CASE Predictor!NoneHealthy(c)
  <2>1. clientPc[c] = "scan" /\ Predictor!Leave(c)
    BY <1>3 DEF Predictor!NoneHealthy, Predictor!Scanned
  <2>2. Moves(c) /\ CallOk(clientPc'[c], loc'[c], answer'[c], healthy', wpc) /\ clientPc'[c] = "ready"
    BY <2>1, LeaveMoves DEF PredictorSafe
  <2>3. Quiet(c) /\ SameSlot(c)
    BY <2>1, <2>2 DEF Quiet, SameSlot, Predictor!CountedPcs
  <2> QED  BY <1>1, <1>2, <2>1, <2>2, <2>3 DEF CallOf, Stays
<1>4. CASE Predictor!TrySendErr(c)
  <2>1. PICK p \in {"closed", "full"} :
          /\ clientPc[c] = "send" /\ Predictor!Goto(c, p) /\ UNCHANGED <<loc, answer>>
          /\ p = "closed" => wpc[loc[c].target] = "dead"
    BY <1>4 DEF Predictor!TrySendErr, Predictor!Target
  <2>2. Moves(c) /\ clientPc'[c] = p
    BY <2>1, GotoMoves DEF Predictor!CallerPcs
  <2>3. CallOk(p, loc[c], answer[c], healthy, wpc)
    BY <2>1, CallFacts DEF CallOk, Selected
  <2>4. Quiet(c) /\ SameSlot(c)
    BY <2>1, <2>2 DEF Quiet, SameSlot, Predictor!CountedPcs
  <2> QED  BY <1>1, <1>2, <2>1, <2>2, <2>3, <2>4 DEF CallOf, Stays
<1>5. CASE Predictor!Receive(c)
  <2>1. /\ clientPc[c] = "await" /\ answer[c] # "none" /\ Predictor!Goto(c, "settle")
        /\ UNCHANGED <<loc, answer>>
    BY <1>5 DEF Predictor!Receive
  <2>2. Moves(c) /\ clientPc'[c] = "settle"
    BY <2>1, GotoMoves DEF Predictor!CallerPcs
  <2>3. CallOk("settle", loc[c], answer[c], healthy, wpc)
    BY <2>1, CallFacts DEF CallOk, Selected
  <2>4. Quiet(c) /\ SameSlot(c)
    BY <2>1, <2>2 DEF Quiet, SameSlot, Predictor!CountedPcs
  <2> QED  BY <1>1, <1>2, <2>1, <2>2, <2>3, <2>4 DEF CallOf, Stays
<1> QED  BY <1>3, <1>4, <1>5

LEMMA ReserveReserves ==
  ASSUME Predictor!PredictorAssumption, PredictorSafe, NEW c \in Clients, Predictor!Reserve(c)
  PROVE  CallOf(c) /\ Reserves(c)
<1>1. /\ clientPc[c] = "reserve" /\ Predictor!Goto(c, "send") /\ UNCHANGED <<loc, answer>>
      /\ pending' = [pending EXCEPT ![loc[c].target] = @ + 1]
      /\ UNCHANGED <<current, healthy, workQueue, wpc, job, installed, rules, bcast, predicts,
                     gone, cut, balancing>>
  BY DEF Predictor!Reserve, Predictor!Target, Predictor!sideVars, Predictor!workerVars,
         Predictor!ruleVars
<1>2. Moves(c) /\ clientPc'[c] = "send"
  BY <1>1, GotoMoves DEF Predictor!CallerPcs
<1>3. CallOk("send", loc[c], answer[c], healthy, wpc) /\ loc[c].target \in Predictor!Workers
  BY <1>1, CallFacts DEF CallOk, Selected
<1>4. Quiet(c) /\ clientPc[c] \notin Predictor!CountedPcs /\ clientPc'[c] \in Predictor!CountedPcs
  BY <1>1, <1>2 DEF Quiet, Predictor!CountedPcs
<1>5. current' \in 0..(CounterSpan - 1) /\ predicts' \in 0..MaxPredicts
  BY <1>1, StaysSame
<1> QED  BY <1>1, <1>2, <1>3, <1>4, <1>5 DEF CallOf, Reserves

LEMMA TrySendSends ==
  ASSUME Predictor!PredictorAssumption, PredictorSafe, NEW c \in Clients, Predictor!TrySendOk(c)
  PROVE  CallOf(c) /\ Sends(c)
<1>1. /\ clientPc[c] = "send" /\ Predictor!Goto(c, "await") /\ UNCHANGED <<loc, answer>>
      /\ wpc[loc[c].target] # "dead"
      /\ workQueue' = [workQueue EXCEPT ![loc[c].target] = Append(@, Predictor!Request(c, rules))]
      /\ UNCHANGED <<current, healthy, pending, wpc, job, installed, rules, bcast, predicts,
                     gone, cut, balancing>>
  BY DEF Predictor!TrySendOk, Predictor!Target, Predictor!sideVars, Predictor!ruleVars
<1>2. Moves(c) /\ clientPc'[c] = "await"
  BY <1>1, GotoMoves DEF Predictor!CallerPcs
<1>3. CallOk("await", loc[c], answer[c], healthy, wpc) /\ answer[c] = "none"
  BY <1>1, CallFacts DEF CallOk, Selected
<1>4. current' \in 0..(CounterSpan - 1) /\ predicts' \in 0..MaxPredicts
  BY <1>1, StaysSame
<1> QED  BY <1>1, <1>2, <1>3, <1>4 DEF CallOf, Sends

LEMMA FailuresRelease ==
  ASSUME Predictor!PredictorAssumption, PredictorSafe, NEW c \in Clients,
         \/ Predictor!Saturated(c) \/ Predictor!Closed(c)
         \/ Predictor!SettleOk(c) \/ Predictor!SettleErr(c) \/ Predictor!SettleLost(c)
  PROVE  CallOf(c) /\ GivesUp(c)
<1>1. /\ UNCHANGED <<current, healthy, workQueue, wpc, job, installed, rules, bcast, predicts,
                     gone, cut, balancing>>
      /\ pending' = [pending EXCEPT ![loc[c].target] = IF @ > 0 THEN @ - 1 ELSE 0]
  BY DEF Predictor!Saturated, Predictor!Closed, Predictor!SettleOk, Predictor!SettleErr,
         Predictor!SettleLost, Predictor!sideVars, Predictor!workerVars, Predictor!ruleVars,
         Predictor!Release, Predictor!Target
<1>2. current' \in 0..(CounterSpan - 1) /\ predicts' \in 0..MaxPredicts
  BY <1>1, StaysSame
<1>3. ASSUME Moves(c), CallOk(clientPc'[c], loc'[c], answer'[c], healthy, wpc),
             clientPc[c] \in {"full", "closed", "settle"}, clientPc'[c] \in {"ready", "scan", "mark"}
      PROVE  CallOf(c) /\ GivesUp(c)
  BY <1>1, <1>2, <1>3 DEF CallOf, GivesUp, Quiet, Predictor!CountedPcs
<1>4. CASE Predictor!Saturated(c) \/ Predictor!SettleErr(c)
  <2>1. clientPc[c] \in {"full", "settle"} /\ Predictor!Retry(c, loc[c].gone)
    BY <1>4 DEF Predictor!Saturated, Predictor!SettleErr
  <2>2. loc[c].gone \in SUBSET Predictor!Workers /\ \A w \in loc[c].gone : ~healthy[w]
    BY CallFacts DEF CallOk
  <2>3. /\ Moves(c) /\ CallOk(clientPc'[c], loc'[c], answer'[c], healthy, wpc)
        /\ clientPc'[c] \in {"ready", "scan"}
    BY <2>1, <2>2, RetryMoves DEF PredictorSafe
  <2> QED  BY <1>3, <2>1, <2>3
<1>5. CASE Predictor!SettleOk(c)
  <2>1. clientPc[c] = "settle" /\ Predictor!Leave(c)
    BY <1>5 DEF Predictor!SettleOk
  <2> QED  BY <1>3, <2>1, LeaveMoves DEF PredictorSafe
<1>6. CASE Predictor!Closed(c) \/ Predictor!SettleLost(c)
  <2>1. /\ clientPc[c] \in {"closed", "settle"} /\ Predictor!Goto(c, "mark")
        /\ UNCHANGED <<loc, answer>>
        /\ clientPc[c] = "settle" => answer[c] = "lost"
    BY <1>6 DEF Predictor!Closed, Predictor!SettleLost
  <2>2. Moves(c) /\ clientPc'[c] = "mark"
    BY <2>1, GotoMoves DEF Predictor!CallerPcs
  <2>3. CallOk("mark", loc[c], answer[c], healthy, wpc)
    BY <2>1, CallFacts DEF CallOk, Selected
  <2> QED  BY <1>3, <2>1, <2>2, <2>3
<1> QED  BY <1>4, <1>5, <1>6

LEMMA MarkMarks ==
  ASSUME Predictor!PredictorAssumption, PredictorSafe, NEW c \in Clients, Predictor!Mark(c)
  PROVE  CallOf(c) /\ Marks(c)
<1> DEFINE found == loc[c].gone \cup {loc[c].target}
<1>1. /\ clientPc[c] = "mark" /\ Predictor!Retry(c, found)
      /\ healthy' = [healthy EXCEPT ![loc[c].target] = FALSE]
      /\ UNCHANGED <<current, pending, workQueue, wpc, job, installed, rules, bcast, predicts,
                     gone, cut, balancing>>
  BY DEF Predictor!Mark, Predictor!Target, Predictor!sideVars, Predictor!workerVars,
         Predictor!ruleVars
<1>2. /\ loc[c].gone \in SUBSET Predictor!Workers /\ loc[c].target \in Predictor!Workers
      /\ \A w \in loc[c].gone : ~healthy[w]
      /\ wpc[loc[c].target] = "dead"
  BY <1>1, CallFacts DEF CallOk, Selected
<1>3. found \in SUBSET Predictor!Workers /\ \A w \in found : ~healthy'[w]
  BY <1>1, <1>2 DEF PredictorSafe, WorkTypes
<1>4. /\ Moves(c) /\ CallOk(clientPc'[c], loc'[c], answer'[c], healthy', wpc)
      /\ clientPc'[c] \in {"ready", "scan"}
  BY <1>1, <1>3, RetryMoves DEF PredictorSafe
<1>5. Quiet(c) /\ SameSlot(c)
  BY <1>1, <1>4 DEF Quiet, SameSlot, Predictor!CountedPcs
<1>6. current' \in 0..(CounterSpan - 1) /\ predicts' \in 0..MaxPredicts
  BY <1>1, StaysSame
<1> QED  BY <1>1, <1>2, <1>4, <1>5, <1>6 DEF CallOf, Marks

\* Every step of a call is one of these.
LEMMA CallSteps ==
  ASSUME Predictor!PredictorAssumption, PredictorSafe, NEW c \in Clients,
         Predictor!Begin(c) \/ Predictor!Predict(c)
  PROVE  CallOf(c) /\ (Stays(c) \/ Reserves(c) \/ GivesUp(c) \/ Sends(c) \/ Marks(c))
BY BeginStays, ScanStays, PickStays, LoadsStay, QuietCalls, ReserveReserves, TrySendSends,
   FailuresRelease, MarkMarks DEF Predictor!Predict

\* How many requests are in a channel, after a message is sent or taken.
LEMMA RequestsFinite ==
  ASSUME NEW q \in Seq(Predictor!Messages)
  PROVE  IsFiniteSet(Requests(q)) /\ Cardinality(Requests(q)) \in Nat
<1>1. Requests(q) \subseteq 1..Len(q) /\ Len(q) \in Nat
  BY DEF Requests
<1>2. IsFiniteSet(1..Len(q))
  BY <1>1, FS_Interval
<1> QED  BY <1>1, <1>2, FS_Subset, FS_CardinalityType

LEMMA RequestsAppend ==
  ASSUME NEW q \in Seq(Predictor!Messages), NEW m \in Predictor!Messages
  PROVE  Cardinality(Requests(Append(q, m)))
           = Cardinality(Requests(q)) + (IF m.kind = "Predict" THEN 1 ELSE 0)
<1> DEFINE n == Len(q) + 1
<1>1. /\ Len(q) \in Nat /\ Append(q, m) \in Seq(Predictor!Messages)
      /\ DOMAIN Append(q, m) = 1..n /\ Append(q, m)[n] = m
      /\ \A i \in DOMAIN q : Append(q, m)[i] = q[i] /\ i # n
      /\ DOMAIN q = 1..Len(q)
  OBVIOUS
<1>2. DOMAIN Append(q, m) = DOMAIN q \cup {n} /\ n \notin DOMAIN q
  BY <1>1
<1> HIDE DEF n
<1>3. Requests(Append(q, m)) = IF m.kind = "Predict" THEN Requests(q) \cup {n} ELSE Requests(q)
  BY <1>1, <1>2 DEF Requests
<1>4. n \notin Requests(q)
  BY <1>2 DEF Requests
<1>5. Cardinality(Requests(q) \cup {n}) = Cardinality(Requests(q)) + 1
  BY <1>4, RequestsFinite, OneMore
<1>6. Cardinality(Requests(q)) \in Nat
  BY RequestsFinite
<1> QED  BY <1>3, <1>5, <1>6

LEMMA RequestsTail ==
  ASSUME NEW q \in Seq(Predictor!Messages), q # <<>>
  PROVE  Cardinality(Requests(Tail(q)))
           = Cardinality(Requests(q)) - (IF Head(q).kind = "Predict" THEN 1 ELSE 0)
<1> DEFINE t == Tail(q)
           later == Requests(q) \ {1}
           f == [i \in Requests(t) |-> i + 1]
<1>1. /\ Len(q) \in Nat \ {0} /\ t \in Seq(Predictor!Messages) /\ Len(t) = Len(q) - 1
      /\ DOMAIN t = 1..(Len(q) - 1) /\ DOMAIN q = 1..Len(q) /\ Head(q) = q[1]
      /\ \A i \in 1..(Len(q) - 1) : t[i] = q[i + 1]
  BY EmptySeq
<1> HIDE DEF t
<1>2. ASSUME NEW i \in 1..(Len(q) - 1) PROVE i \in Requests(t) <=> i + 1 \in Requests(q)
  BY <1>1 DEF Requests
<1>3. Requests(t) \subseteq 1..(Len(q) - 1) /\ Requests(q) \subseteq 1..Len(q)
  BY <1>1 DEF Requests
<1>4. f \in Bijection(Requests(t), later)
  <2>1. \A i \in Requests(t) : i + 1 \in later
    BY <1>1, <1>2, <1>3
  <2>2. ASSUME NEW j \in later PROVE \E i \in Requests(t) : i + 1 = j
    <3>1. j - 1 \in 1..(Len(q) - 1) /\ (j - 1) + 1 = j
      BY <1>1, <1>3
    <3> QED  BY <1>2, <3>1
  <2>3. \A i, j \in Requests(t) : i + 1 = j + 1 => i = j
    BY <1>3
  <2>4. f \in Injection(Requests(t), later)
    BY <2>1, <2>3 DEF Injection, IsInjective
  <2>5. f \in Surjection(Requests(t), later)
    BY <2>1, <2>2 DEF Surjection
  <2> QED  BY <2>4, <2>5 DEF Bijection
<1> HIDE DEF f
<1>5. IsFiniteSet(Requests(t)) /\ IsFiniteSet(Requests(q)) /\ Cardinality(Requests(q)) \in Nat
  BY <1>1, RequestsFinite
<1>6. Cardinality(later) = Cardinality(Requests(t))
  <2>1. ExistsBijection(Requests(t), later)
    BY <1>4 DEF ExistsBijection
  <2> QED  BY <1>5, <2>1, FS_Bijection
<1>7. 1 \in Requests(q) <=> Head(q).kind = "Predict"
  BY <1>1 DEF Requests
<1>8. 1 \in Requests(q) => Cardinality(later) = Cardinality(Requests(q)) - 1
  BY <1>5, OneMore
<1>9. 1 \notin Requests(q) => later = Requests(q)
  OBVIOUS
<1> HIDE DEF later
<1> QED  BY <1>5, <1>6, <1>7, <1>8, <1>9 DEF t

\* The sets of calls are finite, and change by one.
LEMMA CallSets ==
  ASSUME Predictor!PredictorAssumption, NEW w, NEW p, NEW l, NEW a
  PROVE  /\ IsFiniteSet(Holders(w, p, l)) /\ Cardinality(Holders(w, p, l)) \in Nat
         /\ IsFiniteSet(Waiters(w, p, l, a)) /\ Cardinality(Waiters(w, p, l, a)) \in Nat
<1>1. Holders(w, p, l) \subseteq Clients /\ Waiters(w, p, l, a) \subseteq Clients
  BY DEF Holders, Waiters
<1> QED  BY <1>1, PredictorConstants, FS_Subset, FS_CardinalityType

LEMMA WaitersHold ==
  ASSUME Predictor!PredictorAssumption, NEW w, NEW p, NEW l, NEW a
  PROVE  Cardinality(Waiters(w, p, l, a)) <= Cardinality(Holders(w, p, l))
<1>1. Waiters(w, p, l, a) \subseteq Holders(w, p, l)
  BY DEF Waiters, Holders, Predictor!CountedPcs
<1> QED  BY <1>1, CallSets, FS_Subset

-----------------------------------------------------------------------------
\* A step of a call preserves the invariant, part by part.
LEMMA CallKeepsTypes ==
  ASSUME Predictor!PredictorAssumption, PredictorSafe, NEW c \in Clients, CallOf(c),
         Stays(c) \/ Reserves(c) \/ GivesUp(c) \/ Sends(c) \/ Marks(c)
  PROVE  CallTypes' /\ WorkTypes' /\ CountTypes' /\ CallsOk'
<1>1. CallTypes'
  BY DEF CallOf, Moves
<1>2. loc[c].target \in Predictor!Workers \/ ~(GivesUp(c) \/ Sends(c) \/ Marks(c))
  BY CallFacts DEF CallOk, GivesUp, Sends, Marks, Predictor!CountedPcs, Selected, CallOf
<1>3. workQueue' \in [Predictor!Workers -> Seq(Predictor!Messages)]
  <2>1. CASE ~Sends(c)
    BY <2>1 DEF Stays, Reserves, GivesUp, Marks, PredictorSafe, WorkTypes
  <2>2. CASE Sends(c)
    <3>1. rules \in 0..MaxUpdates
      BY DEF PredictorSafe, CountTypes
    <3>2. Predictor!Request(c, rules) \in Predictor!Messages
      BY <3>1 DEF Predictor!Request, Predictor!Messages
    <3>3. workQueue \in [Predictor!Workers -> Seq(Predictor!Messages)]
      BY DEF PredictorSafe, WorkTypes
    <3>4. \A q \in Seq(Predictor!Messages) :
            Append(q, Predictor!Request(c, rules)) \in Seq(Predictor!Messages)
      BY <3>2
    <3>5. workQueue' = [workQueue EXCEPT ![loc[c].target]
                         = Append(workQueue[loc[c].target], Predictor!Request(c, rules))]
      BY <2>2 DEF Sends
    <3> QED  BY <3>3, <3>4, <3>5
  <2> QED  BY <2>1, <2>2
<1>4. /\ healthy' \in [Predictor!Workers -> BOOLEAN]
      /\ \A w \in Predictor!Workers : healthy'[w] => healthy[w]
      /\ \A w \in Predictor!Workers : ~healthy'[w] => ~healthy[w] \/ wpc[w] = "dead"
  BY <1>2 DEF Stays, Reserves, GivesUp, Sends, Marks, PredictorSafe, WorkTypes
<1>5. WorkTypes'
  BY <1>3, <1>4 DEF CallOf, PredictorSafe, WorkTypes
<1>6. pending' \in [Predictor!Workers -> Nat]
  <2>1. pending \in [Predictor!Workers -> Nat]
    BY DEF PredictorSafe, CountTypes
  <2> QED  BY <1>2, <2>1 DEF Stays, Reserves, GivesUp, Sends, Marks
<1>7. CountTypes'
  <2>1. CountTypes
    BY DEF PredictorSafe
  <2>2. /\ UNCHANGED <<rules, bcast, gone, cut, balancing>>
        /\ current' \in 0..(CounterSpan - 1) /\ predicts' \in 0..MaxPredicts
    BY DEF CallOf
  <2> QED  BY <1>6, <2>1, <2>2 DEF CountTypes
<1>8. ASSUME NEW d \in Clients
      PROVE  CallOk(clientPc'[d], loc'[d], answer'[d], healthy', wpc')
  <2>1. CASE d = c
    BY <2>1 DEF CallOf
  <2>2. CASE d # c
    <3>1. clientPc'[d] = clientPc[d] /\ loc'[d] = loc[d] /\ answer'[d] = answer[d] /\ wpc' = wpc
      BY <2>2 DEF CallOf, Moves
    <3>2. /\ CallOk(clientPc[d], loc[d], answer[d], healthy, wpc)
          /\ loc[d].gone \in SUBSET Predictor!Workers
      BY CallFacts
    <3>3. CallOk(clientPc[d], loc[d], answer[d], healthy', wpc)
      BY <1>4, <3>2 DEF CallOk
    <3> QED  BY <3>1, <3>3
  <2> QED  BY <2>1, <2>2
<1>9. CallsOk'
  BY <1>4, <1>8 DEF CallsOk, CallOf, PredictorSafe
<1> QED  BY <1>1, <1>5, <1>7, <1>9

\* The messages of a channel keep their senders when one is sent or taken, or another
\* call starts or stops to wait.
LEMMA QueueWaiters ==
  ASSUME NEW q, NEW f, NEW V, NEW U, QueueOk(q, f, V),
         \A i \in DOMAIN q : q[i].from \in Clients /\ q[i].from \in V => q[i].from \in U
  PROVE  QueueOk(q, f, U)
BY DEF QueueOk

LEMMA QueueSends ==
  ASSUME NEW q \in Seq(Predictor!Messages), NEW f, NEW V, NEW m \in Predictor!Messages,
         QueueOk(q, f, V), m.from \in Clients => m.kind = "Predict" /\ m.from \notin V /\ f # m.from
  PROVE  QueueOk(Append(q, m), f, V \cup {m.from})
<1> DEFINE n == Len(q) + 1
           r == Append(q, m)
<1>1. /\ DOMAIN r = DOMAIN q \cup {n} /\ n \notin DOMAIN q /\ r[n] = m
      /\ \A i \in DOMAIN q : r[i] = q[i]
  <2>1. Len(q) \in Nat /\ DOMAIN q = 1..Len(q)
    OBVIOUS
  <2> QED  BY <2>1
<1> HIDE DEF n, r
<1>2. \A i \in DOMAIN q : q[i].from \in Clients => q[i].from # m.from
  BY DEF QueueOk
<1>3. ASSUME NEW i \in DOMAIN r
      PROVE  /\ r[i].kind # "Predict" => r[i].from \notin Clients
             /\ r[i].from \in Clients =>
                  /\ r[i].from \in V \cup {m.from} /\ r[i].from # f
                  /\ \A j \in DOMAIN r : r[i].from = r[j].from => i = j
  <2>1. CASE i = n
    BY <1>1, <1>2, <2>1
  <2>2. CASE i # n
    BY <1>1, <1>2, <2>2 DEF QueueOk
  <2> QED  BY <2>1, <2>2
<1> QED  BY <1>3 DEF QueueOk, r

LEMMA QueueTakes ==
  ASSUME NEW q \in Seq(Predictor!Messages), q # <<>>, NEW f, NEW V, QueueOk(q, f, V)
  PROVE  QueueOk(Tail(q), f, V) /\ QueueOk(Tail(q), Head(q).from, V)
         /\ (Head(q).from \in Clients => Head(q).from \in V)
<1> DEFINE t == Tail(q)
<1>1. /\ Len(q) \in Nat \ {0} /\ DOMAIN t = 1..(Len(q) - 1) /\ DOMAIN q = 1..Len(q)
      /\ Head(q) = q[1] /\ \A i \in 1..(Len(q) - 1) : t[i] = q[i + 1]
  BY EmptySeq
<1> HIDE DEF t
<1>2. ASSUME NEW i \in DOMAIN t
      PROVE  i + 1 \in DOMAIN q /\ t[i] = q[i + 1] /\ i + 1 # 1 /\ 1 \in DOMAIN q
  BY <1>1
<1>3. \A i, j \in DOMAIN t : i + 1 = j + 1 => i = j
  BY <1>1
<1>4. \A i \in DOMAIN t :
        /\ t[i].kind # "Predict" => t[i].from \notin Clients
        /\ t[i].from \in Clients =>
             /\ t[i].from \in V /\ t[i].from # f /\ t[i].from # Head(q).from
             /\ \A j \in DOMAIN t : t[i].from = t[j].from => i = j
  BY <1>1, <1>2, <1>3 DEF QueueOk
<1>5. Head(q).from \in Clients => Head(q).from \in V
  BY <1>1 DEF QueueOk
<1> QED  BY <1>4, <1>5 DEF QueueOk, t

LEMMA CallKeepsSenders ==
  ASSUME Predictor!PredictorAssumption, PredictorSafe, NEW c \in Clients, CallOf(c),
         Stays(c) \/ Reserves(c) \/ GivesUp(c) \/ Sends(c) \/ Marks(c)
  PROVE  SendersWait'
<1> SUFFICES ASSUME NEW w \in Predictor!Workers
             PROVE  /\ JobOk(wpc'[w], job'[w].from, Waiters(w, clientPc', loc', answer'))
                    /\ QueueOk(workQueue'[w], job'[w].from, Waiters(w, clientPc', loc', answer'))
  BY DEF SendersWait
<1> DEFINE V == Waiters(w, clientPc, loc, answer)
           U == Waiters(w, clientPc', loc', answer')
<1>1. /\ JobOk(wpc[w], job[w].from, V) /\ QueueOk(workQueue[w], job[w].from, V)
      /\ wpc'[w] = wpc[w] /\ job'[w] = job[w]
  BY DEF PredictorSafe, SendersWait, CallOf
<1>2. c \notin V
  BY DEF Waiters, Stays, Reserves, GivesUp, Sends, Marks, Quiet
<1>3. V \subseteq U
  BY <1>2 DEF Waiters, CallOf, Moves
<1>4. CASE ~Sends(c)
  <2>1. workQueue' = workQueue
    BY <1>4 DEF Stays, Reserves, GivesUp, Marks
  <2> HIDE DEF V, U
  <2>2. QueueOk(workQueue[w], job[w].from, U)
    BY <1>1, <1>3, QueueWaiters
  <2>3. JobOk(wpc[w], job[w].from, U)
    BY <1>1, <1>3 DEF JobOk
  <2> QED  BY <1>1, <2>1, <2>2, <2>3 DEF U
<1>5. CASE Sends(c)
  <2> DEFINE t == loc[c].target
             m == Predictor!Request(c, rules)
  <2>1. /\ t \in Predictor!Workers /\ workQueue \in [Predictor!Workers -> Seq(Predictor!Messages)]
        /\ workQueue' = [workQueue EXCEPT ![t] = Append(workQueue[t], m)]
    BY <1>5, CallFacts DEF CallOk, Selected, Sends, PredictorSafe, WorkTypes
  <2>2. m.from = c /\ m.kind = "Predict" /\ m \in Predictor!Messages
    BY DEF Predictor!Request, Predictor!Messages, PredictorSafe, CountTypes
  <2>3. t = w => c \in U
    BY <1>5 DEF Waiters, Sends, CallOf, Moves
  <2>4. job[w].from # c
    BY <1>1, <1>2 DEF JobOk
  <2> HIDE DEF V, U, m, t
  <2>5. JobOk(wpc[w], job[w].from, U)
    BY <1>1, <1>3 DEF JobOk
  <2>6. CASE t = w
    <3>1. QueueOk(Append(workQueue[w], m), job[w].from, V \cup {m.from})
      BY <1>1, <1>2, <2>1, <2>2, <2>4, QueueSends
    <3>2. V \cup {m.from} \subseteq U
      BY <1>3, <2>2, <2>3, <2>6
    <3>3. QueueOk(Append(workQueue[w], m), job[w].from, U)
      BY <3>1, <3>2, QueueWaiters
    <3>4. workQueue'[w] = Append(workQueue[w], m)
      BY <2>1, <2>6
    <3> QED  BY <1>1, <2>5, <3>3, <3>4 DEF U
  <2>7. CASE t # w
    <3>1. workQueue'[w] = workQueue[w]
      BY <2>1, <2>7
    <3>2. QueueOk(workQueue[w], job[w].from, U)
      BY <1>1, <1>3, QueueWaiters
    <3> QED  BY <1>1, <2>5, <3>1, <3>2 DEF U
  <2> QED  BY <2>6, <2>7
<1> QED  BY <1>4, <1>5

LEMMA CallKeepsSlots ==
  ASSUME Predictor!PredictorAssumption, PredictorSafe, NEW c \in Clients, CallOf(c),
         Stays(c) \/ Reserves(c) \/ GivesUp(c) \/ Sends(c) \/ Marks(c)
  PROVE  SlotsCounted'
<1> SUFFICES ASSUME NEW w \in Predictor!Workers
             PROVE  /\ pending'[w] = gone'[w] + Cardinality(Holders(w, clientPc', loc'))
                    /\ Cardinality(Requests(workQueue'[w])) + Busy(wpc'[w])
                         <= gone'[w] + Cardinality(Waiters(w, clientPc', loc', answer'))
  BY DEF SlotsCounted
<1> DEFINE H == Holders(w, clientPc, loc)
           V == Waiters(w, clientPc, loc, answer)
<1>1. /\ pending[w] = gone[w] + Cardinality(H)
      /\ Cardinality(Requests(workQueue[w])) + Busy(wpc[w]) <= gone[w] + Cardinality(V)
      /\ pending \in [Predictor!Workers -> Nat] /\ gone[w] \in Nat
      /\ workQueue \in [Predictor!Workers -> Seq(Predictor!Messages)]
      /\ workQueue[w] \in Seq(Predictor!Messages) /\ Busy(wpc[w]) \in Nat
  BY DEF PredictorSafe, SlotsCounted, CountTypes, WorkTypes, Busy
<1>2. gone' = gone /\ wpc' = wpc
  BY DEF CallOf
<1>3. IsFiniteSet(H) /\ Cardinality(H) \in Nat /\ IsFiniteSet(V) /\ Cardinality(V) \in Nat
      /\ Cardinality(Requests(workQueue[w])) \in Nat
  BY <1>1, CallSets, RequestsFinite
<1>4. \A d \in Clients \ {c} : clientPc'[d] = clientPc[d] /\ loc'[d] = loc[d] /\ answer'[d] = answer[d]
  BY DEF CallOf, Moves
<1>5. CASE Stays(c) \/ Marks(c)
  <2>1. Holders(w, clientPc', loc') = H
    BY <1>4, <1>5 DEF Holders, Stays, Marks, SameSlot
  <2>2. Waiters(w, clientPc', loc', answer') = V
    BY <1>4, <1>5 DEF Waiters, Stays, Marks, Quiet
  <2>3. pending' = pending /\ workQueue' = workQueue
    BY <1>5 DEF Stays, Marks
  <2> HIDE DEF H, V
  <2>4. pending'[w] = gone'[w] + Cardinality(H)
    BY <1>1, <1>2, <2>3
  <2>5. Cardinality(Requests(workQueue'[w])) + Busy(wpc'[w]) <= gone'[w] + Cardinality(V)
    BY <1>1, <1>2, <2>3
  <2>6. Cardinality(Holders(w, clientPc', loc')) = Cardinality(H)
    BY <2>1
  <2>7. Cardinality(Waiters(w, clientPc', loc', answer')) = Cardinality(V)
    BY <2>2
  <2> QED  BY <2>4, <2>5, <2>6, <2>7
<1>6. CASE Reserves(c)
  <2>1. Waiters(w, clientPc', loc', answer') = V
    BY <1>4, <1>6 DEF Waiters, Reserves, Quiet
  <2>2. workQueue' = workQueue /\ pending' = [pending EXCEPT ![loc'[c].target] = pending[loc'[c].target] + 1]
    BY <1>6 DEF Reserves
  <2>3. Holders(w, clientPc', loc') = IF loc'[c].target = w THEN H \cup {c} ELSE H
    BY <1>4, <1>6 DEF Holders, Reserves
  <2>4. c \notin H
    BY <1>6 DEF Holders, Reserves
  <2> HIDE DEF H, V
  <2>5. Cardinality(H \cup {c}) = Cardinality(H) + 1
    BY <1>3, <2>4, OneMore
  <2>6. pending'[w] = IF loc'[c].target = w THEN pending[w] + 1 ELSE pending[w]
    BY <1>1, <2>2
  <2>7. pending'[w] = gone[w] + Cardinality(Holders(w, clientPc', loc'))
    BY <1>1, <1>3, <2>3, <2>5, <2>6, SMTT(60)
  <2>8. Cardinality(Requests(workQueue'[w])) + Busy(wpc'[w])
          <= gone[w] + Cardinality(Waiters(w, clientPc', loc', answer'))
    BY <1>1, <1>2, <2>1, <2>2
  <2> QED  BY <1>2, <2>7, <2>8
<1>7. CASE GivesUp(c)
  <2>1. Waiters(w, clientPc', loc', answer') = V
    BY <1>4, <1>7 DEF Waiters, GivesUp, Quiet
  <2>2. workQueue' = workQueue
        /\ pending' = [pending EXCEPT ![loc[c].target]
                        = IF pending[loc[c].target] > 0 THEN pending[loc[c].target] - 1 ELSE 0]
    BY <1>7 DEF GivesUp
  <2>3. Holders(w, clientPc', loc') = IF loc[c].target = w THEN H \ {c} ELSE H
    BY <1>4, <1>7 DEF Holders, GivesUp
  <2>4. loc[c].target = w => c \in H
    BY <1>7 DEF Holders, GivesUp
  <2> HIDE DEF H, V
  <2>5. c \in H => Cardinality(H \ {c}) = Cardinality(H) - 1 /\ Cardinality(H) > 0
    BY <1>3, OneMore
  <2>6. pending'[w] = IF loc[c].target = w THEN (IF pending[w] > 0 THEN pending[w] - 1 ELSE 0)
                      ELSE pending[w]
    BY <1>1, <2>2
  <2>7. pending'[w] = gone[w] + Cardinality(Holders(w, clientPc', loc'))
    <3>1. CASE loc[c].target = w
      <4>1. pending[w] > 0 /\ Cardinality(H \ {c}) = Cardinality(H) - 1
        BY <1>1, <1>3, <2>4, <2>5, <3>1, SMTT(60)
      <4> QED  BY <1>1, <1>3, <2>3, <2>6, <3>1, <4>1, SMTT(60)
    <3>2. CASE loc[c].target # w
      BY <1>1, <2>3, <2>6, <3>2
    <3> QED  BY <3>1, <3>2
  <2> QED  BY <1>1, <1>2, <2>1, <2>2, <2>7
<1>8. CASE Sends(c)
  <2> DEFINE m == Predictor!Request(c, rules)
  <2>1. Holders(w, clientPc', loc') = H
    BY <1>4, <1>8 DEF Holders, Sends, Predictor!CountedPcs
  <2>2. /\ Waiters(w, clientPc', loc', answer') = IF loc[c].target = w THEN V \cup {c} ELSE V
        /\ c \notin V
    BY <1>4, <1>8 DEF Waiters, Sends
  <2>3. m \in Predictor!Messages /\ m.kind = "Predict"
    BY DEF Predictor!Request, Predictor!Messages, PredictorSafe, CountTypes
  <2>4. /\ pending' = pending
        /\ workQueue' = [workQueue EXCEPT ![loc[c].target] = Append(workQueue[loc[c].target], m)]
    BY <1>8 DEF Sends
  <2> HIDE DEF H, V, m
  <2>5. Cardinality(V \cup {c}) = Cardinality(V) + 1
    BY <1>3, <2>2, OneMore
  <2>6. Cardinality(Requests(Append(workQueue[w], m))) = Cardinality(Requests(workQueue[w])) + 1
    BY <1>1, <2>3, RequestsAppend
  <2>7. workQueue'[w] = IF loc[c].target = w THEN Append(workQueue[w], m) ELSE workQueue[w]
    BY <1>1, <2>4
  <2>8. CASE loc[c].target = w
    BY <1>1, <1>2, <1>3, <2>1, <2>2, <2>4, <2>5, <2>6, <2>7, <2>8, SMTT(60)
  <2>9. CASE loc[c].target # w
    BY <1>1, <1>2, <1>3, <2>1, <2>2, <2>4, <2>7, <2>9
  <2> QED  BY <2>8, <2>9
<1> QED  BY <1>5, <1>6, <1>7, <1>8

\* The rules carried by the messages of a channel, when one is sent or taken.
CarriedOk(q, v) == \A i \in Requests(q) : q[i].version = Before(q, i, v)
InForce(q, v) == Before(q, Len(q) + 1, v)

LEMMA CarriedAppend ==
  ASSUME NEW q \in Seq(Predictor!Messages), NEW m \in Predictor!Messages, NEW v
  PROVE  /\ CarriedOk(q, v) /\ (m.kind = "Predict" => m.version = InForce(q, v))
              => CarriedOk(Append(q, m), v)
         /\ InForce(Append(q, m), v) = m.version
<1> DEFINE r == Append(q, m)
           n == Len(q) + 1
<1>1. /\ n \in Nat /\ n >= 1 /\ DOMAIN r = 1..n /\ DOMAIN q = 1..(n - 1) /\ Len(r) = n /\ r[n] = m
      /\ \A i \in 1..(n - 1) : r[i] = q[i]
  OBVIOUS
<1> HIDE DEF r
<1>2. InForce(r, v) = m.version
  BY <1>1 DEF InForce, Before
<1>3. ASSUME CarriedOk(q, v), m.kind = "Predict" => m.version = InForce(q, v),
             NEW i \in Requests(r)
      PROVE  r[i].version = Before(r, i, v)
  <2>1. i \in 1..n /\ r[i].kind = "Predict"
    BY <1>1 DEF Requests
  <2>2. CASE i = n
    <3>1. m.version = Before(q, n, v)
      BY <1>1, <1>3, <2>1, <2>2 DEF InForce
    <3>2. Before(q, n, v) = Before(r, n, v)
      BY <1>1 DEF Before
    <3> QED  BY <1>1, <2>2, <3>1, <3>2
  <2>3. CASE i # n
    <3>1. i \in 1..(n - 1) /\ i \in Requests(q)
      BY <1>1, <2>1, <2>3 DEF Requests
    <3>2. q[i].version = Before(q, i, v)
      BY <1>3, <3>1 DEF CarriedOk
    <3>3. Before(q, i, v) = Before(r, i, v)
      <4>1. i # 1 => i - 1 \in 1..(n - 1)
        BY <1>1, <3>1
      <4> QED  BY <1>1, <4>1 DEF Before
    <3> QED  BY <1>1, <3>1, <3>2, <3>3
  <2> QED  BY <2>2, <2>3
<1> QED  BY <1>2, <1>3 DEF CarriedOk, r

LEMMA CarriedTail ==
  ASSUME NEW q \in Seq(Predictor!Messages), q # <<>>, NEW v, CarriedOk(q, v)
  PROVE  /\ Head(q).kind = "Predict" => Head(q).version = v
         /\ CarriedOk(Tail(q), Head(q).version)
         /\ InForce(Tail(q), Head(q).version) = InForce(q, v)
<1> DEFINE t == Tail(q)
           n == Len(q)
<1>1. /\ n \in Nat \ {0} /\ DOMAIN t = 1..(n - 1) /\ DOMAIN q = 1..n /\ Len(t) = n - 1
      /\ Head(q) = q[1] /\ \A i \in 1..(n - 1) : t[i] = q[i + 1]
  BY EmptySeq
<1> HIDE DEF t
<1>2. Head(q).kind = "Predict" => Head(q).version = v
  BY <1>1 DEF CarriedOk, Requests, Before
<1>3. ASSUME NEW i \in 1..n PROVE Before(t, i, Head(q).version) = q[i].version
  <2>1. CASE i = 1
    BY <1>1, <2>1 DEF Before
  <2>2. CASE i # 1
    <3>1. i - 1 \in 1..(n - 1) /\ (i - 1) + 1 = i
      BY <1>1, <2>2
    <3> QED  BY <1>1, <2>2, <3>1 DEF Before
  <2> QED  BY <2>1, <2>2
<1>4. ASSUME NEW i \in Requests(t) PROVE t[i].version = Before(t, i, Head(q).version)
  <2>1. i \in 1..(n - 1) /\ t[i] = q[i + 1] /\ i + 1 \in Requests(q) /\ i + 1 # 1 /\ (i + 1) - 1 = i
        /\ i \in 1..n
    BY <1>1 DEF Requests
  <2>2. q[i + 1].version = q[i].version
    BY <2>1 DEF CarriedOk, Before
  <2> QED  BY <1>3, <2>1, <2>2
<1>5. InForce(t, Head(q).version) = InForce(q, v)
  <2>1. Len(t) + 1 = n /\ n + 1 # 1 /\ (n + 1) - 1 = n /\ n \in 1..n
    BY <1>1
  <2>2. Before(q, n + 1, v) = q[n].version
    BY <2>1 DEF Before
  <2> QED  BY <1>3, <2>1, <2>2 DEF InForce
<1> QED  BY <1>2, <1>4, <1>5 DEF CarriedOk, t

LEMMA CallKeepsRules ==
  ASSUME Predictor!PredictorAssumption, PredictorSafe, NEW c \in Clients, CallOf(c),
         Stays(c) \/ Reserves(c) \/ GivesUp(c) \/ Sends(c) \/ Marks(c)
  PROVE  RulesCarried'
<1>1. /\ bcast = 0 /\ bcast' = 0
      /\ UNCHANGED <<wpc, job, installed, rules, cut>>
  BY DEF CallOf, PredictorSafe, RulesCarried
<1>2. CASE ~Sends(c)
  <2>1. workQueue' = workQueue
    BY <1>2 DEF Stays, Reserves, GivesUp, Marks
  <2> QED  BY <1>1, <2>1 DEF PredictorSafe, RulesCarried
<1>3. CASE Sends(c)
  <2> DEFINE t == loc[c].target
             m == Predictor!Request(c, rules)
  <2>1. /\ t \in Predictor!Workers /\ workQueue \in [Predictor!Workers -> Seq(Predictor!Messages)]
        /\ workQueue' = [workQueue EXCEPT ![t] = Append(workQueue[t], m)] /\ wpc[t] # "dead"
    BY <1>3, CallFacts DEF CallOk, Selected, Sends, PredictorSafe, WorkTypes
  <2>2. m.version = rules /\ m \in Predictor!Messages
    BY DEF Predictor!Request, Predictor!Messages, PredictorSafe, CountTypes
  <2> HIDE DEF m, t
  <2>3. ASSUME ~cut, NEW w \in Predictor!Workers
        PROVE  /\ wpc[w] = "busy" => installed[w] = job[w].version
               /\ CarriedOk(workQueue[w], installed[w])
               /\ wpc[w] # "dead" => InForce(workQueue[w], installed[w]) = rules
    BY <1>1, <2>3 DEF PredictorSafe, RulesCarried, CarriedOk, InForce
  <2>4. ASSUME ~cut, NEW w \in Predictor!Workers
        PROVE  /\ CarriedOk(workQueue'[w], installed[w])
               /\ wpc[w] # "dead" => InForce(workQueue'[w], installed[w]) = rules
    <3>1. CASE w = t
      <4>1. workQueue'[w] = Append(workQueue[w], m) /\ workQueue[w] \in Seq(Predictor!Messages)
        BY <2>1, <3>1
      <4> QED  BY <2>1, <2>2, <2>3, <2>4, <3>1, <4>1, CarriedAppend
    <3>2. CASE w # t
      BY <2>1, <2>3, <2>4, <3>2
    <3> QED  BY <3>1, <3>2
  <2> QED  BY <1>1, <2>3, <2>4 DEF RulesCarried, CarriedOk, InForce
<1> QED  BY <1>2, <1>3

LEMMA CallKeeps ==
  ASSUME Predictor!PredictorAssumption, PredictorSafe, NEW c \in Clients,
         Predictor!Begin(c) \/ Predictor!Predict(c)
  PROVE  PredictorSafe'
<1>1. CallOf(c) /\ (Stays(c) \/ Reserves(c) \/ GivesUp(c) \/ Sends(c) \/ Marks(c))
  BY CallSteps
<1> QED
  BY <1>1, CallKeepsTypes, CallKeepsSenders, CallKeepsSlots, CallKeepsRules DEF PredictorSafe

\* A step of a worker, with its channel, its request, where it is and the answers.
LEMMA WorkerStarting ==
  ASSUME Predictor!PredictorAssumption, PredictorSafe, NEW w \in Predictor!Workers,
         Predictor!WorkerStarts(w) \/ Predictor!WorkerCannotStart(w)
  PROVE  PredictorSafe'
<1>1. PICK p \in {"idle", "stopping"} :
        /\ wpc[w] = "starting" /\ wpc' = [wpc EXCEPT ![w] = p]
        /\ healthy' = healthy \/ (p = "stopping" /\ healthy' = [healthy EXCEPT ![w] = FALSE])
        /\ UNCHANGED <<clientPc, loc, answer, current, pending, workQueue, job, installed, rules,
                       bcast, predicts, balancing, gone, cut>>
  BY DEF Predictor!WorkerStarts, Predictor!WorkerCannotStart, Predictor!sideVars, Predictor!callVars,
         Predictor!ruleVars
<1>2. CallTypes' /\ CountTypes'
  BY <1>1 DEF PredictorSafe, CallTypes, CountTypes
<1>3. WorkTypes'
  BY <1>1 DEF PredictorSafe, WorkTypes
<1>4. /\ \A v \in Predictor!Workers : healthy'[v] => healthy[v]
      /\ \A v \in Predictor!Workers : wpc[v] = "dead" => wpc'[v] = "dead"
      /\ \A v \in Predictor!Workers : ~healthy'[v] => wpc'[v] \in {"stopping", "dead"}
      /\ \A v \in Predictor!Workers : (wpc[v] = "busy" <=> wpc'[v] = "busy")
                                      /\ (wpc'[v] # "dead" => wpc[v] # "dead")
  <2>1. \A v \in Predictor!Workers : ~healthy[v] => wpc[v] \in {"stopping", "dead"}
    BY DEF PredictorSafe, CallsOk
  <2> QED  BY <1>1, <2>1 DEF PredictorSafe, WorkTypes
<1>5. CallsOk'
  <2>1. ASSUME NEW c \in Clients
        PROVE  CallOk(clientPc[c], loc[c], answer[c], healthy', wpc')
    BY <1>4, CallFacts DEF CallOk, Selected
  <2> QED  BY <1>1, <1>4, <2>1 DEF CallsOk
<1>6. SendersWait'
  <2>1. \A v \in Predictor!Workers : JobOk(wpc'[v], job[v].from, Waiters(v, clientPc, loc, answer))
    BY <1>4 DEF PredictorSafe, SendersWait, JobOk
  <2> QED  BY <1>1, <2>1 DEF PredictorSafe, SendersWait
<1>7. SlotsCounted'
  BY <1>1, <1>4 DEF PredictorSafe, SlotsCounted, Busy
<1>8. RulesCarried'
  BY <1>1, <1>4 DEF PredictorSafe, RulesCarried
<1> QED  BY <1>2, <1>3, <1>5, <1>6, <1>7, <1>8 DEF PredictorSafe

\* The locals and answers of the calls are left alone.
CallsAlone == UNCHANGED <<clientPc, loc, answer, current, pending, rules, predicts, balancing, gone>>

LEMMA CallsAloneKeep ==
  ASSUME PredictorSafe, UNCHANGED <<clientPc, loc, answer>>,
         \A w \in Predictor!Workers : healthy'[w] => healthy[w],
         \A w \in Predictor!Workers : wpc[w] = "dead" => wpc'[w] = "dead",
         \A w \in Predictor!Workers : ~healthy'[w] => wpc'[w] \in {"stopping", "dead"}
  PROVE  CallTypes' /\ CallsOk'
<1>1. CallTypes'
  BY DEF PredictorSafe, CallTypes
<1>2. ASSUME NEW c \in Clients PROVE CallOk(clientPc[c], loc[c], answer[c], healthy', wpc')
  BY CallFacts DEF CallOk, Selected
<1> QED  BY <1>1, <1>2 DEF CallsOk

\* What is known of a worker.
LEMMA WorkerFacts ==
  ASSUME PredictorSafe, NEW w \in Predictor!Workers
  PROVE  /\ workQueue[w] \in Seq(Predictor!Messages) /\ job[w] \in Predictor!Messages
         /\ installed[w] \in 0..MaxUpdates /\ gone[w] \in Nat /\ pending[w] \in Nat
         /\ JobOk(wpc[w], job[w].from, Waiters(w, clientPc, loc, answer))
         /\ QueueOk(workQueue[w], job[w].from, Waiters(w, clientPc, loc, answer))
         /\ pending[w] = gone[w] + Cardinality(Holders(w, clientPc, loc))
         /\ Cardinality(Requests(workQueue[w])) + Busy(wpc[w])
              <= gone[w] + Cardinality(Waiters(w, clientPc, loc, answer))
         /\ ~healthy[w] => wpc[w] \in {"stopping", "dead"}
         /\ cut \/ ((wpc[w] = "busy" => installed[w] = job[w].version)
                    /\ CarriedOk(workQueue[w], installed[w])
                    /\ (wpc[w] # "dead" /\ (bcast = 0 \/ w < bcast)
                          => InForce(workQueue[w], installed[w]) = rules))
BY DEF PredictorSafe, WorkTypes, CountTypes, CallsOk, SendersWait, SlotsCounted, RulesCarried,
       CarriedOk, InForce

\* One worker changes, and what is known of it holds again.
LEMMA WorkerKeeps ==
  ASSUME PredictorSafe, CallsAlone, NEW w \in Predictor!Workers,
         NEW q \in Seq(Predictor!Messages), workQueue' = [workQueue EXCEPT ![w] = q],
         NEW j \in Predictor!Messages, job' = [job EXCEPT ![w] = j],
         NEW p \in {"idle", "busy"}, wpc' = [wpc EXCEPT ![w] = p], wpc[w] = "idle",
         NEW v \in 0..MaxUpdates, installed' = [installed EXCEPT ![w] = v],
         JobOk(p, j.from, Waiters(w, clientPc, loc, answer)),
         QueueOk(q, j.from, Waiters(w, clientPc, loc, answer)),
         Cardinality(Requests(q)) + Busy(p) <= Cardinality(Requests(workQueue[w])) + Busy(wpc[w]),
         Cardinality(Requests(q)) \in Nat,
         cut \/ ((p = "busy" => v = j.version) /\ CarriedOk(q, v)
                 /\ InForce(q, v) = InForce(workQueue[w], installed[w])),
         UNCHANGED <<healthy, bcast, cut>>
  PROVE  PredictorSafe'
<1>1. healthy[w]
  BY WorkerFacts DEF PredictorSafe, WorkTypes
<1>2. /\ wpc'[w] = p /\ workQueue'[w] = q /\ job'[w] = j /\ installed'[w] = v
      /\ \A u \in Predictor!Workers \ {w} :
           wpc'[u] = wpc[u] /\ workQueue'[u] = workQueue[u] /\ job'[u] = job[u]
           /\ installed'[u] = installed[u]
      /\ WorkTypes'
  BY DEF PredictorSafe, WorkTypes
<1>3. CallTypes' /\ CallsOk'
  <2>1. \A u \in Predictor!Workers : wpc[u] = "dead" => wpc'[u] = "dead"
    BY <1>2
  <2>2. \A u \in Predictor!Workers : ~healthy'[u] => wpc'[u] \in {"stopping", "dead"}
    BY <1>1, <1>2, WorkerFacts
  <2> QED  BY <2>1, <2>2, CallsAloneKeep DEF CallsAlone
<1>4. CountTypes'
  BY DEF PredictorSafe, CountTypes, CallsAlone
<1>5. SendersWait'
  <2>1. ASSUME NEW u \in Predictor!Workers
        PROVE  /\ JobOk(wpc'[u], job'[u].from, Waiters(u, clientPc, loc, answer))
               /\ QueueOk(workQueue'[u], job'[u].from, Waiters(u, clientPc, loc, answer))
    BY <1>2, WorkerFacts
  <2> QED  BY <2>1 DEF SendersWait, CallsAlone
<1>6. SlotsCounted'
  <2>1. ASSUME NEW u \in Predictor!Workers
        PROVE  /\ pending[u] = gone[u] + Cardinality(Holders(u, clientPc, loc))
               /\ Cardinality(Requests(workQueue'[u])) + Busy(wpc'[u])
                    <= gone[u] + Cardinality(Waiters(u, clientPc, loc, answer))
    <3>1. CASE u = w
      <4>1. /\ pending[w] = gone[w] + Cardinality(Holders(w, clientPc, loc))
            /\ Cardinality(Requests(workQueue[w])) + Busy(wpc[w])
                 <= gone[w] + Cardinality(Waiters(w, clientPc, loc, answer))
            /\ gone[w] \in Nat /\ workQueue[w] \in Seq(Predictor!Messages)
        BY WorkerFacts
      <4>2. /\ Cardinality(Requests(workQueue[w])) \in Nat
            /\ Busy(p) \in Nat /\ Busy(wpc[w]) \in Nat
        BY <4>1, RequestsFinite DEF Busy
      <4>3. Cardinality(Waiters(w, clientPc, loc, answer)) \in Nat
        BY CallSets, ServicesAssumption
      <4>4. Cardinality(Requests(q)) + Busy(p)
              <= gone[w] + Cardinality(Waiters(w, clientPc, loc, answer))
        BY <4>1, <4>2, <4>3
      <4> QED  BY <1>2, <3>1, <4>1, <4>4
    <3>2. CASE u # w
      BY <1>2, <3>2, WorkerFacts
    <3> QED  BY <3>1, <3>2
  <2> QED  BY <2>1 DEF SlotsCounted, CallsAlone
<1>7. RulesCarried'
  <2>1. ASSUME ~cut, NEW u \in Predictor!Workers
        PROVE  /\ wpc'[u] = "busy" => installed'[u] = job'[u].version
               /\ CarriedOk(workQueue'[u], installed'[u])
               /\ (wpc'[u] # "dead" /\ (bcast = 0 \/ u < bcast)
                     => InForce(workQueue'[u], installed'[u]) = rules)
    BY <1>2, <2>1, WorkerFacts
  <2>2. bcast # 0 => \A c \in Clients : clientPc[c] = "ready"
    BY DEF PredictorSafe, RulesCarried
  <2> QED  BY <2>1, <2>2 DEF RulesCarried, CarriedOk, InForce, CallsAlone
<1> QED  BY <1>2, <1>3, <1>4, <1>5, <1>6, <1>7 DEF PredictorSafe

LEMMA TakeKeeps ==
  ASSUME Predictor!PredictorAssumption, PredictorSafe, NEW w \in Predictor!Workers,
         Predictor!TakeRequest(w) \/ Predictor!TakeGuardrails(w)
  PROVE  PredictorSafe'
<1> DEFINE q == workQueue[w]
           m == Head(q)
           V == Waiters(w, clientPc, loc, answer)
<1>1. /\ wpc[w] = "idle" /\ q # <<>> /\ CallsAlone /\ UNCHANGED <<healthy, bcast, cut>>
      /\ workQueue' = [workQueue EXCEPT ![w] = Tail(q)]
  BY DEF Predictor!TakeRequest, Predictor!TakeGuardrails, CallsAlone, Predictor!sideVars,
         Predictor!callVars, Predictor!ruleVars
<1>2. q \in Seq(Predictor!Messages) /\ QueueOk(q, job[w].from, V) /\ job[w] \in Predictor!Messages
      /\ installed[w] \in 0..MaxUpdates /\ JobOk("idle", job[w].from, V)
  BY <1>1, WorkerFacts
<1>3. m \in Predictor!Messages /\ Tail(q) \in Seq(Predictor!Messages) /\ m.version \in 0..MaxUpdates
  <2>1. m \in Predictor!Messages /\ Tail(q) \in Seq(Predictor!Messages)
    BY <1>1, <1>2
  <2> QED  BY <2>1 DEF Predictor!Messages
<1>4. QueueOk(Tail(q), job[w].from, V) /\ QueueOk(Tail(q), m.from, V)
      /\ (m.from \in Clients => m.from \in V)
  BY <1>1, <1>2, QueueTakes
<1>5. Cardinality(Requests(Tail(q)))
        = Cardinality(Requests(q)) - (IF m.kind = "Predict" THEN 1 ELSE 0)
  BY <1>1, <1>2, RequestsTail
<1>6. Cardinality(Requests(q)) \in Nat /\ Cardinality(Requests(Tail(q))) \in Nat
  BY <1>2, <1>3, RequestsFinite
<1>7. cut \/ ((m.kind = "Predict" => m.version = installed[w])
              /\ CarriedOk(Tail(q), m.version)
              /\ InForce(Tail(q), m.version) = InForce(q, installed[w]))
  BY <1>1, <1>2, WorkerFacts, CarriedTail
<1>8. CASE Predictor!TakeRequest(w)
  <2>1. m.kind = "Predict" /\ job' = [job EXCEPT ![w] = m] /\ wpc' = [wpc EXCEPT ![w] = "busy"]
        /\ installed' = installed
    BY <1>8 DEF Predictor!TakeRequest
  <2>2. installed' = [installed EXCEPT ![w] = installed[w]]
    BY <2>1 DEF PredictorSafe, WorkTypes
  <2>3. JobOk("busy", m.from, V)
    BY <1>4 DEF JobOk
  <2> HIDE DEF q, m, V
  <2>4. Cardinality(Requests(Tail(q))) + Busy("busy") <= Cardinality(Requests(q)) + Busy(wpc[w])
    BY <1>1, <1>5, <1>6, <2>1 DEF Busy
  <2>5. cut \/ (installed[w] = m.version /\ CarriedOk(Tail(q), installed[w])
                /\ InForce(Tail(q), installed[w]) = InForce(q, installed[w]))
    BY <1>7, <2>1
  <2> QED
    BY <1>1, <1>2, <1>3, <1>4, <1>6, <2>1, <2>2, <2>3, <2>4, <2>5, WorkerKeeps DEF q, V
<1>9. CASE Predictor!TakeGuardrails(w)
  <2>1. m.kind # "Predict" /\ job' = job /\ wpc' = wpc
        /\ installed' = [installed EXCEPT ![w] = m.version]
    BY <1>9 DEF Predictor!TakeGuardrails
  <2>2. job' = [job EXCEPT ![w] = job[w]] /\ wpc' = [wpc EXCEPT ![w] = "idle"]
    BY <1>1, <2>1 DEF PredictorSafe, WorkTypes
  <2> HIDE DEF q, m, V
  <2>3. Cardinality(Requests(Tail(q))) + Busy("idle") <= Cardinality(Requests(q)) + Busy(wpc[w])
    BY <1>1, <1>5, <1>6, <2>1 DEF Busy
  <2> QED
    BY <1>1, <1>2, <1>3, <1>4, <1>6, <1>7, <2>1, <2>2, <2>3, WorkerKeeps DEF q, V
<1> QED  BY <1>8, <1>9

\* The calls in L, which wait for w, are answered with r, and w is at p.
AnsweredWith(L, r) == answer' = [c \in Clients |-> IF c \in L THEN r ELSE answer[c]]
Answered(w, p, L, r) ==
  /\ L \subseteq Waiters(w, clientPc, loc, answer) /\ AnsweredWith(L, r)
  /\ wpc[w] \in {"busy", "stopping"} /\ wpc' = [wpc EXCEPT ![w] = p]
  /\ r = "lost" => p = "dead"
  /\ ~healthy[w] => p = "dead"
  /\ UNCHANGED <<clientPc, loc, healthy>>

LEMMA AnsweredCalls ==
  ASSUME PredictorSafe, NEW w \in Predictor!Workers, NEW p \in {"idle", "dead"}, NEW L,
         NEW r \in {"ok", "err", "lost"}, Answered(w, p, L, r)
  PROVE  /\ CallTypes' /\ CallsOk'
         /\ Waiters(w, clientPc, loc, answer') = Waiters(w, clientPc, loc, answer) \ L
         /\ \A u \in Predictor!Workers \ {w} :
              Waiters(u, clientPc, loc, answer') = Waiters(u, clientPc, loc, answer)
<1> USE DEF Answered
<1>1. L \subseteq Clients /\ \A c \in L : clientPc[c] = "await" /\ loc[c].target = w
  BY DEF Waiters
<1>2. wpc'[w] = p /\ \A u \in Predictor!Workers \ {w} : wpc'[u] = wpc[u]
  BY DEF PredictorSafe, WorkTypes
<1>3. CallTypes'
  BY <1>1 DEF PredictorSafe, CallTypes, Answers, AnsweredWith
<1>4. \A c \in Clients : answer'[c] = IF c \in L THEN r ELSE answer[c]
  BY DEF AnsweredWith
<1>5. ASSUME NEW c \in Clients PROVE CallOk(clientPc[c], loc[c], answer'[c], healthy, wpc')
  <2>1. CallOk(clientPc[c], loc[c], answer[c], healthy, wpc)
    BY CallFacts
  <2>2. \A u \in Predictor!Workers : wpc[u] = "dead" => wpc'[u] = "dead"
    BY <1>2
  <2>3. CASE c \in L
    <3>1. clientPc[c] = "await" /\ loc[c].target = w /\ answer'[c] = r
      BY <1>1, <1>4, <2>3
    <3> QED  BY <1>2, <2>1, <3>1 DEF CallOk, Selected
  <2>4. CASE c \notin L
    BY <1>4, <2>1, <2>2, <2>4 DEF CallOk, Selected
  <2> QED  BY <2>3, <2>4
<1>6. \A u \in Predictor!Workers : ~healthy[u] => wpc'[u] \in {"stopping", "dead"}
  BY <1>2 DEF PredictorSafe, CallsOk
<1>7. Waiters(w, clientPc, loc, answer') = Waiters(w, clientPc, loc, answer) \ L
  BY <1>1, <1>4 DEF Waiters
<1>8. \A u \in Predictor!Workers \ {w} :
        Waiters(u, clientPc, loc, answer') = Waiters(u, clientPc, loc, answer)
  BY <1>1, <1>4 DEF Waiters
<1> QED  BY <1>3, <1>5, <1>6, <1>7, <1>8 DEF CallsOk

\* A worker is done with its request, and with its channel when it dies.
LEMMA AnswerKeeps ==
  ASSUME Predictor!PredictorAssumption, PredictorSafe, NEW w \in Predictor!Workers,
         NEW p \in {"idle", "dead"}, NEW q \in Seq(Predictor!Messages),
         NEW L, NEW r \in {"ok", "err", "lost"}, Answered(w, p, L, r),
         job' = [job EXCEPT ![w] = Predictor!NoJob], workQueue' = [workQueue EXCEPT ![w] = q],
         \/ p = "dead" /\ q = <<>>
         \/ p = "idle" /\ q = workQueue[w] /\ L = {job[w].from} \cap Clients /\ wpc[w] = "busy",
         UNCHANGED <<current, pending, installed, rules, bcast, predicts, balancing, gone, cut>>
  PROVE  PredictorSafe'
<1> DEFINE V == Waiters(w, clientPc, loc, answer)
           U == Waiters(w, clientPc, loc, answer')
<1>1. /\ CallTypes' /\ CallsOk' /\ U = V \ L
      /\ \A u \in Predictor!Workers \ {w} :
           Waiters(u, clientPc, loc, answer') = Waiters(u, clientPc, loc, answer)
  BY AnsweredCalls
<1>2. Predictor!NoJob \in Predictor!Messages /\ Predictor!NoJob.from \notin Clients
  BY PredictorConstants DEF Predictor!NoJob, Predictor!Request, Predictor!Messages
<1>3. /\ wpc'[w] = p /\ workQueue'[w] = q /\ job'[w] = Predictor!NoJob
      /\ \A u \in Predictor!Workers \ {w} :
           wpc'[u] = wpc[u] /\ workQueue'[u] = workQueue[u] /\ job'[u] = job[u]
      /\ WorkTypes'
  BY <1>2 DEF PredictorSafe, WorkTypes, Answered
<1>4. CountTypes'
  BY DEF PredictorSafe, CountTypes
<1>0. UNCHANGED <<clientPc, loc>>
  BY DEF Answered
<1>5. SendersWait'
  <2>1. JobOk(p, Predictor!NoJob.from, U)
    BY <1>2 DEF JobOk
  <2>2. QueueOk(q, Predictor!NoJob.from, U)
    <3>1. CASE q = <<>>
      BY <3>1 DEF QueueOk
    <3>2. CASE q = workQueue[w] /\ L = {job[w].from} \cap Clients
      <4>1. QueueOk(q, job[w].from, V)
        BY <3>2, WorkerFacts
      <4> HIDE DEF V, U
      <4> QED  BY <1>1, <1>2, <3>2, <4>1 DEF QueueOk
    <3> QED  BY <3>1, <3>2
  <2>3. ASSUME NEW u \in Predictor!Workers \ {w}
        PROVE  /\ JobOk(wpc'[u], job'[u].from, Waiters(u, clientPc, loc, answer'))
               /\ QueueOk(workQueue'[u], job'[u].from, Waiters(u, clientPc, loc, answer'))
    BY <1>1, <1>3, WorkerFacts
  <2>4. ASSUME NEW u \in Predictor!Workers
        PROVE  /\ JobOk(wpc'[u], job'[u].from, Waiters(u, clientPc, loc, answer'))
               /\ QueueOk(workQueue'[u], job'[u].from, Waiters(u, clientPc, loc, answer'))
    BY <1>3, <2>1, <2>2, <2>3
  <2> QED  BY <1>0, <2>4 DEF SendersWait
<1>6. SlotsCounted'
  <2>1. /\ pending[w] = gone[w] + Cardinality(Holders(w, clientPc, loc)) /\ gone[w] \in Nat
        /\ Cardinality(Requests(workQueue[w])) + Busy(wpc[w]) <= gone[w] + Cardinality(V)
        /\ workQueue[w] \in Seq(Predictor!Messages) /\ JobOk(wpc[w], job[w].from, V)
    BY WorkerFacts
  <2>2. IsFiniteSet(V) /\ Cardinality(V) \in Nat /\ Cardinality(U) \in Nat
        /\ Cardinality(Requests(workQueue[w])) \in Nat /\ Busy(p) = 0
    BY <2>1, CallSets, RequestsFinite DEF Busy
  <2>3. Cardinality(Requests(q)) <= gone[w] + Cardinality(U)
    <3>1. CASE q = <<>>
      <4>1. Requests(q) = {}
        BY <3>1 DEF Requests
      <4>2. Cardinality(Requests(q)) = 0
        BY <4>1, FS_EmptySet
      <4> HIDE DEF V, U
      <4> QED  BY <2>1, <2>2, <4>2
    <3>2. CASE q = workQueue[w] /\ L = {job[w].from} \cap Clients /\ wpc[w] = "busy"
      <4>1. Busy(wpc[w]) = 1
        BY <3>2 DEF Busy
      <4>2. Cardinality(U) >= Cardinality(V) - 1
        <5>1. CASE job[w].from \in Clients
          <6>1. job[w].from \in V /\ L = {job[w].from}
            BY <2>1, <3>2, <5>1 DEF JobOk
          <6> HIDE DEF V, U
          <6>2. Cardinality(V \ {job[w].from}) = Cardinality(V) - 1
            BY <2>2, <6>1, OneMore
          <6> QED  BY <1>1, <2>2, <6>1, <6>2
        <5>2. CASE job[w].from \notin Clients
          <6>1. L = {}
            BY <3>2, <5>2
          <6> HIDE DEF V, U
          <6>2. U = V
            BY <1>1, <6>1
          <6> QED  BY <2>2, <6>2
        <5> QED  BY <5>1, <5>2
      <4> HIDE DEF V, U
      <4> QED  BY <2>1, <2>2, <3>2, <4>1, <4>2
    <3> QED  BY <3>1, <3>2
  <2>4. ASSUME NEW u \in Predictor!Workers
        PROVE  /\ pending[u] = gone[u] + Cardinality(Holders(u, clientPc, loc))
               /\ Cardinality(Requests(workQueue'[u])) + Busy(wpc'[u])
                    <= gone[u] + Cardinality(Waiters(u, clientPc, loc, answer'))
    <3>1. CASE u = w
      <4>1. Cardinality(Requests(q)) \in Nat
        BY RequestsFinite
      <4>2. Cardinality(Requests(q)) + Busy(p) <= gone[w] + Cardinality(U)
        BY <2>2, <2>3, <4>1
      <4> QED  BY <1>3, <2>1, <3>1, <4>2
    <3>2. CASE u # w
      BY <1>1, <1>3, <3>2, WorkerFacts
    <3> QED  BY <3>1, <3>2
  <2> QED  BY <1>0, <2>4 DEF SlotsCounted
<1>7. RulesCarried'
  <2>1. ASSUME ~cut, NEW u \in Predictor!Workers
        PROVE  /\ wpc'[u] = "busy" => installed[u] = job'[u].version
               /\ CarriedOk(workQueue'[u], installed[u])
               /\ (wpc'[u] # "dead" /\ (bcast = 0 \/ u < bcast)
                     => InForce(workQueue'[u], installed[u]) = rules)
    <3>1. CASE u = w
      <4>1. /\ CarriedOk(workQueue[w], installed[w])
            /\ (bcast = 0 \/ w < bcast) => InForce(workQueue[w], installed[w]) = rules
        BY <2>1, WorkerFacts DEF Answered
      <4>2. CarriedOk(<<>>, installed[w])
        BY DEF CarriedOk, Requests
      <4>3. CarriedOk(q, installed[w])
        BY <4>1, <4>2
      <4>4. p # "dead" => q = workQueue[w]
        OBVIOUS
      <4>5. p # "dead" /\ (bcast = 0 \/ w < bcast) => InForce(q, installed[w]) = rules
        BY <4>1, <4>4
      <4> QED  BY <1>3, <3>1, <4>3, <4>5
    <3>2. CASE u # w
      BY <1>3, <2>1, <3>2, WorkerFacts
    <3> QED  BY <3>1, <3>2
  <2>2. bcast # 0 => \A c \in Clients : clientPc[c] = "ready"
    BY DEF PredictorSafe, RulesCarried
  <2> QED  BY <1>0, <2>1, <2>2 DEF RulesCarried, CarriedOk, InForce
<1> QED  BY <1>1, <1>3, <1>4, <1>5, <1>6, <1>7 DEF PredictorSafe

LEMMA AnswersKeep ==
  ASSUME Predictor!PredictorAssumption, PredictorSafe, NEW w \in Predictor!Workers,
         Predictor!Answer(w) \/ Predictor!WorkerDies(w)
  PROVE  PredictorSafe'
<1> DEFINE V == Waiters(w, clientPc, loc, answer)
<1>1. /\ JobOk(wpc[w], job[w].from, V) /\ QueueOk(workQueue[w], job[w].from, V)
      /\ workQueue[w] \in Seq(Predictor!Messages)
      /\ ~healthy[w] => wpc[w] \in {"stopping", "dead"}
  BY WorkerFacts
<1>2. V \subseteq Clients
  BY DEF Waiters
<1>3. CASE Predictor!Answer(w)
  <2> DEFINE L == {job[w].from} \cap Clients
  <2>1. PICK r \in {"ok", "err"} :
          answer' = [c \in Clients |-> IF c = job[w].from THEN r ELSE answer[c]]
    BY <1>3 DEF Predictor!Answer
  <2>2. /\ wpc[w] = "busy" /\ wpc' = [wpc EXCEPT ![w] = "idle"]
        /\ job' = [job EXCEPT ![w] = Predictor!NoJob] /\ workQueue' = workQueue
        /\ UNCHANGED <<clientPc, loc, current, healthy, pending, installed, rules, bcast, predicts,
                       balancing, gone, cut>>
    BY <1>3 DEF Predictor!Answer, Predictor!sideVars, Predictor!ruleVars
  <2>3. AnsweredWith(L, r)
    BY <2>1 DEF AnsweredWith
  <2>4. workQueue' = [workQueue EXCEPT ![w] = workQueue[w]]
    BY <2>2 DEF PredictorSafe, WorkTypes
  <2>5. L \in SUBSET V /\ ~(~healthy[w])
    BY <1>1, <2>2 DEF JobOk
  <2> HIDE DEF V
  <2>6. L = {job[w].from} \cap Clients
    OBVIOUS
  <2> HIDE DEF L
  <2>7. Answered(w, "idle", L, r)
    BY <2>2, <2>3, <2>5 DEF Answered, V
  <2> QED  BY <1>1, <2>2, <2>4, <2>6, <2>7, AnswerKeeps, ZenonT(60)
<1>4. CASE Predictor!WorkerDies(w)
  <2> DEFINE losers == {workQueue[w][i].from : i \in DOMAIN workQueue[w]} \cup {job[w].from}
             L == losers \cap Clients
  <2>1. /\ wpc[w] \in {"stopping", "busy"} /\ wpc' = [wpc EXCEPT ![w] = "dead"]
        /\ answer' = [c \in Clients |-> IF c \in losers THEN "lost" ELSE answer[c]]
        /\ job' = [job EXCEPT ![w] = Predictor!NoJob]
        /\ workQueue' = [workQueue EXCEPT ![w] = <<>>]
        /\ UNCHANGED <<clientPc, loc, current, healthy, pending, installed, rules, bcast, predicts,
                       balancing, gone, cut>>
    BY <1>4 DEF Predictor!WorkerDies, Predictor!sideVars, Predictor!ruleVars
  <2>2. L \in SUBSET V
    BY <1>1 DEF JobOk, QueueOk
  <2>3. AnsweredWith(L, "lost")
    BY <2>1 DEF AnsweredWith
  <2>4. <<>> \in Seq(Predictor!Messages)
    OBVIOUS
  <2> HIDE DEF V, L, losers
  <2>5. Answered(w, "dead", L, "lost")
    BY <2>1, <2>2, <2>3 DEF Answered, V
  <2> QED  BY <2>1, <2>4, <2>5, AnswerKeeps
<1> QED  BY <1>3, <1>4

\* What a dropped call leaves behind: its requests, with nobody to answer.
Orphan(m, c) == IF m.from = c THEN [m EXCEPT !.from = Predictor!NoOne] ELSE m
Orphans(q, c) == [i \in DOMAIN q |-> Orphan(q[i], c)]

LEMMA OrphanIs ==
  ASSUME Predictor!PredictorAssumption, NEW m \in Predictor!Messages, NEW c \in Clients
  PROVE  /\ Orphan(m, c) \in Predictor!Messages /\ Orphan(m, c).kind = m.kind
         /\ Orphan(m, c).version = m.version
         /\ Orphan(m, c).from = IF m.from = c THEN Predictor!NoOne ELSE m.from
         /\ Orphan(m, c).from \in Clients <=> m.from \in Clients /\ m.from # c
BY PredictorConstants DEF Orphan, Predictor!Messages

LEMMA OrphansAre ==
  ASSUME Predictor!PredictorAssumption, NEW q \in Seq(Predictor!Messages), NEW c \in Clients
  PROVE  /\ Orphans(q, c) \in Seq(Predictor!Messages) /\ Len(Orphans(q, c)) = Len(q)
         /\ DOMAIN Orphans(q, c) = DOMAIN q /\ Requests(Orphans(q, c)) = Requests(q)
         /\ \A v : (CarriedOk(q, v) => CarriedOk(Orphans(q, c), v))
                   /\ InForce(Orphans(q, c), v) = InForce(q, v)
         /\ \A f, V : QueueOk(q, f, V) => QueueOk(Orphans(q, c), f, V \ {c})
<1> DEFINE n == Len(q)
           r == Orphans(q, c)
<1>1. n \in Nat /\ DOMAIN q = 1..n /\ \A i \in 1..n : q[i] \in Predictor!Messages
  OBVIOUS
<1>2. \A i \in 1..n : /\ Orphan(q[i], c) \in Predictor!Messages /\ Orphan(q[i], c).kind = q[i].kind
                      /\ Orphan(q[i], c).version = q[i].version
                      /\ Orphan(q[i], c).from \in Clients <=> q[i].from \in Clients /\ q[i].from # c
                      /\ Orphan(q[i], c).from = IF q[i].from = c THEN Predictor!NoOne ELSE q[i].from
  BY <1>1, OrphanIs
<1>3. r \in [1..n -> Predictor!Messages]
  BY <1>1, <1>2 DEF Orphans
<1>4. r \in Seq(Predictor!Messages) /\ Len(r) = n /\ DOMAIN r = 1..n
  BY <1>1, <1>3
<1>5. \A i \in 1..n : /\ r[i].kind = q[i].kind /\ r[i].version = q[i].version
                      /\ r[i].from \in Clients <=> q[i].from \in Clients /\ q[i].from # c
                      /\ r[i].from = IF q[i].from = c THEN Predictor!NoOne ELSE q[i].from
  BY <1>1, <1>2 DEF Orphans
<1> HIDE DEF r
<1>6. Requests(r) = Requests(q) /\ Requests(q) \subseteq 1..n
  BY <1>1, <1>4, <1>5 DEF Requests
<1>7. ASSUME NEW i \in 1..(n + 1), NEW v PROVE Before(r, i, v) = Before(q, i, v)
  <2>1. i # 1 => i - 1 \in 1..n
    BY <1>1
  <2> QED  BY <1>5, <2>1 DEF Before
<1>8. \A v : (CarriedOk(q, v) => CarriedOk(r, v)) /\ InForce(r, v) = InForce(q, v)
  <2>1. n + 1 \in 1..(n + 1) /\ 1..n \subseteq 1..(n + 1)
    BY <1>1
  <2> QED  BY <1>4, <1>5, <1>6, <1>7, <2>1 DEF CarriedOk, InForce
<1>9. ASSUME NEW f, NEW V, QueueOk(q, f, V) PROVE QueueOk(r, f, V \ {c})
  BY <1>1, <1>4, <1>5, <1>9 DEF QueueOk
<1> QED  BY <1>1, <1>4, <1>6, <1>8, <1>9 DEF r

LEMMA CancelKeeps ==
  ASSUME Predictor!PredictorAssumption, PredictorSafe, NEW c \in Clients, Predictor!Cancel(c)
  PROVE  PredictorSafe'
<1> DEFINE t == loc[c].target
           held == clientPc[c] \in Predictor!CountedPcs
<1>1. /\ clientPc[c] # "ready" /\ Predictor!Leave(c)
      /\ gone' = IF held THEN [gone EXCEPT ![t] = gone[t] + 1] ELSE gone
      /\ UNCHANGED <<balancing, cut, current, healthy, pending, wpc, installed, rules, bcast, predicts>>
  BY DEF Predictor!Cancel, Predictor!Target, Predictor!ruleVars
<1>2. /\ workQueue' = [w \in Predictor!Workers |-> Orphans(workQueue[w], c)]
      /\ job' = [w \in Predictor!Workers |-> Orphan(job[w], c)]
  BY DEF Predictor!Cancel, Orphans, Orphan
<1>3. Moves(c) /\ CallOk(clientPc'[c], loc'[c], answer'[c], healthy, wpc) /\ clientPc'[c] = "ready"
  BY <1>1, LeaveMoves DEF PredictorSafe
<1>4. /\ \A d \in Clients \ {c} :
           clientPc'[d] = clientPc[d] /\ loc'[d] = loc[d] /\ answer'[d] = answer[d]
      /\ CallTypes'
  BY <1>3 DEF Moves
<1>5. held => t \in Predictor!Workers
  BY CallFacts DEF CallOk, Selected, Predictor!CountedPcs
<1>6. ASSUME NEW w \in Predictor!Workers
      PROVE  /\ workQueue'[w] = Orphans(workQueue[w], c) /\ job'[w] = Orphan(job[w], c)
             /\ workQueue[w] \in Seq(Predictor!Messages) /\ job[w] \in Predictor!Messages
  BY <1>2, WorkerFacts
<1>7. WorkTypes'
  <2>1. /\ workQueue' \in [Predictor!Workers -> Seq(Predictor!Messages)]
        /\ job' \in [Predictor!Workers -> Predictor!Messages]
    BY <1>2, <1>6, OrphanIs, OrphansAre
  <2> QED  BY <1>1, <2>1 DEF PredictorSafe, WorkTypes
<1>8. CountTypes'
  BY <1>1, <1>5 DEF PredictorSafe, CountTypes
<1>9. CallsOk'
  <2>1. ASSUME NEW d \in Clients PROVE CallOk(clientPc'[d], loc'[d], answer'[d], healthy, wpc)
    BY <1>3, <1>4, CallFacts
  <2> QED  BY <1>1, <2>1 DEF PredictorSafe, CallsOk
<1>10. ASSUME NEW w \in Predictor!Workers
       PROVE  /\ Waiters(w, clientPc', loc', answer') = Waiters(w, clientPc, loc, answer) \ {c}
              /\ Holders(w, clientPc', loc') = Holders(w, clientPc, loc) \ {c}
  BY <1>3, <1>4 DEF Waiters, Holders, Predictor!CountedPcs
<1>11. SendersWait'
  <2>1. ASSUME NEW w \in Predictor!Workers
        PROVE  /\ JobOk(wpc[w], job'[w].from, Waiters(w, clientPc', loc', answer'))
               /\ QueueOk(workQueue'[w], job'[w].from, Waiters(w, clientPc', loc', answer'))
    <3> DEFINE V == Waiters(w, clientPc, loc, answer)
    <3>1. JobOk(wpc[w], job[w].from, V) /\ QueueOk(workQueue[w], job[w].from, V)
      BY WorkerFacts
    <3>2. /\ job'[w].from \in Clients <=> job[w].from \in Clients /\ job[w].from # c
          /\ job'[w].from = IF job[w].from = c THEN Predictor!NoOne ELSE job[w].from
      BY <1>6, OrphanIs
    <3> HIDE DEF V
    <3>3. JobOk(wpc[w], job'[w].from, V \ {c})
      BY <3>1, <3>2 DEF JobOk
    <3>4. QueueOk(Orphans(workQueue[w], c), job[w].from, V \ {c})
      BY <1>6, <3>1, OrphansAre
    <3>5. QueueOk(Orphans(workQueue[w], c), job'[w].from, V \ {c})
      <4>1. Predictor!NoOne \notin Clients
        BY PredictorConstants
      <4> QED  BY <3>2, <3>4, <4>1 DEF QueueOk
    <3> QED  BY <1>6, <1>10, <3>3, <3>5 DEF V
  <2> QED  BY <1>1, <2>1 DEF SendersWait
<1>12. SlotsCounted'
  <2>1. ASSUME NEW w \in Predictor!Workers
        PROVE  /\ pending[w] = gone'[w] + Cardinality(Holders(w, clientPc', loc'))
               /\ Cardinality(Requests(workQueue'[w])) + Busy(wpc[w])
                    <= gone'[w] + Cardinality(Waiters(w, clientPc', loc', answer'))
    <3> DEFINE V == Waiters(w, clientPc, loc, answer)
               H == Holders(w, clientPc, loc)
    <3>1. /\ pending[w] = gone[w] + Cardinality(H) /\ gone[w] \in Nat
          /\ Cardinality(Requests(workQueue[w])) + Busy(wpc[w]) <= gone[w] + Cardinality(V)
      BY WorkerFacts
    <3>2. /\ IsFiniteSet(V) /\ Cardinality(V) \in Nat /\ IsFiniteSet(H) /\ Cardinality(H) \in Nat
          /\ Cardinality(Requests(workQueue[w])) \in Nat /\ Busy(wpc[w]) \in Nat
      BY <1>6, CallSets, RequestsFinite DEF Busy
    <3>3. Requests(workQueue'[w]) = Requests(workQueue[w])
      BY <1>6, OrphansAre
    <3>4. gone'[w] = IF held /\ t = w THEN gone[w] + 1 ELSE gone[w]
      BY <1>1 DEF PredictorSafe, CountTypes
    <3>5. /\ c \in H <=> held /\ t = w
          /\ c \in V => c \in H
      BY DEF Holders, Waiters, Predictor!CountedPcs
    <3> HIDE DEF V, H, held, t
    <3>6. CASE held /\ t = w
      <4>1. Cardinality(H \ {c}) = Cardinality(H) - 1
        BY <3>2, <3>5, <3>6, OneMore
      <4>2. Cardinality(V \ {c}) >= Cardinality(V) - 1 /\ Cardinality(V \ {c}) \in Nat
        <5>1. c \in V => Cardinality(V \ {c}) = Cardinality(V) - 1 /\ Cardinality(V) > 0
          BY <3>2, OneMore
        <5>2. c \notin V => V \ {c} = V
          OBVIOUS
        <5> QED  BY <3>2, <5>1, <5>2
      <4>3. gone'[w] = gone[w] + 1
        BY <3>4, <3>6
      <4>4. pending[w] = gone'[w] + Cardinality(H \ {c})
        BY <3>1, <3>2, <4>1, <4>3
      <4>5. Cardinality(Requests(workQueue[w])) + Busy(wpc[w]) <= gone'[w] + Cardinality(V \ {c})
        BY <3>1, <3>2, <4>2, <4>3
      <4> QED  BY <1>10, <3>3, <4>4, <4>5 DEF V, H
    <3>7. CASE ~(held /\ t = w)
      <4>1. V \ {c} = V /\ H \ {c} = H /\ gone'[w] = gone[w]
        BY <3>4, <3>5, <3>7
      <4>2. pending[w] = gone'[w] + Cardinality(H \ {c})
        BY <3>1, <4>1
      <4>3. Cardinality(Requests(workQueue[w])) + Busy(wpc[w]) <= gone'[w] + Cardinality(V \ {c})
        BY <3>1, <4>1
      <4> QED  BY <1>10, <3>3, <4>2, <4>3 DEF V, H
    <3> QED  BY <3>6, <3>7
  <2> QED  BY <1>1, <2>1 DEF SlotsCounted
<1>13. RulesCarried'
  <2>1. ASSUME ~cut, NEW w \in Predictor!Workers
        PROVE  /\ wpc[w] = "busy" => installed[w] = job'[w].version
               /\ CarriedOk(workQueue'[w], installed[w])
               /\ (wpc[w] # "dead" /\ (bcast = 0 \/ w < bcast)
                     => InForce(workQueue'[w], installed[w]) = rules)
    BY <1>6, <2>1, WorkerFacts, OrphanIs, OrphansAre
  <2>2. bcast = 0
    BY <1>1 DEF PredictorSafe, RulesCarried
  <2> QED  BY <1>1, <2>1, <2>2 DEF RulesCarried, CarriedOk, InForce
<1> QED  BY <1>4, <1>7, <1>8, <1>9, <1>11, <1>12, <1>13 DEF PredictorSafe

-----------------------------------------------------------------------------
\* A step of a broadcast leaves the calls, the counts and the tasks alone; it may find a dead
\* worker, and it moves at most one worker further.
BroadcastStill ==
  /\ UNCHANGED <<clientPc, loc, answer, current, pending, wpc, job, installed, predicts,
                 balancing, gone>>
  /\ bcast' \in 0..NumWorkers
  /\ bcast' # 0 => \A c \in Clients : clientPc[c] = "ready"

LEMMA BroadcastKeeps ==
  ASSUME Predictor!PredictorAssumption, PredictorSafe, BroadcastStill,
         rules' \in 0..MaxUpdates, cut' \in BOOLEAN,
         healthy' \in [Predictor!Workers -> BOOLEAN],
         \A w \in Predictor!Workers : healthy'[w] \/ ~healthy[w] \/ wpc[w] = "dead",
         \A w \in Predictor!Workers : healthy'[w] => healthy[w],
         workQueue' \in [Predictor!Workers -> Seq(Predictor!Messages)],
         \A w \in Predictor!Workers :
           QueueOk(workQueue'[w], job[w].from, Waiters(w, clientPc, loc, answer)),
         \A w \in Predictor!Workers :
           Cardinality(Requests(workQueue'[w])) = Cardinality(Requests(workQueue[w])),
         cut' \/ \A w \in Predictor!Workers :
           /\ wpc[w] = "busy" => installed[w] = job[w].version
           /\ CarriedOk(workQueue'[w], installed[w])
           /\ wpc[w] # "dead" /\ (bcast' = 0 \/ w < bcast')
                => InForce(workQueue'[w], installed[w]) = rules'
  PROVE  PredictorSafe'
<1>1. CountTypes' /\ WorkTypes'
  BY DEF PredictorSafe, CountTypes, WorkTypes, BroadcastStill
<1>2. CallTypes' /\ CallsOk'
  <2>1. \A w \in Predictor!Workers : ~healthy'[w] => wpc[w] \in {"stopping", "dead"}
    BY WorkerFacts
  <2> QED  BY <2>1, CallsAloneKeep DEF BroadcastStill
<1>3. SendersWait'
  <2>1. \A w \in Predictor!Workers : JobOk(wpc[w], job[w].from, Waiters(w, clientPc, loc, answer))
    BY WorkerFacts
  <2> QED  BY <2>1 DEF SendersWait, BroadcastStill
<1>4. SlotsCounted'
  BY DEF PredictorSafe, SlotsCounted, BroadcastStill
<1>5. RulesCarried'
  BY DEF RulesCarried, CarriedOk, InForce, BroadcastStill
<1> QED  BY <1>1, <1>2, <1>3, <1>4, <1>5 DEF PredictorSafe

LEMMA BeginBroadcastKeeps ==
  ASSUME Predictor!PredictorAssumption, PredictorSafe,
         Predictor!BeginBroadcast \/ Predictor!CancelBroadcast
  PROVE  PredictorSafe'
<1>1. /\ UNCHANGED <<clientPc, loc, answer, current, healthy, pending, workQueue, wpc, job,
                     installed, predicts, balancing, gone>>
      /\ bcast' \in 0..NumWorkers /\ cut' \in BOOLEAN /\ rules' \in 0..MaxUpdates
  <2>1. /\ NumWorkers \in Nat /\ MaxUpdates \in Nat
        /\ rules \in 0..MaxUpdates /\ cut \in BOOLEAN /\ bcast \in 0..NumWorkers
    BY PredictorConstants DEF PredictorSafe, CountTypes
  <2>2. CASE Predictor!BeginBroadcast
    BY <2>1, <2>2 DEF Predictor!BeginBroadcast, Predictor!callVars, Predictor!workerVars,
       Predictor!sideVars
  <2>3. CASE Predictor!CancelBroadcast
    BY <2>1, <2>3 DEF Predictor!CancelBroadcast, Predictor!callVars, Predictor!workerVars
  <2> QED  BY <2>2, <2>3
<1>2. BroadcastStill
  BY <1>1 DEF BroadcastStill, Predictor!BeginBroadcast, Predictor!CancelBroadcast
<1>3. cut' \/ (cut' = cut /\ (bcast' = 1 \/ Predictor!Workers = {}))
  <2>1. NumWorkers = 0 => Predictor!Workers = {}
    BY PredictorConstants
  <2> QED
    BY <2>1 DEF Predictor!BeginBroadcast, Predictor!CancelBroadcast, Predictor!sideVars
<1>4. cut' \/ \A w \in Predictor!Workers :
        /\ wpc[w] = "busy" => installed[w] = job[w].version
        /\ CarriedOk(workQueue'[w], installed[w])
        /\ ~(bcast' = 0 \/ w < bcast')
  <2>1. \A w \in Predictor!Workers : ~(w < 1)
    BY PredictorConstants
  <2> QED  BY <1>1, <1>3, <2>1, WorkerFacts
<1>5. healthy' \in [Predictor!Workers -> BOOLEAN]
  BY <1>1 DEF PredictorSafe, WorkTypes
<1>6. workQueue' \in [Predictor!Workers -> Seq(Predictor!Messages)]
  BY <1>1 DEF PredictorSafe, WorkTypes
<1>7. \A w \in Predictor!Workers : healthy'[w] \/ ~healthy[w] \/ wpc[w] = "dead"
  BY <1>1
<1>8. \A w \in Predictor!Workers :
        QueueOk(workQueue'[w], job[w].from, Waiters(w, clientPc, loc, answer))
  BY <1>1, WorkerFacts
<1> QED  BY <1>1, <1>2, <1>4, <1>5, <1>6, <1>7, <1>8, BroadcastKeeps

LEMMA BroadcastingKeeps ==
  ASSUME Predictor!PredictorAssumption, PredictorSafe, Predictor!Broadcast
  PROVE  PredictorSafe'
<1> DEFINE b == bcast
           m == Predictor!Control(rules)
<1>1. /\ b \in Predictor!Workers /\ bcast' = IF b = NumWorkers THEN 0 ELSE b + 1
      /\ \/ /\ wpc[b] # "dead" /\ healthy' = healthy
            /\ workQueue' = [workQueue EXCEPT ![b] = Append(workQueue[b], m)]
         \/ /\ wpc[b] = "dead" /\ workQueue' = workQueue
            /\ healthy' = [healthy EXCEPT ![b] = FALSE]
      /\ UNCHANGED <<clientPc, loc, answer, current, pending, wpc, job, installed, predicts,
                     balancing, gone, rules, cut>>
  BY DEF Predictor!Broadcast, Predictor!BroadcastSend, Predictor!BroadcastFails,
     Predictor!NextWorker, Predictor!callVars, Predictor!workerVars, Predictor!sideVars
<1>2. /\ NumWorkers \in Nat /\ Predictor!Workers = 1..NumWorkers
      /\ healthy \in [Predictor!Workers -> BOOLEAN]
      /\ workQueue \in [Predictor!Workers -> Seq(Predictor!Messages)]
      /\ rules \in 0..MaxUpdates /\ cut \in BOOLEAN
  BY PredictorConstants DEF PredictorSafe, WorkTypes, CountTypes
<1>3. /\ m \in Predictor!Messages /\ m.kind # "Predict" /\ m.from \notin Clients
      /\ m.from = Predictor!NoOne /\ m.version = rules
  BY <1>2, PredictorConstants DEF Predictor!Control, Predictor!Messages
<1> HIDE DEF m, b
<1>4. BroadcastStill
  <2>1. bcast' \in 0..NumWorkers
    BY <1>1, <1>2
  <2>2. \A c \in Clients : clientPc[c] = "ready"
    <3>1. b # 0
      BY <1>1, <1>2
    <3> QED  BY <3>1 DEF PredictorSafe, RulesCarried, b
  <2> QED  BY <1>1, <2>1, <2>2 DEF BroadcastStill
<1>5. /\ healthy' \in [Predictor!Workers -> BOOLEAN]
      /\ \A w \in Predictor!Workers : healthy'[w] => healthy[w]
      /\ \A w \in Predictor!Workers : healthy'[w] \/ ~healthy[w] \/ wpc[w] = "dead"
  BY <1>1, <1>2
<1>6. Append(workQueue[b], m) \in Seq(Predictor!Messages)
  BY <1>1, <1>2, <1>3
<1>7. workQueue' \in [Predictor!Workers -> Seq(Predictor!Messages)]
  BY <1>1, <1>2, <1>6
<1>8. ASSUME NEW w \in Predictor!Workers
      PROVE  \/ workQueue'[w] = workQueue[w] /\ (w = b => wpc[w] = "dead")
             \/ w = b /\ workQueue'[w] = Append(workQueue[w], m)
  BY <1>1, <1>2
<1>9. ASSUME NEW w \in Predictor!Workers
      PROVE  /\ QueueOk(workQueue'[w], job[w].from, Waiters(w, clientPc, loc, answer))
             /\ Cardinality(Requests(workQueue'[w])) = Cardinality(Requests(workQueue[w]))
  <2> DEFINE V == Waiters(w, clientPc, loc, answer)
             q == workQueue[w]
  <2>1. QueueOk(q, job[w].from, V) /\ q \in Seq(Predictor!Messages)
    BY WorkerFacts
  <2> HIDE DEF V, q
  <2>2. CASE workQueue'[w] = q
    BY <2>1, <2>2 DEF V, q
  <2>3. CASE workQueue'[w] = Append(q, m)
    <3>1. QueueOk(Append(q, m), job[w].from, V \cup {m.from})
      BY <1>3, <2>1, QueueSends
    <3>2. QueueOk(Append(q, m), job[w].from, V)
      BY <1>3, <3>1, QueueWaiters
    <3>3. Cardinality(Requests(Append(q, m))) = Cardinality(Requests(q))
      <4>1. Cardinality(Requests(Append(q, m))) = Cardinality(Requests(q)) + 0
        BY <1>3, <2>1, RequestsAppend
      <4>2. Cardinality(Requests(q)) \in Nat
        BY <2>1, RequestsFinite
      <4> QED  BY <4>1, <4>2
    <3> QED  BY <2>3, <3>2, <3>3 DEF V, q
  <2> QED  BY <1>8, <2>2, <2>3 DEF q
<1>10. ASSUME ~cut, NEW w \in Predictor!Workers
       PROVE  /\ wpc[w] = "busy" => installed[w] = job[w].version
              /\ CarriedOk(workQueue'[w], installed[w])
              /\ wpc[w] # "dead" /\ (bcast' = 0 \/ w < bcast')
                   => InForce(workQueue'[w], installed[w]) = rules
  <2>1. /\ wpc[w] = "busy" => installed[w] = job[w].version
        /\ CarriedOk(workQueue[w], installed[w])
        /\ wpc[w] # "dead" /\ w < b => InForce(workQueue[w], installed[w]) = rules
        /\ workQueue[w] \in Seq(Predictor!Messages)
    BY <1>10, WorkerFacts DEF b
  <2>2. (bcast' = 0 \/ w < bcast') => w = b \/ w < b
    BY <1>1, <1>2
  <2>3. CASE workQueue'[w] = workQueue[w] /\ (w = b => wpc[w] = "dead")
    BY <2>1, <2>2, <2>3
  <2>4. CASE workQueue'[w] = Append(workQueue[w], m)
    BY <1>3, <2>1, <2>4, CarriedAppend
  <2> QED  BY <1>8, <2>1, <2>3, <2>4
<1> QED  BY <1>1, <1>2, <1>4, <1>5, <1>7, <1>9, <1>10, BroadcastKeeps

LEMMA PredictorStep ==
  ASSUME Predictor!PredictorAssumption, PredictorSafe, [Predictor!Next]_predictorVars
  PROVE  PredictorSafe'
<1>1. CASE UNCHANGED predictorVars
  <2>1. /\ CallTypes' /\ WorkTypes' /\ CountTypes'
    BY <1>1 DEF predictorVars, PredictorSafe, CallTypes, WorkTypes, CountTypes
  <2>2. /\ CallsOk' /\ SendersWait' /\ SlotsCounted' /\ RulesCarried'
    BY <1>1 DEF predictorVars, PredictorSafe, CallsOk, SendersWait, SlotsCounted, RulesCarried
  <2> QED  BY <2>1, <2>2 DEF PredictorSafe
<1>2. CASE Predictor!Finished
  <2>1. UNCHANGED predictorVars
    BY <1>2 DEF Predictor!Finished, Predictor!vars, predictorVars, Predictor!callVars,
       Predictor!workerVars, Predictor!ruleVars, Predictor!sideVars
  <2> QED  BY <1>1, <2>1
<1>3. CASE \E c \in Clients : Predictor!Begin(c) \/ Predictor!Predict(c) \/ Predictor!Cancel(c)
  BY <1>3, CallKeeps, CancelKeeps
<1>4. CASE \E w \in Predictor!Workers : Predictor!Work(w) \/ Predictor!Fail(w)
  BY <1>4, WorkerStarting, TakeKeeps, AnswersKeep DEF Predictor!Work, Predictor!Fail
<1>5. CASE Predictor!BeginBroadcast \/ Predictor!Broadcast \/ Predictor!CancelBroadcast
  BY <1>5, BeginBroadcastKeeps, BroadcastingKeeps
<1> QED  BY <1>1, <1>2, <1>3, <1>4, <1>5 DEF Predictor!Next

LEMMA PredictorInitial ==
  ASSUME Predictor!PredictorAssumption, Predictor!Init PROVE PredictorSafe
<1>1. /\ NumWorkers \in Nat /\ MaxUpdates \in Nat /\ MaxPredicts \in Nat
      /\ CounterSpan \in Nat \ {0} /\ Predictor!NoOne \notin Clients
  BY PredictorConstants
<1>2. CallTypes
  BY NoLocalsOk DEF Predictor!Init, CallTypes, Predictor!CallerPcs, Answers
<1>3. WorkTypes
  <2>1. Predictor!NoJob \in Predictor!Messages
    BY <1>1 DEF Predictor!NoJob, Predictor!Request, Predictor!Messages
  <2>2. 0 \in 0..MaxUpdates /\ <<>> \in Seq(Predictor!Messages)
    BY <1>1
  <2> QED  BY <2>1, <2>2 DEF Predictor!Init, WorkTypes
<1>4. CountTypes
  <2>1. /\ 0 \in 0..(CounterSpan - 1) /\ 0 \in 0..MaxPredicts /\ 0 \in 0..MaxUpdates
        /\ 0 \in 0..NumWorkers
    BY <1>1
  <2>2. /\ [w \in Predictor!Workers |-> 0] \in [Predictor!Workers -> Nat]
        /\ FALSE \in BOOLEAN
    OBVIOUS
  <2>3. /\ current = 0 /\ predicts = 0 /\ rules = 0 /\ bcast = 0 /\ cut = FALSE
        /\ balancing \in Balancing /\ pending = [w \in Predictor!Workers |-> 0]
        /\ gone = [w \in Predictor!Workers |-> 0]
    BY DEF Predictor!Init
  <2> QED  BY <2>1, <2>2, <2>3, Zenon DEF CountTypes
<1>5. CallsOk
  <2>1. ASSUME NEW c \in Clients
        PROVE  CallOk("ready", Predictor!NoLocals, "none", healthy, wpc)
    BY NoLocalsOk DEF CallOk, Selected
  <2>2. \A c \in Clients : clientPc[c] = "ready" /\ loc[c] = Predictor!NoLocals
                           /\ answer[c] = "none"
    BY DEF Predictor!Init
  <2>3. \A w \in Predictor!Workers : healthy[w]
    BY DEF Predictor!Init
  <2> QED  BY <2>1, <2>2, <2>3 DEF CallsOk
<1>6. ASSUME NEW w \in Predictor!Workers
      PROVE  /\ workQueue[w] = <<>> /\ DOMAIN workQueue[w] = {} /\ wpc[w] = "starting"
             /\ job[w].from = Predictor!NoOne /\ pending[w] = 0 /\ gone[w] = 0 /\ installed[w] = 0
             /\ Requests(workQueue[w]) = {} /\ Holders(w, clientPc, loc) = {}
             /\ Waiters(w, clientPc, loc, answer) = {}
  <2>1. workQueue[w] = <<>> /\ job[w] = Predictor!NoJob
    BY DEF Predictor!Init
  <2>2. DOMAIN workQueue[w] = {}
    BY <2>1
  <2> QED
    BY <2>1, <2>2 DEF Predictor!Init, Predictor!NoJob, Predictor!Request, Requests, Holders,
       Waiters, Predictor!CountedPcs
<1>7. SendersWait
  <2>1. \A w \in Predictor!Workers : JobOk(wpc[w], job[w].from, Waiters(w, clientPc, loc, answer))
    BY <1>1, <1>6 DEF JobOk
  <2>2. \A w \in Predictor!Workers :
          QueueOk(workQueue[w], job[w].from, Waiters(w, clientPc, loc, answer))
    BY <1>6 DEF QueueOk
  <2> QED  BY <2>1, <2>2 DEF SendersWait
<1>8. SlotsCounted
  <2>1. Cardinality({}) = 0
    BY FS_EmptySet
  <2>2. ASSUME NEW w \in Predictor!Workers
        PROVE  /\ pending[w] = gone[w] + Cardinality(Holders(w, clientPc, loc))
               /\ Cardinality(Requests(workQueue[w])) + Busy(wpc[w])
                    <= gone[w] + Cardinality(Waiters(w, clientPc, loc, answer))
    <3>1. Busy(wpc[w]) = 0
      BY <1>6 DEF Busy
    <3>2. /\ Cardinality(Holders(w, clientPc, loc)) = 0 /\ Cardinality(Requests(workQueue[w])) = 0
          /\ Cardinality(Waiters(w, clientPc, loc, answer)) = 0
      BY <1>6, <2>1
    <3> QED  BY <1>6, <3>1, <3>2
  <2> QED  BY <2>2 DEF SlotsCounted
<1>9. RulesCarried
  <2>1. ASSUME NEW w \in Predictor!Workers PROVE Before(workQueue[w], Len(workQueue[w]) + 1, 0) = 0
    BY <1>6 DEF Before
  <2> QED  BY <1>6, <2>1 DEF RulesCarried, Predictor!Init
<1> QED  BY <1>2, <1>3, <1>4, <1>5, <1>7, <1>8, <1>9 DEF PredictorSafe

LEMMA PredictorImplies ==
  ASSUME Predictor!PredictorAssumption, PredictorSafe
  PROVE  Predictor!SlotsInv /\ Predictor!DeadNotRetried /\ Predictor!ServedUnderSet
<1>1. Predictor!TypeOK
  <2>1. Locals = [attempts : Nat, view : Seq(Predictor!Workers), at : Nat,
                  target : 0..NumWorkers, least : Nat, gone : SUBSET Predictor!Workers]
    BY DEF Locals
  <2> QED
    BY <2>1 DEF PredictorSafe, CallTypes, WorkTypes, CountTypes, Predictor!TypeOK, Answers
<1>2. \A s : Predictor!Cardinality(s) = Cardinality(s)
  BY DEF Predictor!Cardinality, Cardinality, Predictor!IsFiniteSet, IsFiniteSet
<1>3. Predictor!PendingExact
  <2>1. ASSUME NEW w \in Predictor!Workers
        PROVE  {c \in Clients : clientPc[c] \in Predictor!CountedPcs /\ Predictor!Target(c) = w}
                 = Holders(w, clientPc, loc)
    BY DEF Holders, Predictor!Target
  <2> QED  BY <1>2, <2>1, WorkerFacts DEF Predictor!PendingExact
<1>4. Predictor!NeverUndercounts
  <2>1. ASSUME NEW w \in Predictor!Workers PROVE Predictor!InFlight(w) <= pending[w]
    <3>1. /\ pending[w] = gone[w] + Cardinality(Holders(w, clientPc, loc)) /\ gone[w] \in Nat
          /\ Cardinality(Requests(workQueue[w])) + Busy(wpc[w])
               <= gone[w] + Cardinality(Waiters(w, clientPc, loc, answer))
          /\ Cardinality(Requests(workQueue[w])) \in Nat /\ Busy(wpc[w]) \in Nat
      BY WorkerFacts, RequestsFinite DEF Busy
    <3>2. /\ Cardinality(Waiters(w, clientPc, loc, answer)) <= Cardinality(Holders(w, clientPc, loc))
          /\ Cardinality(Waiters(w, clientPc, loc, answer)) \in Nat
          /\ Cardinality(Holders(w, clientPc, loc)) \in Nat
      BY WaitersHold, CallSets
    <3>3. Predictor!InFlight(w) = Cardinality(Requests(workQueue[w])) + Busy(wpc[w])
      BY <1>2 DEF Predictor!InFlight, Requests, Busy
    <3> QED  BY <3>1, <3>2, <3>3
  <2> QED  BY <2>1 DEF Predictor!NeverUndercounts
<1>5. Predictor!DeadNotRetried
  <2>1. \A c \in Clients : loc[c].target \notin loc[c].gone
    BY DEF PredictorSafe, CallsOk, CallOk
  <2> QED  BY <2>1 DEF PredictorSafe, CallsOk, Predictor!DeadNotRetried, Predictor!Target
<1>6. Predictor!ServedUnderSet
  BY DEF PredictorSafe, RulesCarried, Predictor!ServedUnderSet
<1> QED  BY <1>1, <1>3, <1>4, <1>5, <1>6 DEF Predictor!SlotsInv

LEMMA PredictorAlways == AllSpec => []PredictorSafe
<1>1. AllInit => PredictorSafe
  BY PredictorInitial, ServicesAssumption DEF AllInit
<1>2. PredictorSafe /\ [AllNext]_allVars => PredictorSafe'
  BY PartSteps, PredictorStep, ServicesAssumption
<1> QED
  BY <1>1, <1>2, PTL DEF AllSpec

\* The count of pending requests of a worker is exactly the slots held by calls under way and
\* by calls that were dropped, and never below the requests in its channel and at work: for
\* any number of callers and workers, any retries, and futures dropped at any await.
THEOREM SlotsExact == AllSpec => []SlotsInv
<1>1. PredictorSafe => SlotsInv
  BY PredictorImplies, ServicesAssumption DEF SlotsInv
<1> QED
  BY <1>1, PredictorAlways, PTL

\* A worker is unhealthy only if its task has ended or is ending, and a call never selects
\* again a worker that it found dead.
THEOREM DeadLeftAlone == AllSpec => []DeadNotRetried
<1>1. PredictorSafe => DeadNotRetried
  BY PredictorImplies, ServicesAssumption DEF DeadNotRetried
<1> QED
  BY <1>1, PredictorAlways, PTL

\* A worker runs each request under the guardrails the coordinator held when it was sent,
\* unless a broadcast was dropped half way: the order of one channel is enough for it.
THEOREM RulesServed == AllSpec => []ServedUnderSet
<1>1. PredictorSafe => ServedUnderSet
  BY PredictorImplies, ServicesAssumption DEF ServedUnderSet
<1> QED
  BY <1>1, PredictorAlways, PTL

-----------------------------------------------------------------------------
(* Trainer and its checkpoints *)

\* The record of a trainer that numbers its epochs alike: k of them were trained, those that
\* were validated are among them, at most the last of them is partial, and if so it was not
\* validated.
Numbered(m, k) ==
  /\ m.trained = 0..(k - 1)
  /\ m.validated \subseteq 0..(k - 1)
  /\ m.best # NoBest => m.best.epoch \in m.validated
  /\ m.improved <=> m.best # NoBest /\ m.best.epoch = k - 1
  /\ k = 0 => m.step = 0 /\ m.batches = 0
  /\ k > 0 => m.batches > 0 /\ m.step \div m.batches \in {k - 1, k}
  /\ k - 1 \in m.validated => m.step \div m.batches = k

RecordOk(m) ==
  /\ m \in Trainer!Metadata /\ IsFiniteSet(m.trained)
  /\ m.aligned => \E k \in Nat : Numbered(m, k)

TrainerTypes ==
  /\ weights \in 0..MaxTrained /\ optimizer \in 0..MaxTrained /\ trained \in 0..MaxTrained
  /\ RecordOk(metadata)
  /\ trainerPc \in {"idle", "fit", "save", "down"}
  /\ epoch \in 0..Epochs /\ batches \in BatchCounts \cup {1} /\ validate \in BOOLEAN
  /\ target \in Names /\ part \in 1..3
  /\ stop \in {"none", "stale", "improved"}
FileTypes ==
  /\ whole \in SUBSET Names /\ interrupted \in SUBSET Names
  /\ files \in [Names -> [weights : 0..MaxTrained \cup {NoFile, Torn},
                          optimizer : 0..MaxTrained \cup {NoFile, Torn},
                          metadata : Trainer!Metadata \cup {NoFile, Torn}]]
  /\ \A n \in Names : files[n].metadata \in {NoFile, Torn} \/ RecordOk(files[n].metadata)

\* A fit numbers its epochs from 0, as its trainer does when it has none yet.
FitNumbered ==
  trainerPc = "fit" =>
    /\ epoch < Epochs
    /\ metadata.aligned => /\ Numbered(metadata, epoch) /\ metadata.step = epoch * batches
                           /\ metadata.batches \in {0, batches}

\* Metadata is written last, and what is written before it makes the name count as cut.
WholeSet(f) ==
  /\ {f.weights, f.optimizer, f.metadata} \cap {NoFile, Torn} = {}
  /\ f.metadata.mixed \/ (f.weights = f.metadata.tag /\ f.optimizer = f.metadata.tag)
SavedWhole ==
  /\ \A n \in Names \ whole : files[n].metadata \in {NoFile, Torn}
  /\ \A n \in whole \ interrupted : WholeSet(files[n])
  /\ trainerPc = "save" =>
       /\ part > 1 => target \in interrupted /\ files[target].weights = weights
       /\ part > 2 => files[target].optimizer = optimizer
TrainerSafe ==
  /\ TrainerTypes /\ FileTypes /\ FitNumbered /\ SavedWhole
  /\ metadata.mixed \/ (weights = metadata.tag /\ optimizer = metadata.tag)
  /\ metadata.aligned => stop # "improved"

LEMMA Remainder ==
  ASSUME NEW s \in Nat, NEW n \in Nat \ {0}, NEW b \in 0..n
  PROVE  (s + b) \div n \in {s \div n, (s \div n) + 1}
<1>1. PICK q \in Nat, r \in 0..(n - 1) : s = n * q + r /\ s \div n = q
  <2>1. /\ s \div n \in Nat /\ s % n \in 0..(n - 1) /\ s = n * (s \div n) + (s % n)
    OBVIOUS
  <2> QED  BY <2>1
<1>2. CASE r + b < n
  <2>1. s + b = n * q + (r + b)
    BY <1>1
  <2>2. (n * q + (r + b)) \div n = q
    BY <1>1, <1>2
  <2> QED  BY <1>1, <2>1, <2>2
<1>3. CASE r + b >= n
  <2>1. (r + b) - n \in 0..(n - 1) /\ q + 1 \in Nat
    BY <1>1, <1>3
  <2>2. n * (q + 1) = n * q + n
    BY <1>1
  <2>3. s + b = n * (q + 1) + ((r + b) - n)
    BY <1>1, <2>2
  <2>4. (n * (q + 1) + ((r + b) - n)) \div n = q + 1
    BY <2>1
  <2> QED  BY <1>1, <2>3, <2>4
<1> QED  BY <1>1, <1>2, <1>3

LEMMA Division ==
  ASSUME NEW s \in Nat, NEW n \in Nat \ {0}
  PROVE  /\ s \div n \in Nat /\ (s + n) \div n = (s \div n) + 1
         /\ \A k \in Nat : s = k * n => s \div n = k
<1>1. \A k \in Nat : s = k * n => s \div n = k
  OBVIOUS
<1> QED  BY <1>1

LEMMA TrainerConstants ==
  ASSUME Trainer!TrainerAssumption
  PROVE  /\ Losses \subseteq Nat /\ BatchCounts \subseteq Nat \ {0} /\ Epochs \in Nat
         /\ Patience \in Nat /\ MaxTrained \in Nat /\ Best \in Names
         /\ NoBest \notin [epoch : Nat, loss : Losses]
         /\ \A f \in {NoFile, Torn} : f \notin Nat /\ f \notin Trainer!Metadata
BY DEF Trainer!TrainerAssumption

\* What the record of an epoch is, field by field.
TrainedAs(t, m, n, b) ==
  /\ t.tag = trained + 1 /\ t.step = m.step + b
  /\ t.trained = m.trained \cup {m.step \div n} /\ t.validated = m.validated
  /\ t.best = m.best /\ t.improved = FALSE /\ t.mixed = m.mixed /\ t.batches = n
  /\ t.aligned => m.aligned /\ m.batches \in {0, n}

LEMMA TrainedIs ==
  ASSUME NEW m \in Trainer!Metadata, NEW n, NEW b, NEW t, t = Trainer!Trained(m, n, b)
  PROVE  TrainedAs(t, m, n, b)
<1>1. t.tag = trained + 1 /\ t.step = m.step + b
  BY DEF Trainer!Trained, Trainer!Metadata
<1>2. t.trained = m.trained \cup {m.step \div n} /\ t.improved = FALSE
  BY DEF Trainer!Trained, Trainer!Metadata
<1>3. t.validated = m.validated /\ t.best = m.best /\ t.mixed = m.mixed /\ t.batches = n
  BY DEF Trainer!Trained, Trainer!Metadata
<1>4. t.aligned <=> m.aligned /\ m.batches \in {0, n}
  BY DEF Trainer!Trained, Trainer!Metadata
<1> QED  BY <1>1, <1>2, <1>3, <1>4 DEF TrainedAs

LEMMA TrainedType ==
  ASSUME Trainer!TrainerAssumption, NEW m \in Trainer!Metadata, IsFiniteSet(m.trained),
         NEW n \in Nat \ {0}, NEW b \in Nat, trained \in 0..MaxTrained, trained < MaxTrained,
         NEW t, t = Trainer!Trained(m, n, b)
  PROVE  t \in Trainer!Metadata /\ IsFiniteSet(t.trained) /\ Cardinality(t.trained) - 1 \in Nat
<1>1. m.step \in Nat /\ m.trained \in SUBSET Nat
  BY DEF Trainer!Metadata
<1>2. m.step \div n \in Nat /\ trained + 1 \in 0..MaxTrained /\ m.step + b \in Nat
  <2>1. m.step \div n \in Nat
    BY <1>1, Division
  <2>2. trained + 1 \in 0..MaxTrained /\ m.step + b \in Nat
    BY <1>1, TrainerConstants
  <2> QED  BY <2>1, <2>2
<1>3. PICK a \in BOOLEAN : a = (m.aligned /\ m.batches \in {0, n})
  BY Zenon
<1>4. t = [m EXCEPT !.tag = trained + 1, !.step = m.step + b,
                    !.trained = m.trained \cup {m.step \div n}, !.improved = FALSE,
                    !.aligned = a, !.batches = n]
  BY <1>3 DEF Trainer!Trained, Trainer!Metadata
<1>5. m.trained \cup {m.step \div n} \in SUBSET Nat
  BY <1>1, <1>2
<1>6. t \in Trainer!Metadata
  BY <1>2, <1>4, <1>5, ZenonT(60) DEF Trainer!Metadata
<1>7. IsFiniteSet(t.trained) /\ m.step \div n \in t.trained
  <2>1. TrainedAs(t, m, n, b)
    BY TrainedIs
  <2>2. t.trained = m.trained \cup {m.step \div n}
    BY <2>1, Zenon DEF TrainedAs
  <2>3. IsFiniteSet(m.trained \cup {m.step \div n})
    BY FS_AddElement, Zenon
  <2> QED  BY <2>2, <2>3, Zenon
<1>8. Cardinality(t.trained) \in Nat /\ Cardinality(t.trained) # 0
  BY <1>7, FS_CardinalityType, FS_EmptySet
<1> QED  BY <1>6, <1>7, <1>8

\* An epoch of which b batches of n are taken has the number the step gives it, which was
\* not validated before.
LEMMA TrainedNumbered ==
  ASSUME NEW m \in Trainer!Metadata, NEW k \in Nat, Numbered(m, k), NEW n \in Nat \ {0},
         NEW b \in 0..n, m.batches \in {0, n}, NEW t, t = Trainer!Trained(m, n, b),
         NEW e, e = m.step \div n
  PROVE  /\ e \in Nat /\ Numbered(t, e + 1) /\ e \notin t.validated
         /\ b = n => t.step \div n = e + 1
<1>1. /\ t.step = m.step + b /\ t.trained = m.trained \cup {e} /\ t.validated = m.validated
      /\ t.best = m.best /\ t.improved = FALSE /\ t.batches = n
  <2>1. TrainedAs(t, m, n, b)
    BY TrainedIs
  <2> QED  BY <2>1, Zenon DEF TrainedAs
<1>2. m.step \in Nat
  BY DEF Trainer!Metadata
<1>3. /\ e \in Nat /\ t.step \div n \in {e, e + 1} /\ (b = n => t.step \div n = e + 1)
  <2>1. e \in Nat /\ (m.step + n) \div n = e + 1
    BY <1>2, Division, Zenon
  <2>2. (m.step + b) \div n \in {e, e + 1}
    BY <1>2, Remainder, Zenon
  <2> QED  BY <1>1, <2>1, <2>2, Zenon
<1>4. (k = 0 => e = 0) /\ e \in {k - 1, k} /\ e \notin m.validated
  <2>1. CASE k = 0
    <3>1. m.step = 0 /\ m.validated = {}
      BY <2>1 DEF Numbered
    <3>2. e = 0
      BY <3>1
    <3> QED  BY <2>1, <3>1, <3>2
  <2>2. CASE k > 0
    <3>1. m.batches = n
      BY <2>2 DEF Numbered
    <3>2. e \in {k - 1, k} /\ (k - 1 \in m.validated => e = k) /\ m.validated \subseteq 0..(k - 1)
      BY <2>2, <3>1 DEF Numbered
    <3> QED  BY <2>2, <3>2
  <2> QED  BY <2>1, <2>2
<1>5. t.trained = 0..((e + 1) - 1) /\ t.validated \subseteq 0..((e + 1) - 1) /\ (e + 1) - 1 = e
  <2>1. m.trained = 0..(k - 1) /\ m.validated \subseteq 0..(k - 1)
    BY DEF Numbered
  <2> QED  BY <1>1, <1>3, <1>4, <2>1
<1>6. m.best # NoBest => m.best.epoch \in m.validated
  BY DEF Numbered
<1>7. t.improved <=> t.best # NoBest /\ t.best.epoch = (e + 1) - 1
  BY <1>1, <1>4, <1>5, <1>6
<1>8. /\ t.best # NoBest => t.best.epoch \in t.validated
      /\ (e + 1) - 1 \notin t.validated /\ t.batches > 0 /\ e + 1 # 0 /\ e + 1 > 0
      /\ t.step \div t.batches \in {(e + 1) - 1, e + 1}
  BY <1>1, <1>3, <1>4, <1>5, <1>6
<1>9. Numbered(t, e + 1)
  BY <1>5, <1>7, <1>8 DEF Numbered
<1> QED  BY <1>1, <1>3, <1>4, <1>9

\* What a validation adds: it is the best one so far, or it is not.
ValidatedAs(v, m, e, loss) ==
  \/ /\ m.best = NoBest \/ loss < m.best.loss
     /\ v = [m EXCEPT !.validated = m.validated \cup {e}, !.best = [epoch |-> e, loss |-> loss],
                      !.improved = TRUE]
  \/ /\ m.best # NoBest
     /\ v = [m EXCEPT !.validated = m.validated \cup {e}, !.improved = FALSE]

LEMMA ValidatedIs ==
  ASSUME NEW m \in Trainer!Metadata, NEW e, NEW loss, NEW v, v = Trainer!Validated(m, e, loss)
  PROVE  ValidatedAs(v, m, e, loss)
<1>1. CASE m.best = NoBest \/ loss < m.best.loss
  <2>1. v = [m EXCEPT !.validated = m.validated \cup {e}, !.best = [epoch |-> e, loss |-> loss],
                      !.improved = TRUE]
    BY <1>1 DEF Trainer!Metadata, Trainer!Validated
  <2> QED  BY <1>1, <2>1 DEF ValidatedAs
<1>2. CASE ~(m.best = NoBest \/ loss < m.best.loss)
  <2>1. v = [m EXCEPT !.validated = m.validated \cup {e}, !.improved = FALSE]
    BY <1>2 DEF Trainer!Metadata, Trainer!Validated
  <2> QED  BY <1>2, <2>1 DEF ValidatedAs
<1> QED  BY <1>1, <1>2

LEMMA ValidatedType ==
  ASSUME NEW m \in Trainer!Metadata, NEW e \in Nat, NEW loss \in Losses,
         NEW v, v = Trainer!Validated(m, e, loss)
  PROVE  /\ v \in Trainer!Metadata /\ v.trained = m.trained /\ v.tag = m.tag
         /\ v.mixed = m.mixed /\ v.aligned = m.aligned /\ v.step = m.step /\ v.batches = m.batches
<1>1. ValidatedAs(v, m, e, loss)
  BY ValidatedIs
<1>2. [epoch |-> e, loss |-> loss] \in [epoch : Nat, loss : Losses] \cup {NoBest}
      /\ m.validated \cup {e} \in SUBSET Nat
  BY DEF Trainer!Metadata
<1>3. v \in Trainer!Metadata
  BY <1>1, <1>2, ZenonT(60) DEF ValidatedAs, Trainer!Metadata
<1>4. /\ v.trained = m.trained /\ v.tag = m.tag /\ v.mixed = m.mixed /\ v.aligned = m.aligned
      /\ v.step = m.step /\ v.batches = m.batches
  BY <1>1 DEF ValidatedAs, Trainer!Metadata
<1> QED  BY <1>3, <1>4

LEMMA ValidatedNumbered ==
  ASSUME NEW m \in Trainer!Metadata, NEW e \in Nat, Numbered(m, e + 1), e \notin m.validated,
         m.step \div m.batches = e + 1, NEW loss \in Losses,
         NoBest \notin [epoch : Nat, loss : Losses],
         NEW v, v = Trainer!Validated(m, e, loss)
  PROVE  /\ Numbered(v, e + 1) /\ e \in v.validated /\ v.validated \subseteq 0..e
         /\ v.improved => v.best.epoch = e
<1>1. ValidatedAs(v, m, e, loss)
  BY ValidatedIs
<1>2. [epoch |-> e, loss |-> loss] # NoBest /\ (e + 1) - 1 = e /\ e \in 0..e /\ e + 1 # 0
  OBVIOUS
<1>3. /\ m.best # NoBest => m.best.epoch \in m.validated
      /\ m.validated \subseteq 0..e /\ m.trained = 0..e /\ m.batches > 0
      /\ m.step \div m.batches \in {e, e + 1}
  BY <1>2 DEF Numbered
<1>4. /\ v.step = m.step /\ v.trained = m.trained /\ v.batches = m.batches
      /\ v.validated = m.validated \cup {e}
  BY <1>1, ZenonT(60) DEF ValidatedAs, Trainer!Metadata
<1>5. (v.improved <=> v.best # NoBest /\ v.best.epoch = e)
      /\ (v.best # NoBest => v.best.epoch \in v.validated)
  <2>1. CASE v.improved = TRUE /\ v.best = [epoch |-> e, loss |-> loss]
    BY <1>2, <1>4, <2>1
  <2>2. CASE v.improved = FALSE /\ v.best = m.best
    BY <1>3, <1>4, <2>2
  <2>3. \/ v.improved = TRUE /\ v.best = [epoch |-> e, loss |-> loss]
        \/ v.improved = FALSE /\ v.best = m.best
    BY <1>1 DEF ValidatedAs, Trainer!Metadata
  <2> QED  BY <2>1, <2>2, <2>3
<1>6. e \in v.validated /\ v.validated \subseteq 0..e
  BY <1>2, <1>3, <1>4
<1>7. Numbered(v, e + 1)
  BY <1>2, <1>3, <1>4, <1>5, <1>6 DEF Numbered
<1> QED  BY <1>5, <1>6, <1>7

LEMMA NoBestIsNone ==
  ASSUME Trainer!TrainerAssumption PROVE NoBest \notin [epoch : Nat, loss : Losses]
BY TrainerConstants

LEMMA SameCardinality == \A s : Trainer!Cardinality(s) = Cardinality(s)
BY DEF Trainer!Cardinality, Cardinality, Trainer!IsFiniteSet, IsFiniteSet

\* The record of a trainer stays as it has to be when it takes batches, and when it is validated
\* after an epoch.
LEMMA RecordTrained ==
  ASSUME Trainer!TrainerAssumption, NEW m, RecordOk(m), NEW n \in BatchCounts, NEW b \in 0..n,
         trained \in 0..MaxTrained, trained < MaxTrained, NEW t, t = Trainer!Trained(m, n, b)
  PROVE  RecordOk(t)
<1>1. m \in Trainer!Metadata /\ n \in Nat \ {0} /\ b \in Nat
  BY TrainerConstants DEF RecordOk
<1>2. t \in Trainer!Metadata /\ IsFiniteSet(t.trained)
  BY <1>1, TrainedType DEF RecordOk
<1>3. ASSUME t.aligned PROVE \E k \in Nat : Numbered(t, k)
  <2>1. TrainedAs(t, m, n, b)
    BY <1>1, TrainedIs
  <2>2. m.aligned /\ m.batches \in {0, n}
    BY <1>3, <2>1 DEF TrainedAs
  <2>3. PICK k \in Nat : Numbered(m, k)
    BY <2>2 DEF RecordOk
  <2>4. PICK e : e = m.step \div n
    OBVIOUS
  <2>5. e \in Nat /\ Numbered(t, e + 1)
    BY <1>1, <2>2, <2>3, <2>4, TrainedNumbered, NoBestIsNone
  <2>6. e + 1 \in Nat
    BY <2>5
  <2> QED  BY <2>5, <2>6
<1> QED  BY <1>2, <1>3 DEF RecordOk

LEMMA RecordValidated ==
  ASSUME Trainer!TrainerAssumption, NEW m, RecordOk(m), NEW n \in BatchCounts,
         trained \in 0..MaxTrained, trained < MaxTrained, NEW t, t = Trainer!Trained(m, n, n),
         NEW loss \in Losses, NEW v,
         v = Trainer!Validated(t, Trainer!Cardinality(t.trained) - 1, loss)
  PROVE  RecordOk(v)
<1>1. m \in Trainer!Metadata /\ n \in Nat \ {0} /\ n \in Nat /\ n \in 0..n
  BY TrainerConstants DEF RecordOk
<1>2. t \in Trainer!Metadata /\ IsFiniteSet(t.trained) /\ Trainer!Cardinality(t.trained) - 1 \in Nat
  BY <1>1, TrainedType, SameCardinality DEF RecordOk
<1>3. /\ v \in Trainer!Metadata /\ v.trained = t.trained /\ v.aligned = t.aligned
  BY <1>2, ValidatedType
<1>4. ASSUME t.aligned PROVE \E k \in Nat : Numbered(v, k)
  <2>1. TrainedAs(t, m, n, n)
    BY <1>1, TrainedIs
  <2>2. m.aligned /\ m.batches \in {0, n} /\ t.batches = n
    BY <1>4, <2>1 DEF TrainedAs
  <2>3. PICK k \in Nat : Numbered(m, k)
    BY <2>2 DEF RecordOk
  <2>4. PICK e \in Nat : Numbered(t, e + 1) /\ e \notin t.validated /\ t.step \div n = e + 1
    BY <1>1, <2>2, <2>3, TrainedNumbered, NoBestIsNone
  <2>5. Trainer!Cardinality(t.trained) - 1 = e
    <3>1. t.trained = 0..e
      BY <2>4 DEF Numbered
    <3>2. Cardinality(0..e) = e + 1
      BY FS_Interval
    <3> QED  BY <3>1, <3>2, SameCardinality
  <2>6. v = Trainer!Validated(t, e, loss) /\ t.step \div t.batches = e + 1
    BY <2>2, <2>4, <2>5
  <2>7. Numbered(v, e + 1)
    BY <1>2, <2>4, <2>6, ValidatedNumbered, NoBestIsNone
  <2> QED  BY <2>7
<1> QED  BY <1>2, <1>3, <1>4 DEF RecordOk

\* A step that leaves the disk alone and begins no save.
LEMMA DiskStays ==
  ASSUME TrainerSafe, UNCHANGED <<target, part, files, whole, interrupted>>,
         trainerPc' \in {"idle", "fit"}, TrainerTypes', FitNumbered',
         metadata'.mixed \/ (weights' = metadata'.tag /\ optimizer' = metadata'.tag),
         metadata'.aligned => stop' # "improved"
  PROVE  TrainerSafe'
<1>1. FileTypes'
  BY DEF TrainerSafe, FileTypes
<1>2. SavedWhole'
  BY DEF TrainerSafe, SavedWhole
<1> QED  BY <1>1, <1>2 DEF TrainerSafe

LEMMA EpochKeeps ==
  ASSUME Trainer!TrainerAssumption, TrainerSafe, NEW n \in BatchCounts, Trainer!Epoch(n)
  PROVE  TrainerSafe'
<1> DEFINE m == Trainer!Trained(metadata, n, n)
<1>1. /\ trainerPc = "idle" /\ trained < MaxTrained /\ trained' = trained + 1
      /\ weights' = trained + 1 /\ optimizer' = trained + 1
      /\ UNCHANGED <<trainerPc, epoch, batches, validate, target, part, files, whole, interrupted,
                     stop>>
      /\ \/ metadata' = m
         \/ \E loss \in Losses :
              metadata' = Trainer!Validated(m, Trainer!Cardinality(m.trained) - 1, loss)
  BY DEF Trainer!Epoch, Trainer!TakesTag, Trainer!fitting, Trainer!disk
<1>2. RecordOk(metadata) /\ trained \in 0..MaxTrained /\ n \in 0..n /\ n \in Nat \ {0} /\ n \in Nat
      /\ metadata \in Trainer!Metadata /\ MaxTrained \in Nat
  BY TrainerConstants DEF TrainerSafe, TrainerTypes, RecordOk
<1>3. /\ m \in Trainer!Metadata /\ Trainer!Cardinality(m.trained) - 1 \in Nat
      /\ TrainedAs(m, metadata, n, n)
  BY <1>1, <1>2, TrainedIs, TrainedType, SameCardinality DEF RecordOk
<1>4. RecordOk(metadata')
  BY <1>1, <1>2, RecordTrained, RecordValidated
<1>5. metadata'.tag = m.tag /\ metadata'.aligned = m.aligned
  <2> HIDE DEF m
  <2> QED  BY <1>1, <1>3, ValidatedType
<1>6. metadata'.tag = trained + 1 /\ (metadata'.aligned => metadata.aligned)
  <2> HIDE DEF m
  <2> QED  BY <1>3, <1>5 DEF TrainedAs
<1>7. TrainerTypes'
  <2>1. trained + 1 \in 0..MaxTrained
    BY <1>1, <1>2
  <2> QED  BY <1>1, <1>4, <2>1 DEF TrainerSafe, TrainerTypes
<1>8. FitNumbered'
  BY <1>1 DEF FitNumbered
<1>9. metadata'.aligned => stop' # "improved"
  BY <1>1, <1>6 DEF TrainerSafe
<1> QED  BY <1>1, <1>6, <1>7, <1>8, <1>9, DiskStays

LEMMA EpochFailsKeeps ==
  ASSUME Trainer!TrainerAssumption, TrainerSafe, NEW n \in BatchCounts, Trainer!EpochFails(n)
  PROVE  TrainerSafe'
<1>1. /\ trainerPc' = "idle"
      /\ UNCHANGED <<epoch, batches, validate, target, part, files, whole, interrupted, stop>>
      /\ \/ UNCHANGED <<weights, optimizer, metadata, trained>>
         \/ /\ trained < MaxTrained /\ trained' = trained + 1
            /\ weights' = trained + 1 /\ optimizer' = trained + 1
            /\ \E b \in 1..n : metadata' = Trainer!Trained(metadata, n, b)
  BY DEF Trainer!EpochFails, Trainer!TakesTag, Trainer!fitting, Trainer!disk, Trainer!trainer
<1>2. RecordOk(metadata) /\ trained \in 0..MaxTrained /\ n \in Nat \ {0} /\ n \in Nat
      /\ metadata \in Trainer!Metadata /\ MaxTrained \in Nat /\ \A b \in 1..n : b \in 0..n
  BY TrainerConstants DEF TrainerSafe, TrainerTypes, RecordOk
<1>3. FitNumbered'
  BY <1>1 DEF FitNumbered
<1>4. CASE UNCHANGED <<weights, optimizer, metadata, trained>>
  <2>1. TrainerTypes'
    BY <1>1, <1>4 DEF TrainerSafe, TrainerTypes
  <2>2. /\ metadata'.mixed \/ (weights' = metadata'.tag /\ optimizer' = metadata'.tag)
        /\ metadata'.aligned => stop' # "improved"
    BY <1>1, <1>4 DEF TrainerSafe
  <2> QED  BY <1>1, <1>3, <2>1, <2>2, DiskStays
<1>5. ASSUME trained < MaxTrained, trained' = trained + 1,
             weights' = trained + 1, optimizer' = trained + 1,
             NEW b \in 1..n, metadata' = Trainer!Trained(metadata, n, b)
      PROVE  TrainerSafe'
  <2>1. RecordOk(metadata')
    BY <1>2, <1>5, RecordTrained
  <2>2. TrainedAs(metadata', metadata, n, b)
    BY <1>2, <1>5, TrainedIs
  <2>3. TrainerTypes'
    <3>1. trained + 1 \in 0..MaxTrained
      BY <1>2, <1>5
    <3> QED  BY <1>1, <1>5, <2>1, <3>1 DEF TrainerSafe, TrainerTypes
  <2>4. /\ metadata'.mixed \/ (weights' = metadata'.tag /\ optimizer' = metadata'.tag)
        /\ metadata'.aligned => stop' # "improved"
    BY <1>1, <1>5, <2>2 DEF TrainerSafe, TrainedAs
  <2> QED  BY <1>1, <1>3, <2>3, <2>4, DiskStays
<1> QED  BY <1>1, <1>4, <1>5

LEMMA BeginFitKeeps ==
  ASSUME Trainer!TrainerAssumption, TrainerSafe, NEW n \in BatchCounts, NEW withVal \in BOOLEAN,
         Trainer!BeginFit(n, withVal)
  PROVE  TrainerSafe'
<1> DEFINE a == metadata.aligned /\ metadata.trained = {}
<1>1. /\ trainerPc' = "fit" /\ epoch' = 0 /\ batches' = n /\ validate' = withVal /\ Epochs > 0
      /\ metadata' = [metadata EXCEPT !.aligned = a] /\ stop' = "none"
      /\ UNCHANGED <<weights, optimizer, target, part, files, whole, interrupted, trained>>
  BY DEF Trainer!BeginFit, Trainer!disk
<1>2. /\ RecordOk(metadata) /\ metadata \in Trainer!Metadata /\ n \in Nat \ {0} /\ Epochs \in Nat
  BY TrainerConstants DEF TrainerSafe, TrainerTypes, RecordOk
<1>3. PICK c \in BOOLEAN : c <=> a
  OBVIOUS
<1>4. metadata' = [metadata EXCEPT !.aligned = c]
  BY <1>1, <1>3
<1> HIDE DEF a
<1>5. /\ metadata' \in Trainer!Metadata /\ metadata'.aligned = c
      /\ metadata'.trained = metadata.trained /\ metadata'.validated = metadata.validated
      /\ metadata'.best = metadata.best /\ metadata'.improved = metadata.improved
      /\ metadata'.step = metadata.step /\ metadata'.batches = metadata.batches
      /\ metadata'.mixed = metadata.mixed /\ metadata'.tag = metadata.tag
  BY <1>2, <1>4 DEF Trainer!Metadata
<1>6. ASSUME c PROVE Numbered(metadata', 0) /\ metadata'.step = 0 /\ metadata'.batches = 0
  <2>1. metadata.aligned /\ metadata.trained = {}
    BY <1>3, <1>6 DEF a
  <2>2. PICK k \in Nat : Numbered(metadata, k)
    BY <1>2, <2>1 DEF RecordOk
  <2>3. k = 0
    <3>1. 0..(k - 1) = {}
      BY <2>1, <2>2 DEF Numbered
    <3> QED  BY <2>2, <3>1
  <2>4. Numbered(metadata, 0)
    BY <2>2, <2>3
  <2>5. metadata.step = 0 /\ metadata.batches = 0
    BY <2>4 DEF Numbered
  <2>6. Numbered(metadata', 0)
    BY <1>5, <2>4 DEF Numbered
  <2> QED  BY <1>5, <2>5, <2>6
<1>7. RecordOk(metadata')
  <2>1. IsFiniteSet(metadata'.trained)
    BY <1>2, <1>5 DEF RecordOk
  <2> QED  BY <1>5, <1>6, <2>1 DEF RecordOk
<1>8. TrainerTypes'
  BY <1>1, <1>2, <1>7 DEF TrainerSafe, TrainerTypes
<1>9. FitNumbered'
  <2>1. 0 = 0 * n /\ 0 < Epochs
    BY <1>1, <1>2
  <2> QED  BY <1>1, <1>5, <1>6, <2>1 DEF FitNumbered
<1>10. metadata'.mixed \/ (weights' = metadata'.tag /\ optimizer' = metadata'.tag)
  BY <1>1, <1>5 DEF TrainerSafe
<1> QED  BY <1>1, <1>8, <1>9, <1>10, DiskStays

\* is_improving after an epoch that lowered the loss.
LEMMA NotStale ==
  ASSUME NEW m, NEW e \in Nat, e \in m.validated, m.validated \subseteq 0..e, m.best.epoch = e,
         Patience \in Nat
  PROVE  Trainer!IsImproving(m)
<1>1. Trainer!Max(m.validated) = e
  <2>1. \A x \in m.validated : x \in Nat /\ x <= e
    OBVIOUS
  <2>2. \A x \in m.validated : (\A y \in m.validated : x >= y) => x = e
    BY <2>1
  <2>3. \A y \in m.validated : e >= y
    BY <2>1
  <2> QED  BY <2>2, <2>3 DEF Trainer!Max
<1> QED  BY <1>1 DEF Trainer!IsImproving

LEMMA FitEpochKeeps ==
  ASSUME Trainer!TrainerAssumption, TrainerSafe, Trainer!FitEpoch
  PROVE  TrainerSafe'
<1> DEFINE m == Trainer!Trained(metadata, batches, batches)
           early == ~Trainer!IsImproving(metadata')
<1>1. /\ trainerPc = "fit" /\ trained < MaxTrained /\ trained' = trained + 1
      /\ weights' = trained + 1 /\ optimizer' = trained + 1
      /\ \/ metadata' = m
         \/ \E loss \in Losses : metadata' = Trainer!Validated(m, epoch, loss)
      /\ epoch' = epoch + 1
      /\ trainerPc' = IF early \/ epoch' = Epochs THEN "idle" ELSE "fit"
      /\ stop' = IF ~early THEN "none" ELSE IF metadata'.improved THEN "improved" ELSE "stale"
      /\ UNCHANGED <<batches, validate, target, part, files, whole, interrupted>>
  BY DEF Trainer!FitEpoch, Trainer!TakesTag, Trainer!disk
<1>2. /\ RecordOk(metadata) /\ trained \in 0..MaxTrained /\ batches \in Nat \ {0} /\ batches \in Nat
      /\ batches \in 0..batches
      /\ metadata \in Trainer!Metadata /\ MaxTrained \in Nat /\ epoch \in Nat /\ epoch < Epochs
      /\ Epochs \in Nat /\ Patience \in Nat /\ IsFiniteSet(metadata.trained)
  BY <1>1, TrainerConstants DEF TrainerSafe, TrainerTypes, RecordOk, FitNumbered
<1>3. m \in Trainer!Metadata /\ TrainedAs(m, metadata, batches, batches) /\ IsFiniteSet(m.trained)
  BY <1>1, <1>2, TrainedIs, TrainedType
<1>4. ASSUME m.aligned
      PROVE  /\ metadata.aligned /\ Numbered(m, epoch + 1) /\ epoch \notin m.validated
             /\ m.step \div m.batches = epoch + 1 /\ m.batches = batches
             /\ m.step = (epoch + 1) * batches
  <2>1. metadata.aligned /\ metadata.batches \in {0, batches} /\ m.batches = batches
        /\ m.step = metadata.step + batches
    <3> HIDE DEF m
    <3> QED  BY <1>3, <1>4 DEF TrainedAs
  <2>2. Numbered(metadata, epoch) /\ metadata.step = epoch * batches
    BY <1>1, <2>1 DEF TrainerSafe, FitNumbered
  <2>3. metadata.step \in Nat /\ metadata.step \div batches = epoch
    <3>1. metadata.step \in Nat
      BY <1>2 DEF Trainer!Metadata
    <3> QED  BY <1>2, <2>2, <3>1, Division
  <2>4. Numbered(m, epoch + 1) /\ epoch \notin m.validated /\ m.step \div batches = epoch + 1
    BY <1>2, <2>1, <2>2, <2>3, TrainedNumbered, NoBestIsNone
  <2>5. (epoch + 1) * batches = epoch * batches + batches
    BY <1>2
  <2> QED  BY <2>1, <2>2, <2>4, <2>5
<1> HIDE DEF m
<1>5. /\ metadata' \in Trainer!Metadata /\ metadata'.trained = m.trained /\ metadata'.tag = m.tag
      /\ metadata'.aligned = m.aligned /\ metadata'.step = m.step /\ metadata'.batches = m.batches
  BY <1>1, <1>2, <1>3, ValidatedType
<1>6. ASSUME m.aligned
      PROVE  /\ Numbered(metadata', epoch + 1)
             /\ metadata'.improved => Trainer!IsImproving(metadata')
  <2>1. CASE metadata' = m
    <3>1. Numbered(m, epoch + 1) /\ epoch \notin m.validated
      BY <1>4, <1>6
    <3>2. ~m.improved
      <4>1. (m.improved <=> m.best # NoBest /\ m.best.epoch = (epoch + 1) - 1)
            /\ (m.best # NoBest => m.best.epoch \in m.validated) /\ (epoch + 1) - 1 = epoch
        BY <1>2, <3>1 DEF Numbered
      <4> QED  BY <3>1, <4>1
    <3> QED  BY <2>1, <3>1, <3>2
  <2>2. ASSUME NEW loss \in Losses, metadata' = Trainer!Validated(m, epoch, loss)
        PROVE  /\ Numbered(metadata', epoch + 1)
               /\ metadata'.improved => Trainer!IsImproving(metadata')
    <3>1. m.improved = FALSE
      BY <1>3 DEF TrainedAs
    <3>2. /\ Numbered(metadata', epoch + 1) /\ epoch \in metadata'.validated
          /\ metadata'.validated \subseteq 0..epoch
          /\ metadata'.improved => metadata'.best.epoch = epoch
      BY <1>2, <1>3, <1>4, <1>6, <2>2, <3>1, ValidatedNumbered, NoBestIsNone
    <3> QED  BY <1>2, <3>2, NotStale
  <2> QED  BY <1>1, <2>1, <2>2
<1>7. RecordOk(metadata')
  <2>1. epoch + 1 \in Nat
    BY <1>2
  <2> QED  BY <1>3, <1>5, <1>6, <2>1 DEF RecordOk
<1>8. TrainerTypes'
  <2>1. trained + 1 \in 0..MaxTrained /\ epoch + 1 \in 0..Epochs
    BY <1>1, <1>2
  <2>2. stop' \in {"none", "stale", "improved"} /\ trainerPc' \in {"idle", "fit"}
    BY <1>1
  <2> QED  BY <1>1, <1>7, <2>1, <2>2 DEF TrainerSafe, TrainerTypes
<1>9. FitNumbered'
  <2>1. ASSUME trainerPc' = "fit" PROVE epoch + 1 < Epochs
    BY <1>1, <1>2, <2>1
  <2>2. ASSUME metadata'.aligned
        PROVE  /\ Numbered(metadata', epoch + 1) /\ metadata'.step = (epoch + 1) * batches
               /\ metadata'.batches \in {0, batches}
    BY <1>4, <1>5, <1>6, <2>2
  <2> QED  BY <1>1, <2>1, <2>2 DEF FitNumbered
<1>10. metadata'.mixed \/ (weights' = metadata'.tag /\ optimizer' = metadata'.tag)
  BY <1>1, <1>3, <1>5 DEF TrainedAs
<1>11. metadata'.aligned => stop' # "improved"
  BY <1>1, <1>5, <1>6
<1> QED  BY <1>1, <1>8, <1>9, <1>10, <1>11, DiskStays

-----------------------------------------------------------------------------
LEMMA BeginSaveKeeps ==
  ASSUME Trainer!TrainerAssumption, TrainerSafe, NEW n \in Names, Trainer!BeginSave(n)
  PROVE  TrainerSafe'
<1>1. /\ trainerPc' = "save" /\ target' = n /\ part' = 1
      /\ UNCHANGED <<weights, optimizer, metadata, epoch, batches, validate, files, whole,
                     interrupted, trained, stop>>
  BY DEF Trainer!BeginSave, Trainer!trainer, Trainer!fitting
<1>2. TrainerTypes' /\ FileTypes' /\ FitNumbered'
  BY <1>1 DEF TrainerSafe, TrainerTypes, FileTypes, FitNumbered
<1>3. SavedWhole'
  BY <1>1 DEF TrainerSafe, SavedWhole
<1>4. /\ metadata'.mixed \/ (weights' = metadata'.tag /\ optimizer' = metadata'.tag)
      /\ metadata'.aligned => stop' # "improved"
  BY <1>1 DEF TrainerSafe
<1> QED  BY <1>2, <1>3, <1>4 DEF TrainerSafe

\* The type of the files of one name.
FileSet == [weights : 0..MaxTrained \cup {NoFile, Torn}, optimizer : 0..MaxTrained \cup {NoFile, Torn},
            metadata : Trainer!Metadata \cup {NoFile, Torn}]

\* A step of a save that writes one file of its target.
LEMMA FileWritten ==
  ASSUME Trainer!TrainerAssumption, TrainerSafe, trainerPc = "save",
         NEW g \in FileSet, files' = [files EXCEPT ![target] = g],
         g.metadata \in {NoFile, Torn} \/ RecordOk(g.metadata),
         UNCHANGED <<weights, optimizer, metadata, epoch, batches, validate, target, trained, stop>>,
         trainerPc' \in {"idle", "save", "down"}, part' \in 1..3,
         whole' \in {whole, whole \cup {target}},
         interrupted' \in {interrupted \cup {target}, interrupted \ {target}},
         target \notin whole' => g.metadata \in {NoFile, Torn},
         target \in whole' \ interrupted' => WholeSet(g),
         trainerPc' = "save" =>
           /\ part' > 1 => target \in interrupted' /\ g.weights = weights
           /\ part' > 2 => g.optimizer = optimizer
  PROVE  TrainerSafe'
<1>1. /\ target \in Names /\ files \in [Names -> FileSet] /\ whole \in SUBSET Names
      /\ interrupted \in SUBSET Names
      /\ \A n \in Names : files[n].metadata \in {NoFile, Torn} \/ RecordOk(files[n].metadata)
  BY DEF TrainerSafe, TrainerTypes, FileTypes, FileSet
<1>2. TrainerTypes'
  BY DEF TrainerSafe, TrainerTypes
<1>3. /\ files' \in [Names -> FileSet] /\ files'[target] = g
      /\ \A n \in Names \ {target} : files'[n] = files[n]
  BY <1>1
<1>4. FileTypes'
  <2>1. \A n \in Names : files'[n].metadata \in {NoFile, Torn} \/ RecordOk(files'[n].metadata)
    BY <1>1, <1>3
  <2> QED  BY <1>1, <1>3, <2>1 DEF FileTypes, FileSet
<1>5. FitNumbered'
  BY DEF FitNumbered
<1>6. SavedWhole'
  <2>1. \A n \in Names \ whole : files[n].metadata \in {NoFile, Torn}
    BY DEF TrainerSafe, SavedWhole
  <2>2. \A n \in whole \ interrupted : WholeSet(files[n])
    BY DEF TrainerSafe, SavedWhole
  <2>3. \A n \in Names \ whole' : files'[n].metadata \in {NoFile, Torn}
    BY <1>3, <2>1
  <2>4. \A n \in whole' \ interrupted' : WholeSet(files'[n])
    BY <1>1, <1>3, <2>2
  <2> QED  BY <1>3, <2>3, <2>4 DEF SavedWhole
<1>7. /\ metadata'.mixed \/ (weights' = metadata'.tag /\ optimizer' = metadata'.tag)
      /\ metadata'.aligned => stop' # "improved"
  BY DEF TrainerSafe
<1> QED  BY <1>2, <1>4, <1>5, <1>6, <1>7 DEF TrainerSafe

\* What a save knows of its target.
LEMMA SaveFacts ==
  ASSUME Trainer!TrainerAssumption, TrainerSafe
  PROVE  /\ part \in 1..3 /\ target \in Names /\ files[target] \in FileSet
         /\ weights \in 0..MaxTrained /\ optimizer \in 0..MaxTrained /\ RecordOk(metadata)
         /\ files[target].metadata \in {NoFile, Torn} \/ RecordOk(files[target].metadata)
         /\ target \notin whole => files[target].metadata \in {NoFile, Torn}
         /\ target \in whole \ interrupted => WholeSet(files[target])
         /\ trainerPc = "save" => /\ part > 1 => target \in interrupted /\ files[target].weights = weights
                                  /\ part > 2 => files[target].optimizer = optimizer
         /\ metadata.mixed \/ (weights = metadata.tag /\ optimizer = metadata.tag)
         /\ Trainer!Parts[1] = "weights" /\ Trainer!Parts[2] = "optimizer"
         /\ Trainer!Parts[3] = "metadata" /\ Len(Trainer!Parts) = 3
<1>1. /\ Trainer!Parts[1] = "weights" /\ Trainer!Parts[2] = "optimizer"
      /\ Trainer!Parts[3] = "metadata" /\ Len(Trainer!Parts) = 3
  BY DEF Trainer!Parts
<1> QED  BY <1>1 DEF TrainerSafe, TrainerTypes, FileTypes, FileSet, SavedWhole

LEMMA WriteFileKeeps ==
  ASSUME Trainer!TrainerAssumption, TrainerSafe, Trainer!WriteFile
  PROVE  TrainerSafe'
<1> DEFINE f == files[target]
<1>1. /\ trainerPc = "save"
      /\ files' = [files EXCEPT ![target] =
                     [f EXCEPT ![Trainer!Parts[part]] = Trainer!Contents[Trainer!Parts[part]]]]
      /\ UNCHANGED <<weights, optimizer, metadata, epoch, batches, validate, target, trained, stop>>
      /\ part < Len(Trainer!Parts)
           => /\ part' = part + 1 /\ interrupted' = interrupted \cup {target}
              /\ trainerPc' = trainerPc /\ whole' = whole
      /\ ~(part < Len(Trainer!Parts))
           => /\ part' = 1 /\ trainerPc' = "idle"
              /\ whole' = whole \cup {target} /\ interrupted' = interrupted \ {target}
  BY DEF Trainer!WriteFile, Trainer!trainer, Trainer!fitting
<1>2. /\ Trainer!Contents["weights"] = weights /\ Trainer!Contents["optimizer"] = optimizer
      /\ Trainer!Contents["metadata"] = metadata
  BY DEF Trainer!Contents
<1>3. f \in FileSet
  BY SaveFacts
<1>0. /\ part < 3 => /\ part' = part + 1 /\ interrupted' = interrupted \cup {target}
                     /\ trainerPc' = "save" /\ whole' = whole
      /\ part = 3 => /\ part' = 1 /\ trainerPc' = "idle"
                     /\ whole' = whole \cup {target} /\ interrupted' = interrupted \ {target}
  <2>1. Len(Trainer!Parts) = 3
    BY SaveFacts
  <2> QED  BY <1>1, <2>1
<1>4. CASE part = 1
  <2> DEFINE g == [f EXCEPT !["weights"] = weights]
  <2>1. g \in FileSet /\ g.weights = weights /\ g.metadata = f.metadata
    BY <1>3, SaveFacts DEF FileSet
  <2>2. files' = [files EXCEPT ![target] = g]
    BY <1>1, <1>2, <1>4, SaveFacts
  <2>3. part' = 2 /\ interrupted' = interrupted \cup {target} /\ trainerPc' = "save" /\ whole' = whole
    BY <1>0, <1>4
  <2> HIDE DEF g
  <2>4. /\ g.metadata \in {NoFile, Torn} \/ RecordOk(g.metadata)
        /\ target \notin whole' => g.metadata \in {NoFile, Torn}
    BY <2>1, <2>3, SaveFacts
  <2>5. part' \in 1..3 /\ target \in interrupted' /\ ~(part' > 2)
    BY <2>3
  <2> QED  BY <1>1, <2>1, <2>2, <2>3, <2>4, <2>5, FileWritten
<1>5. CASE part = 2
  <2> DEFINE g == [f EXCEPT !["optimizer"] = optimizer]
  <2>1. g \in FileSet /\ g.optimizer = optimizer /\ g.metadata = f.metadata /\ g.weights = f.weights
    BY <1>3, SaveFacts DEF FileSet
  <2>2. files' = [files EXCEPT ![target] = g]
    BY <1>1, <1>2, <1>5, SaveFacts
  <2>3. part' = 3 /\ interrupted' = interrupted \cup {target} /\ trainerPc' = "save" /\ whole' = whole
    BY <1>0, <1>5
  <2> HIDE DEF g
  <2>4. /\ g.metadata \in {NoFile, Torn} \/ RecordOk(g.metadata)
        /\ target \notin whole' => g.metadata \in {NoFile, Torn}
    BY <2>1, <2>3, SaveFacts
  <2>5. part' \in 1..3 /\ target \in interrupted' /\ g.weights = weights
    BY <1>1, <1>5, <2>1, <2>3, SaveFacts
  <2> QED  BY <1>1, <2>1, <2>2, <2>3, <2>4, <2>5, FileWritten
<1>6. CASE part = 3
  <2> DEFINE g == [f EXCEPT !["metadata"] = metadata]
  <2>1. g \in FileSet /\ g.optimizer = f.optimizer /\ g.metadata = metadata /\ g.weights = f.weights
    BY <1>3, SaveFacts DEF FileSet, RecordOk
  <2>2. files' = [files EXCEPT ![target] = g]
    BY <1>1, <1>2, <1>6, SaveFacts
  <2>3. /\ part' = 1 /\ interrupted' = interrupted \ {target} /\ trainerPc' = "idle"
        /\ whole' = whole \cup {target}
    BY <1>0, <1>6
  <2>4. g.weights = weights /\ g.optimizer = optimizer
    BY <1>1, <1>6, <2>1, SaveFacts
  <2>5. WholeSet(g)
    <3>1. weights \notin {NoFile, Torn} /\ optimizer \notin {NoFile, Torn} /\ metadata \notin {NoFile, Torn}
      BY SaveFacts, TrainerConstants DEF RecordOk
    <3> QED  BY <2>1, <2>4, <3>1, SaveFacts DEF WholeSet
  <2> HIDE DEF g
  <2>6. RecordOk(g.metadata) /\ target \in whole' /\ part' \in 1..3
    BY <2>1, <2>3, SaveFacts
  <2> QED  BY <1>1, <2>1, <2>2, <2>3, <2>5, <2>6, FileWritten
<1> QED  BY <1>4, <1>5, <1>6, SaveFacts

\* A step that ends the training or the save and leaves the files as they are.
LEMMA FilesStay ==
  ASSUME TrainerSafe, trainerPc' \in {"idle", "down"},
         UNCHANGED <<weights, optimizer, metadata, epoch, batches, validate, target, part, files,
                     whole, interrupted, trained, stop>>
  PROVE  TrainerSafe'
<1>1. TrainerTypes' /\ FileTypes' /\ FitNumbered'
  BY DEF TrainerSafe, TrainerTypes, FileTypes, FitNumbered
<1>2. SavedWhole'
  BY DEF TrainerSafe, SavedWhole
<1>3. /\ metadata'.mixed \/ (weights' = metadata'.tag /\ optimizer' = metadata'.tag)
      /\ metadata'.aligned => stop' # "improved"
  BY DEF TrainerSafe
<1> QED  BY <1>1, <1>2, <1>3 DEF TrainerSafe

LEMMA FailedKeeps ==
  ASSUME Trainer!TrainerAssumption, TrainerSafe, Trainer!WriteFails \/ Trainer!Crash
  PROVE  TrainerSafe'
<1> DEFINE f == files[target]
           g == [f EXCEPT ![Trainer!Parts[part]] = Torn]
<1>1. /\ trainerPc' \in {"idle", "down"}
      /\ UNCHANGED <<weights, optimizer, metadata, epoch, batches, validate, target, part, whole,
                     trained, stop>>
      /\ interrupted' = IF files' = files THEN interrupted ELSE interrupted \cup {target}
      /\ files' = files \/ (trainerPc = "save" /\ files' = [files EXCEPT ![target] = g])
  BY DEF Trainer!WriteFails, Trainer!Crash, Trainer!FileLeft, Trainer!trainer, Trainer!fitting
<1>2. CASE files' = files
  BY <1>1, <1>2, FilesStay
<1>3. CASE files' # files
  <2>1. g \in FileSet /\ (g.metadata = Torn \/ g.metadata = f.metadata)
    <3>1. Trainer!Parts[part] \in {"weights", "optimizer", "metadata"} /\ f \in FileSet
      BY SaveFacts
    <3> QED  BY <3>1 DEF FileSet
  <2> HIDE DEF g
  <2> QED  BY <1>1, <1>3, <2>1, SaveFacts, FileWritten
<1> QED  BY <1>2, <1>3

LEMMA LoadKeeps ==
  ASSUME Trainer!TrainerAssumption, TrainerSafe, NEW n \in Names, Trainer!Load(n)
  PROVE  TrainerSafe'
<1> DEFINE f == files[n]
<1>1. /\ f.weights \notin {NoFile, Torn} /\ f.optimizer \notin {NoFile, Torn}
      /\ f.metadata \notin {NoFile, Torn}
      /\ weights' = f.weights /\ optimizer' = f.optimizer
      /\ metadata' = [f.metadata EXCEPT !.mixed = f.metadata.mixed \/ n \in interrupted]
      /\ trainerPc' = "idle" /\ stop' = "none"
      /\ UNCHANGED <<epoch, batches, validate, target, part, files, whole, interrupted, trained>>
  BY DEF Trainer!Load, Trainer!Loadable, Trainer!Absent, Trainer!fitting, Trainer!disk
<1>2. f \in FileSet /\ (f.metadata \in {NoFile, Torn} \/ RecordOk(f.metadata))
      /\ (n \notin whole => f.metadata \in {NoFile, Torn})
      /\ (n \in whole \ interrupted => WholeSet(f))
  BY DEF TrainerSafe, FileTypes, FileSet, SavedWhole
<1>3. /\ f.weights \in 0..MaxTrained /\ f.optimizer \in 0..MaxTrained
      /\ f.metadata \in Trainer!Metadata /\ RecordOk(f.metadata)
  BY <1>1, <1>2 DEF FileSet
<1>4. PICK c \in BOOLEAN : c <=> f.metadata.mixed \/ n \in interrupted
  OBVIOUS
<1>5. metadata' = [f.metadata EXCEPT !.mixed = c]
  <2>1. c = (f.metadata.mixed \/ n \in interrupted)
    BY <1>3, <1>4 DEF Trainer!Metadata
  <2> QED  BY <1>1, <2>1
<1>6. /\ metadata' \in Trainer!Metadata /\ metadata'.mixed = c
      /\ metadata'.trained = f.metadata.trained /\ metadata'.validated = f.metadata.validated
      /\ metadata'.best = f.metadata.best /\ metadata'.improved = f.metadata.improved
      /\ metadata'.step = f.metadata.step /\ metadata'.batches = f.metadata.batches
      /\ metadata'.aligned = f.metadata.aligned /\ metadata'.tag = f.metadata.tag
  BY <1>3, <1>5 DEF Trainer!Metadata
<1>7. RecordOk(metadata')
  <2>1. \A k \in Nat : Numbered(f.metadata, k) => Numbered(metadata', k)
    BY <1>6 DEF Numbered
  <2> QED  BY <1>3, <1>6, <2>1 DEF RecordOk
<1>8. metadata'.mixed \/ (weights' = metadata'.tag /\ optimizer' = metadata'.tag)
  <2>1. n \in whole
    BY <1>1, <1>2
  <2>2. n \notin interrupted => WholeSet(f)
    BY <1>2, <2>1
  <2> QED  BY <1>1, <1>4, <1>6, <2>2 DEF WholeSet
<1> HIDE DEF f
<1>9. TrainerTypes'
  BY <1>1, <1>3, <1>7 DEF TrainerSafe, TrainerTypes
<1>10. FitNumbered'
  BY <1>1 DEF FitNumbered
<1> QED  BY <1>1, <1>8, <1>9, <1>10, DiskStays

\* A new trainer is as it has to be.
LEMMA FreshOk ==
  ASSUME Trainer!TrainerAssumption
  PROVE  /\ RecordOk(Trainer!Fresh) /\ Trainer!Fresh.tag = 0 /\ 0 \in 0..MaxTrained
<1>1. Trainer!Fresh \in Trainer!Metadata
  BY TrainerConstants DEF Trainer!Fresh, Trainer!Metadata
<1>2. Numbered(Trainer!Fresh, 0)
  <2>1. 0..(0 - 1) = {}
    OBVIOUS
  <2>2. Trainer!Fresh.trained = {} /\ Trainer!Fresh.validated = {} /\ Trainer!Fresh.best = NoBest
        /\ Trainer!Fresh.improved = FALSE /\ Trainer!Fresh.step = 0 /\ Trainer!Fresh.batches = 0
    BY DEF Trainer!Fresh
  <2> QED  BY <2>1, <2>2 DEF Numbered
<1>3. IsFiniteSet(Trainer!Fresh.trained)
  BY FS_EmptySet DEF Trainer!Fresh
<1>4. Trainer!Fresh.tag = 0 /\ 0 \in 0..MaxTrained
  BY TrainerConstants DEF Trainer!Fresh
<1> QED  BY <1>1, <1>2, <1>3, <1>4 DEF RecordOk

LEMMA RestartKeeps ==
  ASSUME Trainer!TrainerAssumption, TrainerSafe, Trainer!Restart
  PROVE  TrainerSafe'
<1>1. /\ weights' = 0 /\ optimizer' = 0 /\ metadata' = Trainer!Fresh
      /\ trainerPc' = "idle" /\ stop' = "none"
      /\ UNCHANGED <<epoch, batches, validate, target, part, files, whole, interrupted, trained>>
  BY DEF Trainer!Restart, Trainer!fitting, Trainer!disk
<1>2. TrainerTypes'
  <2>1. RecordOk(metadata')
    BY <1>1, FreshOk
  <2>2. weights' \in 0..MaxTrained /\ optimizer' \in 0..MaxTrained
    BY <1>1, FreshOk
  <2> QED  BY <1>1, <2>1, <2>2 DEF TrainerSafe, TrainerTypes
<1>3. FitNumbered'
  BY <1>1 DEF FitNumbered
<1>4. metadata'.mixed \/ (weights' = metadata'.tag /\ optimizer' = metadata'.tag)
  BY <1>1, FreshOk
<1> QED  BY <1>1, <1>2, <1>3, <1>4, DiskStays

LEMMA TrainerStep ==
  ASSUME Trainer!TrainerAssumption, TrainerSafe, [Trainer!Next]_trainerVars
  PROVE  TrainerSafe'
<1>1. CASE UNCHANGED trainerVars
  <2>1. TrainerTypes' /\ FileTypes'
    BY <1>1 DEF trainerVars, TrainerSafe, TrainerTypes, FileTypes
  <2>2. FitNumbered' /\ SavedWhole'
    BY <1>1 DEF trainerVars, TrainerSafe, FitNumbered, SavedWhole
  <2>3. /\ metadata'.mixed \/ (weights' = metadata'.tag /\ optimizer' = metadata'.tag)
        /\ metadata'.aligned => stop' # "improved"
    BY <1>1 DEF trainerVars, TrainerSafe
  <2> QED  BY <2>1, <2>2, <2>3 DEF TrainerSafe
<1>2. ASSUME NEW n \in BatchCounts,
             Trainer!Epoch(n) \/ Trainer!EpochFails(n)
               \/ \E withVal \in BOOLEAN : Trainer!BeginFit(n, withVal)
      PROVE  TrainerSafe'
  BY <1>2, EpochKeeps, EpochFailsKeeps, BeginFitKeeps
<1>3. ASSUME NEW n \in Names, Trainer!Save(n) \/ Trainer!Load(n) PROVE TrainerSafe'
  BY <1>3, BeginSaveKeeps, LoadKeeps DEF Trainer!Save
<1>4. CASE Trainer!SaveBest
  BY <1>4, BeginSaveKeeps, TrainerConstants DEF Trainer!SaveBest
<1> QED
  BY <1>1, <1>2, <1>3, <1>4, FitEpochKeeps, WriteFileKeeps, FailedKeeps, RestartKeeps
  DEF Trainer!Next

LEMMA TrainerInitial ==
  ASSUME Trainer!TrainerAssumption, Trainer!Init PROVE TrainerSafe
<1>1. /\ weights = 0 /\ optimizer = 0 /\ metadata = Trainer!Fresh /\ trainerPc = "idle"
      /\ epoch = 0 /\ batches = 1 /\ validate = FALSE /\ target = Best /\ part = 1 /\ trained = 0
      /\ whole = {} /\ interrupted = {} /\ stop = "none"
      /\ files = [n \in Names |-> Trainer!Absent]
  BY DEF Trainer!Init
<1>2. TrainerTypes
  <2>1. 0 \in 0..MaxTrained /\ 0 \in 0..Epochs /\ Best \in Names /\ 1 \in 1..3
    BY TrainerConstants
  <2>2. RecordOk(metadata)
    BY <1>1, FreshOk
  <2> QED  BY <1>1, <2>1, <2>2 DEF TrainerTypes
<1>3. \A n \in Names : files[n].metadata = NoFile
  BY <1>1 DEF Trainer!Absent
<1>4. FileTypes
  <2>1. Trainer!Absent \in [weights : 0..MaxTrained \cup {NoFile, Torn},
                            optimizer : 0..MaxTrained \cup {NoFile, Torn},
                            metadata : Trainer!Metadata \cup {NoFile, Torn}]
    BY DEF Trainer!Absent
  <2> QED  BY <1>1, <1>3, <2>1 DEF FileTypes
<1>5. FitNumbered /\ SavedWhole
  BY <1>1, <1>3 DEF FitNumbered, SavedWhole
<1>6. /\ metadata.mixed \/ (weights = metadata.tag /\ optimizer = metadata.tag)
      /\ stop # "improved"
  BY <1>1, FreshOk
<1> QED  BY <1>2, <1>4, <1>5, <1>6 DEF TrainerSafe

LEMMA TrainerImplies ==
  ASSUME Trainer!TrainerAssumption, TrainerSafe
  PROVE  Trainer!CheckpointInv
<1>1. Trainer!TypeOK
  <2>1. /\ weights \in 0..MaxTrained /\ optimizer \in 0..MaxTrained /\ metadata \in Trainer!Metadata
        /\ trainerPc \in {"idle", "fit", "save", "down"}
        /\ epoch \in 0..Epochs /\ batches \in BatchCounts \cup {1} /\ validate \in BOOLEAN
        /\ target \in Names /\ stop \in {"none", "stale", "improved"}
        /\ part \in 1..3
    BY DEF TrainerSafe, TrainerTypes, RecordOk
  <2>2. DOMAIN Trainer!Parts = 1..3
    BY DEF Trainer!Parts
  <2>3. {whole, interrupted} \subseteq SUBSET Names
    BY DEF TrainerSafe, FileTypes
  <2>4. \A n \in Names : /\ files[n].weights \in 0..MaxTrained \cup {NoFile, Torn}
                         /\ files[n].optimizer \in 0..MaxTrained \cup {NoFile, Torn}
                         /\ files[n].metadata \in Trainer!Metadata \cup {NoFile, Torn}
    BY DEF TrainerSafe, FileTypes
  <2> QED  BY <2>1, <2>2, <2>3, <2>4 DEF Trainer!TypeOK
<1>2. \A n \in Names : Trainer!Loadable(n) => n \in whole
  BY DEF TrainerSafe, SavedWhole, Trainer!Loadable, Trainer!Absent
<1>3. \A n \in whole \ interrupted :
        /\ Trainer!Loadable(n)
        /\ \/ files[n].metadata.mixed
           \/ {files[n].weights, files[n].optimizer} = {files[n].metadata.tag}
  <2>1. ASSUME NEW n \in whole \ interrupted
        PROVE  /\ Trainer!Loadable(n)
               /\ \/ files[n].metadata.mixed
                  \/ {files[n].weights, files[n].optimizer} = {files[n].metadata.tag}
    <3>1. WholeSet(files[n])
      BY DEF TrainerSafe, SavedWhole
    <3>2. Trainer!Loadable(n)
      BY <3>1 DEF WholeSet, Trainer!Loadable, Trainer!Absent
    <3> QED  BY <3>1, <3>2 DEF WholeSet
  <2> QED  BY <2>1
<1>4. metadata.mixed \/ {weights, optimizer} = {metadata.tag}
  BY DEF TrainerSafe
<1>5. Trainer!BestJudged
  <2> SUFFICES ASSUME metadata.aligned
               PROVE  Trainer!IsBestEpoch(metadata) <=> metadata.improved
    BY DEF Trainer!BestJudged
  <2>1. PICK k \in Nat : Numbered(metadata, k)
    BY DEF TrainerSafe, TrainerTypes, RecordOk
  <2>2. CASE k = 0
    <3>1. metadata.best = NoBest
      BY <2>1, <2>2 DEF Numbered
    <3> QED  BY <2>1, <3>1 DEF Numbered, Trainer!IsBestEpoch
  <2>3. CASE k > 0
    <3>1. metadata.trained = 0..(k - 1)
          /\ (metadata.improved <=> metadata.best # NoBest /\ metadata.best.epoch = k - 1)
      BY <2>1 DEF Numbered
    <3>2. 0..(k - 1) # {} /\ Cardinality(0..(k - 1)) = k
      <4>1. Cardinality(0..(k - 1)) = ((k - 1) - 0) + 1
        BY <2>3, FS_Interval
      <4>2. ((k - 1) - 0) + 1 = k /\ 0 \in 0..(k - 1)
        BY <2>3
      <4> QED  BY <4>1, <4>2
    <3>3. (IF metadata.trained = {} THEN 0 ELSE Trainer!Cardinality(metadata.trained) - 1) = k - 1
      BY <3>1, <3>2, SameCardinality
    <3> QED  BY <3>1, <3>3 DEF Trainer!IsBestEpoch
  <2> QED  BY <2>2, <2>3
<1>6. Trainer!StopsStale
  BY DEF TrainerSafe, Trainer!StopsStale
<1> QED
  BY <1>1, <1>2, <1>3, <1>4, <1>5, <1>6
  DEF Trainer!CheckpointInv, Trainer!OnlyWhole, Trainer!LastWhole, Trainer!Resumes

\* A checkpoint that loads was completed once, one whose last save was not interrupted is of
\* one moment, training goes on from one moment, and the best epoch is judged by its loss and
\* never ends a fit: for any names, batches, losses and any writes that fail or are cut off.
THEOREM CheckpointsWhole == AllSpec => []CheckpointInv
<1>1. AllInit => TrainerSafe
  BY TrainerInitial, ServicesAssumption DEF AllInit
<1>2. TrainerSafe /\ [AllNext]_allVars => TrainerSafe'
  BY PartSteps, TrainerStep, ServicesAssumption
<1>3. TrainerSafe => CheckpointInv
  BY TrainerImplies, ServicesAssumption DEF CheckpointInv
<1> QED
  BY <1>1, <1>2, <1>3, PTL DEF AllSpec

-----------------------------------------------------------------------------
(* SpeculativeDecoder *)

\* d is m without the positions in S.
Place(i, S) == Cardinality((1..i) \ S)
Follows(d, m, S) ==
  /\ Len(d) = Place(Len(m), S)
  /\ \A i \in (1..Len(m)) \ S : d[Place(i, S)] = m[i]

\* What step i of a round that starts from t and samples c feeds to either model.
Fed(t, c, i) == IF i = 1 THEN t ELSE c[i - 1]
\* A draft model that consumed d, the steps of the round included, after k of them.
Upto(d, c, k) == SubSeq(d, 1, (Len(d) - Len(c)) + k)
RoundFed(d, c, s, t) ==
  /\ Len(c) <= Len(d) /\ Len(s) = Len(c)
  /\ \A i \in 1..Len(c) : d[(Len(d) - Len(c)) + i] = Fed(t, c, i) /\ s[i] = Upto(d, c, i)

\* The main model consumed b, the input, what was generated (q) but for its last token, and
\* then u tokens of the round.
MainFed(m, b, q, t, c, u) ==
  /\ Len(m) = (Len(b) + Len(q)) + u
  /\ \A i \in 1..Len(b) : m[i] = b[i]
  /\ \A i \in 1..Len(q) : i < Len(q) => m[(Len(b) + 1) + i] = q[i]
  /\ \A i \in 1..u : m[(Len(b) + Len(q)) + i] = Fed(t, c, i)
  /\ Len(q) > 0 => t = q[Len(q)]
Used == accepted + (IF decoderPc = "done" THEN 1 ELSE 0)

TokenTypes ==
  /\ main \in Seq(Tokens) /\ draft \in Seq(Tokens) /\ sequence \in Seq(Tokens)
  /\ candidates \in Seq(Tokens) /\ base \in Seq(Tokens) /\ snapshots \in Seq(Seq(Tokens))
  /\ from \in Tokens /\ nextToken \in Tokens
ControlTypes ==
  /\ greedy \in BOOLEAN /\ poisoned \in BOOLEAN
  /\ decoderPc \in {"idle", "draft", "verify", "done"}
  /\ maxTokens \in Lengths \cup {0} /\ accepted \in 0..NumDraft
  /\ skipped \subseteq 1..Len(main)
  /\ generates \in 0..MaxGenerates /\ stepErrors \in 0..MaxStepErrors

\* How far a round is, that there is room for a token, and what both models consumed.
RoundStands ==
  decoderPc # "idle" =>
    /\ Len(candidates) <= NumDraft /\ Len(sequence) < maxTokens
    /\ decoderPc = "draft" => Len(candidates) < NumDraft /\ accepted = 0
    /\ decoderPc # "draft" => Len(candidates) = NumDraft
    /\ RoundFed(draft, candidates, snapshots, from)
    /\ MainFed(main, base, sequence, from, candidates, Used)

\* As far as both models consumed the round, the draft model follows the main model.
DraftFollows ==
  ~poisoned =>
    /\ decoderPc = "idle" => candidates = <<>> /\ Follows(draft, main, skipped)
    /\ decoderPc # "idle" /\ Used <= NumDraft =>
         Follows(Upto(draft, candidates, Used), main, skipped)
    /\ decoderPc # "idle" /\ Used > NumDraft =>
         Follows(draft, main, skipped \cup {Len(main)})

DecoderSafe ==
  /\ TokenTypes /\ ControlTypes /\ Len(sequence) <= maxTokens
  /\ RoundStands /\ DraftFollows

LEMMA PlaceFacts ==
  ASSUME NEW L \in Nat, NEW S
  PROVE  /\ Place(L, S) \in Nat
         /\ \A i \in (1..L) \ S : Place(i, S) \in 1..Place(L, S)
         /\ L + 1 \notin S => Place(L + 1, S) = Place(L, S) + 1
         /\ Place(L + 1, S \cup {L + 1}) = Place(L, S)
         /\ \A i \in 1..L : Place(i, S \cup {L + 1}) = Place(i, S)
<1> DEFINE T(k) == (1..k) \ S
<1>1. \A k \in Nat : IsFiniteSet(T(k))
  <2>1. \A k \in Nat : IsFiniteSet(1..k)
    BY FS_Interval
  <2> QED  BY <2>1, FS_Difference
<1>2. ASSUME NEW i \in (1..L) \ S
      PROVE  Place(i, S) \in 1..Place(L, S)
  <2>1. T(i) \subseteq T(L) /\ i \in T(i)
    OBVIOUS
  <2>2. IsFiniteSet(T(i)) /\ IsFiniteSet(T(L))
    BY <1>1
  <2> HIDE DEF T
  <2>3. Cardinality(T(i)) \in Nat /\ Cardinality(T(L)) \in Nat
    BY <2>2, FS_CardinalityType
  <2>4. Cardinality(T(i)) <= Cardinality(T(L))
    BY <2>1, <2>2, FS_Subset
  <2>5. Cardinality(T(i)) > 0
    BY <2>1, <2>2, OneMore
  <2> QED  BY <2>3, <2>4, <2>5 DEF Place, T
<1>3. Place(L, S) \in Nat
  BY <1>1, FS_CardinalityType DEF Place
<1>4. ASSUME L + 1 \notin S
      PROVE  Place(L + 1, S) = Place(L, S) + 1
  <2>1. T(L + 1) = T(L) \cup {L + 1} /\ L + 1 \notin T(L)
    BY <1>4
  <2>2. IsFiniteSet(T(L))
    BY <1>1
  <2> HIDE DEF T
  <2>3. Cardinality(T(L) \cup {L + 1}) = Cardinality(T(L)) + 1
    BY <2>1, <2>2, OneMore
  <2> QED  BY <2>1, <2>3 DEF Place, T
<1>5. (1..(L + 1)) \ (S \cup {L + 1}) = (1..L) \ S
  OBVIOUS
<1>6. \A i \in 1..L : (1..i) \ (S \cup {L + 1}) = (1..i) \ S
  OBVIOUS
<1> QED  BY <1>2, <1>3, <1>4, <1>5, <1>6 DEF Place

LEMMA FollowsBoth ==
  ASSUME NEW d \in Seq(Tokens), NEW m \in Seq(Tokens), NEW S \in SUBSET (1..Len(m)),
         NEW t \in Tokens, Follows(d, m, S)
  PROVE  Follows(Append(d, t), Append(m, t), S)
<1> DEFINE L == Len(m)
<1>1. L \in Nat /\ L + 1 \notin S /\ Len(Append(m, t)) = L + 1 /\ Len(Append(d, t)) = Len(d) + 1
  OBVIOUS
<1>2. Place(L + 1, S) = Place(L, S) + 1 /\ Place(L, S) \in Nat
      /\ \A i \in (1..L) \ S : Place(i, S) \in 1..Place(L, S)
  BY <1>1, PlaceFacts
<1>3. Len(d) = Place(L, S)
  BY DEF Follows
<1>4. ASSUME NEW i \in (1..(L + 1)) \ S
      PROVE  Append(d, t)[Place(i, S)] = Append(m, t)[i]
  <2>1. CASE i = L + 1
    <3>1. Append(d, t)[Len(d) + 1] = t /\ Append(m, t)[L + 1] = t
      OBVIOUS
    <3> QED  BY <1>2, <1>3, <2>1, <3>1
  <2>2. CASE i # L + 1
    <3>1. i \in (1..L) \ S
      BY <1>1, <2>2
    <3>2. Place(i, S) \in 1..Len(d) /\ d[Place(i, S)] = m[i]
      BY <1>2, <1>3, <3>1 DEF Follows
    <3>3. Append(m, t)[i] = m[i]
      BY <3>1
    <3>4. \A k \in 1..Len(d) : Append(d, t)[k] = d[k]
      OBVIOUS
    <3> QED  BY <3>2, <3>3, <3>4
  <2> QED  BY <2>1, <2>2
<1> HIDE DEF L
<1> QED  BY <1>1, <1>2, <1>3, <1>4 DEF Follows

LEMMA FollowsSkipping ==
  ASSUME NEW d \in Seq(Tokens), NEW m \in Seq(Tokens), NEW S \in SUBSET (1..Len(m)),
         NEW t \in Tokens, Follows(d, m, S)
  PROVE  Follows(d, Append(m, t), S \cup {Len(m) + 1})
<1> DEFINE L == Len(m)
<1>1. L \in Nat /\ Len(Append(m, t)) = L + 1
  OBVIOUS
<1>2. Place(L + 1, S \cup {L + 1}) = Place(L, S)
      /\ \A i \in 1..L : Place(i, S \cup {L + 1}) = Place(i, S)
  BY <1>1, PlaceFacts
<1>3. ASSUME NEW i \in (1..(L + 1)) \ (S \cup {L + 1})
      PROVE  d[Place(i, S \cup {L + 1})] = Append(m, t)[i]
  <2>1. i \in (1..L) \ S
    BY <1>1
  <2>2. Append(m, t)[i] = m[i]
    BY <2>1
  <2> QED  BY <1>2, <2>1, <2>2 DEF Follows
<1> HIDE DEF L
<1> QED  BY <1>1, <1>2, <1>3 DEF Follows, L

\* e is d after the next step of a round, which adds to what the draft model was fed.
FedTo(e, d, t, c) ==
  e = Append(d, Fed(t, c, Len(c) + 1)) /\ Fed(t, c, Len(c) + 1) \in Tokens

LEMMA FedMore ==
  ASSUME NEW d \in Seq(Tokens), NEW c \in Seq(Tokens), NEW s \in Seq(Seq(Tokens)),
         NEW t \in Tokens, NEW x \in Tokens, NEW e, FedTo(e, d, t, c), RoundFed(d, c, s, t)
  PROVE  RoundFed(e, Append(c, x), Append(s, e), t) /\ Upto(e, Append(c, x), 0) = Upto(d, c, 0)
<1> DEFINE n == Len(c)
           B == Len(d) - Len(c)
           y == Fed(t, c, n + 1)
           c1 == Append(c, x)
           s1 == Append(s, e)
<1> USE DEF FedTo
<1>1. /\ n \in Nat /\ B \in Nat /\ Len(d) = B + n /\ Len(s) = n
      /\ \A i \in 1..n : d[B + i] = Fed(t, c, i) /\ s[i] = Upto(d, c, i)
  BY DEF RoundFed
<1>2. /\ e \in Seq(Tokens) /\ Len(e) = (B + n) + 1 /\ e[(B + n) + 1] = y
      /\ \A k \in 1..(B + n) : e[k] = d[k]
  BY <1>1
<1>3. /\ c1 \in Seq(Tokens) /\ Len(c1) = n + 1 /\ \A k \in 1..n : c1[k] = c[k]
      /\ Len(s1) = n + 1 /\ s1[n + 1] = e /\ \A k \in 1..n : s1[k] = s[k]
  BY <1>1, <1>2
<1>4. Len(e) - Len(c1) = B
  BY <1>1, <1>2, <1>3
<1>5. \A k \in 0..n : SubSeq(e, 1, B + k) = SubSeq(d, 1, B + k)
  <2>1. SUFFICES ASSUME NEW k \in 0..n
                 PROVE  SubSeq(e, 1, B + k) = SubSeq(d, 1, B + k)
    OBVIOUS
  <2>2. /\ SubSeq(e, 1, B + k) \in Seq(Tokens) /\ Len(SubSeq(e, 1, B + k)) = B + k
        /\ \A j \in 1..(B + k) : SubSeq(e, 1, B + k)[j] = e[j]
    BY <1>1, <1>2
  <2>3. /\ SubSeq(d, 1, B + k) \in Seq(Tokens) /\ Len(SubSeq(d, 1, B + k)) = B + k
        /\ \A j \in 1..(B + k) : SubSeq(d, 1, B + k)[j] = d[j]
    BY <1>1, SMTT(60)
  <2>4. \A j \in 1..(B + k) : SubSeq(e, 1, B + k)[j] = SubSeq(d, 1, B + k)[j]
    BY <1>1, <1>2, <2>2, <2>3
  <2> QED  BY <2>2, <2>3, <2>4, SeqEqual
<1>6. SubSeq(e, 1, B + (n + 1)) = e
  <2>1. SubSeq(e, 1, B + (n + 1)) \in Seq(Tokens) /\ Len(SubSeq(e, 1, B + (n + 1))) = Len(e)
        /\ \A j \in 1..Len(e) : SubSeq(e, 1, B + (n + 1))[j] = e[j]
    BY <1>1, <1>2
  <2> QED  BY <1>2, <2>1, SeqEqual
<1>7. \A i \in 1..(n + 1) : Fed(t, c1, i) = Fed(t, c, i)
  BY <1>1, <1>3 DEF Fed
<1>8. ASSUME NEW i \in 1..(n + 1)
      PROVE  e[B + i] = Fed(t, c1, i) /\ s1[i] = SubSeq(e, 1, B + i)
  <2>1. CASE i = n + 1
    <3>1. e[B + i] = y /\ B + i = (B + n) + 1
      BY <1>1, <1>2, <2>1
    <3> QED  BY <1>3, <1>6, <1>7, <2>1, <3>1
  <2>2. CASE i # n + 1
    <3>1. i \in 1..n /\ B + i \in 1..(B + n)
      BY <1>1, <2>2
    <3>2. e[B + i] = d[B + i] /\ s1[i] = s[i]
      BY <1>2, <1>3, <3>1
    <3>3. d[B + i] = Fed(t, c, i) /\ s[i] = SubSeq(d, 1, B + i)
      BY <1>1, <3>1 DEF Upto
    <3>4. SubSeq(e, 1, B + i) = SubSeq(d, 1, B + i)
      BY <1>5, <3>1
    <3> QED  BY <1>7, <3>2, <3>3, <3>4
  <2> QED  BY <2>1, <2>2
<1>9. Upto(e, c1, 0) = Upto(d, c, 0)
  BY <1>1, <1>4, <1>5 DEF Upto
<1>10. Len(c1) <= Len(e) /\ Len(s1) = Len(c1)
  BY <1>1, <1>2, <1>3
<1> HIDE DEF c1, s1, B, n
<1>11. RoundFed(e, c1, s1, t)
  BY <1>3, <1>4, <1>8, <1>10 DEF RoundFed, Upto
<1> QED  BY <1>9, <1>11 DEF c1, s1

\* What the draft model consumed up to a step, and one step on.
LEMMA UptoFacts ==
  ASSUME NEW d \in Seq(Tokens), NEW c \in Seq(Tokens), NEW s \in Seq(Seq(Tokens)),
         NEW t \in Tokens, RoundFed(d, c, s, t)
  PROVE  /\ \A k \in 0..Len(c) : Upto(d, c, k) \in Seq(Tokens)
         /\ \A k \in 0..Len(c) :
              k < Len(c) => Upto(d, c, k + 1) = Append(Upto(d, c, k), Fed(t, c, k + 1))
         /\ Upto(d, c, Len(c)) = d
<1> DEFINE n == Len(c)
           B == Len(d) - Len(c)
<1>1. /\ n \in Nat /\ B \in Nat /\ Len(d) = B + n
      /\ \A i \in 1..n : d[B + i] = Fed(t, c, i)
  BY DEF RoundFed
<1>2. \A k \in 0..n : /\ SubSeq(d, 1, B + k) \in Seq(Tokens) /\ Len(SubSeq(d, 1, B + k)) = B + k
                      /\ \A j \in 1..(B + k) : SubSeq(d, 1, B + k)[j] = d[j]
  BY <1>1
<1>3. ASSUME NEW k \in 0..n, k < n
      PROVE  SubSeq(d, 1, B + (k + 1)) = Append(SubSeq(d, 1, B + k), d[B + (k + 1)])
  <2> DEFINE a == SubSeq(d, 1, B + k)
             b == SubSeq(d, 1, B + (k + 1))
             y == d[B + (k + 1)]
  <2>1. k + 1 \in 0..n /\ B + k \in Nat /\ B + (k + 1) = (B + k) + 1
        /\ B + (k + 1) \in 1..Len(d)
    BY <1>1, <1>3
  <2>2. y \in Tokens
    BY <2>1
  <2>3. a \in Seq(Tokens) /\ Len(a) = B + k /\ \A j \in 1..(B + k) : a[j] = d[j]
    BY <1>2
  <2>4. b \in Seq(Tokens) /\ Len(b) = (B + k) + 1 /\ \A j \in 1..((B + k) + 1) : b[j] = d[j]
    BY <1>2, <2>1
  <2> HIDE DEF a, b
  <2> HIDE DEF B, y
  <2>5. Append(a, y) \in Seq(Tokens) /\ Len(Append(a, y)) = (B + k) + 1
        /\ Append(a, y)[(B + k) + 1] = y /\ \A j \in 1..(B + k) : Append(a, y)[j] = a[j]
    BY <2>1, <2>2, <2>3
  <2>6. ASSUME NEW j \in 1..((B + k) + 1)
        PROVE  Append(a, y)[j] = b[j]
    <3>1. CASE j = (B + k) + 1
      <4>1. y = d[(B + k) + 1]
        BY <2>1 DEF y
      <4> QED  BY <2>4, <2>5, <3>1, <4>1
    <3>2. CASE j # (B + k) + 1
      <4>1. j \in 1..(B + k)
        BY <2>1, <3>2
      <4> QED  BY <2>3, <2>4, <2>5, <4>1
    <3> QED  BY <3>1, <3>2
  <2>7. b = Append(a, y)
    BY <2>4, <2>5, <2>6, SeqEqual
  <2> QED  BY <2>7 DEF a, b, y, B
<1>4. SubSeq(d, 1, B + n) = d
  <2>1. SubSeq(d, 1, B + n) \in Seq(Tokens) /\ Len(SubSeq(d, 1, B + n)) = Len(d)
        /\ \A j \in 1..Len(d) : SubSeq(d, 1, B + n)[j] = d[j]
    BY <1>1
  <2> QED  BY <2>1, SeqEqual
<1>5. \A k \in 0..n : k < n => d[B + (k + 1)] = Fed(t, c, k + 1)
  BY <1>1
<1> QED  BY <1>2, <1>3, <1>4, <1>5 DEF Upto

\* A step of the main model adds to what it consumed of the round.
LEMMA MainMore ==
  ASSUME NEW m \in Seq(Tokens), NEW b \in Seq(Tokens), NEW q \in Seq(Tokens), NEW t \in Tokens,
         NEW c \in Seq(Tokens), NEW u \in Nat, MainFed(m, b, q, t, c, u),
         Fed(t, c, u + 1) \in Tokens
  PROVE  MainFed(Append(m, Fed(t, c, u + 1)), b, q, t, c, u + 1)
<1> DEFINE y == Fed(t, c, u + 1)
           k == Len(b) + Len(q)
<1>1. Len(b) \in Nat /\ Len(q) \in Nat /\ k \in Nat /\ Len(b) <= k /\ Len(m) = k + u
      /\ \A i \in 1..Len(q) : i < Len(q) => (Len(b) + 1) + i \in 1..(k + u)
  BY DEF MainFed
<1>2. Len(Append(m, y)) = k + (u + 1) /\ Append(m, y)[k + (u + 1)] = y
      /\ \A i \in 1..(k + u) : Append(m, y)[i] = m[i]
  BY <1>1, SMTT(60)
<1>3. \A i \in 1..(u + 1) : Append(m, y)[k + i] = Fed(t, c, i)
  <2>1. SUFFICES ASSUME NEW i \in 1..(u + 1)
                 PROVE  Append(m, y)[k + i] = Fed(t, c, i)
    OBVIOUS
  <2>2. CASE i = u + 1
    BY <1>2, <2>2
  <2>3. CASE i # u + 1
    <3>1. i \in 1..u /\ k + i \in 1..(k + u)
      BY <1>1, <2>3
    <3>2. m[k + i] = Fed(t, c, i)
      BY <3>1 DEF MainFed
    <3> QED  BY <1>2, <3>1, <3>2
  <2> QED  BY <2>2, <2>3
<1>4. \A i \in 1..Len(b) : Append(m, y)[i] = b[i]
  BY <1>1, <1>2 DEF MainFed
<1>5. \A i \in 1..Len(q) : i < Len(q) => Append(m, y)[(Len(b) + 1) + i] = q[i]
  BY <1>1, <1>2 DEF MainFed
<1>6. Len(q) > 0 => t = q[Len(q)]
  BY DEF MainFed
<1> QED  BY <1>2, <1>3, <1>4, <1>5, <1>6 DEF MainFed

\* p is q and the first a elements of c.
Extends(p, q, c, a) ==
  /\ Len(p) = Len(q) + a
  /\ \A i \in 1..Len(q) : p[i] = q[i]
  /\ \A i \in 1..a : p[Len(q) + i] = c[i]

\* At the end of a round the input, what was accepted and the next token make a new one.
LEMMA MainRestarts ==
  ASSUME NEW m \in Seq(Tokens), NEW b \in Seq(Tokens), NEW q \in Seq(Tokens), NEW t \in Tokens,
         NEW c \in Seq(Tokens), NEW a \in 0..Len(c), NEW x \in Tokens,
         MainFed(m, b, q, t, c, a + 1), NEW p \in Seq(Tokens), Extends(p, q, c, a)
  PROVE  MainFed(m, b, Append(p, x), x, <<>>, 0)
<1> DEFINE r == Append(p, x)
<1> USE DEF Extends
<1>1. /\ Len(r) = (Len(q) + a) + 1 /\ r[(Len(q) + a) + 1] = x
      /\ \A i \in 1..(Len(q) + a) : r[i] = p[i]
  OBVIOUS
<1>2. Len(m) = (Len(b) + Len(r)) + 0
  BY <1>1 DEF MainFed
<1>3. ASSUME NEW i \in 1..Len(r), i < Len(r)
      PROVE  m[(Len(b) + 1) + i] = r[i]
  <2>1. r[i] = p[i] /\ i \in 1..(Len(q) + a)
    BY <1>1, <1>3
  <2>2. CASE i < Len(q)
    <3>1. i \in 1..Len(q)
      BY <2>1, <2>2
    <3>2. m[(Len(b) + 1) + i] = q[i] /\ p[i] = q[i]
      BY <2>2, <3>1 DEF MainFed
    <3> QED  BY <2>1, <3>2
  <2>3. CASE i >= Len(q)
    <3>1. PICK j \in 1..(a + 1) : i + 1 = Len(q) + j
      <4>1. (i + 1) - Len(q) \in 1..(a + 1) /\ i + 1 = Len(q) + ((i + 1) - Len(q))
        BY <2>1, <2>3
      <4> QED  BY <4>1
    <3>2. (Len(b) + 1) + i = (Len(b) + Len(q)) + j
      <4>1. Len(b) \in Nat /\ Len(q) \in Nat /\ i \in Nat /\ j \in Nat
        BY <2>1
      <4>2. \A u, v \in Nat : i + 1 = v + j => (u + 1) + i = (u + v) + j
        BY <4>1
      <4> QED  BY <3>1, <4>1, <4>2
    <3>3. m[(Len(b) + Len(q)) + j] = Fed(t, c, j)
      BY DEF MainFed
    <3>4. CASE j = 1
      <4>1. i = Len(q) /\ i \in 1..Len(q)
        BY <2>1, <3>1, <3>4
      <4>2. t = q[Len(q)]
        BY <4>1 DEF MainFed
      <4> QED  BY <2>1, <3>2, <3>3, <3>4, <4>1, <4>2 DEF Fed
    <3>5. CASE j # 1
      <4>1. j - 1 \in 1..a /\ i = Len(q) + (j - 1)
        BY <3>1, <3>5
      <4>2. p[i] = c[j - 1]
        BY <4>1
      <4> QED  BY <2>1, <3>2, <3>3, <3>5, <4>2 DEF Fed
    <3> QED  BY <3>4, <3>5
  <2> QED  BY <2>1, <2>2, <2>3
<1>4. \A i \in 1..Len(b) : m[i] = b[i]
  BY DEF MainFed
<1> QED  BY <1>1, <1>2, <1>3, <1>4 DEF MainFed

LEMMA RoundEmpty ==
  ASSUME NEW d \in Seq(Tokens), NEW t \in Tokens
  PROVE  RoundFed(d, <<>>, <<>>, t) /\ Upto(d, <<>>, 0) = d
<1>1. (Len(d) - Len(<<>>)) + 0 = Len(d) /\ Len(<<>>) = 0 /\ Len(d) >= 0
  OBVIOUS
<1>2. SubSeq(d, 1, Len(d)) = d
  <2>1. SubSeq(d, 1, Len(d)) \in Seq(Tokens) /\ Len(SubSeq(d, 1, Len(d))) = Len(d)
        /\ \A j \in 1..Len(d) : SubSeq(d, 1, Len(d))[j] = d[j]
    OBVIOUS
  <2> QED  BY <2>1, SeqEqual
<1>3. \A i \in 1..Len(<<>>) : FALSE
  BY <1>1
<1> QED  BY <1>1, <1>2, <1>3 DEF RoundFed, Upto

LEMMA GenerateKeeps ==
  ASSUME DecoderSafe, Decoder!DecoderAssumption, NEW t \in Tokens, NEW n \in Lengths,
         Decoder!Generate(t, n)
  PROVE  DecoderSafe'
<1>1. /\ decoderPc = "idle" /\ generates' = generates + 1 /\ generates < MaxGenerates
      /\ sequence' = <<>> /\ from' = t /\ maxTokens' = n /\ base' = main
      /\ decoderPc' = (IF n = 0 THEN "idle" ELSE "draft")
      /\ candidates' = <<>> /\ snapshots' = <<>> /\ accepted' = 0
      /\ UNCHANGED <<main, draft, greedy, nextToken, skipped, poisoned, stepErrors>>
  BY DEF Decoder!Generate
<1>2. n \in Nat /\ NumDraft \in Nat \ {0} /\ MaxGenerates \in Nat /\ Len(<<>>) = 0
  BY DEF Decoder!DecoderAssumption
<1>3. TokenTypes'
  BY <1>1 DEF DecoderSafe, TokenTypes
<1>4. ControlTypes'
  BY <1>1, <1>2 DEF DecoderSafe, ControlTypes
<1>5. Len(sequence') <= maxTokens'
  BY <1>1, <1>2
<1>6. RoundFed(draft, <<>>, <<>>, t) /\ Upto(draft, <<>>, 0) = draft
  BY RoundEmpty DEF DecoderSafe, TokenTypes
<1>7. MainFed(main, main, <<>>, t, <<>>, 0)
  <2>1. main \in Seq(Tokens)
    BY DEF DecoderSafe, TokenTypes
  <2>2. Len(main) = (Len(main) + Len(<<>>)) + 0
    BY <1>2, <2>1
  <2> QED  BY <1>2, <2>2 DEF MainFed
<1>8. decoderPc' = "draft" => Used' = 0
  BY <1>1 DEF Used
<1>9. RoundStands'
  <2> SUFFICES ASSUME decoderPc' # "idle"
               PROVE  RoundStands'
    BY DEF RoundStands
  <2>1. decoderPc' = "draft" /\ 0 < maxTokens'
    BY <1>1, <1>2
  <2> QED  BY <1>1, <1>2, <1>6, <1>7, <1>8, <2>1 DEF RoundStands
<1>10. DraftFollows'
  <2>1. ~poisoned => Follows(draft, main, skipped)
    BY <1>1 DEF DecoderSafe, DraftFollows
  <2>2. decoderPc' # "idle" => decoderPc' = "draft" /\ Used' <= NumDraft
    BY <1>1, <1>2, <1>8
  <2> QED  BY <1>1, <1>2, <1>6, <1>8, <2>1, <2>2 DEF DraftFollows
<1> QED  BY <1>3, <1>4, <1>5, <1>9, <1>10 DEF DecoderSafe

LEMMA DraftStepKeeps ==
  ASSUME DecoderSafe, Decoder!DecoderAssumption, NEW t \in Tokens, Decoder!DraftStep(t)
  PROVE  DecoderSafe'
<1> DEFINE n == Len(candidates)
           y == Fed(from, candidates, n + 1)
<1>1. /\ decoderPc = "draft" /\ n < NumDraft
      /\ draft' = Append(draft, IF candidates = <<>> THEN from ELSE Decoder!Last(candidates))
      /\ snapshots' = Append(snapshots, draft') /\ candidates' = Append(candidates, t)
      /\ decoderPc' = (IF Len(candidates') = NumDraft THEN "verify" ELSE "draft")
      /\ UNCHANGED <<main, greedy, sequence, from, maxTokens, accepted, nextToken, base, skipped,
                     poisoned, generates, stepErrors>>
  BY DEF Decoder!DraftStep, Decoder!Last, Decoder!history
<1>2. /\ candidates \in Seq(Tokens) /\ snapshots \in Seq(Seq(Tokens)) /\ draft \in Seq(Tokens)
      /\ from \in Tokens /\ n \in Nat /\ NumDraft \in Nat \ {0}
  BY DEF DecoderSafe, TokenTypes, Decoder!DecoderAssumption
<1>3. draft' = Append(draft, y) /\ y \in Tokens
  <2>1. CASE candidates = <<>>
    BY <1>1, <1>2, <2>1 DEF Fed
  <2>2. CASE candidates # <<>>
    <3>1. n > 0 /\ Decoder!Last(candidates) = candidates[(n + 1) - 1] /\ n + 1 # 1 /\ n \in 1..n
      BY <1>2, <2>2 DEF Decoder!Last
    <3>2. candidates[n] \in Tokens /\ (n + 1) - 1 = n
      BY <1>2, <3>1
    <3> QED  BY <1>1, <2>2, <3>1, <3>2 DEF Fed
  <2> QED  BY <2>1, <2>2
<1>4. /\ RoundFed(draft, candidates, snapshots, from) /\ accepted = 0
      /\ MainFed(main, base, sequence, from, candidates, 0)
      /\ Len(sequence) < maxTokens
  BY <1>1 DEF DecoderSafe, RoundStands, Used
<1> HIDE DEF y, n
<1>5. RoundFed(draft', candidates', snapshots', from)
      /\ Upto(draft', candidates', 0) = Upto(draft, candidates, 0)
  <2>1. FedTo(draft', draft, from, candidates)
    BY <1>3 DEF y, n, FedTo
  <2>2. RoundFed(draft', Append(candidates, t), Append(snapshots, draft'), from)
        /\ Upto(draft', Append(candidates, t), 0) = Upto(draft, candidates, 0)
    BY <1>2, <1>4, <2>1, FedMore
  <2> QED  BY <1>1, <2>2
<1>6. TokenTypes'
  BY <1>1, <1>2, <1>3 DEF DecoderSafe, TokenTypes
<1>7. ControlTypes'
  BY <1>1 DEF DecoderSafe, ControlTypes
<1>8. Len(sequence') <= maxTokens'
  BY <1>1 DEF DecoderSafe
<1>9. Used' = 0 /\ Used = 0 /\ decoderPc' \in {"draft", "verify"}
  BY <1>1, <1>4 DEF Used
<1>10. Len(candidates') = n + 1
  BY <1>1, <1>2 DEF n
<1>11. RoundStands'
  <2>1. MainFed(main', base', sequence', from', candidates', Used')
    BY <1>1, <1>4, <1>9 DEF MainFed
  <2>2. Len(candidates') <= NumDraft /\ (decoderPc' = "draft" => Len(candidates') < NumDraft)
        /\ (decoderPc' # "draft" => Len(candidates') = NumDraft)
    BY <1>1, <1>2, <1>9, <1>10
  <2> QED  BY <1>1, <1>4, <1>5, <2>1, <2>2 DEF RoundStands
<1>12. DraftFollows'
  <2>1. ~poisoned => Follows(Upto(draft, candidates, 0), main, skipped)
    BY <1>1, <1>2, <1>9 DEF DecoderSafe, DraftFollows
  <2> QED  BY <1>1, <1>2, <1>5, <1>9, <2>1 DEF DraftFollows
<1> QED  BY <1>6, <1>7, <1>8, <1>11, <1>12 DEF DecoderSafe

\* A step of the main model, to the next position or to the end of the round.
LEMMA JudgedIs ==
  ASSUME DecoderSafe, Decoder!DecoderAssumption, decoderPc = "verify"
  PROVE  /\ Decoder!Judged = Fed(from, candidates, accepted + 1) /\ Decoder!Judged \in Tokens
         /\ main \in Seq(Tokens) /\ Append(main, Decoder!Judged) \in Seq(Tokens)
         /\ Len(Append(main, Decoder!Judged)) = Len(main) + 1
         /\ 1..Len(main) \subseteq 1..Len(Append(main, Decoder!Judged))
<1>1. /\ candidates \in Seq(Tokens) /\ from \in Tokens /\ accepted \in 0..NumDraft
      /\ Len(candidates) = NumDraft /\ NumDraft \in Nat \ {0} /\ main \in Seq(Tokens)
  BY DEF DecoderSafe, TokenTypes, ControlTypes, RoundStands, Decoder!DecoderAssumption
<1>2. Decoder!Judged = Fed(from, candidates, accepted + 1)
  BY <1>1 DEF Decoder!Judged, Fed
<1>3. Decoder!Judged \in Tokens
  BY <1>1 DEF Decoder!Judged
<1> QED  BY <1>1, <1>2, <1>3

LEMMA MainStepKeeps ==
  ASSUME DecoderSafe, Decoder!DecoderAssumption, decoderPc = "verify",
         main' = Append(main, Decoder!Judged),
         UNCHANGED <<draft, greedy, sequence, from, maxTokens, candidates, snapshots, base,
                     skipped, poisoned, generates, stepErrors>>,
         decoderPc' \in {"verify", "done"}, nextToken' \in Tokens,
         accepted' \in 0..NumDraft, Used' = accepted + 1
  PROVE  DecoderSafe'
<1>1. /\ Decoder!Judged = Fed(from, candidates, accepted + 1) /\ Decoder!Judged \in Tokens
      /\ main \in Seq(Tokens) /\ main' \in Seq(Tokens) /\ Len(main') = Len(main) + 1
      /\ 1..Len(main) \subseteq 1..Len(main')
  BY JudgedIs
<1>2. /\ candidates \in Seq(Tokens) /\ snapshots \in Seq(Seq(Tokens)) /\ draft \in Seq(Tokens)
      /\ from \in Tokens /\ base \in Seq(Tokens) /\ sequence \in Seq(Tokens)
      /\ accepted \in 0..NumDraft /\ NumDraft \in Nat \ {0} /\ skipped \in SUBSET (1..Len(main))
  BY DEF DecoderSafe, TokenTypes, ControlTypes, Decoder!DecoderAssumption
<1>3. /\ RoundFed(draft, candidates, snapshots, from) /\ Len(candidates) = NumDraft
      /\ MainFed(main, base, sequence, from, candidates, accepted)
      /\ Len(sequence) < maxTokens
  <2>1. Used = accepted
    BY <1>2 DEF Used
  <2> QED  BY <2>1 DEF DecoderSafe, RoundStands
<1>4. TokenTypes'
  BY <1>1 DEF DecoderSafe, TokenTypes
<1>5. ControlTypes'
  BY <1>1 DEF DecoderSafe, ControlTypes
<1>6. Len(sequence') <= maxTokens'
  BY DEF DecoderSafe
<1>7. MainFed(main', base, sequence, from, candidates, accepted + 1)
  <2>1. accepted \in Nat /\ main' = Append(main, Fed(from, candidates, accepted + 1))
        /\ Fed(from, candidates, accepted + 1) \in Tokens
    BY <1>1, <1>2
  <2> QED  BY <1>1, <1>2, <1>3, <2>1, MainMore
<1>8. RoundStands'
  BY <1>2, <1>3, <1>7 DEF RoundStands
<1>9. DraftFollows'
  <2> SUFFICES ASSUME ~poisoned
               PROVE  DraftFollows'
    BY DEF DraftFollows
  <2>1. Follows(Upto(draft, candidates, accepted), main, skipped)
    <3>1. Used = accepted /\ accepted <= NumDraft
      BY <1>2 DEF Used
    <3> QED  BY <3>1 DEF DecoderSafe, DraftFollows
  <2>2. /\ Upto(draft, candidates, accepted) \in Seq(Tokens)
        /\ accepted < NumDraft => Upto(draft, candidates, accepted + 1)
             = Append(Upto(draft, candidates, accepted), Decoder!Judged)
        /\ Upto(draft, candidates, NumDraft) = draft
    BY <1>1, <1>2, <1>3, UptoFacts, SMTT(60)
  <2>3. CASE accepted < NumDraft
    <3>1. Follows(Upto(draft, candidates, accepted + 1), main', skipped)
      BY <1>1, <1>2, <2>1, <2>2, <2>3, FollowsBoth
    <3> QED  BY <1>2, <2>3, <3>1 DEF DraftFollows
  <2>4. CASE accepted = NumDraft
    <3>1. Follows(draft, main', skipped \cup {Len(main')})
      BY <1>1, <1>2, <2>1, <2>2, <2>4, FollowsSkipping
    <3> QED  BY <1>2, <2>4, <3>1 DEF DraftFollows
  <2> QED  BY <1>2, <2>3, <2>4
<1> QED  BY <1>4, <1>5, <1>6, <1>8, <1>9 DEF DecoderSafe

LEMMA VerifyKeeps ==
  ASSUME DecoderSafe, Decoder!DecoderAssumption, NEW t \in Tokens,
         Decoder!Verify(t) \/ Decoder!Bonus(t)
  PROVE  DecoderSafe'
<1>1. accepted \in 0..NumDraft /\ NumDraft \in Nat \ {0} /\ nextToken \in Tokens
  BY DEF DecoderSafe, TokenTypes, ControlTypes, Decoder!DecoderAssumption
<1>2. /\ decoderPc = "verify" /\ main' = Append(main, Decoder!Judged)
      /\ UNCHANGED <<draft, greedy, sequence, from, maxTokens, candidates, snapshots, base,
                     skipped, poisoned, generates, stepErrors>>
  BY DEF Decoder!Verify, Decoder!Bonus, Decoder!history
<1>3. /\ decoderPc' \in {"verify", "done"} /\ nextToken' \in Tokens
      /\ accepted' \in 0..NumDraft /\ Used' = accepted + 1
  <2>1. CASE Decoder!Bonus(t)
    BY <1>1, <2>1 DEF Decoder!Bonus, Used
  <2>2. CASE Decoder!Verify(t)
    <3>1. CASE accepted' = accepted + 1 /\ UNCHANGED <<decoderPc, nextToken>>
      <4>1. accepted < NumDraft
        BY <2>2 DEF Decoder!Verify
      <4> QED  BY <1>1, <1>2, <3>1, <4>1 DEF Used
    <3>2. CASE nextToken' = t /\ decoderPc' = "done" /\ UNCHANGED accepted
      BY <1>1, <3>2 DEF Used
    <3> QED  BY <2>2, <3>1, <3>2 DEF Decoder!Verify
  <2> QED  BY <2>1, <2>2
<1> QED  BY <1>2, <1>3, MainStepKeeps

LEMMA EndRoundKeeps ==
  ASSUME DecoderSafe, Decoder!DecoderAssumption, Decoder!EndRound
  PROVE  DecoderSafe'
<1> DEFINE p == SubSeq(sequence \o SubSeq(candidates, 1, accepted), 1,
                       IF Len(sequence) + accepted < maxTokens THEN Len(sequence) + accepted
                                                               ELSE maxTokens)
<1>1. /\ decoderPc = "done" /\ draft' = Decoder!RolledBack
      /\ skipped' = (IF accepted < NumDraft THEN skipped ELSE skipped \cup {Len(main)})
      /\ IF Len(p) < maxTokens
           THEN sequence' = Append(p, nextToken) /\ from' = nextToken
           ELSE sequence' = p /\ UNCHANGED from
      /\ decoderPc' = (IF Len(sequence') < maxTokens THEN "draft" ELSE "idle")
      /\ candidates' = <<>> /\ snapshots' = <<>> /\ accepted' = 0
      /\ UNCHANGED <<main, greedy, maxTokens, nextToken, base, poisoned, generates, stepErrors>>
  BY DEF Decoder!EndRound
<1>2. /\ candidates \in Seq(Tokens) /\ snapshots \in Seq(Seq(Tokens)) /\ draft \in Seq(Tokens)
      /\ from \in Tokens /\ nextToken \in Tokens /\ base \in Seq(Tokens) /\ main \in Seq(Tokens)
      /\ sequence \in Seq(Tokens) /\ accepted \in 0..NumDraft /\ NumDraft \in Nat \ {0}
      /\ skipped \in SUBSET (1..Len(main)) /\ maxTokens \in Nat
  BY DEF DecoderSafe, TokenTypes, ControlTypes, Decoder!DecoderAssumption
<1>3. /\ RoundFed(draft, candidates, snapshots, from) /\ Len(candidates) = NumDraft
      /\ MainFed(main, base, sequence, from, candidates, accepted + 1)
      /\ Len(sequence) < maxTokens
  <2>1. Used = accepted + 1
    BY <1>1 DEF Used
  <2> QED  BY <1>1, <2>1 DEF DecoderSafe, RoundStands
<1>4. Len(main) \in 1..Len(main)
  <2>1. Len(main) = (Len(base) + Len(sequence)) + (accepted + 1)
    BY <1>3 DEF MainFed
  <2>2. Len(base) \in Nat /\ Len(sequence) \in Nat /\ accepted + 1 \in Nat \ {0}
    BY <1>2
  <2> QED  BY <2>1, <2>2
<1>5. /\ p \in Seq(Tokens)
      /\ Len(p) = (IF Len(sequence) + accepted < maxTokens THEN Len(sequence) + accepted
                                                           ELSE maxTokens)
      /\ Len(p) < maxTokens => /\ \A i \in 1..Len(sequence) : p[i] = sequence[i]
                               /\ \A i \in 1..accepted : p[Len(sequence) + i] = candidates[i]
  <2> DEFINE h == SubSeq(candidates, 1, accepted)
             w == sequence \o h
             n == IF Len(sequence) + accepted < maxTokens THEN Len(sequence) + accepted
                                                          ELSE maxTokens
  <2>1. h \in Seq(Tokens) /\ Len(h) = accepted /\ \A i \in 1..accepted : h[i] = candidates[i]
    BY <1>2, <1>3
  <2> HIDE DEF h
  <2>2. /\ w \in Seq(Tokens) /\ Len(w) = Len(sequence) + accepted
        /\ \A i \in 1..Len(sequence) : w[i] = sequence[i]
        /\ \A i \in 1..accepted : w[Len(sequence) + i] = h[i]
    <3>1. /\ w \in Seq(Tokens) /\ Len(w) = Len(sequence) + Len(h)
          /\ \A i \in 1..(Len(sequence) + Len(h)) :
               w[i] = IF i <= Len(sequence) THEN sequence[i] ELSE h[i - Len(sequence)]
      BY <1>2, <2>1, ConcatProperties, ZenonT(60)
    <3> HIDE DEF w
    <3>2. Len(sequence) \in Nat /\ accepted \in Nat
      BY <1>2
    <3>3. ASSUME NEW i \in 1..accepted
          PROVE  w[Len(sequence) + i] = h[i]
      <4>1. /\ Len(sequence) + i \in 1..(Len(sequence) + Len(h))
            /\ ~(Len(sequence) + i <= Len(sequence))
            /\ (Len(sequence) + i) - Len(sequence) = i
        BY <2>1, <3>2
      <4> QED  BY <3>1, <4>1
    <3>4. \A i \in 1..Len(sequence) : w[i] = sequence[i]
      BY <2>1, <3>1, <3>2
    <3> QED  BY <2>1, <3>1, <3>3, <3>4
  <2>3. n \in 0..(Len(sequence) + accepted) /\ Len(sequence) \in Nat
    BY <1>2
  <2> HIDE DEF w, n
  <2>4. SubSeq(w, 1, n) \in Seq(Tokens) /\ Len(SubSeq(w, 1, n)) = n
        /\ \A i \in 1..n : SubSeq(w, 1, n)[i] = w[i]
    BY <2>2, <2>3
  <2>5. n < maxTokens => n = Len(sequence) + accepted
    BY <1>2 DEF n
  <2>6. p = SubSeq(w, 1, n)
    BY DEF w, n, h
  <2> HIDE DEF p
  <2>7. ASSUME n < maxTokens
        PROVE  /\ \A i \in 1..Len(sequence) : p[i] = sequence[i]
               /\ \A i \in 1..accepted : p[Len(sequence) + i] = candidates[i]
    <3>1. \A i \in 1..Len(sequence) : i \in 1..n
      BY <1>2, <2>3, <2>5, <2>7
    <3>2. \A i \in 1..accepted : Len(sequence) + i \in 1..n
      BY <1>2, <2>3, <2>5, <2>7
    <3> QED  BY <2>1, <2>2, <2>4, <2>6, <3>1, <3>2
  <2>8. p \in Seq(Tokens) /\ Len(p) = n
    BY <2>4, <2>6
  <2> QED  BY <2>7, <2>8 DEF n
<1> HIDE DEF p
<1>6. /\ sequence' \in Seq(Tokens) /\ from' \in Tokens /\ Len(sequence') <= maxTokens
      /\ Len(sequence') < maxTokens => Len(p) < maxTokens
  <2>1. CASE Len(p) < maxTokens
    <3>1. Len(Append(p, nextToken)) = Len(p) + 1 /\ Append(p, nextToken) \in Seq(Tokens)
          /\ Len(p) \in Nat
      <4>1. p \in Seq(Tokens) /\ nextToken \in Tokens
        BY <1>2, <1>5
      <4> QED  BY <4>1
    <3>2. sequence' = Append(p, nextToken) /\ from' = nextToken
      BY <1>1, <2>1
    <3>3. Len(p) + 1 <= maxTokens
      BY <1>2, <2>1, <3>1
    <3> QED  BY <1>2, <2>1, <3>1, <3>2, <3>3
  <2>2. CASE ~(Len(p) < maxTokens)
    <3>1. Len(p) <= maxTokens /\ Len(p) \in Nat
      BY <1>2, <1>5
    <3> QED  BY <1>1, <1>2, <1>5, <2>2, <3>1
  <2> QED  BY <2>1, <2>2
<1>7. draft' \in Seq(Tokens) /\ (~poisoned => Follows(draft', main, skipped'))
  <2>1. CASE accepted < NumDraft
    <3>1. accepted + 1 \in 1..NumDraft /\ accepted + 1 \in 0..NumDraft
      BY <1>2, <2>1
    <3>2. draft' = Upto(draft, candidates, accepted + 1)
      BY <1>1, <1>3, <2>1, <3>1 DEF Decoder!RolledBack, RoundFed
    <3>3. Upto(draft, candidates, accepted + 1) \in Seq(Tokens)
      BY <1>2, <1>3, <3>1, UptoFacts
    <3>4. ~poisoned => Follows(Upto(draft, candidates, accepted + 1), main, skipped)
      <4>1. Used = accepted + 1 /\ accepted + 1 <= NumDraft
        BY <1>1, <3>1 DEF Used
      <4> QED  BY <1>1, <4>1 DEF DecoderSafe, DraftFollows
    <3> QED  BY <1>1, <2>1, <3>2, <3>3, <3>4
  <2>2. CASE accepted = NumDraft
    <3>1. draft' = draft /\ skipped' = skipped \cup {Len(main)}
      BY <1>1, <1>2, <2>2 DEF Decoder!RolledBack
    <3>2. Used > NumDraft
      BY <1>1, <1>2, <2>2 DEF Used
    <3> QED  BY <1>1, <1>2, <3>1, <3>2 DEF DecoderSafe, DraftFollows
  <2> QED  BY <1>2, <2>1, <2>2
<1>8. TokenTypes'
  BY <1>1, <1>2, <1>6, <1>7 DEF TokenTypes
<1>9. ControlTypes'
  <2>1. skipped' \subseteq 1..Len(main')
    BY <1>1, <1>2, <1>4
  <2>2. 0 \in 0..NumDraft
    BY <1>2
  <2>3. ControlTypes
    BY DEF DecoderSafe
  <2> QED  BY <1>1, <2>1, <2>2, <2>3 DEF ControlTypes
<1>10. RoundFed(draft', <<>>, <<>>, from') /\ Upto(draft', <<>>, 0) = draft'
  BY <1>6, <1>7, RoundEmpty
<1>11. decoderPc' \in {"idle", "draft"} /\ Used' = 0 /\ Len(<<>>) = 0
       /\ (decoderPc' = "draft" <=> Len(sequence') < maxTokens)
  BY <1>1 DEF Used
<1>12. RoundStands'
  <2> SUFFICES ASSUME decoderPc' # "idle"
               PROVE  RoundStands'
    BY DEF RoundStands
  <2>1. decoderPc' = "draft" /\ Len(sequence') < maxTokens /\ Len(p) < maxTokens
    BY <1>6, <1>11
  <2>2. sequence' = Append(p, nextToken) /\ from' = nextToken
    BY <1>1, <2>1
  <2>3. /\ Len(p) = Len(sequence) + accepted /\ accepted \in 0..Len(candidates)
        /\ \A i \in 1..Len(sequence) : p[i] = sequence[i]
        /\ \A i \in 1..accepted : p[Len(sequence) + i] = candidates[i]
    BY <1>2, <1>3, <1>5, <2>1
  <2>4. MainFed(main, base, Append(p, nextToken), nextToken, <<>>, 0)
    <3>1. p \in Seq(Tokens)
      BY <1>5
    <3>2. Extends(p, sequence, candidates, accepted) /\ accepted \in 0..Len(candidates)
      BY <2>3 DEF Extends
    <3> QED  BY <1>2, <1>3, <3>1, <3>2, MainRestarts
  <2> QED  BY <1>1, <1>2, <1>10, <1>11, <2>1, <2>2, <2>4 DEF RoundStands
<1>13. DraftFollows'
  BY <1>1, <1>2, <1>7, <1>10, <1>11 DEF DraftFollows
<1>14. Len(sequence') <= maxTokens'
  BY <1>1, <1>6
<1> QED  BY <1>8, <1>9, <1>12, <1>13, <1>14 DEF DecoderSafe

LEMMA ModelFailsKeeps ==
  ASSUME DecoderSafe, Decoder!DecoderAssumption, Decoder!ModelFails
  PROVE  DecoderSafe'
<1>1. /\ decoderPc \in {"draft", "verify"} /\ stepErrors < MaxStepErrors
      /\ stepErrors' = stepErrors + 1 /\ poisoned' = TRUE /\ decoderPc' = "idle"
      /\ UNCHANGED <<greedy, sequence, from, maxTokens, candidates, snapshots, accepted,
                     nextToken, base, skipped, generates>>
  BY DEF Decoder!ModelFails, Decoder!round
<1>2. /\ candidates \in Seq(Tokens) /\ draft \in Seq(Tokens) /\ main \in Seq(Tokens)
      /\ from \in Tokens /\ MaxStepErrors \in Nat
  BY DEF DecoderSafe, TokenTypes, Decoder!DecoderAssumption
<1>3. draft' \in Seq(Tokens)
  <2>1. \A t \in Tokens : Append(draft, t) \in Seq(Tokens)
    BY <1>2
  <2>2. (IF candidates = <<>> THEN from ELSE Decoder!Last(candidates)) \in Tokens
    BY <1>2 DEF Decoder!Last
  <2> QED  BY <1>2, <2>1, <2>2 DEF Decoder!ModelFails
<1>4. main' \in Seq(Tokens) /\ 1..Len(main) \subseteq 1..Len(main')
  <2>1. CASE UNCHANGED main
    BY <1>2, <2>1
  <2>2. CASE decoderPc = "verify" /\ main' = Append(main, Decoder!Judged)
    BY <2>2, JudgedIs
  <2> QED  BY <2>1, <2>2 DEF Decoder!ModelFails
<1>5. TokenTypes'
  BY <1>1, <1>3, <1>4 DEF DecoderSafe, TokenTypes
<1>6. ControlTypes'
  BY <1>1, <1>2, <1>4, SMTT(60) DEF DecoderSafe, ControlTypes
<1>7. RoundStands' /\ DraftFollows'
  BY <1>1 DEF RoundStands, DraftFollows
<1>8. Len(sequence') <= maxTokens'
  BY <1>1 DEF DecoderSafe
<1> QED  BY <1>5, <1>6, <1>7, <1>8 DEF DecoderSafe

LEMMA DecoderStep ==
  ASSUME DecoderSafe, [Decoder!Next]_decoderVars, Decoder!DecoderAssumption
  PROVE  DecoderSafe'
<1>1. CASE UNCHANGED decoderVars
  <2>1. UNCHANGED <<main, draft, sequence, candidates, base, snapshots, from, nextToken>>
        /\ UNCHANGED <<greedy, poisoned, decoderPc, maxTokens, accepted, skipped, generates,
                       stepErrors>>
    BY <1>1 DEF decoderVars
  <2>2. TokenTypes' /\ ControlTypes' /\ Len(sequence') <= maxTokens'
    BY <2>1 DEF DecoderSafe, TokenTypes, ControlTypes
  <2>3. RoundStands' /\ DraftFollows'
    BY <2>1 DEF DecoderSafe, RoundStands, DraftFollows, Used
  <2> QED  BY <2>2, <2>3 DEF DecoderSafe
<1>2. CASE Decoder!Next
  BY <1>2, GenerateKeeps, DraftStepKeeps, VerifyKeeps, EndRoundKeeps, ModelFailsKeeps
  DEF Decoder!Next
<1> QED  BY <1>1, <1>2

LEMMA DecoderInitial ==
  ASSUME Decoder!Init, Decoder!DecoderAssumption
  PROVE  DecoderSafe
<1>1. Decoder!AnyToken \in Tokens
  BY DEF Decoder!AnyToken, Decoder!DecoderAssumption
<1>2. /\ main = <<>> /\ draft = <<>> /\ greedy \in BOOLEAN
      /\ decoderPc = "idle" /\ sequence = <<>> /\ from = Decoder!AnyToken /\ maxTokens = 0
      /\ candidates = <<>> /\ snapshots = <<>> /\ accepted = 0 /\ nextToken = Decoder!AnyToken
      /\ base = <<>> /\ skipped = {} /\ poisoned = FALSE /\ generates = 0 /\ stepErrors = 0
  BY DEF Decoder!Init
<1>3. NumDraft \in Nat /\ MaxGenerates \in Nat /\ MaxStepErrors \in Nat /\ Len(<<>>) = 0
  BY DEF Decoder!DecoderAssumption
<1>4. TokenTypes /\ ControlTypes /\ Len(sequence) <= maxTokens
  <2>1. <<>> \in Seq(Tokens) /\ <<>> \in Seq(Seq(Tokens))
    OBVIOUS
  <2>2. TokenTypes
    BY <1>1, <1>2, <2>1 DEF TokenTypes
  <2>3. ControlTypes
    <3>1. greedy \in BOOLEAN /\ poisoned \in BOOLEAN /\ skipped \subseteq 1..Len(main)
      BY <1>2
    <3>2. /\ decoderPc \in {"idle", "draft", "verify", "done"} /\ maxTokens \in Lengths \cup {0}
          /\ accepted \in 0..NumDraft /\ generates \in 0..MaxGenerates
          /\ stepErrors \in 0..MaxStepErrors
      BY <1>2, <1>3
    <3> QED  BY <3>1, <3>2 DEF ControlTypes
  <2> QED  BY <1>2, <1>3, <2>2, <2>3
<1>5. Follows(<<>>, <<>>, {})
  <2>1. 1..0 = {} /\ (1..0) \ {} = {}
    OBVIOUS
  <2>2. Place(0, {}) = 0
    BY <2>1, FS_EmptySet DEF Place
  <2> QED  BY <1>3, <2>1, <2>2 DEF Follows
<1>6. RoundStands /\ DraftFollows
  BY <1>2, <1>5 DEF RoundStands, DraftFollows
<1> QED  BY <1>4, <1>6 DEF DecoderSafe

LEMMA DecoderSets == ASSUME NEW S PROVE Decoder!Cardinality(S) = Cardinality(S)
BY DEF Decoder!Cardinality, Cardinality, Decoder!IsFiniteSet, IsFiniteSet

LEMMA MiddleIs ==
  ASSUME NEW m \in Seq(Tokens), NEW b \in Nat, NEW n \in Nat \ {0}, Len(m) = b + n
  PROVE  /\ SubSeq(m, b + 2, b + n) \in Seq(Tokens) /\ Len(SubSeq(m, b + 2, b + n)) = n - 1
         /\ \A i \in 1..(n - 1) : SubSeq(m, b + 2, b + n)[i] = m[(b + 1) + i]
<1> DEFINE r == SubSeq(m, b + 2, b + n)
<1>1. \A i \in (b + 2)..(b + n) : m[i] \in Tokens
  BY ElementOfSeq
<1>2. b + 2 \in Int /\ b + n \in Int
  OBVIOUS
<1>3. /\ r \in Seq(Tokens)
      /\ Len(r) = (IF b + 2 <= b + n THEN ((b + n) - (b + 2)) + 1 ELSE 0)
      /\ \A i \in 1..(((b + n) - (b + 2)) + 1) : r[i] = m[((b + 2) + i) - 1]
  BY <1>1, <1>2, SubSeqProperties
<1> HIDE DEF r
<1>4. ((b + n) - (b + 2)) + 1 = n - 1 /\ (b + 2 <= b + n \/ n - 1 = 0)
  OBVIOUS
<1>5. Len(r) = n - 1
  BY <1>3, <1>4
<1>6. ASSUME NEW i \in 1..(n - 1)
      PROVE  r[i] = m[(b + 1) + i]
  <2>1. ((b + 2) + i) - 1 = (b + 1) + i
    OBVIOUS
  <2> QED  BY <1>3, <1>4, <2>1
<1> QED  BY <1>3, <1>5, <1>6 DEF r

LEMMA FrontIs ==
  ASSUME NEW q \in Seq(Tokens), NEW n \in Nat \ {0}, Len(q) = n
  PROVE  /\ SubSeq(q, 1, n - 1) \in Seq(Tokens) /\ Len(SubSeq(q, 1, n - 1)) = n - 1
         /\ \A i \in 1..(n - 1) : SubSeq(q, 1, n - 1)[i] = q[i]
<1>1. n - 1 \in 0..Len(q)
  OBVIOUS
<1>2. \A k \in 0..Len(q) : /\ SubSeq(q, 1, k) \in Seq(Tokens) /\ Len(SubSeq(q, 1, k)) = k
                           /\ \A i \in 1..k : SubSeq(q, 1, k)[i] = q[i]
  OBVIOUS
<1> QED  BY <1>1, <1>2

LEMMA DecoderImplies ==
  ASSUME DecoderSafe, Decoder!DecoderAssumption
  PROVE  Decoder!DecoderInv
<1>1. Decoder!TypeOK
  <2>1. DOMAIN main = 1..Len(main)
    BY DEF DecoderSafe, TokenTypes
  <2> QED  BY <2>1 DEF DecoderSafe, TokenTypes, ControlTypes, Decoder!TypeOK, Decoder!TokenSeqs
<1>2. Decoder!Generated
  BY DEF DecoderSafe, RoundStands, Decoder!Generated
<1>3. Decoder!NoLeak
  <2> SUFFICES ASSUME ~poisoned, decoderPc \in {"idle", "draft"}, candidates = <<>>
               PROVE  /\ Len(draft) = Place(Len(main), skipped)
                      /\ \A i \in DOMAIN main \ skipped : draft[Place(i, skipped)] = main[i]
    BY DecoderSets DEF Decoder!NoLeak, Place
  <2>1. main \in Seq(Tokens) /\ DOMAIN main = 1..Len(main) /\ draft \in Seq(Tokens)
        /\ from \in Tokens /\ NumDraft \in Nat
    BY DEF DecoderSafe, TokenTypes, Decoder!DecoderAssumption
  <2>2. Follows(draft, main, skipped)
    <3>1. CASE decoderPc = "idle"
      BY <3>1 DEF DecoderSafe, DraftFollows
    <3>2. CASE decoderPc = "draft"
      <4>1. accepted = 0
        BY <3>2 DEF DecoderSafe, RoundStands
      <4>2. Used = 0
        BY <3>2, <4>1 DEF Used
      <4>3. Follows(Upto(draft, <<>>, 0), main, skipped)
        BY <2>1, <3>2, <4>2 DEF DecoderSafe, DraftFollows
      <4> QED  BY <2>1, <4>3, RoundEmpty
    <3> QED  BY <3>1, <3>2
  <2> QED  BY <2>1, <2>2 DEF Follows
<1>4. Decoder!MainFollows
  <2> SUFFICES ASSUME decoderPc = "draft" \/ (decoderPc = "verify" /\ accepted = 0)
               PROVE  Decoder!MainFollows
    BY DEF Decoder!MainFollows
  <2>1. /\ main \in Seq(Tokens) /\ base \in Seq(Tokens) /\ sequence \in Seq(Tokens)
        /\ Len(main) \in Nat /\ Len(base) \in Nat /\ Len(sequence) \in Nat
    BY DEF DecoderSafe, TokenTypes
  <2>2. /\ Len(main) = Len(base) + Len(sequence)
        /\ \A i \in 1..Len(base) : main[i] = base[i]
        /\ \A i \in 1..Len(sequence) : i < Len(sequence) => main[(Len(base) + 1) + i] = sequence[i]
    <3>1. accepted = 0
      BY DEF DecoderSafe, RoundStands
    <3>2. Used = 0
      BY <3>1 DEF Used
    <3>3. MainFed(main, base, sequence, from, candidates, 0)
      BY <3>2 DEF DecoderSafe, RoundStands
    <3> QED  BY <2>1, <3>3 DEF MainFed
  <2>3. CASE sequence = <<>>
    <3>1. Len(sequence) = 0
      BY <2>3
    <3>2. main = base
      BY <2>1, <2>2, <3>1, SeqEqual
    <3> QED  BY <2>3, <3>2 DEF Decoder!MainFollows
  <2>4. CASE sequence # <<>>
    <3> DEFINE b == Len(base)
               n == Len(sequence)
    <3>1. n \in Nat \ {0} /\ b \in Nat /\ Len(main) = b + n
      BY <2>1, <2>2, <2>4
    <3>2. SubSeq(main, 1, b) = base
      <4>1. /\ SubSeq(main, 1, b) \in Seq(Tokens) /\ Len(SubSeq(main, 1, b)) = b
            /\ \A i \in 1..b : SubSeq(main, 1, b)[i] = main[i]
        BY <2>1, <3>1
      <4> QED  BY <2>1, <2>2, <4>1, SeqEqual
    <3>3. SubSeq(main, b + 2, Len(main)) = Decoder!Front(sequence)
      <4>1. /\ SubSeq(main, b + 2, b + n) \in Seq(Tokens)
            /\ Len(SubSeq(main, b + 2, b + n)) = n - 1
            /\ \A i \in 1..(n - 1) : SubSeq(main, b + 2, b + n)[i] = main[(b + 1) + i]
        BY <2>1, <3>1, MiddleIs, ZenonT(60)
      <4>2. /\ SubSeq(sequence, 1, n - 1) \in Seq(Tokens) /\ Len(SubSeq(sequence, 1, n - 1)) = n - 1
            /\ \A i \in 1..(n - 1) : SubSeq(sequence, 1, n - 1)[i] = sequence[i]
        BY <2>1, <3>1, FrontIs
      <4>3. \A i \in 1..(n - 1) : main[(b + 1) + i] = sequence[i]
        BY <2>1, <2>2, <3>1
      <4>4. Decoder!Front(sequence) = SubSeq(sequence, 1, n - 1)
        BY DEF Decoder!Front
      <4> HIDE DEF b, n
      <4>5. SubSeq(main, b + 2, b + n) = SubSeq(sequence, 1, n - 1)
        BY <3>1, <4>1, <4>2, <4>3, SeqEqual
      <4> QED  BY <3>1, <4>4, <4>5
    <3> QED  BY <2>4, <3>1, <3>2, <3>3 DEF Decoder!MainFollows
  <2> QED  BY <2>3, <2>4
<1> QED  BY <1>1, <1>2, <1>3, <1>4 DEF Decoder!DecoderInv

\* The main model judges every position after exactly what was generated before it, the
\* draft model follows it but for the last candidate of a round in which all were accepted,
\* and no call generates too much: for any tokens, draft length, calls and failures.
THEOREM RejectedNeverKept == AllSpec => []DecoderInv
<1>1. AllInit => DecoderSafe
  BY DecoderInitial, ServicesAssumption DEF AllInit
<1>2. DecoderSafe /\ [AllNext]_allVars => DecoderSafe'
  BY PartSteps, DecoderStep, ServicesAssumption
<1>3. DecoderSafe => DecoderInv
  BY DecoderImplies, ServicesAssumption DEF DecoderInv
<1> QED
  BY <1>1, <1>2, <1>3, PTL DEF AllSpec
=============================================================================
