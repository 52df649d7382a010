---------------------------- MODULE StreamsProofs ----------------------------
(***************************************************************************)
(* The parts of MCStreams, for every value of their constants, one at a    *)
(* time.                                                                   *)
(***************************************************************************)
EXTENDS MCStreams, FiniteSetTheorems, SequenceTheorems, TLAPS

allVars == <<unit, vars, streamVars, transformVars, adapterVars>>

\* A step of the whole is a step of each part, or leaves the part alone.
LEMMA PartSteps ==
  ASSUME [AllNext]_allVars
  PROVE  /\ [Stream!Next]_streamVars /\ [Transform!Next]_transformVars
         /\ [Adapter!Next]_adapterVars /\ [Next]_vars
BY DEF AllNext, allVars

-----------------------------------------------------------------------------
(* MqttAdapter *)

\* The requests there are anywhere: in the engine, on their way, and of calls in progress.
InEngine(p, j) == IF p = "engine" THEN {j} ELSE {}
Messaged(s) == {s[n].job : n \in {m \in 1..Len(s) : s[m].kind = "request"}}
Arrived(s) == {s[n] : n \in 1..Len(s)}
Asked(p, i, k) == {[id |-> i[c], call |-> k[c]] : c \in {d \in Callers : p[d] # "idle"}}
Around ==
  InEngine(runPc, job) \cup Messaged(requestChannel) \cup Messaged(resend)
    \cup Arrived(requestInbox) \cup Asked(callerPc, id, call)

\* A request has been counted under its id, and is alone with it when it was counted once.
Known(S, u) ==
  \A x \in S : /\ u[x.id] > 0
               /\ \A y \in S : x.id = y.id /\ u[x.id] = 1 => x.call = y.call

\* Two calls in progress have different numbers, of requests there were.
CallsApart ==
  \A c \in Callers :
    /\ callerPc[c] = "idle" => answer[c] = Adapter!Unanswered
    /\ callerPc[c] # "idle" =>
         /\ call[c] \in 1..requests
         /\ \A d \in Callers : callerPc[d] # "idle" /\ call[c] = call[d] => c = d

\* The inductive invariant.
AdapterSafe == AdapterInv /\ CallsApart /\ Known(Around, uses)

LEMMA AdapterInitial ==
  ASSUME Adapter!MqttAssumption, Adapter!Init
  PROVE  AdapterSafe
<1> USE DEF Adapter!Init, Adapter!MqttAssumption
<1>1. Adapter!NoJob.id \in RequestIds /\ Adapter!NoJob \in Adapter!Jobs
  BY DEF Adapter!NoJob, Adapter!Jobs
<1>2. Adapter!TypeOK
  <2>1. {running, linked, answering} \subseteq BOOLEAN
    OBVIOUS
  <2>2. /\ runPc = "ready" /\ job \in Adapter!Jobs
        /\ pending \in [RequestIds -> 0..MaxRequests] /\ uses \in [RequestIds -> 0..2]
    BY <1>1
  <2>3. /\ callerPc \in [Callers -> {"idle", "publish", "wait", "gone"}]
        /\ id \in [Callers -> RequestIds] /\ call \in [Callers -> 0..MaxRequests]
    BY <1>1
  <2>4. answer \in [Callers -> 0..Adapter!Unanswered]
    BY DEF Adapter!Unanswered
  <2>5. /\ requestChannel = <<>> /\ resend = <<>> /\ requestInbox = <<>>
        /\ requests \in 0..MaxRequests /\ adapterFaults \in 0..MaxFaults /\ starts \in 0..1
    OBVIOUS
  <2>6. /\ <<>> \in Seq(Adapter!Messages) /\ <<>> \in Seq(Adapter!Jobs)
        /\ Len(<<>>) <= AdapterCap
    OBVIOUS
  <2> QED  BY <2>1, <2>2, <2>3, <2>4, <2>5, <2>6 DEF Adapter!TypeOK
<1>3. Adapter!PendingExact /\ Adapter!AnswersOwn /\ CallsApart
  BY <1>1 DEF Adapter!PendingExact, Adapter!AnswersOwn, CallsApart, Adapter!Unanswered
<1>4. Around = {}
  BY DEF Around, InEngine, Messaged, Arrived, Asked
<1> QED
  BY <1>2, <1>3, <1>4 DEF AdapterSafe, AdapterInv, Adapter!AdapterInv, Known

LEMMA MessagedJoin ==
  ASSUME NEW S, NEW s \in Seq(S), NEW t \in Seq(S)
  PROVE  Messaged(s \o t) = Messaged(s) \cup Messaged(t)
<1>1. /\ Len(s \o t) = Len(s) + Len(t) /\ Len(s) \in Nat /\ Len(t) \in Nat
      /\ \A n \in 1..Len(s) : (s \o t)[n] = s[n]
      /\ \A n \in 1..Len(t) : (s \o t)[Len(s) + n] = t[n]
  OBVIOUS
<1>2. ASSUME NEW n \in 1..Len(t)
      PROVE  Len(s) + n \in 1..Len(s \o t) /\ (s \o t)[Len(s) + n] = t[n]
  BY <1>1
<1>3. ASSUME NEW n \in 1..Len(s \o t), n \notin 1..Len(s)
      PROVE  n - Len(s) \in 1..Len(t) /\ (s \o t)[n] = t[n - Len(s)]
  BY <1>1, <1>3
<1>4. 1..Len(s) \subseteq 1..Len(s \o t)
  BY <1>1
<1>5. ASSUME NEW x \in Messaged(s \o t) PROVE x \in Messaged(s) \cup Messaged(t)
  <2>1. PICK n \in 1..Len(s \o t) : (s \o t)[n].kind = "request" /\ x = (s \o t)[n].job
    BY DEF Messaged
  <2>2. CASE n \in 1..Len(s)
    BY <1>1, <2>1, <2>2 DEF Messaged
  <2>3. CASE n \notin 1..Len(s)
    BY <1>3, <2>1, <2>3 DEF Messaged
  <2> QED  BY <2>2, <2>3
<1>6. ASSUME NEW x \in Messaged(s) PROVE x \in Messaged(s \o t)
  <2>1. PICK n \in 1..Len(s) : s[n].kind = "request" /\ x = s[n].job
    BY DEF Messaged
  <2> QED  BY <1>1, <1>4, <2>1 DEF Messaged
<1>7. ASSUME NEW x \in Messaged(t) PROVE x \in Messaged(s \o t)
  <2>1. PICK n \in 1..Len(t) : t[n].kind = "request" /\ x = t[n].job
    BY DEF Messaged
  <2> QED  BY <1>2, <2>1 DEF Messaged
<1> QED  BY <1>5, <1>6, <1>7

LEMMA MessagedMore ==
  ASSUME NEW S, NEW s \in Seq(S), NEW m
  PROVE  /\ m.kind = "request" => Messaged(Append(s, m)) = Messaged(s) \cup {m.job}
         /\ m.kind # "request" => Messaged(Append(s, m)) = Messaged(s)
<1>1. s \in Seq(S \cup {m}) /\ m \in S \cup {m}
  OBVIOUS
<1>2. /\ Len(Append(s, m)) = Len(s) + 1 /\ Len(s) \in Nat /\ Append(s, m)[Len(s) + 1] = m
      /\ \A n \in 1..Len(s) : Append(s, m)[n] = s[n]
  BY <1>1
<1>3. 1..(Len(s) + 1) = 1..Len(s) \cup {Len(s) + 1}
  BY <1>2
<1>4. m.kind = "request" => Messaged(Append(s, m)) = Messaged(s) \cup {m.job}
  BY <1>2, <1>3 DEF Messaged
<1>5. m.kind # "request" => Messaged(Append(s, m)) = Messaged(s)
  BY <1>2, <1>3 DEF Messaged
<1> QED  BY <1>4, <1>5

LEMMA MessagedLess ==
  ASSUME NEW S, NEW s \in Seq(S), s # <<>>
  PROVE  /\ Messaged(Tail(s)) \subseteq Messaged(s)
         /\ Head(s).kind = "request" => Head(s).job \in Messaged(s)
<1>1. /\ Len(Tail(s)) = Len(s) - 1 /\ Len(s) \in Nat /\ Len(s) >= 1 /\ Head(s) = s[1]
      /\ \A n \in 1..(Len(s) - 1) : Tail(s)[n] = s[n + 1]
  OBVIOUS
<1>2. \A n \in 1..Len(Tail(s)) : n + 1 \in 1..Len(s) /\ Tail(s)[n] = s[n + 1]
  BY <1>1
<1>3. 1 \in 1..Len(s)
  BY <1>1
<1> QED  BY <1>1, <1>2, <1>3 DEF Messaged

LEMMA ArrivedMore ==
  ASSUME NEW S, NEW s \in Seq(S), NEW j
  PROVE  Arrived(Append(s, j)) = Arrived(s) \cup {j}
<1>1. s \in Seq(S \cup {j}) /\ j \in S \cup {j}
  OBVIOUS
<1>2. /\ Len(Append(s, j)) = Len(s) + 1 /\ Len(s) \in Nat /\ Append(s, j)[Len(s) + 1] = j
      /\ \A n \in 1..Len(s) : Append(s, j)[n] = s[n]
  BY <1>1
<1>3. 1..(Len(s) + 1) = 1..Len(s) \cup {Len(s) + 1}
  BY <1>2
<1> QED  BY <1>2, <1>3 DEF Arrived

LEMMA ArrivedLess ==
  ASSUME NEW S, NEW s \in Seq(S), s # <<>>
  PROVE  Arrived(Tail(s)) \subseteq Arrived(s) /\ Head(s) \in Arrived(s)
<1>1. /\ Len(Tail(s)) = Len(s) - 1 /\ Len(s) \in Nat /\ Len(s) >= 1 /\ Head(s) = s[1]
      /\ \A n \in 1..(Len(s) - 1) : Tail(s)[n] = s[n + 1]
  OBVIOUS
<1>2. \A n \in 1..Len(Tail(s)) : n + 1 \in 1..Len(s) /\ Tail(s)[n] = s[n + 1]
  BY <1>1
<1>3. 1 \in 1..Len(s)
  BY <1>1
<1> QED  BY <1>1, <1>2, <1>3 DEF Arrived

\* What is around may become less, or one more under an id that is counted once more.
LEMMA KnownLess ==
  ASSUME NEW S, NEW T \in SUBSET S, NEW u, Known(S, u)
  PROVE  Known(T, u)
BY DEF Known

LEMMA KnownMore ==
  ASSUME Adapter!TypeOK, NEW S \in SUBSET Adapter!Jobs, Known(S, uses), NEW j \in Adapter!Jobs
  PROVE  Known(S \cup {j}, Adapter!MoreUses(j.id)) /\ Adapter!MoreUses(j.id) \in [RequestIds -> 0..2]
<1> DEFINE u == Adapter!MoreUses(j.id)
<1>1. j.id \in RequestIds /\ uses \in [RequestIds -> 0..2]
  BY DEF Adapter!TypeOK, Adapter!Jobs
<1>2. /\ u \in [RequestIds -> 0..2]
      /\ \A i \in RequestIds : i # j.id => u[i] = uses[i]
      /\ u[j.id] > 0 /\ (u[j.id] = 1 => uses[j.id] = 0)
  BY <1>1 DEF Adapter!MoreUses
<1>3. \A x \in S : x.id \in RequestIds
  BY DEF Adapter!Jobs
<1> HIDE DEF u
<1>4. Known(S \cup {j}, u)
  <2> SUFFICES ASSUME NEW x \in S \cup {j}
               PROVE  /\ u[x.id] > 0
                      /\ \A y \in S \cup {j} : x.id = y.id /\ u[x.id] = 1 => x.call = y.call
    BY DEF Known
  <2>1. CASE x.id = j.id
    BY <1>1, <1>2, <1>3, <2>1 DEF Known
  <2>2. CASE x.id # j.id
    BY <1>1, <1>2, <1>3, <2>2 DEF Known
  <2> QED  BY <2>1, <2>2
<1> QED  BY <1>2, <1>4 DEF u

LEMMA AdapterTypeStep ==
  ASSUME Adapter!MqttAssumption, Adapter!TypeOK, Adapter!Next
  PROVE  Adapter!TypeOK'
<1> USE DEF Adapter!MqttAssumption, Adapter!runVars, Adapter!callerVars, Adapter!linkVars,
            Adapter!countVars
<1> DEFINE Flags == running \in BOOLEAN /\ linked \in BOOLEAN /\ answering \in BOOLEAN
           AtRun == /\ runPc \in {"ready", "subscribe", "poll", "engine", "publish", "backoff", "done"}
                    /\ job \in Adapter!Jobs
           Maps == pending \in [RequestIds -> 0..MaxRequests] /\ uses \in [RequestIds -> 0..2]
           Calls == /\ callerPc \in [Callers -> {"idle", "publish", "wait", "gone"}]
                    /\ id \in [Callers -> RequestIds] /\ call \in [Callers -> 0..MaxRequests]
                    /\ answer \in [Callers -> 0..Adapter!Unanswered]
           Lines == /\ requestChannel \in Seq(Adapter!Messages) /\ Len(requestChannel) <= AdapterCap
                    /\ resend \in Seq(Adapter!Messages) /\ requestInbox \in Seq(Adapter!Jobs)
           Counts == /\ requests \in 0..MaxRequests /\ adapterFaults \in 0..MaxFaults
                     /\ starts \in 0..1
           Types == Flags /\ AtRun /\ Maps /\ Calls /\ Lines /\ Counts
<1>1. /\ Adapter!TypeOK <=> Types
      /\ Adapter!TypeOK' <=> Types'
  BY DEF Adapter!TypeOK
<1>2. /\ Adapter!NoJob.id \in RequestIds /\ Adapter!NoJob \in Adapter!Jobs
      /\ Adapter!Subscribe \in Adapter!Messages /\ Adapter!Response \in Adapter!Messages
  BY DEF Adapter!NoJob, Adapter!Jobs, Adapter!Subscribe, Adapter!Response, Adapter!Messages
<1>3. Types
  BY <1>1
<1>0. <<>> \in Seq(Adapter!Messages) /\ <<>> \in Seq(Adapter!Jobs) /\ Len(<<>>) = 0
  OBVIOUS
<1> SUFFICES Types'
  BY <1>1
<1>4. CASE Adapter!Start
  BY <1>3, <1>4 DEF Adapter!Start
<1>5. CASE Adapter!Subscribed
  BY <1>2, <1>3, <1>5, SMTT(60) DEF Adapter!Subscribed, Adapter!Room
<1>6. CASE Adapter!Stop
  BY <1>3, <1>6 DEF Adapter!Stop
<1>7. CASE Adapter!SeeStop
  BY <1>3, <1>7 DEF Adapter!SeeStop
<1>8. CASE Adapter!PollConnect
  <2>1. resend' \in {resend, <<>>} /\ linked' = TRUE
        /\ UNCHANGED <<running, runPc, job, pending, callerPc, id, call, answer, requestChannel,
                       answering, requestInbox, requests, adapterFaults, starts, uses>>
    BY <1>8 DEF Adapter!PollConnect
  <2>2. resend' \in Seq(Adapter!Messages)
    <3>1. resend \in Seq(Adapter!Messages)
      BY <1>3
    <3> QED  BY <1>0, <2>1, <3>1
  <2>3. Flags'
    BY <1>3, <2>1
  <2> QED  BY <1>3, <2>1, <2>2, <2>3
<1>9. CASE Adapter!PollSend
  <2>1. /\ Adapter!Polling /\ linked /\ resend \o requestChannel # <<>>
        /\ \/ /\ resend # <<>> /\ resend' = Tail(resend) /\ UNCHANGED requestChannel
           \/ /\ resend = <<>> /\ requestChannel' = Tail(requestChannel) /\ UNCHANGED resend
        /\ UNCHANGED <<running, runPc, job, pending, callerPc, id, call, answer, linked,
                       requests, adapterFaults, starts, uses>>
    BY <1>9 DEF Adapter!PollSend
  <2>2. /\ answering' \in BOOLEAN
        /\ requestInbox' = requestInbox
             \/ requestInbox' = Append(requestInbox, Head(resend \o requestChannel).job)
    BY <1>3, <1>9 DEF Adapter!PollSend
  <2>3. Head(resend \o requestChannel).job \in Adapter!Jobs
    <3>1. resend \o requestChannel \in Seq(Adapter!Messages)
      BY <1>3
    <3>2. Head(resend \o requestChannel) \in Adapter!Messages
      BY <2>1, <3>1
    <3> QED  BY <3>2 DEF Adapter!Messages
  <2>4. requestInbox' \in Seq(Adapter!Jobs)
    <3>1. PICK j \in Adapter!Jobs : requestInbox' = requestInbox
                                     \/ requestInbox' = Append(requestInbox, j)
      BY <2>2, <2>3
    <3>2. requestInbox \in Seq(Adapter!Jobs)
      BY <1>3
    <3>3. Append(requestInbox, j) \in Seq(Adapter!Jobs)
      BY <3>2
    <3> QED  BY <3>1, <3>2, <3>3
  <2>5. /\ requestChannel' \in Seq(Adapter!Messages) /\ Len(requestChannel') <= AdapterCap
        /\ resend' \in Seq(Adapter!Messages)
    <3>1. CASE resend # <<>>
      <4>1. resend \in Seq(Adapter!Messages)
        BY <1>3
      <4>2. Tail(resend) \in Seq(Adapter!Messages)
        BY <3>1, <4>1
      <4> QED  BY <1>3, <2>1, <3>1, <4>2
    <3>2. CASE resend = <<>>
      <4>1. requestChannel # <<>>
        BY <1>3, <2>1, <3>2
      <4>2. Tail(requestChannel) \in Seq(Adapter!Messages) /\ Len(Tail(requestChannel)) <= AdapterCap
        BY <1>3, <4>1
      <4> QED  BY <1>3, <2>1, <3>2, <4>2
    <3> QED  BY <3>1, <3>2
  <2> QED  BY <1>3, <2>1, <2>2, <2>4, <2>5
<1>10. CASE Adapter!PollReceive
  BY <1>3, <1>10 DEF Adapter!PollReceive
<1>11. CASE Adapter!PollError
  <2>1. /\ adapterFaults < MaxFaults /\ adapterFaults' = adapterFaults + 1
        /\ linked' = FALSE /\ answering' = FALSE /\ requestInbox' = <<>> /\ runPc' = "backoff"
        /\ \/ resend' = resend \o requestChannel /\ requestChannel' = <<>>
           \/ UNCHANGED <<resend, requestChannel>>
        /\ UNCHANGED <<running, job, pending, callerPc, id, call, answer, requests, starts, uses>>
    BY <1>11 DEF Adapter!PollError
  <2>2. resend \o requestChannel \in Seq(Adapter!Messages)
    BY <1>3
  <2>3. /\ resend' \in Seq(Adapter!Messages) /\ requestChannel' \in Seq(Adapter!Messages)
        /\ Len(requestChannel') <= AdapterCap
    <3>1. CASE UNCHANGED <<resend, requestChannel>>
      BY <1>3, <3>1
    <3>2. CASE resend' = resend \o requestChannel /\ requestChannel' = <<>>
      BY <1>0, <2>2, <3>2
    <3> QED  BY <2>1, <3>1, <3>2
  <2>4. requestInbox' \in Seq(Adapter!Jobs)
    BY <1>0, <2>1
  <2>5. Flags'
    BY <1>3, <2>1
  <2>6. AtRun'
    BY <1>3, <2>1
  <2>7. Counts'
    BY <1>3, <2>1
  <2> QED  BY <1>3, <2>1, <2>3, <2>4, <2>5, <2>6, <2>7
<1>12. CASE Adapter!BackoffOver
  BY <1>3, <1>12 DEF Adapter!BackoffOver
<1>13. CASE Adapter!EngineOk
  <2>1. job.id \in RequestIds /\ job.call \in 0..MaxRequests
    BY <1>3 DEF Adapter!Jobs
  <2>2. answer' \in [Callers -> 0..Adapter!Unanswered]
    BY <1>3, <1>13, <2>1 DEF Adapter!EngineOk, Adapter!Unanswered
  <2>3. pending' \in [RequestIds -> 0..MaxRequests]
    <3>1. pending' = [pending EXCEPT ![job.id] = 0]
      BY <1>13 DEF Adapter!EngineOk
    <3> QED  BY <1>3, <2>1, <3>1
  <2> QED  BY <1>2, <1>3, <1>13, <2>2, <2>3 DEF Adapter!EngineOk
<1>14. CASE Adapter!EngineErr
  BY <1>2, <1>3, <1>14 DEF Adapter!EngineErr
<1>15. CASE Adapter!PublishResponse
  BY <1>2, <1>3, <1>15, SMTT(60) DEF Adapter!PublishResponse, Adapter!Room
<1>16. ASSUME NEW c \in Callers, Adapter!Publish(c) PROVE Types'
  <2>1. Adapter!Publication([id |-> id[c], call |-> call[c]]) \in Adapter!Messages
    BY <1>3 DEF Adapter!Publication, Adapter!Messages, Adapter!Jobs
  <2> QED  BY <1>3, <1>16, <2>1, SMTT(60) DEF Adapter!Publish, Adapter!Room
<1>17. ASSUME NEW c \in Callers, Adapter!Over(c) PROVE Calls'
  <2>1. 0 \in 0..MaxRequests /\ Adapter!Unanswered \in 0..Adapter!Unanswered
    BY DEF Adapter!Unanswered
  <2> QED  BY <1>2, <1>3, <1>17, <2>1 DEF Adapter!Over
<1>18. ASSUME NEW c \in Callers, Adapter!Return(c) PROVE Types'
  <2>1. /\ Adapter!Over(c)
        /\ \/ UNCHANGED pending
           \/ pending' = [pending EXCEPT ![id[c]] = 0]
        /\ UNCHANGED <<running, runPc, job, requestChannel, linked, answering, resend,
                       requestInbox, requests, adapterFaults, starts, uses>>
    BY <1>18 DEF Adapter!Return, Adapter!Answered, Adapter!Closed, Adapter!RequestTimeout
  <2>2. Calls'
    BY <1>17, <2>1
  <2>3. Maps'
    <3>1. id[c] \in RequestIds /\ 0 \in 0..MaxRequests
      BY <1>3
    <3> QED  BY <1>3, <2>1, <3>1
  <2> QED  BY <1>3, <2>1, <2>2, <2>3
<1>19. ASSUME NEW c \in Callers, Adapter!Cancel(c) PROVE Types'
  BY <1>3, <1>19 DEF Adapter!Cancel
<1>20. ASSUME NEW c \in Callers, NEW i \in RequestIds, Adapter!Register(c, i) PROVE Types'
  <2>1. /\ requests + 1 \in 0..MaxRequests /\ requests' = requests + 1
        /\ Adapter!Unanswered \in 0..Adapter!Unanswered
    BY <1>3, <1>20, SMTT(60) DEF Adapter!Register, Adapter!Unanswered
  <2>2. Maps'
    BY <1>3, <1>20, <2>1, SMTT(60) DEF Adapter!Register, Adapter!MoreUses
  <2>3. Calls'
    BY <1>3, <1>20, <2>1 DEF Adapter!Register
  <2> QED  BY <1>3, <1>20, <2>1, <2>2, <2>3 DEF Adapter!Register
<1>21. ASSUME NEW i \in RequestIds, Adapter!ForeignRequest(i) PROVE Types'
  <2>1. requests + 1 \in 0..MaxRequests /\ requests' = requests + 1
    BY <1>3, <1>21 DEF Adapter!ForeignRequest
  <2>2. [id |-> i, call |-> requests + 1] \in Adapter!Jobs
    BY <2>1 DEF Adapter!Jobs
  <2>3. Maps'
    BY <1>3, <1>21 DEF Adapter!ForeignRequest, Adapter!MoreUses
  <2> QED  BY <1>3, <1>21, <2>1, <2>2, <2>3 DEF Adapter!ForeignRequest
<1> QED
  BY <1>4, <1>5, <1>6, <1>7, <1>8, <1>9, <1>10, <1>11, <1>12, <1>13, <1>14, <1>15, <1>16, <1>18,
     <1>19, <1>20, <1>21 DEF Adapter!Next, Adapter!Run

LEMMA AroundJobs ==
  ASSUME Adapter!TypeOK
  PROVE  /\ Around \in SUBSET Adapter!Jobs
         /\ \A c \in Callers : callerPc[c] # "idle" => [id |-> id[c], call |-> call[c]] \in Around
         /\ runPc = "engine" => job \in Around
<1>1. /\ job \in Adapter!Jobs /\ requestChannel \in Seq(Adapter!Messages)
      /\ resend \in Seq(Adapter!Messages) /\ requestInbox \in Seq(Adapter!Jobs)
      /\ id \in [Callers -> RequestIds] /\ call \in [Callers -> 0..MaxRequests]
  BY DEF Adapter!TypeOK
<1>2. ASSUME NEW s \in Seq(Adapter!Messages) PROVE Messaged(s) \subseteq Adapter!Jobs
  <2>1. \A n \in 1..Len(s) : s[n] \in Adapter!Messages
    OBVIOUS
  <2> QED  BY <2>1 DEF Messaged, Adapter!Messages
<1>3. Arrived(requestInbox) \subseteq Adapter!Jobs
  <2>1. \A n \in 1..Len(requestInbox) : requestInbox[n] \in Adapter!Jobs
    BY <1>1
  <2> QED  BY <2>1 DEF Arrived
<1>4. InEngine(runPc, job) \subseteq Adapter!Jobs
  BY <1>1 DEF InEngine
<1>5. Asked(callerPc, id, call) \subseteq Adapter!Jobs
  BY <1>1 DEF Asked, Adapter!Jobs
<1>6. Around \in SUBSET Adapter!Jobs
  BY <1>1, <1>2, <1>3, <1>4, <1>5 DEF Around
<1>7. \A c \in Callers : callerPc[c] # "idle" => [id |-> id[c], call |-> call[c]] \in Around
  BY DEF Around, Asked
<1>8. runPc = "engine" => job \in Around
  BY DEF Around, InEngine
<1> QED  BY <1>6, <1>7, <1>8

\* What run() and the connection do leaves the calls alone and makes no requests.
CallsAlone == UNCHANGED <<pending, callerPc, id, call, answer, requests, uses>>

LEMMA RunKeepsAround ==
  ASSUME Adapter!TypeOK,
         \/ Adapter!Start \/ Adapter!Subscribed \/ Adapter!Stop \/ Adapter!SeeStop
         \/ Adapter!PollConnect \/ Adapter!PollSend \/ Adapter!PollReceive
         \/ Adapter!PollError \/ Adapter!BackoffOver \/ Adapter!EngineErr
         \/ Adapter!PublishResponse
  PROVE  CallsAlone /\ Around' \subseteq Around
<1> USE DEF Adapter!runVars, Adapter!callerVars, Adapter!linkVars, Adapter!countVars, CallsAlone
<1>1. /\ requestChannel \in Seq(Adapter!Messages) /\ resend \in Seq(Adapter!Messages)
      /\ requestInbox \in Seq(Adapter!Jobs)
  BY DEF Adapter!TypeOK
<1>2. Adapter!Subscribe.kind # "request" /\ Adapter!Response.kind # "request"
  BY DEF Adapter!Subscribe, Adapter!Response
<1>3. Messaged(<<>>) = {} /\ Arrived(<<>>) = {}
  BY DEF Messaged, Arrived
<1>5. ASSUME CallsAlone,
             Messaged(requestChannel') \cup Messaged(resend') \cup Arrived(requestInbox')
               \cup InEngine(runPc', job')
             \subseteq Messaged(requestChannel) \cup Messaged(resend) \cup Arrived(requestInbox)
               \cup InEngine(runPc, job)
      PROVE  Around' \subseteq Around
  BY <1>5 DEF Around
<1>6. CASE Adapter!Start \/ Adapter!Stop \/ Adapter!SeeStop \/ Adapter!BackoffOver
             \/ Adapter!EngineErr
  <2>1. /\ CallsAlone /\ UNCHANGED <<requestChannel, resend, requestInbox>>
        /\ runPc' # "engine" \/ UNCHANGED <<runPc, job>>
    BY <1>6 DEF Adapter!Start, Adapter!Stop, Adapter!SeeStop, Adapter!BackoffOver, Adapter!EngineErr
  <2> QED  BY <1>5, <2>1 DEF InEngine
<1>7. CASE Adapter!Subscribed \/ Adapter!PublishResponse
  <2>1. /\ CallsAlone /\ UNCHANGED <<resend, requestInbox>> /\ runPc' = "poll"
        /\ \/ requestChannel' = Append(requestChannel, Adapter!Subscribe)
           \/ requestChannel' = Append(requestChannel, Adapter!Response)
    BY <1>7 DEF Adapter!Subscribed, Adapter!PublishResponse
  <2>2. Messaged(requestChannel') = Messaged(requestChannel)
    BY <1>1, <1>2, <2>1, MessagedMore
  <2> QED  BY <1>5, <2>1, <2>2 DEF InEngine
<1>8. CASE Adapter!PollConnect
  <2>1. /\ CallsAlone /\ UNCHANGED <<requestChannel, requestInbox, runPc, job>>
        /\ resend' = resend \/ resend' = <<>>
    BY <1>8 DEF Adapter!PollConnect
  <2> QED  BY <1>3, <1>5, <2>1
<1>9. CASE Adapter!PollSend
  <2> DEFINE m == Head(resend \o requestChannel)
  <2>1. /\ CallsAlone /\ UNCHANGED <<runPc, job>> /\ resend \o requestChannel # <<>>
        /\ \/ m.kind = "request" /\ requestInbox' = Append(requestInbox, m.job)
           \/ UNCHANGED requestInbox
    BY <1>9 DEF Adapter!PollSend
  <2>2. \/ resend # <<>> /\ resend' = Tail(resend) /\ UNCHANGED requestChannel
        \/ resend = <<>> /\ requestChannel' = Tail(requestChannel) /\ UNCHANGED resend
    BY <1>9 DEF Adapter!PollSend
  <2>3. resend \o requestChannel \in Seq(Adapter!Messages)
    BY <1>1
  <2>4. Messaged(resend \o requestChannel) = Messaged(resend) \cup Messaged(requestChannel)
    BY <1>1, MessagedJoin
  <2>5. m.kind = "request" => m.job \in Messaged(resend) \cup Messaged(requestChannel)
    BY <2>1, <2>3, <2>4, MessagedLess
  <2>6. /\ Messaged(resend') \subseteq Messaged(resend)
        /\ Messaged(requestChannel') \subseteq Messaged(requestChannel)
    <3>1. CASE resend # <<>>
      BY <1>1, <2>2, <3>1, MessagedLess
    <3>2. CASE resend = <<>>
      <4>1. resend \o requestChannel = requestChannel
        BY <1>1, <3>2
      <4>2. requestChannel # <<>> /\ requestChannel' = Tail(requestChannel) /\ resend' = resend
        BY <2>1, <2>2, <3>2, <4>1
      <4> QED  BY <1>1, <4>2, MessagedLess
    <3> QED  BY <3>1, <3>2
  <2>7. Arrived(requestInbox') \subseteq
          Arrived(requestInbox) \cup Messaged(resend) \cup Messaged(requestChannel)
    <3>1. CASE m.kind = "request" /\ requestInbox' = Append(requestInbox, m.job)
      <4>1. Arrived(requestInbox') = Arrived(requestInbox) \cup {m.job}
        BY <1>1, <3>1, ArrivedMore
      <4> QED  BY <2>5, <3>1, <4>1
    <3> QED  BY <2>1, <3>1
  <2> HIDE DEF m
  <2> QED  BY <1>5, <2>1, <2>6, <2>7
<1>10. CASE Adapter!PollReceive
  <2>1. /\ CallsAlone /\ UNCHANGED <<requestChannel, resend>> /\ requestInbox # <<>>
        /\ job' = Head(requestInbox) /\ requestInbox' = Tail(requestInbox)
    BY <1>10 DEF Adapter!PollReceive
  <2>2. job' \in Arrived(requestInbox) /\ Arrived(requestInbox') \subseteq Arrived(requestInbox)
    BY <1>1, <2>1, ArrivedLess
  <2>3. InEngine(runPc', job') \subseteq Arrived(requestInbox)
    BY <2>2 DEF InEngine
  <2> QED  BY <1>5, <2>1, <2>2, <2>3
<1>11. CASE Adapter!PollError
  <2>1. /\ CallsAlone /\ requestInbox' = <<>> /\ runPc' = "backoff"
        /\ \/ resend' = resend \o requestChannel /\ requestChannel' = <<>>
           \/ UNCHANGED <<resend, requestChannel>>
    BY <1>11 DEF Adapter!PollError
  <2>2. Messaged(resend') \cup Messaged(requestChannel')
          = Messaged(resend) \cup Messaged(requestChannel)
    <3>1. CASE UNCHANGED <<resend, requestChannel>>
      BY <3>1
    <3>2. CASE resend' = resend \o requestChannel /\ requestChannel' = <<>>
      <4>1. Messaged(resend \o requestChannel) = Messaged(resend) \cup Messaged(requestChannel)
        BY <1>1, MessagedJoin
      <4> QED  BY <1>3, <3>2, <4>1
    <3> QED  BY <2>1, <3>1, <3>2
  <2> QED  BY <1>3, <1>5, <2>1, <2>2 DEF InEngine
<1> QED
  BY <1>6, <1>7, <1>8, <1>9, <1>10, <1>11

LEMMA AdapterStep ==
  ASSUME Adapter!MqttAssumption, AdapterSafe, [Adapter!Next]_adapterVars
  PROVE  AdapterSafe'
<1> USE DEF Adapter!runVars, Adapter!callerVars, Adapter!linkVars, Adapter!countVars
<1>1. /\ Adapter!TypeOK /\ Adapter!PendingExact /\ Adapter!AnswersOwn /\ CallsApart
      /\ Known(Around, uses)
  BY DEF AdapterSafe, AdapterInv, Adapter!AdapterInv
<1>2. /\ job.id \in RequestIds /\ job.call \in 0..MaxRequests
      /\ pending \in [RequestIds -> 0..MaxRequests] /\ uses \in [RequestIds -> 0..2]
      /\ callerPc \in [Callers -> {"idle", "publish", "wait", "gone"}]
      /\ id \in [Callers -> RequestIds] /\ call \in [Callers -> 0..MaxRequests]
      /\ answer \in [Callers -> 0..Adapter!Unanswered]
      /\ requests \in 0..MaxRequests /\ MaxRequests \in Nat
      /\ Adapter!Unanswered = MaxRequests + 1
  BY <1>1 DEF Adapter!TypeOK, Adapter!Jobs, Adapter!Unanswered, Adapter!MqttAssumption
<1>3. /\ Around \in SUBSET Adapter!Jobs
      /\ \A c \in Callers : callerPc[c] # "idle" => [id |-> id[c], call |-> call[c]] \in Around
      /\ runPc = "engine" => job \in Around
  BY <1>1, AroundJobs
<1>4. \A c \in Callers : callerPc[c] # "idle" =>
        /\ uses[id[c]] > 0
        /\ \A x \in Around : x.id = id[c] /\ uses[id[c]] = 1 => x.call = call[c]
  BY <1>1, <1>3 DEF Known
<1>5. ASSUME Adapter!TypeOK', Adapter!PendingExact', Adapter!AnswersOwn', CallsApart',
             Known(Around', uses')
      PROVE  AdapterSafe'
  BY <1>5 DEF AdapterSafe, AdapterInv, Adapter!AdapterInv
<1>6. Adapter!Next => Adapter!TypeOK'
  BY <1>1, AdapterTypeStep
<1>7. ASSUME CallsAlone, Around' \subseteq Around, Adapter!TypeOK' PROVE AdapterSafe'
  <2>1. Adapter!PendingExact' /\ Adapter!AnswersOwn'
    BY <1>1, <1>7 DEF CallsAlone, Adapter!PendingExact, Adapter!AnswersOwn, Adapter!UsedOnce,
       Adapter!Unanswered
  <2>2. CallsApart'
    BY <1>1, <1>7 DEF CallsAlone, CallsApart, Adapter!Unanswered
  <2>3. Known(Around', uses')
    BY <1>1, <1>7, KnownLess DEF CallsAlone
  <2> QED  BY <1>5, <1>7, <2>1, <2>2, <2>3
<1>8. CASE UNCHANGED adapterVars
  <2>1. CallsAlone /\ Around' = Around
    BY <1>8 DEF adapterVars, CallsAlone, Around
  <2>2. Adapter!TypeOK'
    BY <1>1, <1>8 DEF adapterVars, Adapter!TypeOK, Adapter!Unanswered
  <2> QED  BY <1>7, <2>1, <2>2
<1>9. CASE /\ Adapter!Next
           /\ \/ Adapter!Start \/ Adapter!Subscribed \/ Adapter!Stop \/ Adapter!SeeStop
              \/ Adapter!PollConnect \/ Adapter!PollSend \/ Adapter!PollReceive
              \/ Adapter!PollError \/ Adapter!BackoffOver \/ Adapter!EngineErr
              \/ Adapter!PublishResponse
  BY <1>1, <1>6, <1>7, <1>9, RunKeepsAround
<1>10. CASE Adapter!Next /\ Adapter!EngineOk
  <2>1. /\ runPc = "engine" /\ runPc' = "publish"
        /\ pending' = [pending EXCEPT ![job.id] = 0]
        /\ UNCHANGED <<callerPc, id, call, requestChannel, resend, requestInbox, requests, uses>>
    BY <1>10 DEF Adapter!EngineOk
  <2>2. \A c \in Callers :
          answer'[c] = IF /\ callerPc[c] \in {"publish", "wait"}
                          /\ pending[job.id] = call[c] /\ id[c] = job.id
                       THEN job.call ELSE answer[c]
    BY <1>10 DEF Adapter!EngineOk
  <2>3. job \in Around
    BY <1>3, <2>1
  <2>4. /\ pending'[job.id] = 0
        /\ \A i \in RequestIds : i # job.id => pending'[i] = pending[i]
    BY <1>2, <2>1
  <2>5. Adapter!PendingExact'
    <3>1. ASSUME NEW i \in RequestIds, pending'[i] # 0
          PROVE  \E c \in Callers :
                   /\ id'[c] = i /\ call'[c] = pending'[i] /\ callerPc'[c] # "idle"
                   /\ answer'[c] = Adapter!Unanswered' \/ callerPc'[c] = "gone"
      <4>1. i # job.id /\ pending[i] # 0 /\ pending'[i] = pending[i]
        BY <2>4, <3>1
      <4>2. PICK c \in Callers : /\ id[c] = i /\ call[c] = pending[i] /\ callerPc[c] # "idle"
                                 /\ answer[c] = Adapter!Unanswered \/ callerPc[c] = "gone"
        BY <1>1, <4>1 DEF Adapter!PendingExact
      <4>3. answer'[c] = answer[c]
        BY <2>2, <4>1, <4>2
      <4> QED  BY <2>1, <4>1, <4>2, <4>3 DEF Adapter!Unanswered
    <3>2. ASSUME NEW c \in Callers, callerPc'[c] \in {"publish", "wait"},
                 answer'[c] = Adapter!Unanswered', uses'[id'[c]] = 1
          PROVE  pending'[id'[c]] = call'[c]
      <4>1. answer'[c] = answer[c] /\ answer[c] = Adapter!Unanswered
        BY <1>2, <2>2, <3>2 DEF Adapter!Unanswered
      <4>2. pending[id[c]] = call[c]
        BY <1>1, <2>1, <3>2, <4>1 DEF Adapter!PendingExact, Adapter!UsedOnce
      <4>3. id[c] # job.id
        BY <1>2, <2>1, <2>2, <3>2, <4>1, <4>2
      <4> QED  BY <1>2, <2>1, <2>4, <4>2, <4>3
    <3> QED  BY <3>1, <3>2 DEF Adapter!PendingExact, Adapter!UsedOnce
  <2>6. Adapter!AnswersOwn'
    <3>1. ASSUME NEW c \in Callers, answer'[c] # Adapter!Unanswered, uses[id[c]] = 1
          PROVE  answer'[c] = call[c]
      <4>1. CASE answer'[c] = answer[c]
        BY <1>1, <3>1, <4>1 DEF Adapter!AnswersOwn, Adapter!UsedOnce
      <4>2. CASE answer'[c] # answer[c]
        <5>1. callerPc[c] # "idle" /\ id[c] = job.id /\ answer'[c] = job.call
          BY <2>2, <4>2
        <5> QED  BY <1>4, <2>3, <3>1, <5>1
      <4> QED  BY <4>1, <4>2
    <3> QED  BY <2>1, <3>1 DEF Adapter!AnswersOwn, Adapter!UsedOnce, Adapter!Unanswered
  <2>7. CallsApart'
    <3>1. \A c \in Callers : callerPc[c] = "idle" => answer'[c] = answer[c]
      BY <2>2
    <3> QED  BY <1>1, <2>1, <3>1 DEF CallsApart, Adapter!Unanswered
  <2>8. Around' \subseteq Around
    BY <2>1 DEF Around, InEngine
  <2>9. Known(Around', uses')
    BY <1>1, <2>1, <2>8, KnownLess
  <2> QED  BY <1>5, <1>6, <1>10, <2>5, <2>6, <2>7, <2>9
<1>11. ASSUME NEW c \in Callers, NEW i \in RequestIds, Adapter!Next, Adapter!Register(c, i)
       PROVE  AdapterSafe'
  <2> DEFINE k == requests + 1
             j == [id |-> i, call |-> k]
  <2>1. /\ callerPc[c] = "idle" /\ requests' = k /\ k \in 1..MaxRequests
        /\ pending' = [pending EXCEPT ![i] = k]
        /\ callerPc' = [callerPc EXCEPT ![c] = "publish"]
        /\ id' = [id EXCEPT ![c] = i] /\ call' = [call EXCEPT ![c] = k]
        /\ answer' = [answer EXCEPT ![c] = Adapter!Unanswered]
        /\ UNCHANGED <<runPc, job, requestChannel, resend, requestInbox>>
    BY <1>2, <1>11 DEF Adapter!Register
  <2>2. j \in Adapter!Jobs /\ j.id = i /\ j.call = k
    BY <1>2, <2>1 DEF Adapter!Jobs
  <2>3. uses' = Adapter!MoreUses(j.id)
    BY <1>11 DEF Adapter!Register
  <2>4. Known(Around \cup {j}, uses') /\ uses' \in [RequestIds -> 0..2]
    BY <1>1, <1>3, <2>2, <2>3, KnownMore
  <2>5. Around' = Around \cup {j}
    <3>1. Asked(callerPc', id', call') = Asked(callerPc, id, call) \cup {j}
      <4>1. \A d \in Callers : /\ d # c => /\ callerPc'[d] = callerPc[d] /\ id'[d] = id[d]
                                           /\ call'[d] = call[d]
                               /\ d = c => /\ callerPc'[d] = "publish" /\ id'[d] = i
                                           /\ call'[d] = k
        BY <1>2, <2>1
      <4> HIDE DEF k
      <4> QED  BY <2>1, <4>1 DEF Asked
    <3> QED  BY <2>1, <3>1 DEF Around
  <2>6. \A d \in Callers : d # c => /\ callerPc'[d] = callerPc[d] /\ id'[d] = id[d]
                                    /\ call'[d] = call[d] /\ answer'[d] = answer[d]
    BY <1>2, <2>1
  <2>7. /\ callerPc'[c] = "publish" /\ id'[c] = i /\ call'[c] = k
        /\ answer'[c] = Adapter!Unanswered /\ pending'[i] = k
        /\ \A m \in RequestIds : m # i => pending'[m] = pending[m] /\ uses'[m] = uses[m]
    BY <1>2, <2>1, <2>2, <2>3 DEF Adapter!MoreUses
  <2>8. \A d \in Callers : d # c /\ callerPc[d] # "idle" /\ id[d] = i => uses'[i] # 1
    <3>1. ASSUME NEW d \in Callers, d # c, callerPc[d] # "idle", id[d] = i PROVE uses'[i] # 1
      <4>1. uses[i] > 0 /\ uses[i] \in 0..2
        BY <1>2, <1>4, <3>1
      <4>2. uses'[i] = IF uses[i] < 2 THEN uses[i] + 1 ELSE uses[i]
        BY <1>2, <2>2, <2>3 DEF Adapter!MoreUses
      <4> QED  BY <4>1, <4>2
    <3> QED  BY <3>1
  <2> HIDE DEF k, j
  <2>9. Adapter!PendingExact'
    <3>1. ASSUME NEW m \in RequestIds, pending'[m] # 0
          PROVE  \E d \in Callers :
                   /\ id'[d] = m /\ call'[d] = pending'[m] /\ callerPc'[d] # "idle"
                   /\ answer'[d] = Adapter!Unanswered \/ callerPc'[d] = "gone"
      <4>1. CASE m = i
        BY <2>7, <4>1
      <4>2. CASE m # i
        <5>1. PICK d \in Callers : /\ id[d] = m /\ call[d] = pending[m] /\ callerPc[d] # "idle"
                                   /\ answer[d] = Adapter!Unanswered \/ callerPc[d] = "gone"
          BY <1>1, <2>7, <3>1, <4>2 DEF Adapter!PendingExact
        <5>2. d # c
          BY <2>1, <5>1
        <5> QED  BY <2>6, <2>7, <4>2, <5>1, <5>2
      <4> QED  BY <4>1, <4>2
    <3>2. ASSUME NEW d \in Callers, callerPc'[d] \in {"publish", "wait"},
                 answer'[d] = Adapter!Unanswered, uses'[id'[d]] = 1
          PROVE  pending'[id'[d]] = call'[d]
      <4>1. CASE d = c
        BY <2>7, <4>1
      <4>2. CASE d # c
        <5>1. /\ callerPc[d] \in {"publish", "wait"} /\ answer[d] = Adapter!Unanswered
              /\ id'[d] = id[d] /\ call'[d] = call[d] /\ uses'[id[d]] = 1
          BY <2>6, <3>2, <4>2
        <5>2. id[d] # i
          BY <2>8, <4>2, <5>1
        <5>3. id[d] \in RequestIds /\ uses[id[d]] = 1
          BY <1>2, <2>7, <5>1, <5>2
        <5> QED
          BY <1>1, <2>7, <5>1, <5>2, <5>3 DEF Adapter!PendingExact, Adapter!UsedOnce
      <4> QED  BY <4>1, <4>2
    <3> QED  BY <3>1, <3>2 DEF Adapter!PendingExact, Adapter!UsedOnce, Adapter!Unanswered
  <2>10. Adapter!AnswersOwn'
    <3>1. ASSUME NEW d \in Callers, answer'[d] # Adapter!Unanswered, uses'[id'[d]] = 1
          PROVE  answer'[d] = call'[d]
      <4>1. d # c /\ answer[d] # Adapter!Unanswered
        BY <2>6, <2>7, <3>1
      <4>2. callerPc[d] # "idle" /\ id'[d] = id[d]
        BY <1>1, <2>6, <4>1 DEF CallsApart
      <4>3. id[d] # i
        BY <2>8, <3>1, <4>1, <4>2
      <4>4. uses[id[d]] = 1
        BY <1>2, <2>7, <3>1, <4>2, <4>3
      <4> QED  BY <1>1, <2>6, <4>1, <4>4 DEF Adapter!AnswersOwn, Adapter!UsedOnce
    <3> QED  BY <3>1 DEF Adapter!AnswersOwn, Adapter!UsedOnce, Adapter!Unanswered
  <2>11. CallsApart'
    <3>1. \A d \in Callers : d # c /\ callerPc[d] # "idle" => call[d] \in 1..requests
      BY <1>1 DEF CallsApart
    <3>2. k \in Nat /\ requests' = k /\ \A n \in 1..requests : n # k /\ n \in 1..k
      BY <1>2, <2>1 DEF k
    <3>3. k \in 1..k
      BY <2>1, <3>2
    <3> QED  BY <1>1, <2>6, <2>7, <3>1, <3>2, <3>3 DEF CallsApart, Adapter!Unanswered
  <2>12. Known(Around', uses')
    BY <2>4, <2>5
  <2> QED  BY <1>5, <1>6, <1>11, <2>9, <2>10, <2>11, <2>12
<1>12. ASSUME NEW i \in RequestIds, Adapter!Next, Adapter!ForeignRequest(i) PROVE AdapterSafe'
  <2> DEFINE j == [id |-> i, call |-> requests + 1]
  <2>1. /\ requests' = requests + 1 /\ requests + 1 \in 1..MaxRequests
        /\ requestInbox' = Append(requestInbox, j)
        /\ UNCHANGED <<runPc, job, pending, callerPc, id, call, answer, requestChannel, resend>>
    BY <1>2, <1>12 DEF Adapter!ForeignRequest
  <2>2. j \in Adapter!Jobs /\ j.id = i
    BY <2>1 DEF Adapter!Jobs
  <2>3. uses' = Adapter!MoreUses(j.id)
    BY <1>12 DEF Adapter!ForeignRequest
  <2>4. Known(Around \cup {j}, uses') /\ uses' \in [RequestIds -> 0..2]
    BY <1>1, <1>3, <2>2, <2>3, KnownMore
  <2>5. Around' = Around \cup {j}
    <3>1. Arrived(Append(requestInbox, j)) = Arrived(requestInbox) \cup {j}
      BY <1>1, ArrivedMore DEF Adapter!TypeOK
    <3> HIDE DEF j
    <3> QED  BY <2>1, <3>1 DEF Around
  <2>6. \A c \in Callers : callerPc[c] # "idle" /\ uses'[id[c]] = 1 => uses[id[c]] = 1
    <3>1. ASSUME NEW c \in Callers, callerPc[c] # "idle", uses'[id[c]] = 1 PROVE uses[id[c]] = 1
      <4>1. id[c] \in RequestIds /\ uses[id[c]] > 0 /\ uses[id[c]] \in 0..2
        BY <1>2, <1>4, <3>1
      <4>2. uses'[id[c]] = IF id[c] = i /\ uses[id[c]] < 2 THEN uses[id[c]] + 1 ELSE uses[id[c]]
        BY <1>2, <2>2, <2>3, <4>1 DEF Adapter!MoreUses
      <4> QED  BY <3>1, <4>1, <4>2
    <3> QED  BY <3>1
  <2> HIDE DEF j
  <2>7. Adapter!PendingExact'
    BY <1>1, <2>1, <2>6 DEF Adapter!PendingExact, Adapter!UsedOnce, Adapter!Unanswered
  <2>8. Adapter!AnswersOwn'
    BY <1>1, <2>1, <2>6 DEF Adapter!AnswersOwn, Adapter!UsedOnce, Adapter!Unanswered, CallsApart
  <2>9. CallsApart'
    <3>1. \A n \in 1..requests : n \in 1..(requests + 1)
      BY <1>2
    <3> QED  BY <1>1, <2>1, <3>1 DEF CallsApart, Adapter!Unanswered
  <2> QED  BY <1>5, <1>6, <1>12, <2>4, <2>5, <2>7, <2>8, <2>9
<1>13. ASSUME NEW c \in Callers, Adapter!Next, Adapter!Publish(c) PROVE AdapterSafe'
  <2> DEFINE j == [id |-> id[c], call |-> call[c]]
  <2>1. /\ callerPc[c] = "publish" /\ callerPc' = [callerPc EXCEPT ![c] = "wait"]
        /\ requestChannel' = Append(requestChannel, Adapter!Publication(j))
        /\ UNCHANGED <<runPc, job, pending, id, call, answer, resend, requestInbox, requests,
                       uses>>
    BY <1>13 DEF Adapter!Publish
  <2>2. \A d \in Callers : /\ callerPc'[d] = "idle" <=> callerPc[d] = "idle"
                           /\ callerPc'[d] = "gone" <=> callerPc[d] = "gone"
                           /\ callerPc'[d] \in {"publish", "wait"}
                                <=> callerPc[d] \in {"publish", "wait"}
    BY <1>2, <2>1
  <2>3. Around' = Around
    <3>1. Adapter!Publication(j).kind = "request" /\ Adapter!Publication(j).job = j
      BY DEF Adapter!Publication
    <3>2. Messaged(requestChannel') = Messaged(requestChannel) \cup {j}
      BY <1>1, <2>1, <3>1, MessagedMore DEF Adapter!TypeOK
    <3>3. Asked(callerPc', id', call') = Asked(callerPc, id, call)
      BY <2>1, <2>2 DEF Asked
    <3>4. j \in Asked(callerPc, id, call)
      BY <2>1 DEF Asked
    <3> HIDE DEF j
    <3> QED  BY <2>1, <3>2, <3>3, <3>4 DEF Around
  <2>4. Adapter!PendingExact'
    BY <1>1, <2>1, <2>2 DEF Adapter!PendingExact, Adapter!UsedOnce, Adapter!Unanswered
  <2>5. Adapter!AnswersOwn'
    BY <1>1, <2>1 DEF Adapter!AnswersOwn, Adapter!UsedOnce, Adapter!Unanswered
  <2>6. CallsApart'
    BY <1>1, <2>1, <2>2 DEF CallsApart, Adapter!Unanswered
  <2>7. Known(Around', uses')
    BY <1>1, <2>1, <2>3
  <2> QED  BY <1>5, <1>6, <1>13, <2>4, <2>5, <2>6, <2>7
<1>14. ASSUME NEW c \in Callers, Adapter!Next, Adapter!Cancel(c) PROVE AdapterSafe'
  <2>1. /\ callerPc[c] \in {"publish", "wait"} /\ callerPc' = [callerPc EXCEPT ![c] = "gone"]
        /\ UNCHANGED <<runPc, job, pending, id, call, answer, requestChannel, resend,
                       requestInbox, requests, uses>>
    BY <1>14 DEF Adapter!Cancel
  <2>2. \A d \in Callers : /\ callerPc'[d] = "idle" <=> callerPc[d] = "idle"
                           /\ callerPc[d] = "gone" => callerPc'[d] = "gone"
                           /\ callerPc'[d] \in {"publish", "wait"}
                                => callerPc[d] \in {"publish", "wait"}
    BY <1>2, <2>1
  <2>3. Around' = Around
    <3>1. Asked(callerPc', id', call') = Asked(callerPc, id, call)
      BY <2>1, <2>2 DEF Asked
    <3> QED  BY <2>1, <3>1 DEF Around
  <2>4. Adapter!PendingExact'
    BY <1>1, <2>1, <2>2 DEF Adapter!PendingExact, Adapter!UsedOnce, Adapter!Unanswered
  <2>5. Adapter!AnswersOwn'
    BY <1>1, <2>1 DEF Adapter!AnswersOwn, Adapter!UsedOnce, Adapter!Unanswered
  <2>6. CallsApart'
    BY <1>1, <2>1, <2>2 DEF CallsApart, Adapter!Unanswered
  <2>7. Known(Around', uses')
    BY <1>1, <2>1, <2>3
  <2> QED  BY <1>5, <1>6, <1>14, <2>4, <2>5, <2>6, <2>7
<1>15. ASSUME NEW c \in Callers, Adapter!Next, Adapter!Return(c) PROVE AdapterSafe'
  <2>1. /\ callerPc[c] = "wait"
        /\ \/ UNCHANGED pending
                /\ (answer[c] # Adapter!Unanswered \/ pending[id[c]] # call[c])
           \/ pending' = [pending EXCEPT ![id[c]] = 0]
        /\ callerPc' = [callerPc EXCEPT ![c] = "idle"]
        /\ id' = [id EXCEPT ![c] = Adapter!NoJob.id] /\ call' = [call EXCEPT ![c] = 0]
        /\ answer' = [answer EXCEPT ![c] = Adapter!Unanswered]
        /\ UNCHANGED <<runPc, job, requestChannel, resend, requestInbox, requests, uses>>
    BY <1>15 DEF Adapter!Return, Adapter!Answered, Adapter!Closed, Adapter!RequestTimeout,
       Adapter!Over
  <2>2. \A d \in Callers : d # c => /\ callerPc'[d] = callerPc[d] /\ id'[d] = id[d]
                                    /\ call'[d] = call[d] /\ answer'[d] = answer[d]
    BY <1>2, <2>1
  <2>3. callerPc'[c] = "idle" /\ answer'[c] = Adapter!Unanswered
    BY <1>2, <2>1
  <2>4. \A m \in RequestIds :
          /\ pending'[m] # 0 => pending'[m] = pending[m]
          /\ pending'[m] # pending[m] => m = id[c]
          /\ pending'[m] # 0 /\ m = id[c] =>
               answer[c] # Adapter!Unanswered \/ pending[id[c]] # call[c]
    BY <1>2, <2>1
  <2>5. Around' \subseteq Around
    <3>1. Asked(callerPc', id', call') \subseteq Asked(callerPc, id, call)
      BY <2>2, <2>3 DEF Asked
    <3> QED  BY <2>1, <3>1 DEF Around
  <2>6. Adapter!PendingExact'
    <3>1. ASSUME NEW m \in RequestIds, pending'[m] # 0
          PROVE  \E d \in Callers :
                   /\ id'[d] = m /\ call'[d] = pending'[m] /\ callerPc'[d] # "idle"
                   /\ answer'[d] = Adapter!Unanswered \/ callerPc'[d] = "gone"
      <4>1. PICK d \in Callers : /\ id[d] = m /\ call[d] = pending[m] /\ callerPc[d] # "idle"
                                 /\ answer[d] = Adapter!Unanswered \/ callerPc[d] = "gone"
        BY <1>1, <2>4, <3>1 DEF Adapter!PendingExact
      <4>2. d # c
        BY <2>1, <2>4, <3>1, <4>1
      <4> QED  BY <2>2, <2>4, <3>1, <4>1, <4>2
    <3>2. ASSUME NEW d \in Callers, callerPc'[d] \in {"publish", "wait"},
                 answer'[d] = Adapter!Unanswered, uses'[id'[d]] = 1
          PROVE  pending'[id'[d]] = call'[d]
      <4>1. d # c
        BY <2>3, <3>2
      <4>2. /\ callerPc[d] \in {"publish", "wait"} /\ answer[d] = Adapter!Unanswered
            /\ id'[d] = id[d] /\ call'[d] = call[d] /\ uses[id[d]] = 1
        BY <2>1, <2>2, <3>2, <4>1
      <4>3. pending[id[d]] = call[d]
        BY <1>1, <4>2 DEF Adapter!PendingExact, Adapter!UsedOnce
      <4>4. id[d] # id[c]
        <5> SUFFICES ASSUME id[d] = id[c] PROVE FALSE
          OBVIOUS
        <5>1. call[c] = call[d]
          <6>1. [id |-> id[c], call |-> call[c]] \in Around
            BY <1>3, <2>1
          <6> QED  BY <1>4, <4>2, <6>1
        <5> QED  BY <1>1, <2>1, <4>1, <4>2, <5>1 DEF CallsApart
      <4> QED  BY <1>2, <2>4, <4>2, <4>3, <4>4
    <3> QED  BY <3>1, <3>2 DEF Adapter!PendingExact, Adapter!UsedOnce, Adapter!Unanswered
  <2>7. Adapter!AnswersOwn'
    <3>1. ASSUME NEW d \in Callers, answer'[d] # Adapter!Unanswered, uses'[id'[d]] = 1
          PROVE  answer'[d] = call'[d]
      <4>1. d # c
        BY <2>3, <3>1
      <4> QED  BY <1>1, <2>1, <2>2, <3>1, <4>1 DEF Adapter!AnswersOwn, Adapter!UsedOnce
    <3> QED  BY <3>1 DEF Adapter!AnswersOwn, Adapter!UsedOnce, Adapter!Unanswered
  <2>8. CallsApart'
    BY <1>1, <2>1, <2>2, <2>3 DEF CallsApart, Adapter!Unanswered
  <2>9. Known(Around', uses')
    BY <1>1, <2>1, <2>5, KnownLess
  <2> QED  BY <1>5, <1>6, <1>15, <2>6, <2>7, <2>8, <2>9
<1>16. ASSUME Adapter!Next PROVE AdapterSafe'
  BY <1>9, <1>10, <1>11, <1>12, <1>13, <1>14, <1>15, <1>16 DEF Adapter!Next, Adapter!Run
<1> QED
  BY <1>8, <1>16

\* A caller of request() that is alone with its id gets the answer to its own input, an entry
\* belongs to somebody, and a caller alone with its id keeps its entry until it is answered,
\* for any number of callers, ids, requests, losses and sizes of the channel, however often
\* requests time out, are dropped or are sent again.
THEOREM AnswersReachTheirCaller == AllFair => []AdapterInv
<1>1. AllInit => AdapterSafe
  BY AdapterInitial, StreamsAssumption DEF AllInit
<1>2. AdapterSafe /\ [AllNext]_allVars => AdapterSafe'
  BY AdapterStep, PartSteps, StreamsAssumption
<1>3. AdapterSafe => AdapterInv
  BY DEF AdapterSafe
<1> QED
  BY <1>1, <1>2, <1>3, PTL DEF AllFair, allVars

-----------------------------------------------------------------------------
(* Sequences of numbers: their elements, and their order *)

Rising(s) == \A m, n \in 1..Len(s) : m < n => s[m] < s[n]
Below(S, T) == \A x \in S, y \in T : x < y

LEMMA ElementsAre ==
  ASSUME NEW S, NEW s \in Seq(S)
  PROVE  /\ ToSet(s) = {s[n] : n \in 1..Len(s)} /\ ToSet(s) \subseteq S
         /\ IsInjective(s) <=> \A m, n \in 1..Len(s) : s[m] = s[n] => m = n
         /\ Len(s) \in Nat /\ \A n \in 1..Len(s) : s[n] \in S
<1>1. DOMAIN s = 1..Len(s) /\ \A n \in 1..Len(s) : s[n] \in S
  OBVIOUS
<1> QED  BY <1>1 DEF ToSet, IsInjective

LEMMA OfEmpty ==
  ToSet(<<>>) = {} /\ IsInjective(<<>>) /\ Rising(<<>>)
BY DEF ToSet, IsInjective, Rising

LEMMA OfOne ==
  ASSUME NEW S, NEW x \in S
  PROVE  ToSet(<<x>>) = {x} /\ IsInjective(<<x>>) /\ Rising(<<x>>) /\ <<x>> \in Seq(S)
<1>1. DOMAIN <<x>> = {1} /\ <<x>>[1] = x /\ Len(<<x>>) = 1 /\ <<x>> \in Seq(S)
  OBVIOUS
<1> QED  BY <1>1 DEF ToSet, IsInjective, Rising

LEMMA JoinIs ==
  ASSUME NEW S, NEW s \in Seq(S), NEW t \in Seq(S)
  PROVE  /\ s \o t \in Seq(S) /\ Len(s) \in Nat /\ Len(t) \in Nat
         /\ Len(s \o t) = Len(s) + Len(t)
         /\ \A n \in 1..Len(s) : n \in 1..Len(s \o t) /\ (s \o t)[n] = s[n]
         /\ \A n \in 1..Len(t) : Len(s) + n \in 1..Len(s \o t) /\ (s \o t)[Len(s) + n] = t[n]
         /\ \A n \in 1..Len(s \o t) :
              n \in 1..Len(s) \/ (n - Len(s) \in 1..Len(t) /\ (s \o t)[n] = t[n - Len(s)])
<1>1. /\ s \o t \in Seq(S) /\ Len(s \o t) = Len(s) + Len(t)
      /\ \A i \in 1 .. Len(s) + Len(t) : (s \o t)[i] = IF i <= Len(s) THEN s[i] ELSE t[i - Len(s)]
  BY ConcatProperties
<1>2. Len(s) \in Nat /\ Len(t) \in Nat
  OBVIOUS
<1> DEFINE u == s \o t
<1> HIDE DEF u
<1>3. /\ \A i \in 1 .. Len(s) + Len(t) : u[i] = IF i <= Len(s) THEN s[i] ELSE t[i - Len(s)]
      /\ Len(u) = Len(s) + Len(t)
  BY <1>1 DEF u
<1>4. \A n \in 1..Len(s) : n \in 1..Len(u) /\ u[n] = s[n]
  BY <1>2, <1>3
<1>5. \A n \in 1..Len(t) : Len(s) + n \in 1..Len(u) /\ u[Len(s) + n] = t[n]
  <2>1. ASSUME NEW n \in 1..Len(t) PROVE Len(s) + n \in 1..Len(u) /\ u[Len(s) + n] = t[n]
    <3>1. Len(s) + n \in 1..(Len(s) + Len(t)) /\ ~(Len(s) + n <= Len(s)) /\ (Len(s) + n) - Len(s) = n
      BY <1>2
    <3> QED  BY <1>3, <3>1
  <2> QED  BY <2>1
<1>6. \A n \in 1..Len(u) : n \in 1..Len(s) \/ (n - Len(s) \in 1..Len(t) /\ u[n] = t[n - Len(s)])
  BY <1>2, <1>3
<1> QED  BY <1>1, <1>2, <1>4, <1>5, <1>6 DEF u

LEMMA ElementsJoin ==
  ASSUME NEW S, NEW s \in Seq(S), NEW t \in Seq(S)
  PROVE  ToSet(s \o t) = ToSet(s) \cup ToSet(t)
<1>1. /\ ToSet(s \o t) = {(s \o t)[n] : n \in 1..Len(s \o t)}
      /\ ToSet(s) = {s[n] : n \in 1..Len(s)} /\ ToSet(t) = {t[n] : n \in 1..Len(t)}
  <2>1. s \o t \in Seq(S)
    OBVIOUS
  <2> QED  BY <2>1, ElementsAre
<1>2. ASSUME NEW x \in ToSet(s \o t) PROVE x \in ToSet(s) \cup ToSet(t)
  <2>1. PICK n \in 1..Len(s \o t) : x = (s \o t)[n]
    BY <1>1
  <2>2. CASE n \in 1..Len(s)
    <3>1. (s \o t)[n] = s[n]
      BY <2>2, JoinIs
    <3> QED  BY <1>1, <2>1, <2>2, <3>1
  <2>3. CASE n - Len(s) \in 1..Len(t) /\ (s \o t)[n] = t[n - Len(s)]
    BY <1>1, <2>1, <2>3
  <2> QED  BY <2>2, <2>3, JoinIs
<1>3. ASSUME NEW x \in ToSet(s) PROVE x \in ToSet(s \o t)
  <2>1. PICK n \in 1..Len(s) : x = s[n]
    BY <1>1
  <2>2. n \in 1..Len(s \o t) /\ (s \o t)[n] = s[n]
    BY JoinIs
  <2> QED  BY <1>1, <2>1, <2>2
<1>4. ASSUME NEW x \in ToSet(t) PROVE x \in ToSet(s \o t)
  <2>1. PICK n \in 1..Len(t) : x = t[n]
    BY <1>1
  <2>2. Len(s) + n \in 1..Len(s \o t) /\ (s \o t)[Len(s) + n] = t[n]
    BY JoinIs
  <2> QED  BY <1>1, <2>1, <2>2
<1> QED  BY <1>2, <1>3, <1>4

LEMMA InjectiveJoin ==
  ASSUME NEW S, NEW s \in Seq(S), NEW t \in Seq(S), IsInjective(s), IsInjective(t),
         ToSet(s) \cap ToSet(t) = {}
  PROVE  IsInjective(s \o t)
<1>1. s \o t \in Seq(S)
  OBVIOUS
<1>2. /\ \A m, n \in 1..Len(s) : s[m] = s[n] => m = n
      /\ \A m, n \in 1..Len(t) : t[m] = t[n] => m = n
      /\ \A m \in 1..Len(s), n \in 1..Len(t) : s[m] # t[n]
  <2>1. ToSet(s) = {s[n] : n \in 1..Len(s)} /\ ToSet(t) = {t[n] : n \in 1..Len(t)}
    BY ElementsAre
  <2>2. /\ \A m, n \in 1..Len(s) : s[m] = s[n] => m = n
        /\ \A m, n \in 1..Len(t) : t[m] = t[n] => m = n
    BY ElementsAre
  <2>3. \A m \in 1..Len(s), n \in 1..Len(t) : s[m] # t[n]
    BY <2>1
  <2> QED  BY <2>2, <2>3
<1>3. ASSUME NEW m \in 1..Len(s \o t), NEW n \in 1..Len(s \o t), (s \o t)[m] = (s \o t)[n]
      PROVE  m = n
  <2>1. m \in 1..Len(s) \/ (m - Len(s) \in 1..Len(t) /\ (s \o t)[m] = t[m - Len(s)])
    BY JoinIs
  <2>2. n \in 1..Len(s) \/ (n - Len(s) \in 1..Len(t) /\ (s \o t)[n] = t[n - Len(s)])
    BY JoinIs
  <2>3. \A k \in 1..Len(s) : (s \o t)[k] = s[k]
    BY JoinIs
  <2>4. CASE m \in 1..Len(s)
    BY <1>2, <1>3, <2>2, <2>3, <2>4
  <2>5. CASE m \notin 1..Len(s)
    <3>1. n \notin 1..Len(s)
      BY <1>2, <1>3, <2>1, <2>3, <2>5
    <3>2. m - Len(s) = n - Len(s)
      BY <1>2, <1>3, <2>1, <2>2, <2>5, <3>1
    <3>3. Len(s) \in Nat /\ m \in Int /\ n \in Int
      BY JoinIs
    <3> QED  BY <3>2, <3>3
  <2> QED  BY <2>4, <2>5
<1> QED  BY <1>1, <1>3, ElementsAre

LEMMA RisingJoin ==
  ASSUME NEW s \in Seq(Nat), NEW t \in Seq(Nat)
  PROVE  Rising(s \o t) <=> Rising(s) /\ Rising(t) /\ Below(ToSet(s), ToSet(t))
<1>1. /\ s \o t \in Seq(Nat) /\ Len(s) \in Nat /\ Len(t) \in Nat
      /\ Len(s \o t) = Len(s) + Len(t)
      /\ \A n \in 1..Len(s) : n \in 1..Len(s \o t) /\ (s \o t)[n] = s[n]
      /\ \A n \in 1..Len(t) : Len(s) + n \in 1..Len(s \o t) /\ (s \o t)[Len(s) + n] = t[n]
      /\ \A n \in 1..Len(s \o t) :
           n \in 1..Len(s) \/ (n - Len(s) \in 1..Len(t) /\ (s \o t)[n] = t[n - Len(s)])
  BY JoinIs
<1>2. ToSet(s) = {s[n] : n \in 1..Len(s)} /\ ToSet(t) = {t[n] : n \in 1..Len(t)}
  BY ElementsAre
<1>3. ASSUME Rising(s \o t) PROVE Rising(s) /\ Rising(t) /\ Below(ToSet(s), ToSet(t))
  <2>1. Rising(s)
    BY <1>1, <1>3 DEF Rising
  <2>2. ASSUME NEW m \in 1..Len(t), NEW n \in 1..Len(t), m < n PROVE t[m] < t[n]
    <3>1. Len(s) + m < Len(s) + n
      BY <1>1, <2>2
    <3> QED  BY <1>1, <1>3, <3>1 DEF Rising
  <2>3. ASSUME NEW m \in 1..Len(s), NEW n \in 1..Len(t) PROVE s[m] < t[n]
    <3>1. m < Len(s) + n
      BY <1>1
    <3> QED  BY <1>1, <1>3, <3>1 DEF Rising
  <2> QED  BY <1>2, <2>1, <2>2, <2>3 DEF Rising, Below
<1>4. ASSUME Rising(s), Rising(t), Below(ToSet(s), ToSet(t)) PROVE Rising(s \o t)
  <2>1. SUFFICES ASSUME NEW m \in 1..Len(s \o t), NEW n \in 1..Len(s \o t), m < n
                 PROVE  (s \o t)[m] < (s \o t)[n]
    BY DEF Rising
  <2>2. CASE m \in 1..Len(s) /\ n \in 1..Len(s)
    BY <1>1, <1>4, <2>1, <2>2 DEF Rising
  <2>3. CASE m \in 1..Len(s) /\ n \notin 1..Len(s)
    BY <1>1, <1>2, <1>4, <2>3, SMTT(60) DEF Below
  <2>4. CASE m \notin 1..Len(s)
    <3>1. n \notin 1..Len(s)
      BY <1>1, <2>1, <2>4
    <3>2. m - Len(s) < n - Len(s)
      BY <1>1, <2>1
    <3> QED  BY <1>1, <1>4, <2>4, <3>1, <3>2 DEF Rising
  <2> QED  BY <2>2, <2>3, <2>4
<1> QED  BY <1>3, <1>4

LEMMA RisingInjective ==
  ASSUME NEW s \in Seq(Nat), Rising(s)
  PROVE  IsInjective(s)
<1>1. ASSUME NEW m \in 1..Len(s), NEW n \in 1..Len(s), s[m] = s[n] PROVE m = n
  <2>1. s[m] \in Nat /\ s[n] \in Nat /\ m \in Int /\ n \in Int
    BY ElementsAre
  <2>2. ~(m < n) /\ ~(n < m)
    BY <1>1, <2>1 DEF Rising
  <2> QED  BY <2>1, <2>2
<1> QED  BY <1>1, ElementsAre

\* One more element, and one less.
LEMMA OneJoined ==
  ASSUME NEW S, NEW s \in Seq(S), NEW x \in S
  PROVE  /\ Append(s, x) \in Seq(S) /\ ToSet(Append(s, x)) = ToSet(s) \cup {x}
         /\ IsInjective(s) /\ x \notin ToSet(s) => IsInjective(Append(s, x))
<1>1. Append(s, x) = s \o <<x>>
  BY AppendIsConcat
<1>2. ToSet(<<x>>) = {x} /\ IsInjective(<<x>>) /\ <<x>> \in Seq(S)
  BY OfOne
<1>3. ToSet(Append(s, x)) = ToSet(s) \cup {x}
  <2>1. ToSet(s \o <<x>>) = ToSet(s) \cup ToSet(<<x>>)
    BY <1>2, ElementsJoin, ZenonT(60)
  <2> QED  BY <1>1, <1>2, <2>1
<1>4. ASSUME IsInjective(s), x \notin ToSet(s) PROVE IsInjective(Append(s, x))
  <2>1. ToSet(s) \cap ToSet(<<x>>) = {}
    BY <1>2, <1>4
  <2> QED  BY <1>1, <1>2, <1>4, <2>1, InjectiveJoin
<1> QED  BY <1>3, <1>4

LEMMA RisingMore ==
  ASSUME NEW s \in Seq(Nat), NEW x \in Nat
  PROVE  Rising(Append(s, x)) <=> Rising(s) /\ Below(ToSet(s), {x})
<1>1. Append(s, x) = s \o <<x>>
  BY AppendIsConcat
<1>2. ToSet(<<x>>) = {x} /\ Rising(<<x>>) /\ <<x>> \in Seq(Nat)
  BY OfOne
<1> QED  BY <1>1, <1>2, RisingJoin, ZenonT(60)

LEMMA FirstAndRest ==
  ASSUME NEW S, NEW s \in Seq(S), s # <<>>
  PROVE  /\ Head(s) \in S /\ Tail(s) \in Seq(S)
         /\ ToSet(s) = {Head(s)} \cup ToSet(Tail(s))
         /\ S \subseteq Nat /\ Rising(s) => Rising(Tail(s)) /\ Below({Head(s)}, ToSet(Tail(s)))
<1>1. Head(s) \in S /\ Tail(s) \in Seq(S) /\ s = <<Head(s)>> \o Tail(s)
  <2>1. Head(s) \in S /\ Tail(s) \in Seq(S) /\ Len(s) \in Nat \ {0} /\ Head(s) = s[1]
    OBVIOUS
  <2>2. SubSeq(s, 1, Len(s)) = <<s[1]>> \o SubSeq(s, 1 + 1, Len(s))
    BY <2>1, SubSeqRecursiveFirst
  <2>3. Tail(s) = SubSeq(s, 2, Len(s)) /\ SubSeq(s, 1, Len(s)) = s
    BY TailIsSubSeq, SubSeqFull
  <2> QED  BY <2>1, <2>2, <2>3
<1>2. ToSet(<<Head(s)>>) = {Head(s)} /\ <<Head(s)>> \in Seq(S)
  BY <1>1, OfOne
<1>3. ToSet(s) = {Head(s)} \cup ToSet(Tail(s))
  <2>1. ToSet(<<Head(s)>> \o Tail(s)) = ToSet(<<Head(s)>>) \cup ToSet(Tail(s))
    <3>1. <<Head(s)>> \in Seq(S) /\ Tail(s) \in Seq(S)
      BY <1>1, <1>2
    <3> QED  BY <3>1, ElementsJoin, ZenonT(60)
  <2> QED  BY <1>1, <1>2, <2>1
<1>4. ASSUME S \subseteq Nat, Rising(s) PROVE Rising(Tail(s)) /\ Below({Head(s)}, ToSet(Tail(s)))
  <2>1. <<Head(s)>> \in Seq(Nat) /\ Tail(s) \in Seq(Nat)
    <3>1. Seq(S) \subseteq Seq(Nat)
      BY <1>4, SeqMonotonic
    <3> QED  BY <1>1, <1>2, <3>1
  <2>2. Rising(<<Head(s)>> \o Tail(s))
    BY <1>1, <1>4
  <2> QED  BY <1>2, <2>1, <2>2, RisingJoin
<1> QED  BY <1>1, <1>3, <1>4

-----------------------------------------------------------------------------
(* MqttClient *)

\* What was received is in the flow that is read, in one batch, or lost with one, once.
Batches(b) == UNION {ToSet(b[s]) : s \in Sessions}
BatchesApart(b) ==
  \A s \in Sessions : /\ IsInjective(b[s])
                      /\ \A t \in Sessions : s # t => ToSet(b[s]) \cap ToSet(b[t]) = {}
Kept(flow, b, gone, all) ==
  /\ IsInjective(flow) /\ BatchesApart(b)
  /\ ToSet(flow) \cap (Batches(b) \cup gone) = {} /\ Batches(b) \cap gone = {}
  /\ ToSet(all) = ToSet(flow) \cup Batches(b) \cup gone

\* What is still to come was sent after everything received.
ToCome ==
  /\ sent \in Nat /\ published \in Nat /\ faults \in Nat /\ sent + published + faults <= MaxEvents
  /\ Rising(inbox) /\ Below(ToSet(stored), ToSet(inbox))
  /\ \A m \in ToSet(inbox) \cup ToSet(stored) : m <= sent

\* One task at most is alive unless two ever were, and only a task that is alive has a batch.
OneAlive ==
  /\ \A s \in Sessions : ~Alive(s) => batch[s] = <<>>
  /\ \A s, t \in Sessions : Alive(s) /\ Alive(t) => s = t \/ overlapped
InFlowOrder(flow, b) == \A s \in Sessions : Rising(flow \o b[s])

\* The inductive invariant.
ClientSafe ==
  /\ TypeOK /\ ToCome /\ OneAlive
  /\ Kept(read \o buffer, batch, lost, stored)
  /\ overlapped \/ InFlowOrder(read \o buffer, batch)

LEMMA ClientImplies == ClientSafe => ClientInv
<1> SUFFICES ASSUME ClientSafe PROVE ClientInv
  OBVIOUS
<1>1. TypeOK /\ Batched = Batches(batch)
  BY DEF ClientSafe, Batched, Batches
<1>2. SamplesKept
  BY <1>1 DEF ClientSafe, Kept, SamplesKept
<1>3. read \o buffer \in Seq(Numbers) /\ \A s \in Sessions : batch[s] \in Seq(Numbers)
  BY <1>1 DEF TypeOK
<1>4. SamplesOrdered
  <2>1. ASSUME ~overlapped, NEW s \in Sessions
        PROVE  \A m, n \in DOMAIN (read \o buffer \o batch[s]) : m < n =>
                 (read \o buffer \o batch[s])[m] < (read \o buffer \o batch[s])[n]
    <3>1. Rising((read \o buffer) \o batch[s])
      BY <2>1 DEF ClientSafe, InFlowOrder
    <3>2. DOMAIN ((read \o buffer) \o batch[s]) = 1..Len((read \o buffer) \o batch[s])
      BY <1>3
    <3> QED  BY <3>1, <3>2 DEF Rising
  <2> QED  BY <2>1 DEF SamplesOrdered
<1> QED  BY <1>1, <1>2, <1>4 DEF ClientInv

LEMMA ClientInitial ==
  ASSUME MqttClientAssumption, Init
  PROVE  ClientSafe
<1> USE DEF Init, MqttClientAssumption
<1>1. <<>> \in Seq(Numbers) /\ <<>> \in Seq(Requests) /\ <<>> \o <<>> = <<>>
  OBVIOUS
<1>2. TypeOK
  <2>1. {auto, active, overlapped} \subseteq BOOLEAN /\ {client, made, holder} \subseteq 0..MaxSessions
    <3>1. 0 \in 0..MaxSessions /\ client = 0 /\ made = 0 /\ holder = 0
      OBVIOUS
    <3> QED  BY <3>1
  <2>2. /\ upc \in {"idle", "disconnect"}
        /\ lpc \in [Sessions -> {"none", "check", "poll", "resubscribe", "ended"}]
        /\ todo \in [Sessions -> 0..Topics] /\ up \in [Sessions -> BOOLEAN]
    OBVIOUS
  <2>3. channel \in [Sessions -> Seq(Requests)] /\ batch \in [Sessions -> Seq(Numbers)]
    BY <1>1
  <2>4. subscribed \subseteq TopicSet /\ lost \subseteq Numbers
    OBVIOUS
  <2>5. {inbox, buffer, stored, read} \subseteq Seq(Numbers)
    BY <1>1
  <2> QED  BY <2>1, <2>2, <2>3, <2>4, <2>5 DEF TypeOK
<1>3. ToCome /\ OneAlive
  BY OfEmpty DEF ToCome, OneAlive, Below, Alive
<1>4. \A s \in Sessions : batch[s] = <<>>
  OBVIOUS
<1>5. Kept(read \o buffer, batch, lost, stored)
  BY <1>1, <1>4, OfEmpty DEF Kept, BatchesApart, Batches
<1>6. InFlowOrder(read \o buffer, batch)
  BY <1>1, <1>4, OfEmpty DEF InFlowOrder
<1> QED  BY <1>2, <1>3, <1>5, <1>6 DEF ClientSafe

\* A new message joins a batch; a batch joins the flow; a batch is lost.
LEMMA BatchChanged ==
  ASSUME NEW b \in [Sessions -> Seq(Numbers)], NEW s \in Sessions, NEW x \in Seq(Numbers),
         NEW c, c = [b EXCEPT ![s] = x]
  PROVE  c[s] = x /\ \A t \in Sessions : t # s => c[t] = b[t]
OBVIOUS

LEMMA InBatches ==
  ASSUME NEW b
  PROVE  \A e : e \in Batches(b) <=> \E t \in Sessions : e \in ToSet(b[t])
BY DEF Batches

LEMMA KeptMore ==
  ASSUME NEW flow \in Seq(Numbers), NEW b \in [Sessions -> Seq(Numbers)], NEW gone,
         NEW all \in Seq(Numbers), Kept(flow, b, gone, all), NEW s \in Sessions,
         NEW m \in Numbers, m \notin ToSet(all)
  PROVE  Kept(flow, [b EXCEPT ![s] = Append(b[s], m)], gone, Append(all, m))
<1> DEFINE x == Append(b[s], m)
           c == [b EXCEPT ![s] = x]
<1>1. /\ x \in Seq(Numbers) /\ ToSet(x) = ToSet(b[s]) \cup {m}
      /\ IsInjective(b[s]) /\ m \notin ToSet(b[s]) => IsInjective(x)
  BY OneJoined
<1>2. ToSet(Append(all, m)) = ToSet(all) \cup {m}
  BY OneJoined
<1> HIDE DEF x
<1>0. c = [b EXCEPT ![s] = x]
  OBVIOUS
<1> HIDE DEF c
<1>3. c[s] = x /\ \A t \in Sessions : t # s => c[t] = b[t]
  BY <1>0, <1>1, BatchChanged
<1>4. Batches(c) = Batches(b) \cup {m}
  BY <1>1, <1>3, InBatches
<1>5. m \notin ToSet(flow) /\ m \notin Batches(b) /\ m \notin gone
  BY DEF Kept
<1>6. BatchesApart(c)
  <2>1. BatchesApart(b) /\ \A t \in Sessions : m \notin ToSet(b[t])
    BY <1>5, InBatches DEF Kept
  <2>2. \A t \in Sessions : IsInjective(c[t])
    BY <1>1, <1>3, <2>1 DEF BatchesApart
  <2>3. ASSUME NEW t \in Sessions, NEW u \in Sessions, t # u
        PROVE  ToSet(c[t]) \cap ToSet(c[u]) = {}
    <3>1. ToSet(b[t]) \cap ToSet(b[u]) = {}
      BY <2>1, <2>3 DEF BatchesApart
    <3>2. ToSet(c[t]) \subseteq ToSet(b[t]) \cup {m} /\ (t # s => ToSet(c[t]) = ToSet(b[t]))
      BY <1>1, <1>3
    <3>3. ToSet(c[u]) \subseteq ToSet(b[u]) \cup {m} /\ (u # s => ToSet(c[u]) = ToSet(b[u]))
      BY <1>1, <1>3
    <3> QED  BY <2>1, <2>3, <3>1, <3>2, <3>3
  <2> QED  BY <2>2, <2>3 DEF BatchesApart
<1>7. Kept(flow, c, gone, Append(all, m))
  BY <1>2, <1>4, <1>5, <1>6 DEF Kept
<1> QED  BY <1>7 DEF c, x

LEMMA KeptFlushed ==
  ASSUME NEW flow \in Seq(Numbers), NEW b \in [Sessions -> Seq(Numbers)], NEW gone,
         NEW all \in Seq(Numbers), Kept(flow, b, gone, all), NEW s \in Sessions
  PROVE  Kept(flow \o b[s], [b EXCEPT ![s] = <<>>], gone, all)
<1> DEFINE c == [b EXCEPT ![s] = <<>>]
<1>1. ToSet(<<>>) = {} /\ IsInjective(<<>>) /\ <<>> \in Seq(Numbers) /\ b[s] \in Seq(Numbers)
  BY OfEmpty
<1>0. c = [b EXCEPT ![s] = <<>>]
  OBVIOUS
<1> HIDE DEF c
<1>2. c[s] = <<>> /\ \A t \in Sessions : t # s => c[t] = b[t]
  BY <1>0, <1>1, BatchChanged
<1>3. BatchesApart(b) /\ IsInjective(flow)
  BY DEF Kept
<1>4. Batches(b) = Batches(c) \cup ToSet(b[s])
  BY <1>1, <1>2, InBatches
<1>5. ToSet(b[s]) \cap Batches(c) = {}
  BY <1>1, <1>2, <1>3, InBatches DEF BatchesApart
<1>6. BatchesApart(c)
  BY <1>1, <1>2, <1>3 DEF BatchesApart
<1>7. ToSet(flow \o b[s]) = ToSet(flow) \cup ToSet(b[s])
  BY <1>1, ElementsJoin
<1>8. IsInjective(flow \o b[s])
  <2>1. IsInjective(b[s])
    BY <1>3 DEF BatchesApart
  <2>2. ToSet(flow) \cap ToSet(b[s]) = {}
    BY <1>4 DEF Kept
  <2> QED  BY <1>1, <1>3, <2>1, <2>2, InjectiveJoin
<1>9. Kept(flow \o b[s], c, gone, all)
  BY <1>4, <1>5, <1>6, <1>7, <1>8 DEF Kept
<1> QED  BY <1>9 DEF c

LEMMA KeptLost ==
  ASSUME NEW flow \in Seq(Numbers), NEW b \in [Sessions -> Seq(Numbers)], NEW gone,
         NEW all \in Seq(Numbers), Kept(flow, b, gone, all), NEW s \in Sessions
  PROVE  Kept(flow, [b EXCEPT ![s] = <<>>], gone \cup ToSet(b[s]), all)
<1> DEFINE c == [b EXCEPT ![s] = <<>>]
<1>1. ToSet(<<>>) = {} /\ IsInjective(<<>>) /\ <<>> \in Seq(Numbers) /\ b[s] \in Seq(Numbers)
  BY OfEmpty
<1>0. c = [b EXCEPT ![s] = <<>>]
  OBVIOUS
<1> HIDE DEF c
<1>2. c[s] = <<>> /\ \A t \in Sessions : t # s => c[t] = b[t]
  BY <1>0, <1>1, BatchChanged
<1>3. BatchesApart(b) /\ IsInjective(flow)
  BY DEF Kept
<1>4. Batches(b) = Batches(c) \cup ToSet(b[s])
  BY <1>1, <1>2, InBatches
<1>5. ToSet(b[s]) \cap Batches(c) = {}
  BY <1>1, <1>2, <1>3, InBatches DEF BatchesApart
<1>6. BatchesApart(c)
  BY <1>1, <1>2, <1>3 DEF BatchesApart
<1>7. Kept(flow, c, gone \cup ToSet(b[s]), all)
  BY <1>3, <1>4, <1>5, <1>6 DEF Kept
<1> QED  BY <1>7 DEF c

LEMMA ClientTypeStep ==
  ASSUME MqttClientAssumption, TypeOK, ToCome, Next
  PROVE  TypeOK'
<1> USE DEF MqttClientAssumption, userVars, brokerVars, sampleVars, countVars
<1> DEFINE Places == {"none", "check", "poll", "resubscribe", "ended"}
           Flags == auto \in BOOLEAN /\ active \in BOOLEAN /\ overlapped \in BOOLEAN
           Owned == /\ client \in 0..MaxSessions /\ made \in 0..MaxSessions
                    /\ upc \in {"idle", "disconnect"}
           Tasks == /\ lpc \in [Sessions -> Places] /\ todo \in [Sessions -> 0..Topics]
                    /\ up \in [Sessions -> BOOLEAN]
           Lines == channel \in [Sessions -> Seq(Requests)]
           Broker == /\ holder \in 0..MaxSessions /\ subscribed \subseteq TopicSet
                     /\ inbox \in Seq(Numbers)
           Flow == buffer \in Seq(Numbers) /\ read \in Seq(Numbers) /\ stored \in Seq(Numbers)
           Held == batch \in [Sessions -> Seq(Numbers)] /\ lost \subseteq Numbers
           Types == Flags /\ Owned /\ Tasks /\ Lines /\ Broker /\ Flow /\ Held
<1>1. (TypeOK <=> Types) /\ (TypeOK' <=> Types')
  BY DEF TypeOK
<1>2. Types /\ MaxSessions \in Nat /\ Topics \in Nat \ {0}
  BY <1>1
<1>3. <<>> \in Seq(Numbers) /\ <<>> \in Seq(Requests)
  OBVIOUS
<1> SUFFICES Types'
  BY <1>1
<1>4. CASE Connect
  <2>1. /\ made + 1 \in Sessions /\ made + 1 \in 0..MaxSessions /\ made' = made + 1
        /\ client' = made + 1 /\ active' = TRUE
        /\ channel' = [channel EXCEPT ![made + 1] = [n \in TopicSet |-> n]]
        /\ lpc' = [lpc EXCEPT ![made + 1] = "check"]
        /\ overlapped' = (overlapped \/ \E s \in Sessions : Alive(s))
        /\ UNCHANGED <<auto, upc, todo, up, holder, subscribed, inbox, batch, buffer, stored,
                       read, lost>>
    BY <1>2, <1>4 DEF Connect, Goto, Sessions
  <2>2. [n \in TopicSet |-> n] \in Seq(Requests)
    <3>1. [n \in TopicSet |-> n] \in [1..Topics -> Requests]
      BY DEF TopicSet, Requests
    <3> QED  BY <1>2, <3>1, IsASeq
  <2>3. Lines'
    BY <1>2, <2>1, <2>2
  <2>4. Flags' /\ Owned'
    BY <1>2, <2>1
  <2>5. Tasks'
    BY <1>2, <2>1
  <2> QED  BY <1>2, <2>1, <2>3, <2>4, <2>5
<1>5. CASE Disconnect \/ ByeFails
  BY <1>2, <1>5 DEF Disconnect, ByeFails
<1>6. ASSUME NEW s, NEW r \in Requests, Request(s, r) PROVE Lines'
  <2>1. channel' = [channel EXCEPT ![s] = Append(channel[s], r)]
    BY <1>6 DEF Request
  <2>2. CASE s \in Sessions
    <3>1. channel[s] \in Seq(Requests)
      BY <1>2, <2>2
    <3>2. Append(channel[s], r) \in Seq(Requests)
      BY <3>1
    <3> QED  BY <1>2, <2>1, <3>2
  <2>3. CASE s \notin Sessions
    BY <1>2, <2>1, <2>3
  <2> QED  BY <2>2, <2>3
<1>7. CASE SendBye
  <2>1. Lines'
    BY <1>6, <1>7 DEF SendBye, Requests
  <2> QED  BY <1>2, <1>7, <2>1 DEF SendBye
<1>8. CASE Publish
  <2>1. Lines'
    BY <1>6, <1>8 DEF Publish, Requests
  <2> QED  BY <1>2, <1>8, <2>1 DEF Publish
<1>9. ASSUME NEW s \in Sessions, NEW l \in Places, Goto(s, l) PROVE lpc' \in [Sessions -> Places]
  BY <1>2, <1>9 DEF Goto
<1>10. ASSUME NEW s \in Sessions, Unlink(s) PROVE Broker' /\ up' \in [Sessions -> BOOLEAN]
  <2>1. /\ up' = [up EXCEPT ![s] = FALSE]
        /\ \/ holder' = 0 /\ subscribed' = {} /\ inbox' = <<>>
           \/ UNCHANGED <<holder, subscribed, inbox>>
    BY <1>10 DEF Unlink
  <2>2. up' \in [Sessions -> BOOLEAN]
    BY <1>2, <2>1
  <2>3. CASE holder' = 0 /\ subscribed' = {} /\ inbox' = <<>>
    BY <1>2, <1>3, <2>2, <2>3
  <2>4. CASE UNCHANGED <<holder, subscribed, inbox>>
    BY <1>2, <2>2, <2>4
  <2> QED  BY <2>1, <2>3, <2>4
<1>11. ASSUME NEW s \in Sessions, End(s)
       PROVE  lpc' \in [Sessions -> Places] /\ Lines' /\ Held'
  <2>1. ToSet(batch[s]) \subseteq Numbers
    BY <1>2, ElementsAre
  <2>2. /\ lpc' = [lpc EXCEPT ![s] = "ended"] /\ channel' = [channel EXCEPT ![s] = <<>>]
        /\ lost' = lost \cup ToSet(batch[s]) /\ batch' = [batch EXCEPT ![s] = <<>>]
    BY <1>11 DEF End, Goto
  <2>3. lpc' \in [Sessions -> Places]
    BY <1>2, <2>2
  <2>4. Lines' /\ Held'
    BY <1>2, <1>3, <2>1, <2>2
  <2> QED  BY <2>3, <2>4
<1>12. ASSUME NEW s \in Sessions, Check(s) \/ PollOther(s) PROVE Types'
  <2>1. Goto(s, "poll") \/ Goto(s, "check")
    BY <1>12 DEF Check, PollOther
  <2>2. lpc' \in [Sessions -> Places]
    BY <1>9, <2>1
  <2> QED  BY <1>2, <1>12, <2>2 DEF Check, PollOther
<1>13. ASSUME NEW s \in Sessions, SeeInactive(s) PROVE Types'
  <2>1. End(s) /\ Unlink(s)
        /\ UNCHANGED <<auto, active, client, upc, made, todo, buffer, stored, read, overlapped>>
    BY <1>13 DEF SeeInactive
  <2> QED  BY <1>2, <1>10, <1>11, <2>1
<1>14. ASSUME NEW s \in Sessions, ConnAck(s) PROVE Types'
  <2>1. /\ up' = [up EXCEPT ![s] = TRUE] /\ todo' = [todo EXCEPT ![s] = 1]
        /\ holder' = s /\ subscribed' = {} /\ inbox' = <<>> /\ Goto(s, "resubscribe")
        /\ UNCHANGED <<auto, active, client, upc, made, channel, batch, buffer, stored, read,
                       lost, overlapped>>
    BY <1>14 DEF ConnAck, Connected
  <2>2. Broker'
    BY <1>2, <1>3, <2>1 DEF Sessions
  <2>3. up' \in [Sessions -> BOOLEAN] /\ todo' \in [Sessions -> 0..Topics]
    BY <1>2, <2>1
  <2>4. lpc' \in [Sessions -> Places]
    BY <1>9, <2>1
  <2> QED  BY <1>2, <2>1, <2>2, <2>3, <2>4
<1>15. ASSUME NEW s \in Sessions, Resubscribe(s) PROVE Types'
  <2>1. /\ Request(s, todo[s])
        /\ \/ Goto(s, "check") /\ todo' = [todo EXCEPT ![s] = 0]
           \/ todo[s] # Topics /\ todo' = [todo EXCEPT ![s] = todo[s] + 1] /\ UNCHANGED lpc
        /\ UNCHANGED <<auto, active, client, upc, made, up, holder, subscribed, inbox, batch,
                       buffer, stored, read, lost, overlapped>>
    BY <1>15 DEF Resubscribe
  <2>2. Lines'
    <3>1. todo[s] \in Requests
      BY <1>2 DEF Requests, TopicSet, Pub
    <3> QED  BY <1>6, <2>1, <3>1
  <2>3. lpc' \in [Sessions -> Places]
    BY <1>2, <1>9, <2>1
  <2>4. todo' \in [Sessions -> 0..Topics]
    <3>1. todo[s] \in 0..Topics /\ (todo[s] # Topics => todo[s] + 1 \in 0..Topics)
      BY <1>2
    <3>2. CASE todo' = [todo EXCEPT ![s] = 0]
      BY <1>2, <3>2
    <3>3. CASE todo[s] # Topics /\ todo' = [todo EXCEPT ![s] = todo[s] + 1]
      BY <1>2, <3>1, <3>3
    <3> QED  BY <2>1, <3>2, <3>3
  <2> QED  BY <1>2, <2>1, <2>2, <2>3, <2>4
<1>16. ASSUME NEW s \in Sessions, PollSend(s) PROVE Types'
  <2>1. /\ channel[s] # <<>> /\ channel' = [channel EXCEPT ![s] = Tail(channel[s])]
        /\ Goto(s, "check")
        /\ UNCHANGED <<auto, active, client, upc, made, todo, batch, buffer, stored, read, lost,
                       overlapped>>
    BY <1>16 DEF PollSend
  <2>2. Head(channel[s]) \in Requests /\ Tail(channel[s]) \in Seq(Requests)
    <3>1. channel[s] \in Seq(Requests)
      BY <1>2
    <3> QED  BY <2>1, <3>1
  <2>3. Lines'
    BY <1>2, <2>1, <2>2
  <2>4. lpc' \in [Sessions -> Places]
    BY <1>9, <2>1
  <2>5. Broker' /\ up' \in [Sessions -> BOOLEAN]
    <3>1. CASE Unlink(s)
      BY <1>10, <3>1
    <3>2. CASE ~Unlink(s)
      <4>1. /\ Head(channel[s]) # Bye
            /\ subscribed' = IF Head(channel[s]) = Pub THEN subscribed
                             ELSE subscribed \cup {Head(channel[s])}
            /\ UNCHANGED <<up, holder, inbox>>
        BY <1>16, <3>2 DEF PollSend
      <4>2. subscribed' \subseteq TopicSet
        BY <1>2, <2>2, <4>1 DEF Requests
      <4> QED  BY <1>2, <4>1, <4>2
    <3> QED  BY <3>1, <3>2
  <2> QED  BY <1>2, <2>1, <2>3, <2>4, <2>5
<1>17. ASSUME NEW s \in Sessions, PollPublish(s) PROVE Types'
  <2> DEFINE m == Head(inbox)
             full == Append(batch[s], m)
  <2>1. /\ inbox # <<>> /\ stored' = Append(stored, m) /\ inbox' = Tail(inbox)
        /\ \/ buffer' = buffer \o full /\ batch' = [batch EXCEPT ![s] = <<>>]
           \/ batch' = [batch EXCEPT ![s] = full] /\ UNCHANGED buffer
        /\ Goto(s, "check")
        /\ UNCHANGED <<auto, active, client, upc, made, todo, channel, up, holder, subscribed,
                       read, lost, overlapped>>
    BY <1>17 DEF PollPublish, Keep
  <2>2. m \in Numbers /\ Tail(inbox) \in Seq(Numbers)
    <3>1. inbox \in Seq(Numbers)
      BY <1>2
    <3> QED  BY <2>1, <3>1
  <2> HIDE DEF m
  <2>3. full \in Seq(Numbers) /\ Append(stored, m) \in Seq(Numbers) /\ buffer \o full \in Seq(Numbers)
    <3>1. batch[s] \in Seq(Numbers) /\ stored \in Seq(Numbers) /\ buffer \in Seq(Numbers)
      BY <1>2
    <3>2. full \in Seq(Numbers) /\ Append(stored, m) \in Seq(Numbers)
      BY <2>2, <3>1
    <3> HIDE DEF full
    <3> QED  BY <3>1, <3>2
  <2> HIDE DEF full
  <2>4. batch' \in [Sessions -> Seq(Numbers)] /\ buffer' \in Seq(Numbers)
    BY <1>2, <1>3, <2>1, <2>3
  <2>5. lpc' \in [Sessions -> Places]
    BY <1>9, <2>1
  <2> QED  BY <1>2, <2>1, <2>2, <2>3, <2>4, <2>5
<1>18. ASSUME NEW s \in Sessions, PollError(s) PROVE Types'
  <2>1. /\ Unlink(s)
        /\ \/ /\ Goto(s, "check") /\ UNCHANGED <<active, batch, lost>>
              /\ channel' = [channel EXCEPT ![s] = <<>>] \/ UNCHANGED channel
           \/ End(s) /\ active' = FALSE
        /\ UNCHANGED <<auto, client, upc, made, todo, buffer, stored, read, overlapped>>
    BY <1>18 DEF PollError
  <2>2. lpc' \in [Sessions -> Places] /\ Lines' /\ Held'
    <3>1. CASE End(s)
      BY <1>11, <3>1
    <3>2. CASE ~End(s)
      BY <1>2, <1>3, <1>9, <2>1, <3>2
    <3> QED  BY <3>1, <3>2
  <2>3. Broker' /\ up' \in [Sessions -> BOOLEAN]
    BY <1>10, <2>1
  <2>4. active' \in BOOLEAN
    BY <1>2, <2>1
  <2> QED  BY <1>2, <2>1, <2>2, <2>3, <2>4
<1>19. CASE Message
  <2>1. /\ sent + 1 \in Numbers /\ inbox' = Append(inbox, sent + 1)
        /\ UNCHANGED <<auto, active, client, upc, made, lpc, todo, channel, up, holder,
                       subscribed, batch, buffer, stored, read, lost, overlapped>>
    BY <1>2, <1>19 DEF Message, Bounded, ToCome, Numbers
  <2>2. inbox' \in Seq(Numbers)
    <3>1. inbox \in Seq(Numbers)
      BY <1>2
    <3> QED  BY <2>1, <3>1
  <2> QED  BY <1>2, <2>1, <2>2
<1>20. CASE Read \/ DrainBuffer
  <2>1. PICK n \in 0..Len(buffer) : Take(n)
    <3>1. ReadLen \in Nat /\ Len(buffer) \in Nat
      BY <1>2
    <3> QED  BY <1>20, <3>1 DEF Read, DrainBuffer
  <2>2. /\ SubSeq(buffer, 1, n) \in Seq(Numbers) /\ SubSeq(buffer, n + 1, Len(buffer)) \in Seq(Numbers)
    <3>1. buffer \in Seq(Numbers) /\ Len(buffer) \in Nat /\ n \in Int /\ n <= Len(buffer) /\ n >= 0
      BY <1>2
    <3>2. \A i \in 1..Len(buffer) : buffer[i] \in Numbers
      BY <3>1
    <3>3. (\A i \in 1..n : buffer[i] \in Numbers) /\ \A i \in (n + 1)..Len(buffer) : buffer[i] \in Numbers
      BY <3>1, <3>2, SMTT(60)
    <3> QED  BY <3>1, <3>3, SubSeqProperties
  <2>3. read' \in Seq(Numbers) /\ buffer' \in Seq(Numbers)
    BY <1>2, <2>1, <2>2 DEF Take
  <2> QED  BY <1>2, <2>1, <2>3 DEF Take
<1> QED
  BY <1>4, <1>5, <1>7, <1>8, <1>12, <1>13, <1>14, <1>15, <1>16, <1>17, <1>18, <1>19, <1>20
     DEF Next, Owner, Loop

\* A task that is not over: with ~overlapped there is one.
LEMMA OthersEmpty ==
  ASSUME OneAlive, ~overlapped, NEW s \in Sessions, Alive(s), NEW t \in Sessions, t # s
  PROVE  batch[t] = <<>>
BY DEF OneAlive

\* A step that leaves the samples where they are.
LEMMA SamplesStay ==
  ASSUME ClientSafe, TypeOK', UNCHANGED sampleVars, sent' = sent, overlapped' = overlapped,
         inbox' = inbox \/ inbox' = <<>>,
         published' \in Nat, faults' \in Nat, sent + published' + faults' <= MaxEvents,
         \A s \in Sessions : Alive(s)' <=> Alive(s)
  PROVE  ClientSafe'
<1> USE DEF sampleVars
<1>1. ToCome'
  BY OfEmpty DEF ClientSafe, ToCome, Below
<1>2. OneAlive'
  BY DEF ClientSafe, OneAlive
<1> QED  BY <1>1, <1>2 DEF ClientSafe

\* A task that ends loses its batch.
LEMMA EndKeeps ==
  ASSUME ClientSafe, TypeOK', NEW s \in Sessions, End(s), UNCHANGED <<buffer, stored, read>>,
         sent' = sent, overlapped' = overlapped, inbox' = inbox \/ inbox' = <<>>,
         published' \in Nat, faults' \in Nat, sent + published' + faults' <= MaxEvents
  PROVE  ClientSafe'
<1>1. /\ lpc' = [lpc EXCEPT ![s] = "ended"] /\ lost' = lost \cup ToSet(batch[s])
      /\ batch' = [batch EXCEPT ![s] = <<>>]
  BY DEF End, Goto
<1>2. /\ read \o buffer \in Seq(Numbers) /\ stored \in Seq(Numbers)
      /\ batch \in [Sessions -> Seq(Numbers)] /\ DOMAIN lpc = Sessions
  BY DEF ClientSafe, TypeOK
<1>3. ToCome'
  BY OfEmpty DEF ClientSafe, ToCome, Below
<1>4. /\ lpc'[s] = "ended" /\ \A t \in Sessions : t # s => lpc'[t] = lpc[t]
      /\ batch'[s] = <<>> /\ \A t \in Sessions : t # s => batch'[t] = batch[t]
  BY <1>1, <1>2
<1>5. OneAlive'
  BY <1>4 DEF ClientSafe, OneAlive, Alive
<1>6. Kept(read \o buffer, batch, lost, stored)'
  BY <1>1, <1>2, KeptLost DEF ClientSafe
<1>7. ASSUME ~overlapped PROVE InFlowOrder(read \o buffer, batch)'
  <2>1. InFlowOrder(read \o buffer, batch)
    BY <1>7 DEF ClientSafe
  <2>2. Rising((read \o buffer) \o <<>>)
    <3>1. Rising((read \o buffer) \o batch[s]) /\ batch[s] \in Seq(Nat) /\ read \o buffer \in Seq(Nat)
      <4>1. Seq(Numbers) \subseteq Seq(Nat)
        <5>1. Numbers \subseteq Nat
          BY DEF Numbers
        <5> QED  BY <5>1, SeqMonotonic
      <4>2. batch[s] \in Seq(Numbers)
        BY <1>2
      <4>3. Rising((read \o buffer) \o batch[s])
        BY <2>1 DEF InFlowOrder
      <4> QED  BY <1>2, <4>1, <4>2, <4>3
    <3>2. Rising(read \o buffer)
      BY <3>1, RisingJoin
    <3> QED  BY <3>1, <3>2, ConcatEmptySeq
  <2> QED  BY <1>4, <2>1, <2>2 DEF InFlowOrder
<1> QED  BY <1>3, <1>5, <1>6, <1>7 DEF ClientSafe

\* A sample joins the batch, and the batch the flow when it is full or late.
LEMMA PublishKeeps ==
  ASSUME ClientSafe, TypeOK', NEW s \in Sessions, PollPublish(s)
  PROVE  ClientSafe'
<1> DEFINE m == Head(inbox)
           full == Append(batch[s], m)
           flow == read \o buffer
           filled == [batch EXCEPT ![s] = full]
<1>1. /\ inbox # <<>> /\ stored' = Append(stored, m) /\ inbox' = Tail(inbox)
      /\ \/ buffer' = buffer \o full /\ batch' = [batch EXCEPT ![s] = <<>>]
         \/ batch' = [batch EXCEPT ![s] = full] /\ UNCHANGED buffer
      /\ lpc[s] = "poll" /\ lpc' = [lpc EXCEPT ![s] = "check"]
      /\ UNCHANGED <<read, lost, overlapped, sent, published, faults>>
  BY DEF PollPublish, Keep, Goto, Served, countVars
<1>2. /\ read \in Seq(Numbers) /\ buffer \in Seq(Numbers) /\ flow \in Seq(Numbers)
      /\ stored \in Seq(Numbers) /\ inbox \in Seq(Numbers)
      /\ batch \in [Sessions -> Seq(Numbers)] /\ batch[s] \in Seq(Numbers) /\ DOMAIN lpc = Sessions
      /\ Numbers \subseteq Nat
  <2>1. /\ read \in Seq(Numbers) /\ buffer \in Seq(Numbers)
        /\ stored \in Seq(Numbers) /\ inbox \in Seq(Numbers)
        /\ batch \in [Sessions -> Seq(Numbers)] /\ DOMAIN lpc = Sessions
    BY DEF ClientSafe, TypeOK
  <2>2. Numbers \subseteq Nat
    BY DEF Numbers
  <2> QED  BY <2>1, <2>2
<1>3. Seq(Numbers) \subseteq Seq(Nat)
  BY <1>2, SeqMonotonic
<1>4. /\ m \in Numbers /\ ToSet(inbox) = {m} \cup ToSet(Tail(inbox))
      /\ Rising(Tail(inbox)) /\ Below({m}, ToSet(Tail(inbox))) /\ Tail(inbox) \in Seq(Numbers)
  <2>1. Rising(inbox)
    BY DEF ClientSafe, ToCome
  <2> QED  BY <1>1, <1>2, <2>1, FirstAndRest
<1>5. Below(ToSet(stored), {m}) /\ m \notin ToSet(stored)
  <2>1. Below(ToSet(stored), {m})
    <3>1. Below(ToSet(stored), ToSet(inbox)) /\ m \in ToSet(inbox)
      BY <1>4 DEF ClientSafe, ToCome
    <3> HIDE DEF m
    <3> QED  BY <3>1 DEF Below
  <2> HIDE DEF m
  <2>2. m \in Nat /\ ~(m < m)
    BY <1>2, <1>4
  <2> QED  BY <2>1, <2>2 DEF Below
<1> HIDE DEF m
<1>6. full \in Seq(Numbers) /\ ToSet(full) = ToSet(batch[s]) \cup {m} /\ filled \in [Sessions -> Seq(Numbers)]
  BY <1>2, <1>4, OneJoined
<1>7. ToSet(stored') = ToSet(stored) \cup {m}
  BY <1>1, <1>2, <1>4, OneJoined
<1>8. ToCome'
  <2>1. Below(ToSet(stored) \cup {m}, ToSet(Tail(inbox)))
    BY <1>4 DEF ClientSafe, ToCome, Below
  <2>2. \A x \in ToSet(Tail(inbox)) \cup ToSet(stored) \cup {m} : x <= sent
    BY <1>4 DEF ClientSafe, ToCome
  <2> QED  BY <1>1, <1>4, <1>7, <2>1, <2>2 DEF ClientSafe, ToCome
<1>9. OneAlive'
  <2>1. /\ lpc'[s] = "check" /\ \A t \in Sessions : t # s => lpc'[t] = lpc[t]
        /\ \A t \in Sessions : t # s => batch'[t] = batch[t]
    BY <1>1, <1>2
  <2> QED  BY <1>1, <2>1 DEF ClientSafe, OneAlive, Alive
<1>10. Kept(flow, filled, lost, stored')
  <2>1. Kept(flow, batch, lost, stored)
    BY DEF ClientSafe
  <2> HIDE DEF flow
  <2> QED  BY <1>1, <1>2, <1>4, <1>5, <2>1, KeptMore
<1>11. /\ filled[s] = full /\ \A t \in Sessions : t # s => filled[t] = batch[t]
  BY <1>2
<1>12. ~overlapped => InFlowOrder(flow, filled)
  <2> SUFFICES ASSUME ~overlapped PROVE InFlowOrder(flow, filled)
    OBVIOUS
  <2>1. InFlowOrder(flow, batch)
    BY DEF ClientSafe
  <2>2. flow \in Seq(Nat) /\ batch[s] \in Seq(Nat) /\ full \in Seq(Nat) /\ m \in Nat
    BY <1>2, <1>3, <1>4, <1>6
  <2>3. Rising(flow) /\ Rising(batch[s]) /\ Below(ToSet(flow), ToSet(batch[s]))
    BY <2>1, <2>2, RisingJoin DEF InFlowOrder
  <2>4. ToSet(flow) \subseteq ToSet(stored) /\ ToSet(batch[s]) \subseteq ToSet(stored)
    BY InBatches DEF ClientSafe, Kept
  <2>5. Below(ToSet(flow), {m}) /\ Below(ToSet(batch[s]), {m})
    BY <1>5, <2>4 DEF Below
  <2>6. Rising(full)
    BY <2>2, <2>3, <2>5, RisingMore
  <2>7. Below(ToSet(flow), ToSet(full))
    BY <1>6, <2>3, <2>5 DEF Below
  <2> HIDE DEF full, filled, flow
  <2>8. Rising(flow \o full)
    BY <2>2, <2>3, <2>6, <2>7, RisingJoin
  <2> QED  BY <1>11, <2>1, <2>8 DEF InFlowOrder
<1>13. CASE batch' = filled /\ UNCHANGED buffer
  <2>1. Kept(read \o buffer, batch, lost, stored)'
    BY <1>1, <1>10, <1>13
  <2>2. overlapped' \/ InFlowOrder(read \o buffer, batch)'
    BY <1>1, <1>12, <1>13
  <2> QED  BY <1>8, <1>9, <2>1, <2>2 DEF ClientSafe
<1>14. CASE buffer' = buffer \o full /\ batch' = [batch EXCEPT ![s] = <<>>]
  <2>1. read' \o buffer' = flow \o full
    <3>1. (read \o buffer) \o full = read \o (buffer \o full)
      <4> HIDE DEF full
      <4> QED  BY <1>2, <1>6, ConcatAssociative, SMTT(60)
    <3> QED  BY <1>1, <1>14, <3>1
  <2>2. batch' = [filled EXCEPT ![s] = <<>>]
    BY <1>2, <1>14
  <2> HIDE DEF full, filled, flow
  <2>3. Kept(flow \o full, batch', lost, stored')
    <3>1. stored' \in Seq(Numbers)
      BY DEF TypeOK
    <3> QED  BY <1>2, <1>6, <1>10, <1>11, <2>2, <3>1, KeptFlushed
  <2>4. Kept(read \o buffer, batch, lost, stored)'
    BY <1>1, <2>1, <2>3
  <2>5. ASSUME ~overlapped PROVE InFlowOrder(read \o buffer, batch)'
    <3>1. Rising(flow \o full)
      BY <1>11, <1>12, <2>5 DEF InFlowOrder
    <3>2. \A t \in Sessions : batch'[t] = <<>>
      <4>1. Alive(s) /\ OneAlive
        BY <1>1 DEF ClientSafe, Alive
      <4>2. \A t \in Sessions : t # s => batch[t] = <<>>
        BY <2>5, <4>1, OthersEmpty
      <4> QED  BY <1>2, <1>14, <4>2
    <3>3. (flow \o full) \o <<>> = flow \o full
      <4>1. flow \o full \in Seq(Numbers)
        BY <1>2, <1>6
      <4> QED  BY <4>1, ConcatEmptySeq
    <3> QED  BY <2>1, <3>1, <3>2, <3>3 DEF InFlowOrder
  <2>6. overlapped' \/ InFlowOrder(read \o buffer, batch)'
    BY <1>1, <2>5
  <2> QED  BY <1>8, <1>9, <2>4, <2>6 DEF ClientSafe
<1> QED  BY <1>1, <1>13, <1>14

\* What is read moves from the front of the buffer to the end of what was read.
LEMMA TakeKeeps ==
  ASSUME ClientSafe, TypeOK', NEW n \in 0..Len(buffer), Take(n)
  PROVE  ClientSafe'
<1>1. /\ read' = read \o SubSeq(buffer, 1, n) /\ buffer' = SubSeq(buffer, n + 1, Len(buffer))
      /\ UNCHANGED <<batch, stored, lost, lpc, overlapped, inbox, sent, published, faults>>
  BY DEF Take, brokerVars, countVars
<1>2. read \in Seq(Numbers) /\ buffer \in Seq(Numbers) /\ Len(buffer) \in Nat
  BY DEF ClientSafe, TypeOK
<1>3. SubSeq(buffer, 1, n) \in Seq(Numbers) /\ SubSeq(buffer, n + 1, Len(buffer)) \in Seq(Numbers)
  <2>1. \A i \in 1..Len(buffer) : buffer[i] \in Numbers
    BY <1>2
  <2>2. (\A i \in 1..n : buffer[i] \in Numbers) /\ \A i \in (n + 1)..Len(buffer) : buffer[i] \in Numbers
    BY <1>2, <2>1
  <2>3. n \in Int /\ n + 1 \in Int /\ Len(buffer) \in Int /\ 1 \in Int
    BY <1>2
  <2> QED  BY <2>2, <2>3, SubSeqProperties
<1>4. SubSeq(buffer, 1, n) \o SubSeq(buffer, n + 1, Len(buffer)) = buffer
  <2>1. 1 \in 1..(Len(buffer) + 1) /\ n \in (1 - 1)..Len(buffer) /\ Len(buffer) \in n..Len(buffer)
    BY <1>2
  <2>2. SubSeq(buffer, 1, n) \o SubSeq(buffer, n + 1, Len(buffer)) = SubSeq(buffer, 1, Len(buffer))
    BY <1>2, <2>1, ConcatAdjacentSubSeq
  <2> QED  BY <1>2, <2>2, SubSeqFull
<1>5. read' \o buffer' = read \o buffer
  <2>1. (read \o SubSeq(buffer, 1, n)) \o SubSeq(buffer, n + 1, Len(buffer))
          = read \o (SubSeq(buffer, 1, n) \o SubSeq(buffer, n + 1, Len(buffer)))
    <3>1. \A a, b, c \in Seq(Numbers) : (a \o b) \o c = a \o (b \o c)
      BY ConcatAssociative
    <3> QED  BY <1>2, <1>3, <3>1
  <2> QED  BY <1>1, <1>4, <2>1
<1>6. ToCome' /\ OneAlive'
  BY <1>1 DEF ClientSafe, ToCome, OneAlive, Alive
<1> QED  BY <1>1, <1>5, <1>6 DEF ClientSafe

LEMMA ClientStep ==
  ASSUME MqttClientAssumption, ClientSafe, [Next]_vars
  PROVE  ClientSafe'
<1> USE DEF userVars, brokerVars, sampleVars, countVars
<1>1. TypeOK /\ ToCome /\ OneAlive
  BY DEF ClientSafe
<1>2. /\ DOMAIN lpc = Sessions /\ sent \in Nat /\ published \in Nat /\ faults \in Nat
      /\ sent + published + faults <= MaxEvents /\ MaxEvents \in Nat
  BY <1>1 DEF TypeOK, ToCome, MqttClientAssumption
<1>3. CASE UNCHANGED vars
  <2>1. TypeOK' /\ ToCome' /\ OneAlive'
    BY <1>1, <1>3 DEF vars, TypeOK, ToCome, OneAlive, Alive
  <2>2. UNCHANGED <<read, buffer, batch, lost, stored, overlapped>>
    BY <1>3 DEF vars
  <2> QED  BY <2>1, <2>2 DEF ClientSafe
<1>4. CASE Next
  <2>1. TypeOK'
    BY <1>1, <1>4, ClientTypeStep
  <2>2. ASSUME NEW s \in Sessions, NEW l, l \notin {"none", "ended"}, Alive(s), Goto(s, l)
        PROVE  \A t \in Sessions : Alive(t)' <=> Alive(t)
    BY <1>2, <2>2 DEF Goto, Alive
  <2>3. CASE Connect
    <3>1. /\ UNCHANGED <<batch, buffer, stored, read, lost, inbox, sent, published, faults>>
          /\ lpc' = [lpc EXCEPT ![made + 1] = "check"]
          /\ overlapped' = (overlapped \/ \E s \in Sessions : Alive(s))
      BY <2>3 DEF Connect, Goto
    <3>2. ToCome'
      BY <1>1, <3>1 DEF ToCome
    <3>3. OneAlive'
      <4>1. overlapped \in BOOLEAN
        BY <1>1 DEF TypeOK
      <4>2. \A t \in Sessions : t # made + 1 => lpc'[t] = lpc[t]
        BY <1>2, <3>1
      <4>3. \A t \in Sessions : t = made + 1 => lpc'[t] = "check"
        BY <1>2, <3>1
      <4>4. \A t \in Sessions : ~Alive(t)' => ~Alive(t)
        BY <4>2, <4>3 DEF Alive
      <4>5. ~overlapped' => \A t \in Sessions : ~Alive(t)
        BY <3>1
      <4>6. ASSUME NEW s \in Sessions, NEW t \in Sessions, Alive(s)', Alive(t)', ~overlapped'
            PROVE  s = t
        <5>1. s = made + 1 /\ t = made + 1
          BY <4>2, <4>5, <4>6 DEF Alive
        <5> QED  BY <5>1
      <4> QED  BY <1>1, <3>1, <4>4, <4>6 DEF OneAlive
    <3>4. overlapped' \/ InFlowOrder(read \o buffer, batch)'
      BY <3>1 DEF ClientSafe
    <3>5. Kept(read \o buffer, batch, lost, stored)'
      BY <3>1 DEF ClientSafe
    <3> QED  BY <2>1, <3>2, <3>3, <3>4, <3>5 DEF ClientSafe
  <2>4. CASE Disconnect \/ SendBye \/ ByeFails
    <3>1. /\ UNCHANGED <<sampleVars, lpc, inbox, overlapped, sent, published, faults>>
      BY <2>4 DEF Disconnect, SendBye, ByeFails
    <3>2. \A s \in Sessions : Alive(s)' <=> Alive(s)
      BY <3>1 DEF Alive
    <3> QED  BY <1>2, <2>1, <3>1, <3>2, SamplesStay
  <2>5. CASE Publish
    <3>1. /\ UNCHANGED <<sampleVars, lpc, inbox, overlapped, sent, faults>>
          /\ published' = published + 1 /\ sent + published + faults < MaxEvents
      BY <2>5 DEF Publish, Bounded
    <3>2. \A s \in Sessions : Alive(s)' <=> Alive(s)
      BY <3>1 DEF Alive
    <3>3. published' \in Nat /\ faults' \in Nat /\ sent + published' + faults' <= MaxEvents
      BY <1>2, <3>1
    <3> QED  BY <2>1, <3>1, <3>2, <3>3, SamplesStay
  <2>6. ASSUME NEW s \in Sessions, Check(s) \/ ConnAck(s) \/ Resubscribe(s) \/ PollSend(s) \/ PollOther(s)
        PROVE  ClientSafe'
    <3>1. /\ UNCHANGED <<sampleVars, overlapped, sent, published, faults>>
          /\ inbox' = inbox \/ inbox' = <<>>
      BY <2>6 DEF Check, ConnAck, Connected, Resubscribe, PollSend, PollOther, Unlink
    <3>2. Alive(s) /\ (UNCHANGED lpc \/ \E l \in {"check", "poll", "resubscribe"} : Goto(s, l))
      BY <2>6 DEF Check, ConnAck, Connected, Resubscribe, PollSend, PollOther, Served, Alive
    <3>3. \A t \in Sessions : Alive(t)' <=> Alive(t)
      <4>1. CASE UNCHANGED lpc
        BY <4>1 DEF Alive
      <4>2. CASE \E l \in {"check", "poll", "resubscribe"} : Goto(s, l)
        BY <2>2, <3>2, <4>2
      <4> QED  BY <3>2, <4>1, <4>2
    <3> QED  BY <1>2, <2>1, <3>1, <3>3, SamplesStay
  <2>7. ASSUME NEW s \in Sessions, SeeInactive(s) PROVE ClientSafe'
    <3>1. /\ End(s) /\ UNCHANGED <<buffer, stored, read, overlapped, sent, published, faults>>
          /\ inbox' = inbox \/ inbox' = <<>>
      BY <2>7 DEF SeeInactive, Unlink
    <3> QED  BY <1>2, <2>1, <3>1, EndKeeps
  <2>8. ASSUME NEW s \in Sessions, PollError(s) PROVE ClientSafe'
    <3>1. /\ UNCHANGED <<buffer, stored, read, overlapped, sent, published>>
          /\ inbox' = inbox \/ inbox' = <<>>
          /\ \/ UNCHANGED faults
             \/ faults' = faults + 1 /\ sent + published + faults < MaxEvents
          /\ lpc[s] = "poll"
          /\ \/ Goto(s, "check") /\ UNCHANGED <<batch, lost>>
             \/ End(s)
      BY <2>8 DEF PollError, Unlink, Bounded
    <3>2. published' \in Nat /\ faults' \in Nat /\ sent + published' + faults' <= MaxEvents
      BY <1>2, <3>1
    <3>3. CASE End(s)
      BY <2>1, <3>1, <3>2, <3>3, EndKeeps
    <3>4. CASE Goto(s, "check") /\ UNCHANGED <<batch, lost>>
      <4>1. \A t \in Sessions : Alive(t)' <=> Alive(t)
        BY <2>2, <3>1, <3>4 DEF Alive
      <4> QED  BY <2>1, <3>1, <3>2, <3>4, <4>1, SamplesStay
    <3> QED  BY <3>1, <3>3, <3>4
  <2>9. CASE Message
    <3>1. /\ sent + published + faults < MaxEvents /\ sent' = sent + 1
          /\ inbox' = Append(inbox, sent + 1)
          /\ UNCHANGED <<lpc, batch, buffer, stored, read, lost, overlapped, published, faults>>
      BY <2>9 DEF Message, Bounded
    <3>2. inbox \in Seq(Nat) /\ sent + 1 \in Nat /\ ToSet(stored) \subseteq Nat /\ ToSet(inbox) \subseteq Nat
      <4>1. inbox \in Seq(Numbers) /\ stored \in Seq(Numbers) /\ Numbers \subseteq Nat
        BY <1>1 DEF TypeOK, Numbers
      <4>2. inbox \in Seq(Nat) /\ stored \in Seq(Nat)
        BY <4>1, SeqMonotonic
      <4> QED  BY <1>2, <4>2, ElementsAre
    <3>3. ToSet(inbox') = ToSet(inbox) \cup {sent + 1}
      BY <3>1, <3>2, OneJoined
    <3>4. Below(ToSet(inbox) \cup ToSet(stored), {sent + 1})
      BY <1>1, <1>2, <3>2 DEF ToCome, Below
    <3>5. Rising(inbox')
      <4>1. Below(ToSet(inbox), {sent + 1})
        BY <3>4 DEF Below
      <4> QED  BY <1>1, <3>1, <3>2, <4>1, RisingMore DEF ToCome
    <3>6. Below(ToSet(stored), ToSet(inbox'))
      BY <1>1, <3>3, <3>4 DEF ToCome, Below
    <3>7. \A m \in ToSet(inbox') \cup ToSet(stored) : m <= sent'
      BY <1>1, <1>2, <3>1, <3>2, <3>3 DEF ToCome
    <3>8. sent' \in Nat /\ published' \in Nat /\ faults' \in Nat /\ sent' + published' + faults' <= MaxEvents
      BY <1>2, <3>1
    <3>9. ToCome'
      BY <3>1, <3>5, <3>6, <3>7, <3>8 DEF ToCome
    <3>10. OneAlive'
      BY <1>1, <3>1 DEF OneAlive, Alive
    <3> QED  BY <2>1, <3>1, <3>9, <3>10 DEF ClientSafe
  <2>10. ASSUME NEW s \in Sessions, PollPublish(s) PROVE ClientSafe'
    BY <2>1, <2>10, PublishKeeps
  <2>11. CASE Read \/ DrainBuffer
    <3>1. ReadLen \in Nat /\ Len(buffer) \in Nat
      BY <1>1 DEF TypeOK, MqttClientAssumption
    <3>2. PICK n \in 0..Len(buffer) : Take(n)
      BY <2>11, <3>1 DEF Read, DrainBuffer
    <3> QED  BY <2>1, <3>2, TakeKeeps
  <2> QED
    BY <1>4, <2>3, <2>4, <2>5, <2>6, <2>7, <2>8, <2>9, <2>10, <2>11 DEF Next, Owner, Loop
<1> QED  BY <1>3, <1>4

\* Every sample received is read or readable once, waits in the batch of one task, or was in the
\* batch of a task that ended, and samples are read in the order they were sent unless two tasks
\* were alive at once: for any number of topics, sessions and events and any sizes, whichever
\* connections break, are replaced or are closed.
THEOREM SamplesKeptInOrder == AllFair => []ClientInv
<1>1. AllInit => ClientSafe
  BY ClientInitial, StreamsAssumption DEF AllInit
<1>2. ClientSafe /\ [AllNext]_allVars => ClientSafe'
  BY ClientStep, PartSteps, StreamsAssumption
<1> QED
  BY <1>1, <1>2, ClientImplies, PTL DEF AllFair, allVars

-----------------------------------------------------------------------------
(* StreamBatcher *)

\* Everything predicted for the consumer, in order.
Line == (received \o stream) \o result

\* InOrder, place by place.
Numbered ==
  open =>
    /\ Len(Line) + Len(inputs) = taken
    /\ \A n \in 1..Len(Line) : Line[n].input = n
    /\ \A n \in 1..Len(inputs) : inputs[n] = Len(Line) + n

\* The task holds a prediction while it sends it, and every batch had an input.
Busy ==
  /\ result # <<>> <=> taskPc = "send"
  /\ runs <= taken
  /\ taskPc \in {"lock", "step", "send"} \/ inputs # <<>> => runs < taken

\* The inductive invariant.
StreamSafe == Stream!TypeOK /\ Stream!FullNeverParks /\ Numbered /\ Busy

LEMMA StreamInitial ==
  ASSUME Stream!StreamAssumption, Stream!Init
  PROVE  StreamSafe
<1> USE DEF Stream!Init, Stream!StreamAssumption
<1>1. Stream!TypeOK
  <2>1. /\ <<>> \in Seq(1..MaxInputs) /\ <<>> \in Seq(Stream!Predictions) /\ Len(<<>>) = 0
    OBVIOUS
  <2>2. target \in 1..BatchSize
    OBVIOUS
  <2>3. /\ produced \in 0..MaxInputs /\ taken \in 0..produced
        /\ version \in Nat /\ calls \in 0..MaxCalls /\ runs \in 0..MaxInputs
    OBVIOUS
  <2>6. ended \in BOOLEAN /\ late \in BOOLEAN /\ open \in BOOLEAN /\ taskPc = "select" /\ then = Stream!Keep
    BY DEF Stream!Keep
  <2>4. userPc \in [Stream!Users -> {"idle", "want", "use", "ended"}] /\ lock = "none"
    OBVIOUS
  <2>5. BufferSize >= 0
    OBVIOUS
  <2> QED  BY <2>1, <2>2, <2>3, <2>4, <2>5, <2>6 DEF Stream!TypeOK
<1>2. Stream!FullNeverParks
  BY DEF Stream!FullNeverParks
<1>3. Len(Line) = 0
  BY DEF Line
<1>4. Numbered
  BY <1>3 DEF Numbered
<1>5. Busy
  BY DEF Busy
<1> QED  BY <1>1, <1>2, <1>4, <1>5 DEF StreamSafe

\* What a step that touches neither the task nor the line of its predictions leaves alone.
LineAlone == UNCHANGED <<taken, inputs, target, taskPc, result, stream, open, received, runs>>

LEMMA LineStays ==
  ASSUME StreamSafe, LineAlone
  PROVE  Stream!FullNeverParks' /\ Numbered' /\ Busy'
BY DEF StreamSafe, LineAlone, Stream!FullNeverParks, Numbered, Line, Busy

\* The next target is one, again.
LEMMA NewTargetSize ==
  ASSUME Stream!StreamAssumption, target \in 1..BatchSize
  PROVE  Stream!NewTarget \in 1..BatchSize
<1>1. BatchSize \in Nat \ {0}
  BY DEF Stream!StreamAssumption
<1>2. 2 * target \in Nat /\ 2 * target >= 1
  BY <1>1
<1>3. Stream!Smaller(2 * target, BatchSize) \in 1..BatchSize
  BY <1>1, <1>2 DEF Stream!Smaller
<1>4. ASSUME ~(target < 2) PROVE target \div 2 \in 1..BatchSize
  BY <1>1, <1>4
<1>5. 1 \in 1..BatchSize
  BY <1>1
<1> QED  BY <1>3, <1>4, <1>5 DEF Stream!NewTarget

LEMMA StreamTypeStep ==
  ASSUME Stream!StreamAssumption, StreamSafe, [Stream!Next]_streamVars
  PROVE  Stream!TypeOK'
<1>1. Stream!TypeOK /\ Stream!FullNeverParks /\ Busy
  BY DEF StreamSafe
<1>2. BatchSize \in Nat \ {0} /\ BufferSize \in Nat \ {0} /\ MaxInputs \in Nat /\ MaxCalls \in Nat
  BY DEF Stream!StreamAssumption
<1>3. produced \in 0..MaxInputs /\ taken \in 0..produced /\ runs \in 0..MaxInputs
  BY <1>1 DEF Stream!TypeOK
<1>4. inputs \in Seq(1..MaxInputs) /\ received \in Seq(Stream!Predictions)
  BY <1>1 DEF Stream!TypeOK
<1>5. stream \in Seq(Stream!Predictions) /\ Len(stream) <= BufferSize
      /\ result \in Seq(Stream!Predictions) /\ Len(result) <= 1
  BY <1>1 DEF Stream!TypeOK
<1>6. /\ target \in 1..BatchSize /\ version \in Nat /\ calls \in 0..MaxCalls
      /\ lock \in Stream!Users \cup {"task", "none"}
      /\ userPc \in [Stream!Users -> {"idle", "want", "use", "ended"}]
  BY <1>1 DEF Stream!TypeOK
<1>7. /\ ended \in BOOLEAN /\ late \in BOOLEAN /\ open \in BOOLEAN
      /\ taskPc \in {"select", "lock", "step", "send", "done"}
      /\ then \in {Stream!Keep, Stream!Double, Stream!Halve, Stream!Finish}
  BY <1>1 DEF Stream!TypeOK
<1> USE DEF Stream!source, Stream!task, Stream!users
<1> DEFINE
  Counters == /\ produced' \in 0..MaxInputs /\ taken' \in 0..produced' /\ runs' \in 0..MaxInputs
             /\ version' \in Nat /\ calls' \in 0..MaxCalls
  Sequences == /\ inputs' \in Seq(1..MaxInputs) /\ received' \in Seq(Stream!Predictions)
               /\ stream' \in Seq(Stream!Predictions) /\ Len(stream') <= BufferSize
               /\ result' \in Seq(Stream!Predictions) /\ Len(result') <= 1
  Task == /\ taskPc' \in {"select", "lock", "step", "send", "done"}
          /\ then' \in {Stream!Keep, Stream!Double, Stream!Halve, Stream!Finish}
          /\ target' \in 1..BatchSize /\ late' \in BOOLEAN
  Rest == /\ lock' \in Stream!Users \cup {"task", "none"} /\ open' \in BOOLEAN /\ ended' \in BOOLEAN
          /\ userPc' \in [Stream!Users -> {"idle", "want", "use", "ended"}]
<1>8. Counters /\ Sequences /\ Task /\ Rest => Stream!TypeOK'
  BY DEF Stream!TypeOK, Stream!Predictions
<1>9. UNCHANGED <<produced, taken, runs, version, calls>> => Counters
  BY <1>3, <1>6
<1>10. UNCHANGED <<inputs, received, stream, result>> => Sequences
  BY <1>4, <1>5
<1>11. UNCHANGED <<taskPc, then, target, late>> => Task
  BY <1>6, <1>7
<1>12. UNCHANGED <<lock, open, ended, userPc>> => Rest
  BY <1>6, <1>7
<1>13. UNCHANGED <<lock, open, userPc>> /\ ended' \in BOOLEAN => Rest
  BY <1>6, <1>7
<1>14. UNCHANGED <<target, late, then>> /\ taskPc' \in {"step", "send"} => Task
  BY <1>6, <1>7
<1> HIDE DEF Counters, Sequences, Task, Rest
<1>15. CASE UNCHANGED streamVars
  BY <1>8, <1>9, <1>10, <1>11, <1>12, <1>15 DEF streamVars
<1>16. CASE Stream!Produce
  <2>1. Counters
    BY <1>2, <1>3, <1>6, <1>16 DEF Stream!Produce, Counters
  <2> QED  BY <1>8, <1>10, <1>11, <1>12, <1>16, <2>1 DEF Stream!Produce
<1>17. CASE Stream!EndSource
  BY <1>8, <1>9, <1>10, <1>11, <1>13, <1>17 DEF Stream!EndSource
<1>18. CASE Stream!Tick
  <2>1. Task
    BY <1>6, <1>7, <1>18 DEF Stream!Tick, Task
  <2> QED  BY <1>8, <1>9, <1>10, <1>12, <1>18, <2>1 DEF Stream!Tick
<1>19. CASE Stream!TakeInput
  <2>1. taken < produced /\ taken' = taken + 1 /\ inputs' = Append(inputs, taken + 1)
    BY <1>19 DEF Stream!TakeInput
  <2>2. Counters
    BY <1>3, <1>6, <1>19, <2>1 DEF Stream!TakeInput, Counters
  <2>3. taken + 1 \in 1..MaxInputs
    BY <1>2, <1>3, <2>1
  <2>4. Append(inputs, taken + 1) \in Seq(1..MaxInputs)
    BY <1>4, <2>3
  <2>5. Sequences
    BY <1>4, <1>5, <1>19, <2>1, <2>4 DEF Stream!TakeInput, Sequences
  <2>6. Task
    BY <1>6, <1>7, <1>19 DEF Stream!TakeInput, Task, Stream!Keep, Stream!Double, Stream!Halve, Stream!Finish
  <2> QED  BY <1>8, <1>12, <1>19, <2>2, <2>5, <2>6 DEF Stream!TakeInput
<1>20. CASE Stream!Deadline
  <2>1. Task
    BY <1>6, <1>7, <1>20 DEF Stream!Deadline, Task, Stream!Keep, Stream!Double, Stream!Halve, Stream!Finish
  <2> QED  BY <1>8, <1>9, <1>10, <1>12, <1>20, <2>1 DEF Stream!Deadline
<1>21. CASE Stream!SourceEnds
  <2>1. Task
    BY <1>6, <1>7, <1>21 DEF Stream!SourceEnds, Task
  <2> QED  BY <1>8, <1>9, <1>10, <1>12, <1>21, <2>1 DEF Stream!SourceEnds
<1>22. CASE Stream!LockEngine
  <2>1. Rest
    BY <1>6, <1>7, <1>22 DEF Stream!LockEngine, Rest
  <2> QED  BY <1>8, <1>9, <1>10, <1>14, <1>22, <2>1 DEF Stream!LockEngine
<1>23. CASE Stream!StepInput
  <2>1. inputs # <<>> /\ inputs' = Tail(inputs)
        /\ result' = <<[input |-> Head(inputs), version |-> version, run |-> runs]>>
    BY <1>23 DEF Stream!StepInput
  <2>2. Head(inputs) \in 1..MaxInputs /\ Tail(inputs) \in Seq(1..MaxInputs)
    BY <1>4, <2>1, FirstAndRest
  <2>3. [input |-> Head(inputs), version |-> version, run |-> runs] \in Stream!Predictions
    BY <1>3, <1>6, <2>2 DEF Stream!Predictions
  <2>4. result' \in Seq(Stream!Predictions) /\ Len(result') <= 1
    BY <2>1, <2>3
  <2>5. Sequences
    BY <1>4, <1>5, <1>23, <2>1, <2>2, <2>4 DEF Stream!StepInput, Sequences
  <2> QED  BY <1>8, <1>9, <1>12, <1>14, <1>23, <2>5 DEF Stream!StepInput
<1>24. CASE Stream!Send
  <2>1. Len(stream) < BufferSize /\ stream' = stream \o result /\ result' = <<>>
    BY <1>24 DEF Stream!Send
  <2>2. stream \o result \in Seq(Stream!Predictions) /\ Len(stream \o result) = Len(stream) + Len(result)
    BY <1>5
  <2>3. Len(stream \o result) <= BufferSize
    BY <1>2, <1>5, <2>1, <2>2
  <2>4. <<>> \in Seq(Stream!Predictions) /\ Len(<<>>) <= 1
    OBVIOUS
  <2>5. Sequences
    BY <1>4, <1>24, <2>1, <2>2, <2>3, <2>4 DEF Stream!Send, Sequences
  <2> QED  BY <1>8, <1>9, <1>12, <1>14, <1>24, <2>5 DEF Stream!Send
<1>25. CASE Stream!SendFails
  <2>1. <<>> \in Seq(Stream!Predictions) /\ Len(<<>>) <= 1 /\ <<>> \in Seq(1..MaxInputs)
    OBVIOUS
  <2>2. Sequences
    BY <1>4, <1>5, <1>25, <2>1 DEF Stream!SendFails, Sequences
  <2> QED  BY <1>8, <1>9, <1>12, <1>14, <1>25, <2>2 DEF Stream!SendFails
<1>26. CASE Stream!Processed
  <2>1. runs < taken
    BY <1>1, <1>26 DEF Stream!Processed, Busy
  <2>2. Counters
    BY <1>2, <1>3, <1>6, <1>26, <2>1 DEF Stream!Processed, Counters
  <2>3. Stream!NewTarget \in 1..BatchSize
    BY <1>6, NewTargetSize
  <2>4. Task
    BY <1>7, <1>26, <2>3 DEF Stream!Processed, Task
  <2>5. Rest
    BY <1>6, <1>7, <1>26 DEF Stream!Processed, Rest
  <2> QED  BY <1>8, <1>10, <1>26, <2>2, <2>4, <2>5 DEF Stream!Processed
<1>27. CASE Stream!Receive
  <2>1. /\ stream # <<>> /\ received' = Append(received, Head(stream)) /\ stream' = Tail(stream)
        /\ userPc' = [userPc EXCEPT !["consumer"] = "idle"]
    BY <1>27 DEF Stream!Receive
  <2>2. Head(stream) \in Stream!Predictions /\ Tail(stream) \in Seq(Stream!Predictions)
        /\ Len(Tail(stream)) = Len(stream) - 1 /\ Len(stream) \in Nat
    BY <1>5, <2>1
  <2>3. Append(received, Head(stream)) \in Seq(Stream!Predictions)
    BY <1>4, <2>2
  <2>4. Sequences
    BY <1>2, <1>4, <1>5, <1>27, <2>1, <2>2, <2>3 DEF Stream!Receive, Sequences
  <2>5. Rest
    BY <1>6, <1>7, <1>27, <2>1 DEF Stream!Receive, Rest
  <2> QED  BY <1>8, <1>9, <1>11, <1>27, <2>4, <2>5 DEF Stream!Receive
<1>28. CASE Stream!ReceiveEnd
  <2>1. Rest
    BY <1>6, <1>7, <1>28 DEF Stream!ReceiveEnd, Rest
  <2> QED  BY <1>8, <1>9, <1>10, <1>11, <1>28, <2>1 DEF Stream!ReceiveEnd
<1>29. CASE Stream!DropStream
  <2>1. <<>> \in Seq(Stream!Predictions) /\ Len(<<>>) <= BufferSize
    BY <1>2
  <2>2. Sequences
    BY <1>4, <1>5, <1>29, <2>1 DEF Stream!DropStream, Sequences
  <2>3. Rest
    BY <1>6, <1>7, <1>29 DEF Stream!DropStream, Rest
  <2> QED  BY <1>8, <1>9, <1>11, <1>29, <2>2, <2>3 DEF Stream!DropStream
<1>30. ASSUME NEW u \in Clients, Stream!Want(u) PROVE Stream!TypeOK'
  <2>1. Counters
    BY <1>2, <1>3, <1>6, <1>30 DEF Stream!Want, Counters
  <2>2. Rest
    BY <1>6, <1>7, <1>30 DEF Stream!Want, Rest
  <2> QED  BY <1>8, <1>10, <1>11, <1>30, <2>1, <2>2 DEF Stream!Want
<1>31. ASSUME NEW u \in Clients, Stream!UserLock(u) PROVE Stream!TypeOK'
  <2>1. Rest
    BY <1>6, <1>7, <1>31 DEF Stream!UserLock, Rest, Stream!Users
  <2> QED  BY <1>8, <1>9, <1>10, <1>11, <1>31, <2>1 DEF Stream!UserLock
<1>32. ASSUME NEW u \in Clients, Stream!UserUse(u) PROVE Stream!TypeOK'
  <2>1. Counters
    BY <1>3, <1>6, <1>32 DEF Stream!UserUse, Counters
  <2>2. Rest
    BY <1>6, <1>7, <1>32 DEF Stream!UserUse, Rest
  <2> QED  BY <1>8, <1>10, <1>11, <1>32, <2>1, <2>2 DEF Stream!UserUse
<1> QED
  BY <1>15, <1>16, <1>17, <1>18, <1>19, <1>20, <1>21, <1>22, <1>23, <1>24, <1>25, <1>26, <1>27,
     <1>28, <1>29, <1>30, <1>31, <1>32 DEF Stream!Next, Stream!Input, Stream!Work, Stream!Steppers

LEMMA LineTyped ==
  ASSUME Stream!TypeOK
  PROVE  Line \in Seq(Stream!Predictions) /\ Len(Line) \in Nat
<1>1. /\ received \in Seq(Stream!Predictions) /\ stream \in Seq(Stream!Predictions)
      /\ result \in Seq(Stream!Predictions)
  BY DEF Stream!TypeOK
<1>2. received \o stream \in Seq(Stream!Predictions)
  BY <1>1
<1>3. (received \o stream) \o result \in Seq(Stream!Predictions)
  BY <1>1, <1>2
<1> QED  BY <1>3 DEF Line

\* A prediction that moves from the task to the channel, or from there to the consumer, stays
\* where it is in the line.
LEMMA SameLine ==
  ASSUME Stream!TypeOK,
         \/ Stream!Send
         \/ Stream!Receive
  PROVE  Line' = Line
<1>1. /\ received \in Seq(Stream!Predictions) /\ stream \in Seq(Stream!Predictions)
      /\ result \in Seq(Stream!Predictions)
  BY DEF Stream!TypeOK
<1>2. received \o stream \in Seq(Stream!Predictions)
  BY <1>1
<1>3. CASE Stream!Send
  <2>1. received' = received /\ stream' = stream \o result /\ result' = <<>>
    BY <1>3 DEF Stream!Send
  <2>2. (received \o (stream \o result)) \o <<>> = received \o (stream \o result)
    BY <1>1
  <2>3. received \o (stream \o result) = (received \o stream) \o result
    BY <1>1, ConcatAssociative
  <2> QED  BY <2>1, <2>2, <2>3 DEF Line
<1>4. CASE Stream!Receive
  <2>1. stream # <<>> /\ received' = Append(received, Head(stream)) /\ stream' = Tail(stream)
        /\ result' = result
    BY <1>4 DEF Stream!Receive, Stream!task
  <2>2. /\ Head(stream) \in Stream!Predictions /\ Tail(stream) \in Seq(Stream!Predictions)
    BY <1>1, <2>1, FirstAndRest
  <2>3. stream = <<Head(stream)>> \o Tail(stream)
    <3>1. Len(stream) \in Nat \ {0} /\ Head(stream) = stream[1]
      BY <1>1, <2>1
    <3>2. SubSeq(stream, 1, Len(stream)) = <<stream[1]>> \o SubSeq(stream, 1 + 1, Len(stream))
      BY <1>1, <3>1, SubSeqRecursiveFirst
    <3>3. Tail(stream) = SubSeq(stream, 2, Len(stream)) /\ SubSeq(stream, 1, Len(stream)) = stream
      BY <1>1, <2>1, TailIsSubSeq, SubSeqFull
    <3> QED  BY <3>1, <3>2, <3>3
  <2>4. <<Head(stream)>> \in Seq(Stream!Predictions)
    BY <2>2
  <2>5. Append(received, Head(stream)) = received \o <<Head(stream)>>
    BY <1>1, <2>2, AppendIsConcat
  <2>6. (received \o <<Head(stream)>>) \o Tail(stream) = received \o (<<Head(stream)>> \o Tail(stream))
    BY <1>1, <2>2, <2>4, ConcatAssociative
  <2> QED  BY <2>1, <2>3, <2>5, <2>6 DEF Line
<1> QED  BY <1>3, <1>4

LEMMA StreamStep ==
  ASSUME Stream!StreamAssumption, StreamSafe, [Stream!Next]_streamVars
  PROVE  StreamSafe'
<1>1. Stream!TypeOK /\ Stream!FullNeverParks /\ Numbered /\ Busy
  BY DEF StreamSafe
<1>2. Stream!TypeOK'
  BY StreamTypeStep
<1>3. /\ taken \in Nat /\ runs \in Nat /\ target \in Nat \ {0} /\ inputs \in Seq(1..MaxInputs)
      /\ taskPc \in {"select", "lock", "step", "send", "done"}
  BY <1>1 DEF Stream!TypeOK
<1>4. Line \in Seq(Stream!Predictions) /\ Len(Line) \in Nat /\ Len(inputs) \in Nat
  BY <1>1, <1>3, LineTyped
<1>5. target' \in Nat \ {0}
  BY <1>2 DEF Stream!TypeOK
<1>6. LineAlone => StreamSafe'
  BY <1>2, LineStays DEF StreamSafe
<1>7. Stream!FullNeverParks' /\ Numbered' /\ Busy' => StreamSafe'
  BY <1>2 DEF StreamSafe
<1> USE DEF Stream!source, Stream!task, Stream!users
<1>8. CASE UNCHANGED streamVars
  BY <1>6, <1>8 DEF LineAlone, streamVars
<1>9. CASE Stream!Produce \/ Stream!EndSource \/ Stream!Tick \/ Stream!ReceiveEnd
  BY <1>6, <1>9 DEF LineAlone, Stream!Produce, Stream!EndSource, Stream!Tick, Stream!ReceiveEnd
<1>10. ASSUME NEW u \in Clients, Stream!Want(u) \/ Stream!UserLock(u) \/ Stream!UserUse(u)
       PROVE StreamSafe'
  BY <1>6, <1>10 DEF LineAlone, Stream!Want, Stream!UserLock, Stream!UserUse
<1>11. CASE Stream!TakeInput
  <2>1. /\ taskPc = "select" /\ taken' = taken + 1 /\ inputs' = Append(inputs, taken + 1)
        /\ UNCHANGED <<target, result, stream, open, received, runs>>
        /\ IF Len(inputs') >= target \/ late
           THEN taskPc' = "lock"
           ELSE taskPc' = taskPc
    BY <1>11 DEF Stream!TakeInput
  <2>2. /\ Len(Append(inputs, taken + 1)) = Len(inputs) + 1
        /\ Append(inputs, taken + 1)[Len(inputs) + 1] = taken + 1
        /\ \A n \in 1..Len(inputs) : Append(inputs, taken + 1)[n] = inputs[n]
    BY <1>3
  <2>3. Len(inputs) < target
    BY <1>1, <2>1 DEF Stream!FullNeverParks
  <2>4. Stream!FullNeverParks'
    BY <1>3, <1>4, <2>1, <2>2, <2>3 DEF Stream!FullNeverParks
  <2>5. Line' = Line
    BY <2>1 DEF Line
  <2>6. ASSUME open, NEW n \in 1..(Len(inputs) + 1) PROVE Append(inputs, taken + 1)[n] = Len(Line) + n
    <3>1. Len(Line) + Len(inputs) = taken /\ \A m \in 1..Len(inputs) : inputs[m] = Len(Line) + m
      BY <1>1, <2>6 DEF Numbered
    <3>2. CASE n \in 1..Len(inputs)
      BY <2>2, <3>1, <3>2
    <3>3. CASE n = Len(inputs) + 1
      BY <1>3, <1>4, <2>2, <3>1, <3>3
    <3> QED  BY <1>4, <3>2, <3>3
  <2>7. Numbered'
    BY <1>1, <1>3, <1>4, <2>1, <2>2, <2>5, <2>6 DEF Numbered
  <2>8. Busy'
    BY <1>1, <1>3, <2>1 DEF Busy
  <2> QED  BY <1>7, <2>4, <2>7, <2>8
<1>12. CASE Stream!Deadline
  <2>1. /\ taskPc = "select" /\ UNCHANGED <<taken, inputs, target, result, stream, open, received, runs>>
        /\ \/ inputs # <<>> /\ taskPc' = "lock"
           \/ taskPc' = taskPc
    BY <1>12 DEF Stream!Deadline
  <2>2. Stream!FullNeverParks' /\ Numbered'
    BY <1>1, <2>1 DEF Stream!FullNeverParks, Numbered, Line
  <2>3. Busy'
    BY <1>1, <2>1 DEF Busy
  <2> QED  BY <1>7, <2>2, <2>3
<1>13. CASE Stream!SourceEnds
  <2>1. /\ taskPc = "select" /\ UNCHANGED <<taken, inputs, target, result, stream, open, received, runs>>
        /\ \/ inputs # <<>> /\ taskPc' = "lock"
           \/ inputs = <<>> /\ taskPc' = "done"
    BY <1>13 DEF Stream!SourceEnds
  <2>2. Stream!FullNeverParks' /\ Numbered'
    BY <1>1, <2>1 DEF Stream!FullNeverParks, Numbered, Line
  <2>3. Busy'
    BY <1>1, <2>1 DEF Busy
  <2> QED  BY <1>7, <2>2, <2>3
<1>14. CASE Stream!LockEngine
  <2>1. /\ taskPc = "lock" /\ taskPc' = "step"
        /\ UNCHANGED <<taken, inputs, target, result, stream, open, received, runs>>
    BY <1>14 DEF Stream!LockEngine
  <2>2. Stream!FullNeverParks' /\ Numbered'
    BY <1>1, <2>1 DEF Stream!FullNeverParks, Numbered, Line
  <2>3. Busy'
    BY <1>1, <2>1 DEF Busy
  <2> QED  BY <1>7, <2>2, <2>3
<1>15. CASE Stream!StepInput
  <2> DEFINE p == [input |-> Head(inputs), version |-> version, run |-> runs]
  <2>1. /\ taskPc = "step" /\ inputs # <<>> /\ inputs' = Tail(inputs) /\ taskPc' = "send"
        /\ result' = <<p>> /\ p.input = Head(inputs)
        /\ UNCHANGED <<taken, target, stream, open, received, runs>>
    BY <1>15 DEF Stream!StepInput
  <2>2. /\ Head(inputs) = inputs[1] /\ Len(Tail(inputs)) = Len(inputs) - 1 /\ Len(inputs) >= 1
        /\ \A n \in 1..(Len(inputs) - 1) : Tail(inputs)[n] = inputs[n + 1]
    BY <1>3, <2>1
  <2>3. result = <<>>
    BY <1>1, <2>1 DEF Busy
  <2> HIDE DEF p
  <2>4. /\ Len(Line') = Len(Line) + 1 /\ Line'[Len(Line) + 1] = p
        /\ \A n \in 1..Len(Line) : Line'[n] = Line[n]
    <3>1. received \in Seq(Stream!Predictions) /\ stream \in Seq(Stream!Predictions)
      BY <1>1 DEF Stream!TypeOK
    <3>2. received \o stream \in Seq(Stream!Predictions)
      BY <3>1
    <3>3. Line = received \o stream
      BY <2>3, <3>2 DEF Line
    <3>4. Line' = (received \o stream) \o <<p>>
      BY <2>1 DEF Line
    <3>5. \A s \in Seq(Stream!Predictions) :
            /\ Len(s \o <<p>>) = Len(s) + 1 /\ (s \o <<p>>)[Len(s) + 1] = p
            /\ \A n \in 1..Len(s) : (s \o <<p>>)[n] = s[n]
      OBVIOUS
    <3> QED  BY <1>4, <3>3, <3>4, <3>5
  <2>5. Stream!FullNeverParks'
    BY <1>1, <1>3, <1>4, <2>1, <2>2 DEF Stream!FullNeverParks
  <2>6. ASSUME open PROVE Numbered'
    <3>1. /\ Len(Line) + Len(inputs) = taken /\ \A n \in 1..Len(Line) : Line[n].input = n
          /\ \A n \in 1..Len(inputs) : inputs[n] = Len(Line) + n
      BY <1>1, <2>6 DEF Numbered
    <3>2. p.input = Len(Line) + 1
      BY <1>4, <2>1, <2>2, <3>1
    <3>3. ASSUME NEW n \in 1..(Len(Line) + 1) PROVE Line'[n].input = n
      <4>1. CASE n \in 1..Len(Line)
        BY <2>4, <3>1, <4>1
      <4>2. CASE n = Len(Line) + 1
        BY <2>4, <3>2, <4>2
      <4> QED  BY <1>4, <4>1, <4>2
    <3>4. ASSUME NEW n \in 1..(Len(inputs) - 1) PROVE Tail(inputs)[n] = (Len(Line) + 1) + n
      <4>1. n + 1 \in 1..Len(inputs)
        BY <1>4
      <4>2. Tail(inputs)[n] = Len(Line) + (n + 1)
        BY <2>2, <3>1, <4>1
      <4> QED  BY <1>4, <4>2
    <3>5. (Len(Line) + 1) + (Len(inputs) - 1) = taken
      <4>1. \A a, b \in Nat : (a + 1) + (b - 1) = a + b
        OBVIOUS
      <4> QED  BY <1>4, <3>1, <4>1
    <3> QED  BY <2>1, <2>2, <2>4, <3>3, <3>4, <3>5 DEF Numbered
  <2>7. Numbered'
    BY <2>1, <2>6 DEF Numbered
  <2>8. Busy'
    BY <1>1, <2>1 DEF Busy
  <2> QED  BY <1>7, <2>5, <2>7, <2>8
<1>16. CASE Stream!Send \/ Stream!Receive
  <2>1. Line' = Line
    BY <1>1, <1>16, SameLine
  <2>2. UNCHANGED <<taken, inputs, target, open, runs>>
    BY <1>16 DEF Stream!Send, Stream!Receive
  <2>3. \/ taskPc = "send" /\ taskPc' = "step" /\ result' = <<>>
        \/ UNCHANGED <<taskPc, result>>
    BY <1>16 DEF Stream!Send, Stream!Receive
  <2>4. Numbered'
    BY <1>1, <2>1, <2>2 DEF Numbered
  <2>5. Stream!FullNeverParks'
    BY <1>1, <2>2, <2>3 DEF Stream!FullNeverParks
  <2>6. Busy'
    BY <1>1, <2>2, <2>3 DEF Busy
  <2> QED  BY <1>7, <2>4, <2>5, <2>6
<1>17. CASE Stream!SendFails
  <2>1. /\ taskPc = "send" /\ ~open /\ inputs' = <<>> /\ result' = <<>> /\ taskPc' = "step"
        /\ UNCHANGED <<taken, target, open, runs>>
    BY <1>17 DEF Stream!SendFails
  <2>2. Stream!FullNeverParks'
    BY <1>3, <2>1 DEF Stream!FullNeverParks
  <2>3. Numbered'
    BY <2>1 DEF Numbered
  <2>4. Busy'
    BY <1>1, <2>1 DEF Busy
  <2> QED  BY <1>7, <2>2, <2>3, <2>4
<1>18. CASE Stream!Processed
  <2>1. /\ taskPc = "step" /\ inputs = <<>> /\ taskPc' \in {"select", "done"} /\ runs' = runs + 1
        /\ UNCHANGED <<taken, inputs, result, stream, open, received>>
    BY <1>18 DEF Stream!Processed
  <2>2. Stream!FullNeverParks'
    BY <1>5, <2>1 DEF Stream!FullNeverParks
  <2>3. Numbered'
    BY <1>1, <2>1 DEF Numbered, Line
  <2>4. Busy'
    BY <1>1, <1>3, <2>1 DEF Busy
  <2> QED  BY <1>7, <2>2, <2>3, <2>4
<1>19. CASE Stream!DropStream
  <2>1. open' = FALSE /\ UNCHANGED <<taken, inputs, target, taskPc, result, runs>>
    BY <1>19 DEF Stream!DropStream
  <2>2. Stream!FullNeverParks' /\ Numbered' /\ Busy'
    BY <1>1, <2>1 DEF Stream!FullNeverParks, Numbered, Busy
  <2> QED  BY <1>7, <2>2
<1> QED
  BY <1>8, <1>9, <1>10, <1>11, <1>12, <1>13, <1>14, <1>15, <1>16, <1>17, <1>18, <1>19
     DEF Stream!Next, Stream!Input, Stream!Work, Stream!Steppers

\* InOrder says of whole sequences what Numbered says of their places.
LEMMA StreamImplies ==
  ASSUME StreamSafe
  PROVE  Stream!StreamInv
<1>1. Stream!TypeOK /\ Stream!FullNeverParks /\ Numbered
  BY DEF StreamSafe
<1>2. ASSUME open PROVE Stream!Inputs((received \o stream) \o result) \o inputs = [n \in 1..taken |-> n]
  <2> DEFINE ins == Stream!Inputs(Line)
             all == [n \in 1..taken |-> n]
  <2>1. Line \in Seq(Stream!Predictions) /\ Len(Line) \in Nat
    BY <1>1, LineTyped
  <2>2. inputs \in Seq(1..MaxInputs) /\ taken \in Nat /\ Len(inputs) \in Nat
    BY <1>1 DEF Stream!TypeOK
  <2>3. /\ Len(Line) + Len(inputs) = taken /\ \A n \in 1..Len(Line) : Line[n].input = n
        /\ \A n \in 1..Len(inputs) : inputs[n] = Len(Line) + n
    BY <1>1, <1>2 DEF Numbered
  <2>4. ins = [n \in 1..Len(Line) |-> n]
    BY <2>1, <2>3 DEF Stream!Inputs
  <2>5. ins \in Seq(Nat) /\ Len(ins) = Len(Line)
    BY <2>1, <2>4
  <2>6. inputs \in Seq(Nat)
    <3>1. 1..MaxInputs \subseteq Nat
      OBVIOUS
    <3> QED  BY <2>2, <3>1, SeqMonotonic
  <2>7. all \in Seq(Nat) /\ Len(all) = taken
    BY <2>2
  <2> HIDE DEF ins, all
  <2>8. /\ ins \o inputs \in Seq(Nat) /\ Len(ins \o inputs) = Len(Line) + Len(inputs)
        /\ \A n \in 1..Len(Line) : (ins \o inputs)[n] = ins[n]
        /\ \A n \in 1..Len(inputs) : (ins \o inputs)[Len(Line) + n] = inputs[n]
    BY <2>5, <2>6, SMTT(60)
  <2>9. ASSUME NEW n \in 1..taken PROVE (ins \o inputs)[n] = all[n]
    <3>1. all[n] = n
      BY DEF all
    <3>2. CASE n <= Len(Line)
      <4>1. n \in 1..Len(Line)
        BY <2>1, <3>2
      <4> QED  BY <2>4, <2>8, <3>1, <4>1
    <3>3. CASE ~(n <= Len(Line))
      <4>1. n - Len(Line) \in 1..Len(inputs) /\ Len(Line) + (n - Len(Line)) = n
        BY <2>1, <2>2, <2>3, <3>3
      <4>2. (ins \o inputs)[Len(Line) + (n - Len(Line))] = inputs[n - Len(Line)]
        BY <2>8, <4>1
      <4>3. inputs[n - Len(Line)] = Len(Line) + (n - Len(Line))
        BY <2>3, <4>1
      <4> QED  BY <3>1, <4>1, <4>2, <4>3
    <3> QED  BY <3>2, <3>3
  <2>10. ins \o inputs = all
    BY <2>2, <2>3, <2>7, <2>8, <2>9, SeqEqual
  <2> QED  BY <2>10 DEF ins, all, Line
<1>3. Stream!InOrder
  BY <1>2 DEF Stream!InOrder
<1> QED  BY <1>1, <1>3 DEF Stream!StreamInv

-----------------------------------------------------------------------------
(* StreamTransformers *)

\* The debounce and the throttle keep one item at most; the throttle while it holds it.
OneHeld ==
  /\ kind # "buffer" => Len(kept) <= 1
  /\ kind = "throttle" => (transformPc = "hold" <=> kept # <<>>)

\* The timer of the debounce cannot be due before the item it keeps is as old as its period.
Quiet(left, old) == old = Period \/ left + old >= Period
PauseDue == kind = "debounce" /\ kept # <<>> => Quiet(due, quiet)

\* The ticks of the throttle are at the multiples of its period, and one that is due began
\* after the last item was emitted.
AtMultiple(left, now) == \E q \in Nat : -left = Period * q + now
InStep ==
  kind = "throttle" =>
    /\ due > 0 => due = Period - phase
    /\ due <= 0 => fresh /\ AtMultiple(due, phase)

\* The inductive invariant.
TransformSafe == Transform!TransformInv /\ OneHeld /\ PauseDue /\ InStep

LEMMA TransformInitial ==
  ASSUME Transform!TransformersAssumption, Transform!Init
  PROVE  TransformSafe
<1> USE DEF Transform!Init, Transform!TransformersAssumption
<1>1. Transform!TypeOK
  <2>1. /\ <<>> \in Seq(1..consumed) /\ <<>> \in Seq(Transform!Pieces)
    OBVIOUS
  <2>2. due \in -MaxLate..Period + MaxLate
    OBVIOUS
  <2>3. /\ supplied \in 0..MaxInputs /\ consumed \in 0..supplied
        /\ quiet \in 0..Period /\ phase \in 0..Period - 1
    OBVIOUS
  <2>4. over \in BOOLEAN /\ wanting \in BOOLEAN /\ fresh \in BOOLEAN
    OBVIOUS
  <2> QED  BY <2>1, <2>2, <2>3, <2>4 DEF Transform!TypeOK
<1>2. Transform!OrderKept
  BY DEF Transform!OrderKept, Transform!Before, Transform!Newest, Transform!Follow
<1>3. Transform!ChunksFull /\ Transform!EmitsAfterPause /\ Transform!OnePerPeriod
  BY DEF Transform!ChunksFull, Transform!EmitsAfterPause, Transform!OnePerPeriod
<1>4. OneHeld /\ PauseDue
  BY DEF OneHeld, PauseDue
<1>5. AtMultiple(due, phase)
  <2>1. -due = Period * 0 + phase
    OBVIOUS
  <2> QED  BY <2>1 DEF AtMultiple
<1>6. InStep
  BY <1>5 DEF InStep
<1> QED  BY <1>1, <1>2, <1>3, <1>4, <1>6 DEF TransformSafe, Transform!TransformInv

\* The time to the next tick and the time since the last one, as time passes.
LEMMA NextPhase ==
  ASSUME NEW p \in Nat \ {0}, NEW f \in 0..p - 1
  PROVE  /\ (f + 1) % p \in 0..p - 1
         /\ f + 1 < p => (f + 1) % p = f + 1
         /\ f + 1 = p => (f + 1) % p = 0
OBVIOUS

LEMMA TicksAtMultiples ==
  ASSUME NEW p \in Nat \ {0}, NEW f \in 0..p - 1, NEW q \in Nat
  PROVE  (p * q + f) \div p = q
OBVIOUS

LEMMA NextMultiple ==
  ASSUME Period \in Nat \ {0}, NEW left \in Int, NEW now \in 0..Period - 1, AtMultiple(left, now)
  PROVE  left + Period * (((-left) \div Period) + 1) = Period - now
<1>1. PICK q \in Nat : -left = Period * q + now
  BY DEF AtMultiple
<1>2. (-left) \div Period = q
  BY <1>1, TicksAtMultiples
<1>3. Period * (q + 1) = Period * q + Period
  OBVIOUS
<1>4. Period * q \in Nat
  OBVIOUS
<1>5. \A m \in Nat : -left = m + now => left + (m + Period) = Period - now
  OBVIOUS
<1> QED  BY <1>1, <1>2, <1>3, <1>4, <1>5

LEMMA LaterMultiple ==
  ASSUME Period \in Nat \ {0}, NEW left \in Int, NEW now \in 0..Period - 1, AtMultiple(left, now)
  PROVE  AtMultiple(left - 1, (now + 1) % Period)
<1>1. PICK q \in Nat : -left = Period * q + now
  BY DEF AtMultiple
<1>2. Period * q \in Nat /\ Period * (q + 1) = Period * q + Period /\ q + 1 \in Nat
  OBVIOUS
<1>3. \A m \in Nat : -left = m + now => -(left - 1) = m + (now + 1)
  OBVIOUS
<1>4. -(left - 1) = Period * q + (now + 1)
  BY <1>1, <1>2, <1>3
<1>5. CASE now + 1 < Period
  <2>1. (now + 1) % Period = now + 1
    BY <1>5, NextPhase
  <2> QED  BY <1>4, <2>1 DEF AtMultiple
<1>6. CASE ~(now + 1 < Period)
  <2>1. now + 1 = Period
    BY <1>6
  <2>2. (now + 1) % Period = 0
    BY <2>1, NextPhase
  <2>3. -(left - 1) = Period * (q + 1) + 0
    BY <1>2, <1>4, <2>1
  <2> QED  BY <1>2, <2>2, <2>3 DEF AtMultiple
<1> QED  BY <1>5, <1>6

\* What a step that touches neither the transformer nor its clock leaves alone.
TransformAlone ==
  UNCHANGED <<kind, consumed, kept, due, emitted, quiet, phase>>

LEMMA TransformFacts ==
  ASSUME Transform!TransformersAssumption, TransformSafe
  PROVE  /\ Period \in Nat \ {0} /\ ChunkSize \in Nat /\ MaxInputs \in Nat /\ MaxLate \in Nat
         /\ kind \in Kinds /\ kind \in {"buffer", "debounce", "throttle"}
         /\ supplied \in 0..MaxInputs /\ consumed \in 0..supplied
         /\ kept \in Seq(1..consumed) /\ emitted \in Seq(Transform!Pieces)
         /\ due \in -MaxLate..Period + MaxLate /\ quiet \in 0..Period /\ phase \in 0..Period - 1
         /\ over \in BOOLEAN /\ wanting \in BOOLEAN /\ fresh \in BOOLEAN
         /\ transformPc \in {"new", "read", "hold", "close", "done"}
<1> USE DEF TransformSafe, Transform!TransformInv, Transform!TypeOK, Transform!TransformersAssumption
<1>1. /\ Period \in Nat \ {0} /\ ChunkSize \in Nat /\ MaxInputs \in Nat /\ MaxLate \in Nat
      /\ kind \in Kinds /\ kind \in {"buffer", "debounce", "throttle"}
  OBVIOUS
<1>2. /\ supplied \in 0..MaxInputs /\ consumed \in 0..supplied
      /\ kept \in Seq(1..consumed) /\ emitted \in Seq(Transform!Pieces)
  OBVIOUS
<1>3. due \in -MaxLate..Period + MaxLate /\ quiet \in 0..Period /\ phase \in 0..Period - 1
  OBVIOUS
<1>4. /\ over \in BOOLEAN /\ wanting \in BOOLEAN /\ fresh \in BOOLEAN
      /\ transformPc \in {"new", "read", "hold", "close", "done"}
  OBVIOUS
<1> QED  BY <1>1, <1>2, <1>3, <1>4

\* What is kept comes after what the consumer has, and so does the item read after it.
LEMMA OneMoreItem ==
  ASSUME NEW x \in Nat, NEW s \in Seq(Nat), NEW top \in Nat,
         Transform!Follow(x, s), Transform!Newest(x, s) = top
  PROVE  /\ Append(s, top + 1) # <<>>
         /\ Transform!Follow(x, Append(s, top + 1))
         /\ Transform!Newest(x, Append(s, top + 1)) = top + 1
<1> DEFINE t == Append(s, top + 1)
<1>1. /\ t \in Seq(Nat) /\ Len(t) = Len(s) + 1 /\ Len(s) \in Nat /\ t[Len(s) + 1] = top + 1
      /\ \A i \in 1..Len(s) : t[i] = s[i]
      /\ DOMAIN t = 1..Len(t) /\ DOMAIN s = 1..Len(s)
  OBVIOUS
<1>2. t # <<>>
  BY <1>1, SMTT(60)
<1> HIDE DEF t
<1>3. Transform!Newest(x, t) = top + 1
  BY <1>1, <1>2 DEF Transform!Newest
<1>4. ASSUME NEW i \in 1..Len(t)
      PROVE  LET last == IF i = 1 THEN x ELSE t[i - 1]
             IN  IF kind = "debounce" THEN last < t[i] ELSE t[i] = last + 1
  <2>1. CASE i \in 1..Len(s)
    <3>1. t[i] = s[i] /\ (i # 1 => t[i - 1] = s[i - 1])
      <4>1. i # 1 => i - 1 \in 1..Len(s)
        BY <1>1, <2>1
      <4> QED  BY <1>1, <2>1, <4>1
    <3>2. LET last == IF i = 1 THEN x ELSE s[i - 1]
          IN  IF kind = "debounce" THEN last < s[i] ELSE s[i] = last + 1
      BY <1>1, <2>1 DEF Transform!Follow
    <3> QED  BY <3>1, <3>2
  <2>2. CASE i = Len(s) + 1
    <3>1. (IF i = 1 THEN x ELSE t[i - 1]) = top
      <4>1. CASE s = <<>>
        BY <1>1, <2>2, <4>1 DEF Transform!Newest
      <4>2. CASE s # <<>>
        <5>1. Len(s) \in 1..Len(s) /\ i # 1 /\ i - 1 = Len(s)
          BY <1>1, <2>2, <4>2
        <5> QED  BY <1>1, <4>2, <5>1 DEF Transform!Newest
      <4> QED  BY <4>1, <4>2
    <3>2. top < top + 1
      OBVIOUS
    <3> QED  BY <1>1, <2>2, <3>1, <3>2
  <2> QED  BY <1>1, <2>1, <2>2
<1>5. Transform!Follow(x, t)
  BY <1>1, <1>4 DEF Transform!Follow
<1> QED  BY <1>2, <1>3, <1>5 DEF t

\* A later item may take the place of the only one that is kept, of a debounce.
LEMMA NewerItem ==
  ASSUME NEW x \in Nat, NEW s \in Seq(Nat), NEW top \in Nat, kind = "debounce", Len(s) <= 1,
         Transform!Follow(x, s), Transform!Newest(x, s) = top
  PROVE  Transform!Follow(x, <<top + 1>>) /\ Transform!Newest(x, <<top + 1>>) = top + 1
<1>1. Transform!Newest(x, <<top + 1>>) = top + 1
  BY DEF Transform!Newest
<1>2. x <= top
  <2>1. CASE s = <<>>
    BY <2>1 DEF Transform!Newest
  <2>2. CASE s # <<>>
    <3>1. Len(s) = 1 /\ 1 \in DOMAIN s /\ s[1] \in Nat
      <4>1. Len(s) \in Nat /\ DOMAIN s = 1..Len(s) /\ Len(s) # 0
        BY <2>2
      <4>2. Len(s) = 1
        BY <4>1
      <4> QED  BY <4>1, <4>2, SMTT(60)
    <3>2. s[1] = top /\ x < s[1]
      BY <2>2, <3>1 DEF Transform!Newest, Transform!Follow
    <3> QED  BY <3>1, <3>2
  <2> QED  BY <2>1, <2>2
<1>3. x < top + 1
  BY <1>2
<1>4. DOMAIN <<top + 1>> = {1} /\ <<top + 1>>[1] = top + 1
  OBVIOUS
<1> QED  BY <1>1, <1>3, <1>4 DEF Transform!Follow

LEMMA BeforeTyped ==
  ASSUME Transform!TransformersAssumption, TransformSafe
  PROVE  /\ Transform!Before(Len(emitted) + 1) \in Nat /\ Len(emitted) \in Nat
         /\ kept \in Seq(Nat) /\ Len(kept) \in Nat /\ consumed \in Nat
<1>1. /\ emitted \in Seq(Transform!Pieces) /\ kept \in Seq(1..consumed) /\ consumed \in Nat
      /\ MaxInputs \in Nat
  BY TransformFacts
<1>2. Len(emitted) \in Nat /\ DOMAIN emitted = 1..Len(emitted)
  BY <1>1
<1>3. kept \in Seq(Nat) /\ Len(kept) \in Nat
  <2>1. 1..consumed \subseteq Nat
    BY <1>1
  <2>2. kept \in Seq(Nat)
    BY <1>1, <2>1, SeqMonotonic
  <2> QED  BY <2>2
<1>4. Transform!Before(Len(emitted) + 1) \in Nat
  <2>1. CASE Len(emitted) = 0
    BY <2>1 DEF Transform!Before
  <2>2. CASE Len(emitted) # 0
    <3>1. Len(emitted) \in DOMAIN emitted /\ (Len(emitted) + 1) - 1 = Len(emitted) /\ Len(emitted) + 1 # 1
      BY <1>2, <2>2
    <3>2. emitted[Len(emitted)] \in Transform!Pieces
      BY <1>1, <3>1
    <3> DEFINE items == emitted[Len(emitted)].items
    <3>3. items \in Seq(1..MaxInputs)
      BY <3>2 DEF Transform!Pieces
    <3> HIDE DEF items
    <3>4. items = <<>> \/ items[Len(items)] \in Nat
      BY <1>1, <3>3
    <3>5. Transform!Newest(0, items) \in Nat
      BY <3>4 DEF Transform!Newest
    <3> QED  BY <3>1, <3>5 DEF Transform!Before, items
  <2> QED  BY <2>1, <2>2
<1> QED  BY <1>1, <1>2, <1>3, <1>4

-----------------------------------------------------------------------------
(* A step emits what it keeps, and something after it perhaps, or emits nothing. *)

LEMMA SilentKeeps ==
  ASSUME TransformSafe, UNCHANGED <<kind, emitted>>,
         transformPc \in {"close", "done"} => transformPc' \in {"close", "done"},
         kind = "buffer" => Len(kept') < ChunkSize \/ kept' = <<>>
  PROVE  Transform!ChunksFull' /\ Transform!EmitsAfterPause' /\ Transform!OnePerPeriod'
BY DEF TransformSafe, Transform!TransformInv, Transform!ChunksFull, Transform!EmitsAfterPause,
       Transform!OnePerPeriod

LEMMA SilentOrder ==
  ASSUME TransformSafe, UNCHANGED <<kind, emitted>>,
         Transform!Follow(Transform!Before(Len(emitted) + 1), kept'),
         Transform!Newest(Transform!Before(Len(emitted) + 1), kept') = consumed'
  PROVE  Transform!OrderKept'
BY DEF TransformSafe, Transform!TransformInv, Transform!OrderKept, Transform!Before,
       Transform!Follow, Transform!Newest

LEMMA YieldKeeps ==
  ASSUME Transform!TransformersAssumption, TransformSafe,
         NEW items, Transform!Yield(items), UNCHANGED kind, kept' = <<>>,
         transformPc \notin {"close", "done"},
         kind = "buffer" => Len(items) >= ChunkSize \/ transformPc' \in {"close", "done"},
         kind = "debounce" => quiet = Period \/ transformPc' \in {"close", "done"},
         kind = "throttle" => fresh
  PROVE  Transform!ChunksFull' /\ Transform!EmitsAfterPause' /\ Transform!OnePerPeriod'
<1> DEFINE piece == [items |-> items, quiet |-> quiet, fresh |-> fresh]
<1>1. /\ piece.items = items /\ piece.quiet = quiet /\ piece.fresh = fresh
      /\ emitted' = Append(emitted, piece)
  BY DEF Transform!Yield
<1> HIDE DEF piece
<1>2. emitted \in Seq(Transform!Pieces)
  BY TransformFacts
<1>3. /\ Len(Append(emitted, piece)) = Len(emitted) + 1 /\ Len(emitted) \in Nat
      /\ DOMAIN Append(emitted, piece) = 1..(Len(emitted) + 1) /\ DOMAIN emitted = 1..Len(emitted)
      /\ Append(emitted, piece)[Len(emitted) + 1] = piece
      /\ \A n \in 1..Len(emitted) : Append(emitted, piece)[n] = emitted[n]
  BY <1>2
<1>4. \A n \in DOMAIN emitted' :
        \/ n \in DOMAIN emitted /\ emitted'[n] = emitted[n]
        \/ n = Len(emitted') /\ emitted'[n] = piece
  BY <1>1, <1>3
<1>5. \A n \in DOMAIN emitted :
        /\ kind = "buffer" => Len(emitted[n].items) >= ChunkSize
        /\ kind = "debounce" => emitted[n].quiet = Period
        /\ kind = "throttle" => emitted[n].fresh
  BY DEF TransformSafe, Transform!TransformInv, Transform!ChunksFull, Transform!EmitsAfterPause,
         Transform!OnePerPeriod
<1>6. Transform!ChunksFull'
  BY <1>1, <1>4, <1>5 DEF Transform!ChunksFull
<1>7. Transform!EmitsAfterPause'
  BY <1>1, <1>4, <1>5 DEF Transform!EmitsAfterPause
<1>8. Transform!OnePerPeriod'
  BY <1>1, <1>4, <1>5 DEF Transform!OnePerPeriod
<1> QED  BY <1>6, <1>7, <1>8

LEMMA YieldOrder ==
  ASSUME Transform!TransformersAssumption, TransformSafe,
         NEW items, items # <<>>, Transform!Yield(items), UNCHANGED kind, kept' = <<>>,
         Transform!Follow(Transform!Before(Len(emitted) + 1), items),
         Transform!Newest(Transform!Before(Len(emitted) + 1), items) = consumed'
  PROVE  Transform!OrderKept'
<1> DEFINE piece == [items |-> items, quiet |-> quiet, fresh |-> fresh]
<1>1. piece.items = items /\ emitted' = Append(emitted, piece)
  BY DEF Transform!Yield
<1> HIDE DEF piece
<1>2. emitted \in Seq(Transform!Pieces)
  BY TransformFacts
<1>3. /\ Len(Append(emitted, piece)) = Len(emitted) + 1 /\ Len(emitted) \in Nat
      /\ DOMAIN Append(emitted, piece) = 1..(Len(emitted) + 1) /\ DOMAIN emitted = 1..Len(emitted)
      /\ Append(emitted, piece)[Len(emitted) + 1] = piece
      /\ \A n \in 1..Len(emitted) : Append(emitted, piece)[n] = emitted[n]
  BY <1>2
<1>4. \A n \in DOMAIN emitted : emitted'[n] = emitted[n]
  BY <1>1, <1>3
<1>5. ASSUME NEW n \in 1..(Len(emitted) + 1) PROVE Transform!Before(n)' = Transform!Before(n)
  <2>1. n # 1 => n - 1 \in DOMAIN emitted
    BY <1>3
  <2>2. n # 1 => emitted'[n - 1] = emitted[n - 1]
    BY <1>4, <2>1
  <2> QED  BY <2>2 DEF Transform!Before
<1>6. ASSUME NEW n \in DOMAIN emitted'
      PROVE  emitted'[n].items # <<>> /\ Transform!Follow(Transform!Before(n), emitted[n].items)'
  <2>1. CASE n \in DOMAIN emitted
    <3>1. emitted[n].items # <<>> /\ Transform!Follow(Transform!Before(n), emitted[n].items)
      BY <2>1 DEF TransformSafe, Transform!TransformInv, Transform!OrderKept
    <3>2. emitted'[n] = emitted[n] /\ Transform!Before(n)' = Transform!Before(n)
      BY <1>3, <1>4, <1>5, <2>1
    <3> QED  BY <3>1, <3>2 DEF Transform!Follow
  <2>2. CASE n = Len(emitted) + 1
    <3>1. emitted'[n] = piece
      BY <1>1, <1>3, <2>2
    <3>2. Transform!Before(n)' = Transform!Before(Len(emitted) + 1)
      BY <1>3, <1>5, <2>2
    <3> QED  BY <1>1, <3>1, <3>2 DEF Transform!Follow
  <2> QED  BY <1>1, <1>3, <2>1, <2>2
<1>7. Transform!Before(Len(emitted) + 1)' = consumed'
  <2>1. /\ Len(emitted') + 1 # 1 /\ (Len(emitted') + 1) - 1 = Len(emitted) + 1
        /\ emitted'[Len(emitted) + 1] = piece
    BY <1>1, <1>3
  <2>2. Transform!Newest(0, piece.items) = Transform!Newest(Transform!Before(Len(emitted) + 1), items)
    BY <1>1 DEF Transform!Newest
  <2> QED  BY <2>1, <2>2 DEF Transform!Before, Transform!Newest
<1>8. Transform!Follow(Transform!Before(Len(emitted) + 1), kept)'
  BY DEF Transform!Follow
<1>9. Transform!Newest(Transform!Before(Len(emitted) + 1), kept)' = consumed'
  BY <1>7 DEF Transform!Newest
<1> QED  BY <1>6, <1>8, <1>9 DEF Transform!OrderKept

-----------------------------------------------------------------------------
(* The steps *)

LEMMA AloneKeeps ==
  ASSUME Transform!TransformersAssumption, TransformSafe, TransformAlone,
         supplied' \in 0..MaxInputs, supplied <= supplied',
         over' \in BOOLEAN, wanting' \in BOOLEAN, fresh' = fresh,
         transformPc' \in {"new", "read", "hold", "close", "done"},
         transformPc \in {"close", "done"} => transformPc' \in {"close", "done"},
         transformPc' = "hold" <=> transformPc = "hold"
  PROVE  TransformSafe'
<1> USE DEF TransformAlone
<1>1. Transform!TypeOK'
  <2>1. /\ kind' \in Kinds /\ kept' \in Seq(1..consumed') /\ emitted' \in Seq(Transform!Pieces)
        /\ due' \in -MaxLate..Period + MaxLate /\ quiet' \in 0..Period /\ phase' \in 0..Period - 1
        /\ fresh' \in BOOLEAN
    BY TransformFacts
  <2>2. consumed' \in 0..supplied'
    BY TransformFacts, SMTT(60)
  <2> QED  BY <2>1, <2>2 DEF Transform!TypeOK, Transform!Pieces
<1>2. Transform!OrderKept'
  BY DEF TransformSafe, Transform!TransformInv, Transform!OrderKept, Transform!Before,
         Transform!Follow, Transform!Newest
<1>3. Transform!ChunksFull' /\ Transform!EmitsAfterPause' /\ Transform!OnePerPeriod'
  <2>1. kind = "buffer" => Len(kept') < ChunkSize \/ kept' = <<>>
    BY DEF TransformSafe, Transform!TransformInv, Transform!ChunksFull
  <2> QED  BY <2>1, SilentKeeps
<1>4. OneHeld' /\ PauseDue' /\ InStep'
  BY DEF TransformSafe, OneHeld, PauseDue, InStep
<1> QED  BY <1>1, <1>2, <1>3, <1>4 DEF TransformSafe, Transform!TransformInv

\* A new item, of each of the transformers.
LEMMA ItemKeeps ==
  ASSUME Transform!TransformersAssumption, TransformSafe,
         Transform!BufferItem \/ Transform!DebounceItem \/ Transform!ThrottleItem
  PROVE  TransformSafe'
<1> DEFINE last == Transform!Before(Len(emitted) + 1)
<1> USE DEF Transform!clock, Transform!source, Transform!Silent
<1>1. /\ Period \in Nat \ {0} /\ MaxInputs \in Nat /\ MaxLate \in Nat
      /\ supplied \in 0..MaxInputs /\ consumed \in 0..supplied /\ consumed \in Nat
      /\ kept \in Seq(1..consumed) /\ emitted \in Seq(Transform!Pieces)
      /\ quiet \in 0..Period /\ fresh \in BOOLEAN
  BY TransformFacts
<1>2. last \in Nat /\ kept \in Seq(Nat) /\ Len(kept) \in Nat
  BY BeforeTyped
<1>3. Transform!Follow(last, kept) /\ Transform!Newest(last, kept) = consumed
  BY DEF TransformSafe, Transform!TransformInv, Transform!OrderKept
<1>4. /\ consumed < supplied /\ consumed' = consumed + 1 /\ transformPc = "read"
      /\ UNCHANGED <<kind, supplied, over, phase>>
  BY DEF Transform!BufferItem, Transform!DebounceItem, Transform!ThrottleItem, Transform!Take
<1> HIDE DEF last
<1>5. /\ consumed + 1 \in 0..supplied /\ consumed + 1 \in 1..MaxInputs /\ consumed + 1 \in 1..(consumed + 1)
      /\ 1..consumed \subseteq 1..(consumed + 1) /\ 1..(consumed + 1) \subseteq 1..MaxInputs
  BY <1>1, <1>4
<1>6. /\ <<consumed + 1>> \in Seq(1..(consumed + 1)) /\ <<>> \in Seq(1..(consumed + 1))
      /\ <<consumed + 1>> # <<>> /\ Len(<<consumed + 1>>) = 1
  BY <1>5
<1>7. Append(kept, consumed + 1) \in Seq(1..(consumed + 1))
  <2>1. kept \in Seq(1..(consumed + 1))
    BY <1>1, <1>5, SeqMonotonic
  <2> QED  BY <1>5, <2>1
<1>8. OneHeld /\ PauseDue /\ InStep
  BY DEF TransformSafe
<1>9. ASSUME kept' \in Seq(1..(consumed + 1)), emitted' \in Seq(Transform!Pieces),
             wanting' \in BOOLEAN, fresh' \in BOOLEAN, transformPc' \in {"read", "hold"},
             quiet' \in 0..Period, due' \in -MaxLate..Period + MaxLate
      PROVE  Transform!TypeOK'
  <2>1. /\ kind' \in Kinds /\ supplied' \in 0..MaxInputs /\ over' \in BOOLEAN
        /\ phase' \in 0..Period - 1
    BY <1>4, TransformFacts
  <2>2. consumed' \in 0..supplied' /\ kept' \in Seq(1..consumed')
    BY <1>4, <1>5, <1>9
  <2> QED  BY <1>9, <2>1, <2>2 DEF Transform!TypeOK, Transform!Pieces
<1>10. CASE Transform!BufferItem
  <2> DEFINE chunk == Append(kept, consumed + 1)
  <2>1. /\ kind = "buffer" /\ UNCHANGED <<transformPc, due, quiet>>
        /\ \/ Len(chunk) >= ChunkSize /\ Transform!Yield(chunk) /\ kept' = <<>>
           \/ /\ ~(Len(chunk) >= ChunkSize) /\ kept' = chunk
              /\ UNCHANGED <<emitted, wanting, fresh>>
    BY <1>4, <1>10 DEF Transform!BufferItem
  <2>2. chunk # <<>> /\ Transform!Follow(last, chunk) /\ Transform!Newest(last, chunk) = consumed + 1
    BY <1>1, <1>2, <1>3, OneMoreItem
  <2>3. chunk \in Seq(1..(consumed + 1))
    BY <1>7
  <2>4. ChunkSize \in Nat /\ Len(chunk) \in Nat
    BY <2>3, TransformFacts
  <2> HIDE DEF chunk
  <2>5. OneHeld' /\ PauseDue' /\ InStep'
    BY <1>4, <2>1 DEF OneHeld, PauseDue, InStep
  <2>6. due' \in -MaxLate..Period + MaxLate /\ quiet' \in 0..Period
    BY <2>1, TransformFacts
  <2>7. CASE Len(chunk) >= ChunkSize /\ Transform!Yield(chunk) /\ kept' = <<>>
    <3>1. /\ Transform!ChunksFull' /\ Transform!EmitsAfterPause' /\ Transform!OnePerPeriod'
      BY <1>4, <2>1, <2>7, YieldKeeps
    <3>2. Transform!OrderKept'
      BY <1>4, <2>2, <2>7, YieldOrder DEF last
    <3>3. [items |-> chunk, quiet |-> quiet, fresh |-> fresh] \in Transform!Pieces
      <4>1. chunk \in Seq(1..MaxInputs)
        BY <1>5, <2>3, SeqMonotonic
      <4> QED  BY <1>1, <4>1 DEF Transform!Pieces
    <3>4. emitted' \in Seq(Transform!Pieces) /\ wanting' = FALSE /\ fresh' = FALSE
      BY <1>1, <2>7, <3>3 DEF Transform!Yield
    <3>5. Transform!TypeOK'
      BY <1>4, <1>6, <1>9, <2>1, <2>6, <2>7, <3>4
    <3> QED  BY <2>5, <3>1, <3>2, <3>5 DEF TransformSafe, Transform!TransformInv
  <2>8. CASE ~(Len(chunk) >= ChunkSize) /\ kept' = chunk /\ UNCHANGED <<emitted, wanting, fresh>>
    <3>1. Len(kept') < ChunkSize
      BY <2>4, <2>8
    <3>2. /\ Transform!ChunksFull' /\ Transform!EmitsAfterPause' /\ Transform!OnePerPeriod'
      BY <1>4, <2>1, <2>8, <3>1, SilentKeeps
    <3>3. Transform!OrderKept'
      BY <1>4, <2>2, <2>8, SilentOrder DEF last
    <3>4. emitted' \in Seq(Transform!Pieces) /\ wanting' \in BOOLEAN /\ fresh' \in BOOLEAN
      BY <2>8, TransformFacts
    <3>5. Transform!TypeOK'
      BY <1>4, <1>9, <2>1, <2>3, <2>6, <2>8, <3>4
    <3> QED  BY <2>5, <3>2, <3>3, <3>5 DEF TransformSafe, Transform!TransformInv
  <2> QED  BY <2>1, <2>7, <2>8
<1>11. CASE Transform!DebounceItem \/ Transform!ThrottleItem
  <2>1. /\ kept' = <<consumed + 1>> /\ UNCHANGED <<emitted, wanting, fresh>>
        /\ \/ /\ kind = "debounce" /\ due' = Period /\ quiet' = 0 /\ transformPc' = "read"
           \/ /\ kind = "throttle" /\ UNCHANGED <<due, quiet>> /\ transformPc' = "hold"
    BY <1>4, <1>11 DEF Transform!DebounceItem, Transform!ThrottleItem
  <2>2. /\ Transform!ChunksFull' /\ Transform!EmitsAfterPause' /\ Transform!OnePerPeriod'
    BY <1>4, <2>1, SilentKeeps
  <2>3. due' \in -MaxLate..Period + MaxLate /\ quiet' \in 0..Period
    <3>1. CASE due' = due /\ quiet' = quiet
      BY <3>1, TransformFacts
    <3>2. CASE due' = Period /\ quiet' = 0
      BY <1>1, <3>2
    <3> QED  BY <2>1, <3>1, <3>2
  <2>4. emitted' \in Seq(Transform!Pieces) /\ wanting' \in BOOLEAN /\ fresh' \in BOOLEAN
    BY <2>1, TransformFacts
  <2>5. Transform!TypeOK'
    BY <1>6, <1>9, <2>1, <2>3, <2>4
  <2>6. Transform!Follow(last, <<consumed + 1>>) /\ Transform!Newest(last, <<consumed + 1>>) = consumed + 1
    <3>1. CASE kind = "debounce"
      <4>1. Len(kept) <= 1
        BY <1>8, <3>1 DEF OneHeld
      <4> QED  BY <1>1, <1>2, <1>3, <3>1, <4>1, NewerItem
    <3>2. CASE kind = "throttle"
      <4>1. kept = <<>>
        BY <1>4, <1>8, <3>2 DEF OneHeld
      <4>2. Append(kept, consumed + 1) = <<consumed + 1>>
        BY <4>1
      <4>3. /\ Transform!Follow(last, Append(kept, consumed + 1))
            /\ Transform!Newest(last, Append(kept, consumed + 1)) = consumed + 1
        BY <1>1, <1>2, <1>3, OneMoreItem
      <4> QED  BY <4>2, <4>3, Zenon
    <3> QED  BY <2>1, <3>1, <3>2
  <2>7. Transform!OrderKept'
    BY <1>4, <2>1, <2>6, SilentOrder DEF last
  <2>8. OneHeld' /\ PauseDue'
    BY <1>1, <1>4, <1>6, <2>1 DEF OneHeld, PauseDue, Quiet
  <2>9. InStep'
    BY <1>4, <1>8, <2>1 DEF InStep
  <2> QED  BY <2>2, <2>5, <2>7, <2>8, <2>9 DEF TransformSafe, Transform!TransformInv
<1> QED  BY <1>10, <1>11

\* The item that is kept is emitted, when its time has come or at the end.
LEMMA EmitKeeps ==
  ASSUME Transform!TransformersAssumption, TransformSafe,
         Transform!Yield(kept), kept # <<>>, kept' = <<>>,
         UNCHANGED <<kind, supplied, over, consumed, quiet, phase>>,
         transformPc \notin {"close", "done"}, transformPc' \in {"read", "close"},
         due' \in -MaxLate..Period + MaxLate,
         kind = "buffer" => transformPc' = "close",
         kind = "debounce" => quiet = Period \/ transformPc' = "close",
         kind = "throttle" => fresh /\ due' > 0 /\ due' = Period - phase
  PROVE  TransformSafe'
<1>1. /\ Period \in Nat \ {0} /\ MaxInputs \in Nat
      /\ supplied \in 0..MaxInputs /\ consumed \in 0..supplied
      /\ kept \in Seq(1..consumed) /\ emitted \in Seq(Transform!Pieces)
      /\ quiet \in 0..Period /\ fresh \in BOOLEAN
  BY TransformFacts
<1>2. /\ Transform!Follow(Transform!Before(Len(emitted) + 1), kept)
      /\ Transform!Newest(Transform!Before(Len(emitted) + 1), kept) = consumed'
  BY DEF TransformSafe, Transform!TransformInv, Transform!OrderKept
<1>3. Transform!OrderKept'
  BY <1>2, YieldOrder
<1>4. /\ Transform!ChunksFull' /\ Transform!EmitsAfterPause' /\ Transform!OnePerPeriod'
  BY YieldKeeps
<1>5. [items |-> kept, quiet |-> quiet, fresh |-> fresh] \in Transform!Pieces
  <2>1. 1..consumed \subseteq 1..MaxInputs
    BY <1>1
  <2>2. kept \in Seq(1..MaxInputs)
    BY <1>1, <2>1, SeqMonotonic
  <2> QED  BY <1>1, <2>2 DEF Transform!Pieces
<1>6. emitted' \in Seq(Transform!Pieces) /\ wanting' = FALSE /\ fresh' = FALSE
  BY <1>1, <1>5 DEF Transform!Yield
<1>7. Transform!TypeOK'
  <2>1. /\ kind' \in Kinds /\ supplied' \in 0..MaxInputs /\ over' \in BOOLEAN
        /\ consumed' \in 0..supplied' /\ quiet' \in 0..Period /\ phase' \in 0..Period - 1
    BY TransformFacts
  <2>2. kept' \in Seq(1..consumed')
    OBVIOUS
  <2> QED  BY <1>6, <2>1, <2>2 DEF Transform!TypeOK, Transform!Pieces
<1>8. OneHeld' /\ PauseDue'
  BY DEF OneHeld, PauseDue
<1>9. InStep'
  <2>1. due' \in Int
    BY TransformFacts
  <2> QED  BY <2>1 DEF InStep
<1> QED  BY <1>3, <1>4, <1>7, <1>8, <1>9 DEF TransformSafe, Transform!TransformInv

LEMMA TransformStep ==
  ASSUME Transform!TransformersAssumption, TransformSafe, [Transform!Next]_transformVars
  PROVE  TransformSafe'
<1> USE DEF Transform!clock, Transform!source, Transform!Silent
<1>1. /\ Period \in Nat \ {0} /\ MaxInputs \in Nat /\ MaxLate \in Nat
      /\ supplied \in 0..MaxInputs /\ consumed \in 0..supplied /\ kept \in Seq(1..consumed)
      /\ due \in -MaxLate..Period + MaxLate /\ quiet \in 0..Period /\ phase \in 0..Period - 1
      /\ kind \in {"buffer", "debounce", "throttle"}
  BY TransformFacts
<1>2. /\ over \in BOOLEAN /\ wanting \in BOOLEAN /\ fresh \in BOOLEAN
      /\ transformPc \in {"new", "read", "hold", "close", "done"}
  BY TransformFacts
<1>3. OneHeld /\ PauseDue /\ InStep
  BY DEF TransformSafe
<1>4. CASE UNCHANGED transformVars
  BY <1>1, <1>2, <1>4, AloneKeeps DEF transformVars, TransformAlone
<1>5. CASE Transform!Produce
  <2>1. supplied' = supplied + 1 /\ supplied < MaxInputs /\ UNCHANGED <<over, wanting, fresh, transformPc>>
    BY <1>5 DEF Transform!Produce
  <2>2. TransformAlone
    BY <1>5 DEF Transform!Produce, TransformAlone
  <2>3. supplied' \in 0..MaxInputs /\ supplied <= supplied'
    BY <1>1, <2>1
  <2> QED  BY <1>2, <2>1, <2>2, <2>3, AloneKeeps
<1>6. CASE Transform!EndSource
  <2>1. over' = TRUE /\ UNCHANGED <<supplied, wanting, fresh, transformPc>>
    BY <1>6 DEF Transform!EndSource
  <2>2. TransformAlone
    BY <1>6 DEF Transform!EndSource, TransformAlone
  <2> QED  BY <1>1, <1>2, <2>1, <2>2, AloneKeeps
<1>7. CASE Transform!Poll
  <2>1. /\ wanting' = TRUE /\ UNCHANGED <<supplied, over, fresh>>
        /\ transformPc # "done"
        /\ \/ transformPc = "new" /\ transformPc' = "read"
           \/ transformPc # "new" /\ transformPc' = transformPc
    BY <1>7 DEF Transform!Poll
  <2>2. TransformAlone
    BY <1>7 DEF Transform!Poll, TransformAlone
  <2>3. /\ transformPc' \in {"new", "read", "hold", "close", "done"}
        /\ transformPc \in {"close", "done"} => transformPc' \in {"close", "done"}
        /\ transformPc' = "hold" <=> transformPc = "hold"
    BY <1>2, <2>1
  <2> QED  BY <1>1, <1>2, <2>1, <2>2, <2>3, AloneKeeps
<1>8. CASE Transform!Close
  <2>1. /\ wanting' = FALSE /\ UNCHANGED <<supplied, over, fresh>>
        /\ transformPc \in {"close", "read"} /\ transformPc' = "done"
    BY <1>8 DEF Transform!Close
  <2>2. TransformAlone
    BY <1>8 DEF Transform!Close, TransformAlone
  <2>3. /\ transformPc' \in {"new", "read", "hold", "close", "done"}
        /\ transformPc' = "hold" <=> transformPc = "hold"
    BY <2>1
  <2>4. supplied' \in 0..MaxInputs /\ supplied <= supplied'
    BY <1>1, <2>1
  <2>5. wanting' \in BOOLEAN /\ over' \in BOOLEAN
    BY <1>2, <2>1
  <2> QED  BY <2>1, <2>2, <2>3, <2>4, <2>5, AloneKeeps
<1>9. CASE Transform!Tick
  <2>1. /\ kind # "buffer" /\ due > -MaxLate /\ due' = due - 1
        /\ quiet' = (IF kind = "debounce" /\ quiet < Period THEN quiet + 1 ELSE quiet)
        /\ phase' = (phase + 1) % Period
        /\ fresh' = (fresh \/ phase' = 0)
        /\ UNCHANGED <<kind, supplied, over, wanting, transformPc, consumed, kept, emitted>>
    BY <1>9 DEF Transform!Tick
  <2>2. phase' \in 0..Period - 1 /\ (phase + 1 < Period => phase' = phase + 1)
        /\ (phase + 1 = Period => phase' = 0)
    BY <1>1, <2>1, NextPhase
  <2>3. quiet' \in 0..Period /\ due' \in -MaxLate..Period + MaxLate
    BY <1>1, <2>1
  <2>4. fresh' \in BOOLEAN
    BY <2>1
  <2>5. Transform!TypeOK'
    <3>1. /\ kind' \in Kinds /\ emitted' \in Seq(Transform!Pieces) /\ kept' \in Seq(1..consumed')
          /\ supplied' \in 0..MaxInputs /\ consumed' \in 0..supplied'
      BY <2>1, TransformFacts
    <3> QED  BY <1>2, <2>1, <2>2, <2>3, <2>4, <3>1 DEF Transform!TypeOK, Transform!Pieces
  <2>6. Transform!OrderKept'
    BY <2>1 DEF TransformSafe, Transform!TransformInv, Transform!OrderKept, Transform!Before,
                Transform!Follow, Transform!Newest
  <2>7. Transform!ChunksFull' /\ Transform!EmitsAfterPause' /\ Transform!OnePerPeriod'
    BY <2>1, SilentKeeps
  <2>8. OneHeld'
    BY <1>3, <2>1 DEF OneHeld
  <2>9. PauseDue'
    BY <1>1, <1>3, <2>1, <2>3 DEF PauseDue, Quiet
  <2>10. InStep'
    <3>1. CASE due > 1
      <4>1. kind = "throttle" => due = Period - phase
        BY <1>1, <1>3, <3>1 DEF InStep
      <4>2. kind = "throttle" => phase + 1 < Period /\ due' = Period - phase'
        BY <1>1, <2>1, <2>2, <3>1, <4>1
      <4> QED  BY <1>1, <2>1, <3>1, <4>2 DEF InStep
    <3>2. CASE due = 1
      <4>1. kind = "throttle" => phase' = 0
        BY <1>1, <1>3, <2>2, <3>2 DEF InStep
      <4>2. due' = 0
        BY <2>1, <3>2
      <4>3. -(0) = Period * 0 + 0
        BY <1>1
      <4>4. kind = "throttle" => AtMultiple(due', phase')
        BY <4>1, <4>2, <4>3 DEF AtMultiple
      <4>5. kind = "throttle" => fresh'
        BY <2>1, <4>1
      <4> QED  BY <2>1, <4>2, <4>4, <4>5 DEF InStep, AtMultiple
    <3>3. CASE due <= 0
      <4>1. kind = "throttle" => fresh /\ AtMultiple(due, phase)
        BY <1>3, <3>3 DEF InStep
      <4>2. kind = "throttle" => AtMultiple(due - 1, (phase + 1) % Period)
        BY <1>1, <4>1, LaterMultiple
      <4>3. kind = "throttle" => AtMultiple(due', phase')
        BY <2>1, <4>2
      <4>4. ~(due' > 0)
        BY <1>1, <2>1, <3>3
      <4>5. kind = "throttle" => fresh'
        BY <2>1, <4>1
      <4> QED  BY <2>1, <4>3, <4>4, <4>5 DEF InStep, AtMultiple
    <3> QED  BY <1>1, <3>1, <3>2, <3>3
  <2> QED  BY <2>5, <2>6, <2>7, <2>8, <2>9, <2>10 DEF TransformSafe, Transform!TransformInv
<1>10. CASE Transform!BufferItem \/ Transform!DebounceItem \/ Transform!ThrottleItem
  BY <1>10, ItemKeeps
<1>11. CASE Transform!DebounceTick
  <2>1. /\ kind = "debounce" /\ transformPc = "read" /\ due <= 0 /\ due' = due + Period /\ kept' = <<>>
        /\ UNCHANGED <<kind, supplied, over, transformPc, consumed, quiet, phase>>
    BY <1>11 DEF Transform!DebounceTick
  <2>2. due' \in -MaxLate..Period + MaxLate
    BY <1>1, <2>1
  <2>3. CASE kept # <<>>
    <3>1. Transform!Yield(kept)
      BY <1>11, <2>3 DEF Transform!DebounceTick
    <3>2. quiet = Period
      BY <1>1, <1>3, <2>1, <2>3 DEF PauseDue, Quiet
    <3> QED  BY <2>1, <2>2, <2>3, <3>1, <3>2, EmitKeeps
  <2>4. CASE kept = <<>>
    <3>1. UNCHANGED <<emitted, wanting, fresh, kept>>
      BY <1>11, <2>1, <2>4 DEF Transform!DebounceTick
    <3>2. Transform!TypeOK'
      <4>1. /\ kind' \in Kinds /\ emitted' \in Seq(Transform!Pieces) /\ kept' \in Seq(1..consumed')
            /\ supplied' \in 0..MaxInputs /\ consumed' \in 0..supplied'
            /\ quiet' \in 0..Period /\ phase' \in 0..Period - 1
        BY <2>1, <3>1, TransformFacts
      <4> QED  BY <1>2, <2>1, <2>2, <3>1, <4>1 DEF Transform!TypeOK, Transform!Pieces
    <3>3. Transform!OrderKept'
      BY <2>1, <3>1 DEF TransformSafe, Transform!TransformInv, Transform!OrderKept, Transform!Before,
                  Transform!Follow, Transform!Newest
    <3>4. Transform!ChunksFull' /\ Transform!EmitsAfterPause' /\ Transform!OnePerPeriod'
      BY <2>1, <3>1, SilentKeeps
    <3>5. OneHeld' /\ PauseDue' /\ InStep'
      BY <1>3, <2>1, <2>4, <3>1 DEF OneHeld, PauseDue, InStep
    <3> QED  BY <3>2, <3>3, <3>4, <3>5 DEF TransformSafe, Transform!TransformInv
  <2> QED  BY <2>3, <2>4
<1>12. CASE Transform!ThrottleTick
  <2>1. /\ kind = "throttle" /\ transformPc = "hold" /\ due <= 0 /\ Transform!Yield(kept)
        /\ due' = due + Period * (((-due) \div Period) + 1)
        /\ kept' = <<>> /\ transformPc' = "read"
        /\ UNCHANGED <<kind, supplied, over, consumed, quiet, phase>>
    BY <1>12 DEF Transform!ThrottleTick
  <2>2. kept # <<>>
    BY <1>3, <2>1 DEF OneHeld
  <2>3. fresh /\ AtMultiple(due, phase)
    BY <1>3, <2>1 DEF InStep
  <2>4. due \in Int
    BY <1>1
  <2>5. due' = Period - phase
    BY <1>1, <2>1, <2>3, <2>4, NextMultiple
  <2>6. due' > 0 /\ due' \in -MaxLate..Period + MaxLate
    BY <1>1, <2>5
  <2> QED  BY <2>1, <2>2, <2>3, <2>5, <2>6, EmitKeeps
<1>13. CASE Transform!Flush
  <2>1. /\ transformPc = "read" /\ kept # <<>> /\ Transform!Yield(kept) /\ kept' = <<>>
        /\ transformPc' = "close"
        /\ UNCHANGED <<kind, supplied, over, consumed, due, quiet, phase>>
    BY <1>13 DEF Transform!Flush
  <2>2. kind # "throttle"
    BY <1>3, <2>1 DEF OneHeld
  <2>3. due' \in -MaxLate..Period + MaxLate
    BY <1>1, <2>1
  <2> QED  BY <2>1, <2>2, <2>3, EmitKeeps
<1> QED
  BY <1>4, <1>5, <1>6, <1>7, <1>8, <1>9, <1>10, <1>11, <1>12, <1>13
     DEF Transform!Next, Transform!Transform

\* The stream predicts what it takes from its source in order, keeps to its batch sizes, and its
\* transformers to their word, for any of their sizes and periods, however the other users of the
\* engine come between, and however late the consumer comes back or whether it goes away.
THEOREM StreamsKeepOrder == AllFair => []StreamInv
<1>1. AllInit => StreamSafe /\ TransformSafe
  BY StreamInitial, TransformInitial, StreamsAssumption DEF AllInit
<1>2. StreamSafe /\ TransformSafe /\ [AllNext]_allVars => (StreamSafe /\ TransformSafe)'
  BY StreamStep, TransformStep, PartSteps, StreamsAssumption
<1>3. StreamSafe /\ TransformSafe => StreamInv
  BY StreamImplies DEF StreamInv, TransformSafe
<1> QED
  BY <1>1, <1>2, <1>3, PTL DEF AllFair, allVars
=============================================================================
