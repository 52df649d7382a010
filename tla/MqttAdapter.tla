---------------------------- MODULE MqttAdapter ----------------------------
(***************************************************************************)
(* MqttAdapter of kizzasi-inference: run() serves inference requests from  *)
(* an MQTT topic, request() publishes one and waits for its answer, and    *)
(* stop() ends run().                                                      *)
(*                                                                         *)
(* run() is the only one who polls the event loop of the MQTT client, and  *)
(* polling is what empties the bounded channel into which request() and    *)
(* run() itself publish.  The client's event loop and the broker are       *)
(* external: the session is clean (the default), so the broker forgets the *)
(* subscription when the connection fails, and what the client had not     *)
(* sent is kept for the next connection or given up.                       *)
(***************************************************************************)
EXTENDS Naturals, Sequences

CONSTANTS
  Callers,      \* tasks that call request()
  Ids,          \* request ids
  ChannelCap,   \* capacity of the client's request channel: 10 in the code
  AllowCancel,  \* whether the future of a request may be dropped
  MaxRequests, MaxFaults, MaxStarts   \* bounds

MqttAssumption ==
  /\ {ChannelCap, MaxRequests, MaxFaults, MaxStarts} \subseteq Nat
  /\ Ids # {} /\ ChannelCap > 0 /\ AllowCancel \in BOOLEAN

VARIABLES
  running,      \* the watch channel of that name
  rpc,          \* where run() is
  job,          \* the request it serves
  pending,      \* id -> number of the call whose sender is registered, 0 for none
  cpc, id, call, answer,   \* of a caller: where it is, its id, the number of its call
                           \* and the call whose input its answer was computed from
  channel,      \* of the client: what is to be sent
  linked, subscribed,      \* connection and subscription
  resend,       \* what the client keeps for the next connection
  inbox,        \* what the broker has for us
  requests, faults, starts,         \* counted for the bounds
  uses          \* history: id -> how many calls and foreign requests had it, up to 2

runVars == <<running, rpc, job>>
callerVars == <<cpc, id, call, answer>>
linkVars == <<linked, subscribed, resend, inbox>>
countVars == <<requests, faults, starts, uses>>
vars == <<runVars, pending, callerVars, channel, linkVars, countVars>>

Unanswered == MaxRequests + 1
NoJob == [id |-> CHOOSE i \in Ids : TRUE, call |-> 0]

Subscribe == [kind |-> "subscribe", job |-> NoJob]
Response == [kind |-> "response", job |-> NoJob]
Publication(j) == [kind |-> "request", job |-> j]

MoreUses(i) == [uses EXCEPT ![i] = IF @ < 2 THEN @ + 1 ELSE @]

Room == Len(channel) < ChannelCap

Init ==
  /\ running = FALSE /\ rpc = "ready" /\ job = NoJob
  /\ pending = [i \in Ids |-> 0]
  /\ cpc = [c \in Callers |-> "idle"] /\ id = [c \in Callers |-> NoJob.id]
  /\ call = [c \in Callers |-> 0] /\ answer = [c \in Callers |-> Unanswered]
  /\ channel = <<>>
  /\ linked = FALSE /\ subscribed = FALSE /\ resend = <<>> /\ inbox = <<>>
  /\ requests = 0 /\ faults = 0 /\ starts = 0 /\ uses = [i \in Ids |-> 0]

-----------------------------------------------------------------------------
(* run() and stop() *)

Start ==
  /\ rpc \in {"ready", "done"} /\ starts < MaxStarts
  /\ starts' = starts + 1
  /\ rpc' = "subscribe"
  /\ UNCHANGED <<running, job, pending, callerVars, channel, linkVars, requests, faults, uses>>

\* The subscription is awaited before the flag is set: a stop in between is lost.
Subscribed ==
  /\ rpc = "subscribe" /\ Room
  /\ channel' = Append(channel, Subscribe)
  /\ running' = TRUE
  /\ rpc' = "poll"
  /\ UNCHANGED <<job, pending, callerVars, linkVars, countVars>>

Stop ==
  /\ running' = FALSE
  /\ rpc \notin {"ready", "done"}
  /\ UNCHANGED <<rpc, job, pending, callerVars, channel, linkVars, countVars>>

\* Mutant of SeeStop: the flag is only looked at after an error.
SeeStopLate ==
  /\ rpc = "backoff" /\ ~running
  /\ rpc' = "done"
  /\ UNCHANGED <<running, job, pending, callerVars, channel, linkVars, countVars>>

\* Both select! of run() look at the flag first.
SeeStop ==
  /\ rpc \in {"poll", "backoff"} /\ ~running
  /\ rpc' = "done"
  /\ UNCHANGED <<running, job, pending, callerVars, channel, linkVars, countVars>>

Polling == rpc = "poll" /\ running

\* What the client kept for the new connection it sends first, or not at all.
PollConnect ==
  /\ Polling /\ ~linked
  /\ linked' = TRUE
  /\ resend' \in {resend, <<>>}
  /\ UNCHANGED <<runVars, pending, callerVars, channel, subscribed, inbox, countVars>>

PollSend ==
  /\ Polling /\ linked /\ resend \o channel # <<>>
  /\ LET m == Head(resend \o channel)
     IN  /\ subscribed' = (subscribed \/ m.kind = "subscribe")
         /\ inbox' = IF m.kind = "request" /\ subscribed THEN Append(inbox, m.job) ELSE inbox
  /\ IF resend # <<>> THEN resend' = Tail(resend) /\ UNCHANGED channel
                      ELSE channel' = Tail(channel) /\ UNCHANGED resend
  /\ UNCHANGED <<runVars, pending, callerVars, linked, countVars>>

PollReceive ==
  /\ Polling /\ linked /\ inbox # <<>>
  /\ job' = Head(inbox) /\ inbox' = Tail(inbox)
  /\ rpc' = "engine"
  /\ UNCHANGED <<running, pending, callerVars, channel, linked, subscribed, resend, countVars>>

\* The connection fails, and the client takes back what is in its channel, or none can be
\* made; the broker forgets us.
PollError ==
  /\ Polling /\ faults < MaxFaults
  /\ faults' = faults + 1
  /\ linked' = FALSE /\ subscribed' = FALSE /\ inbox' = <<>>
  /\ IF linked THEN resend' = resend \o channel /\ channel' = <<>>
               ELSE UNCHANGED <<resend, channel>>
  /\ rpc' = "backoff"
  /\ UNCHANGED <<running, job, pending, callerVars, requests, starts, uses>>

BackoffOver ==
  /\ rpc = "backoff" /\ running
  /\ rpc' = "poll"
  /\ UNCHANGED <<running, job, pending, callerVars, channel, linkVars, countVars>>

\* The sender registered under the id takes the answer, if somebody still waits for it.
EngineOk ==
  /\ rpc = "engine"
  /\ answer' = [c \in Callers |->
       IF cpc[c] \in {"publish", "wait"} /\ pending[job.id] = call[c] /\ id[c] = job.id
       THEN job.call ELSE answer[c]]
  /\ pending' = [pending EXCEPT ![job.id] = 0]
  /\ rpc' = "publish" /\ job' = NoJob
  /\ UNCHANGED <<running, cpc, id, call, channel, linkVars, countVars>>

\* An error is logged, and nobody is told.
EngineErr ==
  /\ rpc = "engine"
  /\ rpc' = "poll" /\ job' = NoJob
  /\ UNCHANGED <<running, pending, callerVars, channel, linkVars, countVars>>

\* No select! here: neither the event loop nor the flag is looked at meanwhile.
PublishResponse ==
  /\ rpc = "publish" /\ Room
  /\ channel' = Append(channel, Response)
  /\ rpc' = "poll"
  /\ UNCHANGED <<running, job, pending, callerVars, linkVars, countVars>>

-----------------------------------------------------------------------------
(* request() *)

\* The sender is registered before anything is published; an older one under the same
\* id is dropped, which closes its channel.
Register(c, i) ==
  /\ cpc[c] = "idle" /\ requests < MaxRequests
  /\ requests' = requests + 1
  /\ pending' = [pending EXCEPT ![i] = requests + 1]
  /\ cpc' = [cpc EXCEPT ![c] = "publish"]
  /\ id' = [id EXCEPT ![c] = i] /\ call' = [call EXCEPT ![c] = requests + 1]
  /\ answer' = [answer EXCEPT ![c] = Unanswered]
  /\ uses' = MoreUses(i)
  /\ UNCHANGED <<runVars, channel, linkVars, faults, starts>>

\* The timeout does not cover this: it waits for room as long as it takes.  The client
\* lives as long as its event loop, so publish does not fail.
Publish(c) ==
  /\ cpc[c] = "publish" /\ Room
  /\ channel' = Append(channel, Publication([id |-> id[c], call |-> call[c]]))
  /\ cpc' = [cpc EXCEPT ![c] = "wait"]
  /\ UNCHANGED <<runVars, pending, id, call, answer, linkVars, countVars>>

\* The call is over; what it knew is forgotten.
Over(c) ==
  /\ cpc' = [cpc EXCEPT ![c] = "idle"]
  /\ id' = [id EXCEPT ![c] = NoJob.id] /\ call' = [call EXCEPT ![c] = 0]
  /\ answer' = [answer EXCEPT ![c] = Unanswered]

Answered(c) ==
  /\ cpc[c] = "wait" /\ answer[c] # Unanswered
  /\ Over(c)
  /\ UNCHANGED <<runVars, pending, channel, linkVars, countVars>>

Closed(c) ==
  /\ cpc[c] = "wait" /\ answer[c] = Unanswered /\ pending[id[c]] # call[c]
  /\ Over(c)
  /\ UNCHANGED <<runVars, pending, channel, linkVars, countVars>>

\* Mutant of RequestTimeout: the stale entry is left in the map.
RequestTimeoutLeaks(c) ==
  /\ cpc[c] = "wait" /\ answer[c] = Unanswered
  /\ Over(c)
  /\ UNCHANGED <<runVars, pending, channel, linkVars, countVars>>

\* Whatever entry is there under the id goes.
RequestTimeout(c) ==
  /\ cpc[c] = "wait" /\ answer[c] = Unanswered
  /\ pending' = [pending EXCEPT ![id[c]] = 0]
  /\ Over(c)
  /\ UNCHANGED <<runVars, channel, linkVars, countVars>>

\* The future is dropped: the entry stays.
Cancel(c) ==
  /\ AllowCancel /\ cpc[c] \in {"publish", "wait"}
  /\ cpc' = [cpc EXCEPT ![c] = "gone"]
  /\ UNCHANGED <<runVars, pending, id, call, answer, channel, linkVars, countVars>>

\* Another client of the broker sends a request.
ForeignRequest(i) ==
  /\ linked /\ subscribed /\ requests < MaxRequests
  /\ requests' = requests + 1
  /\ inbox' = Append(inbox, [id |-> i, call |-> requests + 1])
  /\ uses' = MoreUses(i)
  /\ UNCHANGED <<runVars, pending, callerVars, channel, linked, subscribed, resend, faults, starts>>

-----------------------------------------------------------------------------
Run ==
  \/ Subscribed \/ SeeStop \/ BackoffOver \/ PublishResponse
  \/ PollConnect \/ PollSend \/ PollReceive
  \/ EngineOk \/ EngineErr

Return(c) == Answered(c) \/ Closed(c) \/ RequestTimeout(c)

Next ==
  \/ Start \/ Stop \/ Run \/ PollError
  \/ \E c \in Callers : Publish(c) \/ Return(c) \/ Cancel(c) \/ \E i \in Ids : Register(c, i)
  \/ \E i \in Ids : ForeignRequest(i)

Spec == Init /\ [][Next]_vars

\* Every task that can move does, the engine answers or fails, and time passes.  Nothing
\* forces a start, a stop, a call or a failure.
Fairness ==
  /\ WF_vars(Run)
  /\ \A c \in Callers : WF_vars(Publish(c)) /\ WF_vars(Return(c))

FairSpec == Spec /\ Fairness

-----------------------------------------------------------------------------
(* Properties *)

Jobs == [id : Ids, call : 0..MaxRequests]
Messages == [kind : {"subscribe", "request", "response"}, job : Jobs]

\* Every variable keeps its type.
TypeOK ==
  /\ {running, linked, subscribed} \subseteq BOOLEAN
  /\ rpc \in {"ready", "subscribe", "poll", "engine", "publish", "backoff", "done"}
  /\ job \in Jobs
  /\ pending \in [Ids -> 0..MaxRequests]
  /\ cpc \in [Callers -> {"idle", "publish", "wait", "gone"}]
  /\ id \in [Callers -> Ids] /\ call \in [Callers -> 0..MaxRequests]
  /\ answer \in [Callers -> 0..Unanswered]
  /\ channel \in Seq(Messages) /\ Len(channel) <= ChannelCap
  /\ resend \in Seq(Messages) /\ inbox \in Seq(Jobs)
  /\ requests \in 0..MaxRequests /\ faults \in 0..MaxFaults
  /\ starts \in 0..MaxStarts /\ uses \in [Ids -> 0..2]

UsedOnce(i) == uses[i] = 1

\* A caller gets the answer to its own input when nobody else used its id, however many
\* of the requests before it timed out, were dropped or sent again.
AnswersOwn ==
  \A c \in Callers :
    answer[c] # Unanswered /\ UsedOnce(id[c]) => answer[c] = call[c]

\* "Timed out -- remove the stale pending entry": an entry belongs to a caller that is
\* still there and has no answer yet, or to one whose future was dropped; and a caller
\* that is alone with its id keeps its entry until it is answered.
PendingExact ==
  /\ \A i \in Ids : pending[i] # 0 =>
       \E c \in Callers : /\ id[c] = i /\ call[c] = pending[i]
                          /\ cpc[c] # "idle" /\ (answer[c] = Unanswered \/ cpc[c] = "gone")
  /\ \A c \in Callers :
       cpc[c] \in {"publish", "wait"} /\ answer[c] = Unanswered /\ UsedOnce(id[c])
         => pending[id[c]] = call[c]

\* Types, entries and answers together.
AdapterInv == TypeOK /\ PendingExact /\ AnswersOwn

Wedged == rpc = "publish" /\ ~Room

\* "start() must now actually resolve promptly after stop()" and "The call times out after
\* the internal REQUEST_TIMEOUT (30 seconds)": a stop that run() finds in its loop ends it,
\* and as long as run() is in its loop every call of request() returns -- unless run()
\* itself waits for room in the channel that only its own polling empties.
CallsEnd ==
  /\ (~running /\ rpc \in {"poll", "backoff", "engine", "publish"}) ~> (rpc = "done" \/ Wedged)
  /\ \A c \in Callers :
       cpc[c] \in {"publish", "wait"} ~>
         (cpc[c] \in {"idle", "gone"} \/ rpc \in {"ready", "subscribe", "done"} \/ Wedged)
=============================================================================
