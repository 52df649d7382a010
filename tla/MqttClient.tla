----------------------------- MODULE MqttClient -----------------------------
(***************************************************************************)
(* MqttClient of kizzasi-io and the MqttStream that reads what it receives *)
(* (crates/kizzasi-io/src/mqtt.rs).                                        *)
(*                                                                         *)
(* Each connect() makes a session: a client with a bounded request channel *)
(* and a spawned task that polls its event loop, and is the only one to    *)
(* empty that channel.  All sessions share the flag active, the sample     *)
(* buffer and the client id, so the broker serves one of them at a time.   *)
(* connect, disconnect and publish are called by one owner; read runs      *)
(* beside them.                                                            *)
(*                                                                         *)
(* Event loop and broker are external: a new connection answers ConnAck    *)
(* before anything queued is sent; when one is lost what was queued is     *)
(* given up, for the session is clean (the default) and the broker forgets *)
(* it.  A message is one sample, and its number; left out are messages     *)
(* that do not parse, which are only stored, and handle_retained = false,  *)
(* which skips some.                                                       *)
(***************************************************************************)
EXTENDS Integers, Sequences, FiniteSets, SequencesExt

CONSTANTS
  Topics,        \* how many topics are configured
  ChannelCap,    \* capacity of the request channel: 10 in the code
  BatchLimit,    \* batch_size
  ReadLen,       \* buffer_size of the stream
  MaxSessions, MaxEvents   \* bounds: on events, see Bounded

MqttClientAssumption ==
  /\ {Topics, ChannelCap, BatchLimit, ReadLen} \subseteq Nat \ {0}
  /\ {MaxSessions, MaxEvents} \subseteq Nat

VARIABLES
  auto,           \* auto_reconnect
  active,
  client,         \* the session whose client is kept, 0 for None
  upc,            \* where the owner is
  made,           \* sessions made
  lpc, todo,      \* of a session's task: where it is, the topic it subscribes
  channel,               \* of a session: what is to be sent
  up,                    \* of a session: does its event loop think it is connected?
  holder,                \* of the broker: the session it serves, 0 for none
  subscribed, inbox,     \* the topics and messages of that session
  batch,          \* of a session's task
  buffer,         \* the shared sample buffer
  stored,         \* message_buffer, with what was drained from it
  read,           \* samples read (history)
  lost,           \* samples in the batch of a task that ended (history)
  overlapped,     \* were two tasks ever alive at once? (history)
  sent, published, faults    \* counted for the bounds

userVars == <<client, upc, made>>
brokerVars == <<holder, subscribed, inbox>>
sampleVars == <<batch, buffer, stored, read, lost>>
countVars == <<sent, published, faults>>
vars == <<auto, active, userVars, lpc, todo, channel, up, brokerVars,
          sampleVars, overlapped, countVars>>

Sessions == 1..MaxSessions
TopicSet == 1..Topics

\* Requests: to subscribe to a topic, to publish, to disconnect.
Pub == 0
Bye == -1

Alive(s) == lpc[s] \notin {"none", "ended"}
Room(s) == Len(channel[s]) < ChannelCap
Request(s, r) == channel' = [channel EXCEPT ![s] = Append(@, r)]
Goto(s, l) == lpc' = [lpc EXCEPT ![s] = l]

\* Messages, publications and failures are bounded together.
Bounded == sent + published + faults < MaxEvents

Init ==
  /\ auto \in BOOLEAN
  /\ active = FALSE
  /\ client = 0 /\ upc = "idle" /\ made = 0
  /\ lpc = [s \in Sessions |-> "none"] /\ todo = [s \in Sessions |-> 0]
  /\ channel = [s \in Sessions |-> <<>>]
  /\ up = [s \in Sessions |-> FALSE]
  /\ holder = 0 /\ subscribed = {} /\ inbox = <<>>
  /\ batch = [s \in Sessions |-> <<>>] /\ buffer = <<>> /\ stored = <<>>
  /\ read = <<>> /\ lost = {} /\ overlapped = FALSE
  /\ sent = 0 /\ published = 0 /\ faults = 0

-----------------------------------------------------------------------------
(* The owner *)

\* The subscriptions wait in the channel of the new client, which nobody polls yet: with
\* more topics than it holds, connect never returns.  The flag is shared: a task of an
\* older session that has not looked at it since a disconnect goes on.  (To connect while
\* connected leaves two tasks as well, and is left out.)
Connect ==
  /\ upc = "idle" /\ ~active /\ made < MaxSessions /\ Topics <= ChannelCap
  /\ made' = made + 1 /\ client' = made + 1
  /\ channel' = [channel EXCEPT ![made + 1] = [n \in TopicSet |-> n]]
  /\ active' = TRUE
  /\ Goto(made + 1, "check")
  /\ overlapped' = (overlapped \/ \E s \in Sessions : Alive(s))
  /\ UNCHANGED <<auto, upc, todo, up, brokerVars, sampleVars, countVars>>

Disconnect ==
  /\ upc = "idle" /\ active
  /\ active' = FALSE
  /\ upc' = IF client = 0 THEN "idle" ELSE "disconnect"
  /\ UNCHANGED <<auto, client, made, lpc, todo, channel, up, brokerVars,
                 sampleVars, overlapped, countVars>>

SendBye ==
  /\ upc = "disconnect" /\ lpc[client] # "ended" /\ Room(client)
  /\ Request(client, Bye)
  /\ client' = 0 /\ upc' = "idle"
  /\ UNCHANGED <<auto, active, made, lpc, todo, up, brokerVars,
                 sampleVars, overlapped, countVars>>

\* The event loop is gone with its task: the error leaves the client in place.
ByeFails ==
  /\ upc = "disconnect" /\ lpc[client] = "ended"
  /\ upc' = "idle"
  /\ UNCHANGED <<auto, active, client, made, lpc, todo, channel, up,
                 brokerVars, sampleVars, overlapped, countVars>>

Publish ==
  /\ upc = "idle" /\ client # 0 /\ Bounded
  /\ lpc[client] # "ended" /\ Room(client)
  /\ published' = published + 1
  /\ Request(client, Pub)
  /\ UNCHANGED <<auto, active, userVars, lpc, todo, up, brokerVars,
                 sampleVars, overlapped, sent, faults>>

-----------------------------------------------------------------------------
(* event_loop_task *)

\* The broker forgets the session with its connection.
Unlink(s) ==
  /\ up' = [up EXCEPT ![s] = FALSE]
  /\ IF holder = s
     THEN holder' = 0 /\ subscribed' = {} /\ inbox' = <<>>
     ELSE UNCHANGED brokerVars

\* The task ends with its event loop, and the samples it has not flushed with it.
End(s) ==
  /\ Goto(s, "ended")
  /\ channel' = [channel EXCEPT ![s] = <<>>]
  /\ lost' = lost \cup ToSet(batch[s])
  /\ batch' = [batch EXCEPT ![s] = <<>>]

Check(s) ==
  /\ lpc[s] = "check" /\ active
  /\ Goto(s, "poll")
  /\ UNCHANGED <<auto, active, userVars, todo, channel, up, brokerVars,
                 sampleVars, overlapped, countVars>>

SeeInactive(s) ==
  /\ lpc[s] = "check" /\ ~active
  /\ End(s) /\ Unlink(s)
  /\ UNCHANGED <<auto, active, userVars, todo, buffer, stored, read, overlapped,
                 countVars>>

\* The session of the new connection is fresh; another connection of the client id is
\* closed.
Connected(s) ==
  /\ lpc[s] = "poll" /\ ~up[s]
  /\ up' = [up EXCEPT ![s] = TRUE]
  /\ holder' = s /\ subscribed' = {} /\ inbox' = <<>>
  /\ UNCHANGED <<auto, active, userVars, channel, sampleVars, overlapped, countVars>>

\* Mutant of ConnAck: the subscriptions of connect() are taken to last.
ConnAckOnly(s) == Connected(s) /\ Goto(s, "check") /\ UNCHANGED todo

\* should_resubscribe: the broker did not report a session of before.
ConnAck(s) ==
  /\ Connected(s)
  /\ Goto(s, "resubscribe") /\ todo' = [todo EXCEPT ![s] = 1]

\* The task waits for room that only its own polling makes.
Resubscribe(s) ==
  /\ lpc[s] = "resubscribe" /\ Room(s)
  /\ Request(s, todo[s])
  /\ IF todo[s] = Topics
     THEN Goto(s, "check") /\ todo' = [todo EXCEPT ![s] = 0]
     ELSE todo' = [todo EXCEPT ![s] = @ + 1] /\ UNCHANGED lpc
  /\ UNCHANGED <<auto, active, userVars, up, brokerVars, sampleVars,
                 overlapped, countVars>>

Served(s) == lpc[s] = "poll" /\ up[s] /\ holder = s

PollSend(s) ==
  /\ Served(s) /\ channel[s] # <<>>
  /\ channel' = [channel EXCEPT ![s] = Tail(@)]
  /\ LET r == Head(channel[s])
     IN  IF r = Bye THEN Unlink(s)
         ELSE /\ subscribed' = IF r = Pub THEN subscribed ELSE subscribed \cup {r}
              /\ UNCHANGED <<up, holder, inbox>>
  /\ Goto(s, "check")
  /\ UNCHANGED <<auto, active, userVars, todo, sampleVars, overlapped, countVars>>

\* Mutant of Keep: the batch is flushed, and kept.
KeepFlushed(s, m, late) ==
  LET full == Append(batch[s], m)
  IN  IF Len(full) >= BatchLimit \/ late
      THEN /\ buffer' = buffer \o full
           /\ batch' = [batch EXCEPT ![s] = full]
      ELSE /\ batch' = [batch EXCEPT ![s] = full]
           /\ UNCHANGED buffer

\* A sample joins the batch, and the batch the buffer once it is full, or late.
Keep(s, m, late) ==
  LET full == Append(batch[s], m)
  IN  IF Len(full) >= BatchLimit \/ late
      THEN /\ buffer' = buffer \o full
           /\ batch' = [batch EXCEPT ![s] = <<>>]
      ELSE /\ batch' = [batch EXCEPT ![s] = full]
           /\ UNCHANGED buffer

PollPublish(s) ==
  /\ Served(s) /\ inbox # <<>>
  /\ stored' = Append(stored, Head(inbox))
  /\ inbox' = Tail(inbox)
  /\ \E late \in BOOLEAN : Keep(s, Head(inbox), late)
  /\ Goto(s, "check")
  /\ UNCHANGED <<auto, active, userVars, todo, channel, up, holder,
                 subscribed, read, lost, overlapped, countVars>>

\* Pings and acknowledgements: the task looks at the flag again.
PollOther(s) ==
  /\ Served(s) /\ channel[s] = <<>> /\ inbox = <<>>
  /\ Goto(s, "check")
  /\ UNCHANGED <<auto, active, userVars, todo, channel, up, brokerVars,
                 sampleVars, overlapped, countVars>>

\* The broker closed the connection for a newer one, or it broke, or none could be made;
\* without auto_reconnect the task clears the flag it shares, and ends.  The backoff is
\* the time before the next check.
PollError(s) ==
  /\ lpc[s] = "poll"
  /\ IF up[s] /\ holder # s THEN UNCHANGED faults
                            ELSE Bounded /\ faults' = faults + 1
  /\ Unlink(s)
  /\ IF auto
     THEN /\ Goto(s, "check")
          /\ channel' = IF up[s] THEN [channel EXCEPT ![s] = <<>>] ELSE channel
          /\ UNCHANGED <<active, batch, lost>>
     ELSE End(s) /\ active' = FALSE
  /\ UNCHANGED <<auto, userVars, todo, buffer, stored, read, overlapped, sent, published>>

-----------------------------------------------------------------------------
(* The broker and the readers *)

Message ==
  /\ Bounded /\ subscribed # {}
  /\ sent' = sent + 1
  /\ inbox' = Append(inbox, sent + 1)
  /\ UNCHANGED <<auto, active, userVars, lpc, todo, channel, up, holder,
                 subscribed, sampleVars, overlapped, published, faults>>

Take(n) ==
  /\ read' = read \o SubSeq(buffer, 1, n)
  /\ buffer' = SubSeq(buffer, n + 1, Len(buffer))
  /\ UNCHANGED <<auto, active, userVars, lpc, todo, channel, up, brokerVars,
                 batch, stored, lost, overlapped, countVars>>

\* The stream reads a whole buffer or reports that there is not enough.
Read == Len(buffer) >= ReadLen /\ Take(ReadLen)

DrainBuffer == upc = "idle" /\ buffer # <<>> /\ Take(Len(buffer))

Loop(s) ==
  \/ Check(s) \/ SeeInactive(s) \/ ConnAck(s) \/ Resubscribe(s)
  \/ PollSend(s) \/ PollPublish(s) \/ PollOther(s)
  \/ holder # s /\ up[s] /\ PollError(s)

Owner == SendBye \/ ByeFails

Next ==
  \/ Connect \/ Disconnect \/ Owner \/ Publish
  \/ \E s \in Sessions : Loop(s) \/ PollError(s)
  \/ Message \/ Read \/ DrainBuffer

Spec == Init /\ [][Next]_vars

\* The tasks run, and a connection delivers events, pings if nothing else.
Fairness == WF_vars(Owner) /\ \A s \in Sessions : WF_vars(Loop(s))

FairSpec == Spec /\ Fairness

-----------------------------------------------------------------------------
(* Properties *)

Numbers == 1..MaxEvents
Requests == TopicSet \cup {Pub, Bye}

\* Every variable keeps its type.
TypeOK ==
  /\ {auto, active, overlapped} \subseteq BOOLEAN
  /\ {client, made, holder} \subseteq 0..MaxSessions
  /\ upc \in {"idle", "disconnect"}
  /\ lpc \in [Sessions -> {"none", "check", "poll", "resubscribe", "ended"}]
  /\ todo \in [Sessions -> 0..Topics] /\ up \in [Sessions -> BOOLEAN]
  /\ channel \in [Sessions -> Seq(Requests)]
  /\ subscribed \subseteq TopicSet
  /\ {inbox, buffer, stored, read} \subseteq Seq(Numbers)
  /\ batch \in [Sessions -> Seq(Numbers)] /\ lost \subseteq Numbers

\* What has been received is read or readable once, or waits in one batch, or was in the
\* batch of a task that ended.
Batched == UNION {ToSet(batch[s]) : s \in Sessions}
SamplesKept ==
  /\ IsInjective(read \o buffer)
  /\ ToSet(read \o buffer) \cap (Batched \cup lost) = {} /\ Batched \cap lost = {}
  /\ ToSet(stored) = ToSet(read \o buffer) \cup Batched \cup lost

\* Unless two tasks were alive at once, samples are read in the order they were sent.
SamplesOrdered ==
  overlapped \/ \A s \in Sessions :
    LET all == read \o buffer \o batch[s]
    IN  \A m, n \in DOMAIN all : m < n => all[m] < all[n]

\* Types and samples together.
ClientInv == TypeOK /\ SamplesKept /\ SamplesOrdered

Wedged(s) == lpc[s] = "resubscribe" /\ ~Room(s)

\* Every connection ends up subscribed to every topic, and after a disconnect all tasks
\* end, but for a task that waits for room in the channel it alone empties.
TasksSettle ==
  /\ \A s \in Sessions : holder = s ~> (subscribed = TopicSet \/ holder # s \/ Wedged(s))
  /\ ~active ~> (active \/ \A s \in Sessions : Alive(s) => Wedged(s))

\* "Re-issue every configured subscription whenever the broker reports a fresh session so
\* a reconnect actually resumes the stream instead of going quietly dark": every
\* connection ends up subscribed to every topic.
Resumes ==
  \A s \in Sessions : holder = s ~> (subscribed = TopicSet \/ holder # s \/ ~active)
=============================================================================
