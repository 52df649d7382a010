--------------------------- MODULE WebSocketStream ---------------------------
(***************************************************************************)
(* kizzasi_io::WebSocketStream (crates/kizzasi-io/src/websocket.rs): a     *)
(* connection that is made anew, with a growing delay, when it is found    *)
(* broken, and a local buffer that is filled ahead of time.                *)
(*                                                                         *)
(* One owner calls next, fill_buffer, try_recv, check_ping_signal and      *)
(* close, one at a time, and may drop a call at any await.  The frames of  *)
(* a connection are a queue, of data numbered over all connections and of  *)
(* frames the client handles itself; a connection that breaks loses some   *)
(* of the last of them.                                                    *)
(***************************************************************************)
EXTENDS Integers, Sequences, SequencesExt

CONSTANTS
  BufferSize,        \* capacity of the buffer: buffer_size, at least 1
  Delay, MaxDelay,   \* reconnect_delay_ms, max_reconnect_delay_ms
  FillSizes,         \* the max given to fill_buffer
  SignalCap,         \* capacity of the channel of the ping task
  AllowCancel,       \* whether the future of a call may be dropped
  MaxSent,           \* bound: data messages
  MaxFaults,         \* bound: pings, closes, breaks and closes of the owner
  MaxGrowth          \* bound: growth of the delay by failed attempts in a row

SocketAssumption ==
  /\ {BufferSize, SignalCap} \subseteq Nat \ {0} /\ FillSizes \subseteq Nat
  /\ {Delay, MaxDelay, MaxSent, MaxFaults, MaxGrowth} \subseteq Nat
  /\ AllowCancel \in BOOLEAN

VARIABLES
  reconnect,      \* config.reconnect
  ws,             \* whether there is a connection
  delay,          \* reconnect_delay
  buffer,         \* messages in the buffer
  pc,             \* where the owner is: "idle", at the top of a loop, or at an await
  call,           \* "next" or "fill"
  goal, filled,   \* max and filled of fill_buffer
  signals,        \* signals of the ping task in its channel
  wire,           \* frames of the connection that are still to be read
  sent,           \* data messages sent
  faults,         \* faults so far
  got, lost,      \* messages the owner has got; those lost with a connection (history)
  growth          \* 2 to the number of attempts failed in a row (history)

vars == <<reconnect, ws, delay, buffer, pc, call, goal, filled, signals, wire, sent, faults,
          got, lost, growth>>
link == <<ws, delay, wire, lost, growth>>
peer == <<reconnect, sent, faults>>
fill == <<call, goal, filled>>

\* Frames that are no data: a ping, a pong or raw frame, a close, an error or the end.
Ping == -1
Other == -2
CloseFrame == -3
End == -4
Data(frames) == {f \in ToSet(frames) : f > 0}

\* self.ws = None: what the connection still held is lost.
Unlink ==
  /\ ws' = FALSE /\ wire' = <<>>
  /\ lost' = lost \cup Data(wire)
  /\ UNCHANGED <<delay, growth>>

Init ==
  /\ reconnect \in BOOLEAN
  /\ ws = TRUE /\ delay = Delay /\ buffer = <<>>
  /\ pc = "idle" /\ call = "next" /\ goal = 0 /\ filled = 0
  /\ signals = 0 /\ wire = <<>> /\ sent = 0 /\ faults = 0
  /\ got = <<>> /\ lost = {} /\ growth = 1

-----------------------------------------------------------------------------
(* The server and the network *)

Alive == ws /\ ToSet(wire) \cap {CloseFrame, End} = {}

SendData ==
  /\ Alive /\ sent < MaxSent
  /\ sent' = sent + 1 /\ wire' = Append(wire, sent + 1)
  /\ UNCHANGED <<reconnect, faults, ws, delay, lost, growth, buffer, pc, fill, signals, got>>

SendControl ==
  /\ Alive /\ faults < MaxFaults
  /\ \E f \in {Ping, Other, CloseFrame} : wire' = Append(wire, f)
  /\ faults' = faults + 1
  /\ UNCHANGED <<reconnect, sent, ws, delay, lost, growth, buffer, pc, fill, signals, got>>

\* The connection breaks, and frames that were on their way do not arrive.
Break ==
  /\ Alive /\ faults < MaxFaults
  /\ \E n \in 0..Len(wire) :
       /\ wire' = Append(SubSeq(wire, 1, n), End)
       /\ lost' = lost \cup Data(SubSeq(wire, n + 1, Len(wire)))
  /\ faults' = faults + 1
  /\ UNCHANGED <<reconnect, sent, ws, delay, growth, buffer, pc, fill, signals, got>>

-----------------------------------------------------------------------------
(* next and fill_buffer *)

\* Mutant of CallNext: next looks at the network first.
CallNextUnbuffered ==
  /\ pc = "idle"
  /\ pc' = "top" /\ call' = "next"
  /\ UNCHANGED <<got, buffer, goal, filled, link, peer, signals>>

\* Anything in the buffer is returned without a look at the network.
CallNext ==
  /\ pc = "idle"
  /\ IF buffer # <<>>
     THEN /\ got' = Append(got, Head(buffer)) /\ buffer' = Tail(buffer)
          /\ UNCHANGED <<pc, call>>
     ELSE pc' = "top" /\ call' = "next" /\ UNCHANGED <<got, buffer>>
  /\ UNCHANGED <<goal, filled, link, peer, signals>>

CallFill ==
  /\ pc = "idle"
  /\ goal' \in FillSizes /\ filled' = 0
  /\ pc' = "top" /\ call' = "fill"
  /\ UNCHANGED <<link, peer, buffer, signals, got>>

\* The loop of fill_buffer ends when it has enough or the buffer is full.
Goes == call = "next" \/ (filled < goal /\ Len(buffer) < BufferSize)

\* The top of the loop: leave it, wait for a frame, or reconnect if that is allowed.
Loop ==
  /\ pc = "top"
  /\ pc' = IF Goes /\ ws THEN "receive" ELSE IF Goes /\ reconnect THEN "dial" ELSE "idle"
  /\ UNCHANGED <<link, peer, fill, buffer, signals, got>>

\* The delay is over and the server accepts.
DialOk ==
  /\ pc = "dial"
  /\ ws' = TRUE /\ delay' = Delay /\ growth' = 1
  /\ pc' = "receive"
  /\ UNCHANGED <<wire, lost, peer, fill, buffer, signals, got>>

Smaller(a, b) == IF a < b THEN a ELSE b

\* One failed attempt ends the call: next returns None, and fill_buffer what it has, if any.
DialErr ==
  /\ pc = "dial" /\ 2 * growth <= MaxGrowth
  /\ delay' = Smaller(2 * delay, MaxDelay) /\ growth' = 2 * growth
  /\ pc' = "idle"
  /\ UNCHANGED <<ws, wire, lost, peer, fill, buffer, signals, got>>

\* A data frame: next returns it, fill_buffer buffers it.
ReceiveData ==
  /\ pc = "receive" /\ wire # <<>> /\ Head(wire) > 0
  /\ wire' = Tail(wire)
  /\ IF call = "next"
     THEN pc' = "idle" /\ got' = Append(got, Head(wire)) /\ UNCHANGED <<buffer, filled>>
     ELSE /\ pc' = "top" /\ UNCHANGED got
          /\ IF Len(buffer) < BufferSize
             THEN buffer' = Append(buffer, Head(wire)) /\ filled' = filled + 1
             ELSE UNCHANGED <<buffer, filled>>
  /\ UNCHANGED <<ws, delay, lost, growth, peer, call, goal, signals>>

\* Any other frame is handled here and the loop goes on.
ReceiveOther ==
  /\ pc = "receive" /\ wire # <<>> /\ Head(wire) <= 0
  /\ IF Head(wire) \in {CloseFrame, End}
     THEN Unlink /\ pc' = "top"
     ELSE /\ wire' = Tail(wire) /\ pc' = IF Head(wire) = Ping THEN "pong" ELSE "top"
          /\ UNCHANGED <<ws, delay, lost, growth>>
  /\ UNCHANGED <<peer, fill, buffer, signals, got>>

\* The answer to a ping; when it cannot be sent, the connection is given up.
Pong ==
  /\ pc = "pong" /\ pc' = "top"
  /\ UNCHANGED link \/ Unlink
  /\ UNCHANGED <<peer, fill, buffer, signals, got>>

\* The future of next or fill_buffer is dropped at an await.
Cancel ==
  /\ AllowCancel /\ pc \in {"dial", "receive", "pong"}
  /\ pc' = "idle"
  /\ UNCHANGED <<link, peer, fill, buffer, signals, got>>

-----------------------------------------------------------------------------
(* The other operations; text, binary and pings that are sent change nothing here. *)

TryRecv ==
  /\ pc = "idle" /\ buffer # <<>>
  /\ got' = Append(got, Head(buffer)) /\ buffer' = Tail(buffer)
  /\ UNCHANGED <<link, peer, pc, fill, signals>>

Close ==
  /\ pc = "idle" /\ ws /\ faults < MaxFaults
  /\ Unlink /\ faults' = faults + 1
  /\ UNCHANGED <<reconnect, sent, pc, fill, buffer, signals, got>>

\* The ping task signals; it waits while its channel is full.
Signal ==
  /\ signals < SignalCap
  /\ signals' = signals + 1
  /\ UNCHANGED <<link, peer, pc, fill, buffer, got>>

\* check_ping_signal sends a ping for each signal, up to the first that fails.
CheckSignals ==
  /\ pc = "idle" /\ signals > 0
  /\ IF ws THEN signals' \in 0..signals - 1 ELSE signals' = signals - 1
  /\ UNCHANGED <<link, peer, pc, fill, buffer, got>>

-----------------------------------------------------------------------------
Receive == ReceiveData \/ ReceiveOther
Settle == DialOk \/ DialErr \/ Pong

Next ==
  \/ SendData \/ SendControl \/ Break
  \/ CallNext \/ CallFill \/ Loop \/ Receive \/ Settle \/ Cancel
  \/ TryRecv \/ Close \/ Signal \/ CheckSignals

\* The runtime polls a call that can go on, and the owner keeps calling next: whatever else
\* it does in between and however often it gives up waiting, it comes back to it.
Fairness ==
  /\ SF_vars(CallNext) /\ SF_vars(Receive) /\ WF_vars(Loop \/ Settle)

FairSpec == Init /\ [][Next]_vars /\ Fairness

-----------------------------------------------------------------------------
(* Properties *)

TypeOK ==
  /\ {reconnect, ws} \subseteq BOOLEAN
  /\ {delay, goal, filled} \subseteq Nat /\ signals \in 0..SignalCap
  /\ buffer \in Seq(1..sent) /\ Len(buffer) <= BufferSize
  /\ pc \in {"idle", "top", "dial", "receive", "pong"} /\ call \in {"next", "fill"}
  /\ wire \in Seq((1..sent) \cup {Ping, Other, CloseFrame, End}) /\ (ws \/ wire = <<>>)
  /\ sent \in 0..MaxSent /\ faults \in 0..MaxFaults /\ growth \in 1..MaxGrowth + 1
  /\ got \in Seq(1..sent) /\ lost \subseteq 1..sent

\* What the owner has, what is buffered and what is on its way are in the order in which
\* they were sent, over all connections, and all that is missing went down with one.
NothingMislaid ==
  LET line == got \o buffer \o wire
  IN  /\ \A m, n \in 1..Len(line) :
           m < n /\ line[m] > 0 /\ line[n] > 0 => line[m] < line[n]
      /\ Data(line) = 1..sent \ lost

\* The delay doubles with each failure in a row, up to its limit.
BackoffExact == delay = IF growth = 1 THEN Delay ELSE Smaller(Delay * growth, MaxDelay)

\* The contract of the stream.
SocketInv == TypeOK /\ NothingMislaid /\ BackoffExact

\* A message on its way is received, unless its connection breaks or is closed.
InFlight == ToSet(wire)
Arrives == \A n \in 1..MaxSent : n \in InFlight ~> n \notin InFlight
=============================================================================
