----------------------------- MODULE MCStreams ------------------------------
(***************************************************************************)
(* What carries samples to and from the models, for TLC: the prediction    *)
(* stream, its transformers and the MQTT adapter of kizzasi-inference, and *)
(* the MQTT client of kizzasi-io.  They share nothing, so a behaviour      *)
(* exercises one of them, chosen in its initial state.                     *)
(***************************************************************************)
EXTENDS MqttClient

CONSTANTS
  BatchSize, BufferSize, Adaptive, Clients, MayDrop, MaxInputs, MaxCalls,
                                                             \* of StreamBatcher
  Kinds, ChunkSize, Period, MaxLate,                         \* of StreamTransformers
  Callers, RequestIds, AdapterCap, MaxRequests, MaxFaults    \* of MqttAdapter

VARIABLES
  unit,   \* the part at work
  produced, ended, taken, inputs, target, late, taskPc, then, result, stream, open,
  received, lock, version, calls, userPc, runs,
  kind, supplied, over, wanting, transformPc, consumed, kept, due, emitted, quiet, phase, fresh,
  running, runPc, job, pending, callerPc, id, call, answer, requestChannel, linked,
  answering, resend, requestInbox, requests, adapterFaults, starts, uses

streamVars == <<produced, ended, taken, inputs, target, late, taskPc, then, result, stream,
                open, received, lock, version, calls, userPc, runs>>
transformVars == <<kind, supplied, over, wanting, transformPc, consumed, kept, due, emitted,
                   quiet, phase, fresh>>
adapterVars == <<running, runPc, job, pending, callerPc, id, call, answer, requestChannel,
                 linked, answering, resend, requestInbox, requests, adapterFaults, starts,
                 uses>>

Stream == INSTANCE StreamBatcher WITH
  Callers <- Clients, ConsumerSteps <- FALSE, batch <- inputs, pc <- taskPc,
  channel <- stream, upc <- userPc
Transform == INSTANCE StreamTransformers WITH
  produced <- supplied, ended <- over, pc <- transformPc, taken <- consumed
Adapter == INSTANCE MqttAdapter WITH
  Ids <- RequestIds, ChannelCap <- AdapterCap, AllowCancel <- TRUE, MaxStarts <- 1,
  rpc <- runPc, cpc <- callerPc, channel <- requestChannel, subscribed <- answering,
  inbox <- requestInbox, faults <- adapterFaults

ASSUME StreamsAssumption ==
  /\ MqttClientAssumption /\ Stream!StreamAssumption /\ Transform!TransformersAssumption
  /\ Adapter!MqttAssumption

AllInit ==
  /\ unit \in {"stream", "transform", "adapter", "client"}
  /\ Stream!Init /\ Transform!Init /\ Adapter!Init /\ Init
  /\ unit # "transform" => kind = "buffer"
  /\ unit # "client" => auto

AllNext ==
  /\ UNCHANGED unit
  /\ \/ /\ unit = "stream" /\ Stream!Next
        /\ UNCHANGED <<vars, transformVars, adapterVars>>
     \/ /\ unit = "transform" /\ Transform!Next
        /\ UNCHANGED <<vars, streamVars, adapterVars>>
     \/ /\ unit = "adapter" /\ Adapter!Next
        /\ UNCHANGED <<vars, streamVars, transformVars>>
     \/ /\ unit = "client" /\ Next
        /\ UNCHANGED <<streamVars, transformVars, adapterVars>>

\* The fairness each module states, for the part at work.
StreamFair ==
  /\ WF_streamVars(unit = "stream" /\ Stream!Tick)
  /\ WF_streamVars(unit = "stream" /\ Stream!Input)
  /\ WF_streamVars(unit = "stream" /\ Stream!Deadline)
  /\ SF_streamVars(unit = "stream" /\ Stream!LockEngine)
  /\ WF_streamVars(unit = "stream" /\ Stream!Work)
  /\ WF_streamVars(unit = "stream" /\ Stream!Receive)
  /\ WF_streamVars(unit = "stream" /\ Stream!ReceiveEnd)
  /\ \A u \in Clients : /\ SF_streamVars(unit = "stream" /\ Stream!UserLock(u))
                       /\ WF_streamVars(unit = "stream" /\ Stream!UserUse(u))

TransformFair ==
  /\ WF_transformVars(unit = "transform" /\ Transform!Tick)
  /\ WF_transformVars(unit = "transform" /\ Transform!Poll)
  /\ WF_transformVars(unit = "transform" /\ Transform!Transform)

AdapterFair ==
  /\ WF_adapterVars(unit = "adapter" /\ Adapter!Run)
  /\ \A c \in Callers : /\ WF_adapterVars(unit = "adapter" /\ Adapter!Publish(c))
                        /\ WF_adapterVars(unit = "adapter" /\ Adapter!Return(c))

ClientFair ==
  /\ WF_vars(unit = "client" /\ Owner)
  /\ \A s \in Sessions : WF_vars(unit = "client" /\ Loop(s))

AllFair ==
  /\ AllInit /\ [][AllNext]_<<unit, vars, streamVars, transformVars, adapterVars>>
  /\ StreamFair /\ TransformFair /\ AdapterFair /\ ClientFair

-----------------------------------------------------------------------------
(* The properties, under the names the modules give them. *)

\* The prediction stream keeps the order of its inputs and never parks a full batch; its
\* transformers keep the order too, and their word about chunks, pauses and rates.
StreamInv == Stream!StreamInv /\ Transform!TransformInv

\* Other users of the streaming engine get it.
UserReturns == Stream!UserReturns

\* Every input of the stream is predicted and received; a stream and a transformed stream end
\* after their source.  (AllDelivered of StreamBatcher and OutputEnds of StreamTransformers,
\* of which one at a time is at work.)
Due(n) == unit = "stream" /\ taken >= n /\ open /\ Len(received) < n
EndDue ==
  \/ unit = "stream" /\ ended /\ open /\ userPc["consumer"] # "ended"
  \/ unit = "transform" /\ over /\ transformPc # "done"
AllDelivered ==
  /\ \A n \in 1..MaxInputs : Due(n) ~> ~Due(n)
  /\ EndDue ~> ~EndDue

\* A caller of the adapter gets the answer to its own request, and entries are not left over.
AdapterInv == Adapter!AdapterInv

\* A stop ends the adapter's loop, and its callers return.
CallsEnd == Adapter!CallsEnd
=============================================================================
