----------------------------- MODULE AllReduce -----------------------------
(***************************************************************************)
(* What a gradient exchange promises the workers that take part in it: a   *)
(* round takes one gradient from each of them, and each of them leaves it  *)
(* with the same answer, which is made of these gradients and no others,   *)
(* or with the news that they do not fit together.                         *)
(***************************************************************************)
CONSTANTS
  Workers,      \* who takes part
  Gradients,    \* what they give
  Fit(_)        \* whether the gradients of a round can be averaged

VARIABLES
  stage,        \* where each worker is: "out" of a round, "in" it, or "ready" to leave
  gave,         \* the gradient it gave last
  answer        \* the answer it got last: the gradients in the mean, {} for a refusal

reduceVars == <<stage, gave, answer>>

ReduceInit ==
  /\ stage = [w \in Workers |-> "out"]
  /\ answer = [w \in Workers |-> {}]

Mean(given) == IF Fit(given) THEN {given[w] : w \in Workers} ELSE {}

Give(w) ==
  /\ stage[w] = "out"
  /\ stage' = [stage EXCEPT ![w] = "in"]
  /\ gave'[w] \in Gradients
  /\ \A v \in Workers \ {w} : gave'[v] = gave[v]
  /\ UNCHANGED answer

\* The round is complete.  Whoever completes it may give and leave in this very moment.
Exchange ==
  /\ \A w \in Workers : stage[w] # "ready"
  /\ \A w \in Workers : gave'[w] \in Gradients
  /\ \A w \in Workers : stage[w] = "in" => gave'[w] = gave[w]
  /\ answer' = [w \in Workers |-> Mean(gave')]
  /\ stage' \in [Workers -> {"out", "ready"}]

Leave(w) ==
  /\ stage[w] = "ready"
  /\ stage' = [stage EXCEPT ![w] = "out"]
  /\ UNCHANGED <<gave, answer>>

ReduceNext == (\E w \in Workers : Give(w) \/ Leave(w)) \/ Exchange

ReduceSpec == ReduceInit /\ [][ReduceNext]_reduceVars
=============================================================================
