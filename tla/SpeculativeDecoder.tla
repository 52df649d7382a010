------------------------- MODULE SpeculativeDecoder -------------------------
(***************************************************************************)
(* kizzasi_inference::speculative::SpeculativeDecoder                      *)
(* (crates/kizzasi-inference/src/speculative.rs): a draft model proposes   *)
(* candidates, the main model judges them one by one, and the draft model  *)
(* is rolled back to the prefix that was accepted.  Both models are        *)
(* recurrent: a model's state is the sequence of tokens it consumed since  *)
(* the decoder was made.  What a model answers is a choice.                *)
(***************************************************************************)
EXTENDS Naturals, Sequences, FiniteSets, SequencesExt

CONSTANTS
  Tokens,
  NumDraft,      \* num_draft_tokens
  Lengths,       \* values of max_tokens
  MaxCalls,      \* bound: calls of generate
  MaxErrors      \* bound: model steps that fail

DecoderAssumption ==
  /\ Tokens # {} /\ NumDraft \in Nat \ {0} /\ Lengths \subseteq Nat
  /\ {MaxCalls, MaxErrors} \subseteq Nat

VARIABLES
  main,        \* tokens main_model consumed
  draft,       \* tokens draft_model consumed
  greedy,      \* greedy_verification
  pc,          \* "idle", "draft", "verify" or "done" with the judging of a round
  sequence,    \* the result of generate so far
  current,     \* the token a round starts from
  maxTokens,
  candidates,  \* of the round
  snapshots,   \* DraftRound::states: the draft model's state after each step
  accepted,    \* candidates accepted so far
  nextToken,   \* what verify_candidates returns with them
  base,        \* what the main model had consumed when generate began (history)
  skipped,     \* positions in main that the draft model never consumed (history)
  poisoned,    \* a call failed in the middle of a round (history)
  calls, errors

round == <<candidates, snapshots, accepted, nextToken>>
history == <<base, skipped, poisoned, calls, errors>>
vars == <<main, draft, greedy, pc, sequence, current, maxTokens, round, history>>

AnyToken == CHOOSE t \in Tokens : TRUE

Init ==
  /\ main = <<>> /\ draft = <<>> /\ greedy \in BOOLEAN
  /\ pc = "idle" /\ sequence = <<>> /\ current = AnyToken /\ maxTokens = 0
  /\ candidates = <<>> /\ snapshots = <<>> /\ accepted = 0 /\ nextToken = AnyToken
  /\ base = <<>> /\ skipped = {} /\ poisoned = FALSE
  /\ calls = 0 /\ errors = 0

\* The token the main model is asked to continue: the round's first, or the last accepted.
Judged == IF accepted = 0 THEN current ELSE candidates[accepted]

\* A call of generate for no tokens returns at once.
Generate(t, n) ==
  /\ pc = "idle" /\ calls < MaxCalls
  /\ calls' = calls + 1
  /\ sequence' = <<>> /\ current' = t /\ maxTokens' = n
  /\ base' = main
  /\ pc' = IF n = 0 THEN "idle" ELSE "draft"
  /\ candidates' = <<>> /\ snapshots' = <<>> /\ accepted' = 0
  /\ UNCHANGED <<main, draft, greedy, nextToken, skipped, poisoned, errors>>

\* generate_draft_tokens: one step of the draft model, which samples t.
DraftStep(t) ==
  /\ pc = "draft" /\ Len(candidates) < NumDraft
  /\ draft' = Append(draft, IF candidates = <<>> THEN current ELSE Last(candidates))
  /\ snapshots' = Append(snapshots, draft')
  /\ candidates' = Append(candidates, t)
  /\ pc' = IF Len(candidates') = NumDraft THEN "verify" ELSE "draft"
  /\ UNCHANGED <<main, greedy, sequence, current, maxTokens, accepted, nextToken, history>>

\* verify_candidates: one step of the main model.  Greedy, it accepts the candidate that is
\* its own choice t and else returns t; otherwise a candidate may be accepted or replaced,
\* whatever it is.
Verify(t) ==
  /\ pc = "verify" /\ accepted < NumDraft
  /\ main' = Append(main, Judged)
  /\ \/ /\ t = candidates[accepted + 1]
        /\ accepted' = accepted + 1
        /\ UNCHANGED <<pc, nextToken>>
     \/ /\ greedy => t # candidates[accepted + 1]
        /\ nextToken' = t /\ pc' = "done"
        /\ UNCHANGED accepted
  /\ UNCHANGED <<draft, greedy, sequence, current, maxTokens, candidates, snapshots, history>>

\* Every candidate was accepted: the main model generates one more.
Bonus(t) ==
  /\ pc = "verify" /\ accepted = NumDraft
  /\ main' = Append(main, Judged)
  /\ nextToken' = t /\ pc' = "done"
  /\ UNCHANGED <<draft, greedy, sequence, current, maxTokens, candidates, snapshots, accepted,
                 history>>

\* Mutant of RolledBack: the state before the token that followed the accepted prefix.
RolledBackShort == IF accepted \in 1..(NumDraft - 1) THEN snapshots[accepted] ELSE draft

\* rollback_draft, which leaves the live state when there is no later snapshot.
RolledBack == IF accepted < NumDraft THEN snapshots[accepted + 1] ELSE draft

\* The rest of the loop body: roll back, take over what was accepted up to max_tokens, and
\* the next token if there is room for it.
EndRound ==
  /\ pc = "done"
  /\ draft' = RolledBack
  /\ skipped' = IF accepted < NumDraft THEN skipped ELSE skipped \cup {Len(main)}
  /\ LET taken == SubSeq(sequence \o SubSeq(candidates, 1, accepted), 1,
                         IF Len(sequence) + accepted < maxTokens THEN Len(sequence) + accepted
                                                                 ELSE maxTokens)
     IN IF Len(taken) < maxTokens
        THEN sequence' = Append(taken, nextToken) /\ current' = nextToken
        ELSE sequence' = taken /\ UNCHANGED current
  /\ pc' = IF Len(sequence') < maxTokens THEN "draft" ELSE "idle"
  /\ candidates' = <<>> /\ snapshots' = <<>> /\ accepted' = 0
  /\ UNCHANGED <<main, greedy, maxTokens, nextToken, base, poisoned, calls, errors>>

\* A step of a model, or the sampling after it, fails: generate returns the error and rolls
\* nothing back.  The model may have consumed its token.
ModelFails ==
  /\ pc \in {"draft", "verify"} /\ errors < MaxErrors
  /\ errors' = errors + 1
  /\ \/ pc = "draft" /\ UNCHANGED main
        /\ draft' \in {draft,
                       Append(draft, IF candidates = <<>> THEN current ELSE Last(candidates))}
     \/ pc = "verify" /\ UNCHANGED draft
        /\ main' \in {main, Append(main, Judged)}
  /\ poisoned' = TRUE /\ pc' = "idle"
  /\ UNCHANGED <<greedy, sequence, current, maxTokens, round, base, skipped, calls>>

Next ==
  \/ \E t \in Tokens : \/ \E n \in Lengths : Generate(t, n)
                       \/ DraftStep(t) \/ Verify(t) \/ Bonus(t)
  \/ EndRound \/ ModelFails

Spec == Init /\ [][Next]_vars

-----------------------------------------------------------------------------
(* Properties *)

TokenSeqs == Seq(Tokens)

TypeOK ==
  /\ {main, draft, sequence, candidates, base} \subseteq TokenSeqs
  /\ snapshots \in Seq(TokenSeqs)
  /\ greedy \in BOOLEAN /\ poisoned \in BOOLEAN
  /\ pc \in {"idle", "draft", "verify", "done"}
  /\ current \in Tokens /\ nextToken \in Tokens
  /\ maxTokens \in Lengths \cup {0} /\ accepted \in 0..NumDraft
  /\ skipped \subseteq DOMAIN main
  /\ calls \in 0..MaxCalls /\ errors \in 0..MaxErrors

\* "Matching greedy decoding by the main model": when the main model judges a position, it
\* has consumed since the call began the input and everything generated before that
\* position, and nothing else.  So every token of the result is one the main model chose,
\* or accepted, after exactly its predecessors.
MainFollows ==
  LET input == IF sequence = <<>> THEN <<>> ELSE Front(sequence)
  IN pc = "draft" \/ (pc = "verify" /\ accepted = 0) =>
       \/ sequence = <<>> /\ main = base
       \/ /\ Len(main) = Len(base) + Len(sequence)
          /\ SubSeq(main, 1, Len(base)) = base
          /\ SubSeq(main, Len(base) + 2, Len(main)) = input

\* "Rejected candidates never leak into subsequent rounds": between rounds the draft model
\* has consumed what the main model has, but for the last candidate of each round in which
\* all were accepted, as long as no call failed in the middle of a round: a token of the
\* main model is at the place left for it by those that were skipped before it.
NoLeak ==
  LET place(i) == Cardinality((1..i) \ skipped)
  IN ~poisoned /\ pc \in {"idle", "draft"} /\ candidates = <<>> =>
       /\ Len(draft) = place(Len(main))
       /\ \A i \in DOMAIN main \ skipped : draft[place(i)] = main[i]

\* A call that ends well generated what was asked for; none generates more.
Generated == Len(sequence) <= maxTokens /\ (pc # "idle" => Len(sequence) < maxTokens)

\* Types, what the models consumed and the length of the result together.
DecoderInv == TypeOK /\ MainFollows /\ NoLeak /\ Generated

\* "When every candidate is accepted the live state is already correct": a round starts
\* from a draft model that has consumed what the main model has.
DraftAtPrefix == ~poisoned /\ pc = "draft" /\ candidates = <<>> => draft = main
=============================================================================
