----------------------------- MODULE LTLChecker -----------------------------
(***************************************************************************)
(* kizzasi_logic::LTLChecker (crates/kizzasi-logic/src/constraint/ltl.rs): *)
(* temporal constraints judged over the last values of a signal.  A        *)
(* constraint is an atom, a value the set of the constraints it satisfies. *)
(* The checker walks the formula; the reference it is compared with        *)
(* computes where in the trace each subformula holds.                      *)
(***************************************************************************)
EXTENDS Naturals, Sequences, FiniteSets, FiniteSetsExt

CONSTANTS
  Atoms,            \* constraints
  MaxTraceLength,   \* max_trace_length
  Depth,            \* bound: operators that are nested
  MaxResets         \* bound: calls of reset

LTLAssumption == IsFiniteSet(Atoms) /\ {MaxTraceLength, Depth, MaxResets} \subseteq Nat

VARIABLES
  trace,            \* the values retained, oldest first
  resets            \* history: the bound above

vars == <<trace, resets>>

Init == trace = <<>> /\ resets = 0

\* A trace that grew too long loses its oldest value.
Push(value) ==
  /\ trace' = LET longer == Append(trace, value)
              IN IF Len(longer) > MaxTraceLength THEN Tail(longer) ELSE longer
  /\ UNCHANGED resets

Reset == resets < MaxResets /\ resets' = resets + 1 /\ trace' = <<>>

Next == Reset \/ \E value \in SUBSET Atoms : Push(value)

Spec == Init /\ [][Next]_vars

-----------------------------------------------------------------------------
(* Formulas: <<"Atom", a>>, <<operator, f>> or <<operator, f, g>>. *)

Unary == {"Always", "Eventually", "Next", "Not"}
Binary == {"Until", "Release", "And", "Or"}

Literals == {"Atom"} \X Atoms
Over(fs, gs) == (Unary \X fs) \cup (Binary \X fs \X gs)

\* The formulas in which no more than so many operators are nested.
Nested[d \in 0..Depth] ==
  IF d = 0 THEN Literals ELSE Nested[d - 1] \cup Over(Nested[d - 1], Nested[d - 1])

Formulas == Nested[Depth]

-----------------------------------------------------------------------------
(* The code's evaluation. *)

\* The loop of Until: the first position where psi holds decides.  Phi and Psi tell for each
\* position whether the formulas hold there.
CheckUntil(Phi, Psi, pos) ==
  LET found == {i \in pos..Len(trace) : Psi[i]}
  IN found # {} /\ \A j \in pos..(Min(found) - 1) : Phi[j]

\* Mutant of CheckRelease: psi is not asked for where phi becomes true.
CheckReleaseEarly(Phi, Psi, pos) ==
  LET found == {i \in pos..Len(trace) : Phi[i]}
      end == IF found = {} THEN Len(trace) ELSE Min(found) - 1
  IN \A j \in pos..end : Psi[j]

\* The loop of Release: the first position where phi holds, or psi fails, decides.
CheckRelease(Phi, Psi, pos) ==
  LET ends == {i \in pos..Len(trace) : Phi[i] \/ ~Psi[i]}
      last == IF ends = {} THEN Len(trace) ELSE Min(ends)
  IN (ends = {} \/ Phi[last]) /\ \A j \in pos..last : Psi[j]

\* Beyond the trace everything holds.
CheckFormula[f \in Formulas] ==
  LET Phi == CheckFormula[f[2]]
      Psi == CheckFormula[f[3]]
  IN [pos \in 1..(Len(trace) + 1) |->
        \/ pos > Len(trace)
        \/ f[1] = "Atom" /\ f[2] \in trace[pos]
        \/ f[1] = "Always" /\ \A i \in pos..Len(trace) : Phi[i]
        \/ f[1] = "Eventually" /\ \E i \in pos..Len(trace) : Phi[i]
        \/ f[1] = "Next" /\ Phi[pos + 1]
        \/ f[1] = "Until" /\ CheckUntil(Phi, Psi, pos)
        \/ f[1] = "Release" /\ CheckRelease(Phi, Psi, pos)
        \/ f[1] = "And" /\ Phi[pos] /\ Psi[pos]
        \/ f[1] = "Or" /\ (Phi[pos] \/ Psi[pos])
        \/ f[1] = "Not" /\ ~Phi[pos]]

Check(f) == trace = <<>> \/ CheckFormula[f][1]

\* The sum of the violations at all positions of a set.
Sum(violations, positions) == Cardinality(UNION {{i} \X (1..violations[i]) : i \in positions})

\* count_violations: a sum for Always and And, a minimum for Or, 0 or 1 for the rest.
CountViolations[f \in Formulas] ==
  LET Phi == CountViolations[f[2]]
      Psi == CountViolations[f[3]]
  IN [pos \in 1..(Len(trace) + 1) |->
        IF pos > Len(trace) THEN 0
        ELSE IF f[1] = "Always" THEN Sum(Phi, pos..Len(trace))
        ELSE IF f[1] = "Next" THEN Phi[pos + 1]
        ELSE IF f[1] = "And" THEN Phi[pos] + Psi[pos]
        ELSE IF f[1] = "Or" THEN Min({Phi[pos], Psi[pos]})
        ELSE IF CheckFormula[f][pos] THEN 0 ELSE 1]

-----------------------------------------------------------------------------
(* Properties *)

\* The positions at which a formula holds, by the semantics over finite traces in which
\* Next is weak, Until asks for its right side and Release is its dual.
Where[f \in Formulas] ==
  LET Phi == Where[f[2]]
      Psi == Where[f[3]]
  IN {i \in DOMAIN trace :
        \/ f[1] = "Atom" /\ f[2] \in trace[i]
        \/ f[1] = "Not" /\ i \notin Phi
        \/ f[1] = "And" /\ i \in Phi /\ i \in Psi
        \/ f[1] = "Or" /\ (i \in Phi \/ i \in Psi)
        \/ f[1] = "Next" /\ (i + 1 \in Phi \/ i = Len(trace))
        \/ f[1] = "Always" /\ i..Len(trace) \subseteq Phi
        \/ f[1] = "Eventually" /\ i..Len(trace) \cap Phi # {}
        \/ f[1] = "Until" /\ \E k \in Psi : k >= i /\ i..(k - 1) \subseteq Phi
        \/ f[1] = "Release" /\ \A k \in i..Len(trace) : k \in Psi \/ i..(k - 1) \cap Phi # {}}

\* "Check if the formula is satisfied over the current trace" and "0 if satisfied, higher
\* for more violations": the walk agrees with the semantics of every operator, nested and
\* at the end of the trace, and the score with the walk.
LTLInv ==
  /\ trace \in Seq(SUBSET Atoms) /\ Len(trace) <= MaxTraceLength
  /\ \A f \in Formulas :
       /\ Check(f) <=> (trace = <<>> \/ 1 \in Where[f])
       /\ Check(f) <=> CountViolations[f][1] = 0
=============================================================================
