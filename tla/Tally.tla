-------------------------------- MODULE Tally --------------------------------
(***************************************************************************)
(* The arithmetic of DataStore.tally and stats (src/store.py).  A box maps *)
(* each candidate id to the number of ballots for it; ballots may be for   *)
(* candidates that have been taken off candidates.json since.  Percentages *)
(* are counted in tenths, as the code rounds to one decimal.               *)
(***************************************************************************)
EXTENDS Integers, FiniteSets, Functions

CONSTANTS
  Candidates,   \* the ids of candidates.json
  CandidateIds  \* the ids a ballot or a request may name

(* An id comes in a file or in a message, and messages are bounded         *)
(* (framing.py:11), so no more than finitely many ids can be named.        *)
ASSUME CandidatesAssumption == Candidates \subseteq CandidateIds /\ IsFiniteSet(CandidateIds)

(* p tenths of a percent are a nearest value to part / whole.              *)
Nearest(p, part, whole) ==
  /\ 2 * (p * whole) - 2000 * part <= whole
  /\ 2000 * part - 2 * (p * whole) <= whole

PercentMutant(part, whole) == IF whole = 0 THEN 0 ELSE 10 * ((100 * part) \div whole)

(* round(part / whole * 100, 1): of two nearest values either may be taken, *)
(* since the code rounds a binary fraction.                                 *)
Percent(part, whole) ==
  IF whole = 0 THEN 0
  ELSE LET down == (1000 * part) \div whole
       IN CHOOSE p \in {down, down + 1} : Nearest(p, part, whole)

(* total_votes counts every ballot, also those for ids no longer listed.   *)
TotalVotes(box) == SumFunction(box)

ListedVotes(box) == SumFunctionOnSet(box, Candidates)

PercentOf(box) == [c \in Candidates |-> Percent(box[c], TotalVotes(box))]

Distance(a, b) == IF a < b THEN b - a ELSE a - b

(* What an administrator can rely on in the published percentages: they    *)
(* keep the order of the candidates, and together they differ from the     *)
(* share of the listed candidates by half a tenth for each at the most     *)
(* (store.py:173 rounds them one by one, so 100.0 need not come out).      *)
AddsUp(box) ==
  LET pct == PercentOf(box)
      total == TotalVotes(box)
  IN /\ \A c, d \in Candidates : box[c] <= box[d] => pct[c] <= pct[d]
     /\ 2 * Distance(SumFunction(pct) * total, 1000 * ListedVotes(box))
          <= Cardinality(Candidates) * total
=============================================================================
