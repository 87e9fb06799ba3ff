---------------------------- MODULE ReportStats ----------------------------
(***************************************************************************)
(* The arithmetic of the report scripts: the avg() helper, the population  *)
(* standard deviation they take from Python's statistics.pstdev, the       *)
(* warm-up trimming of the structured-CSV (Java) adapter and the division  *)
(* into Mop/s.                                                             *)
(*                                                                         *)
(* Python floats are modelled as exact rationals <<num, den>> (den > 0):   *)
(* rounding error of the floats is not what any property is about, and an  *)
(* exact value lets a property compare a stored mean with a reference one. *)
(* A standard deviation is kept as its square, the population variance,    *)
(* which is zero exactly when pstdev is zero.                              *)
(***************************************************************************)
EXTENDS Integers, Sequences, SequencesExt

Rat(n, d) == <<n, d>>
RZero == <<0, 1>>

RAdd(a, b) == <<a[1] * b[2] + b[1] * a[2], a[2] * b[2]>>
RSub(a, b) == <<a[1] * b[2] - b[1] * a[2], a[2] * b[2]>>
RMul(a, b) == <<a[1] * b[1], a[2] * b[2]>>
\* x / k for a positive integer k, e.g. results[i] / 1000000.0
RDivInt(a, k) == <<a[1], a[2] * k>>
\* x * k for an integer k, e.g. throughput * int(size)
RMulInt(a, k) == <<a[1] * k, a[2]>>
REq(a, b) == a[1] * b[2] = b[1] * a[2]
RIsZero(a) == a[1] = 0

RSum(s) == FoldLeft(RAdd, RZero, s)

\* avg(numlist): the mean, and -1 for an empty list.
Avg(s) == IF Len(s) > 0 THEN RDivInt(RSum(s), Len(s)) ELSE Rat(-1, 1)

\* sum(l)/len(l) as written inline by readVerlibResultsFile (no empty case).
SumOverLen(s) == RDivInt(RSum(s), Len(s))

\* statistics.pstdev(s) squared: mean of the squares minus the squared mean.
PVariance(s) ==
    LET n == Len(s)
        m == RDivInt(RSum(s), n)
    IN  RSub(RDivInt(RSum([i \in 1..n |-> RMul(s[i], s[i])]), n), RMul(m, m))

\* Every element of a list divided by the same integer (the loop
\* "results[i] = results[i]/1000000.0").
DivAll(s, k) == [i \in DOMAIN s |-> RDivInt(s[i], k)]

\* resultsAll[warmupRuns:] with warmupRuns = int(len(resultsAll)/2).
WarmupTrim(s) == SubSeq(s, (Len(s) \div 2) + 1, Len(s))

=============================================================================
