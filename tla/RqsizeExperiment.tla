-------------------------- MODULE RqsizeExperiment --------------------------
(***************************************************************************)
(* rqsize_benchmark/run_rqsize_experiments.py composed with the report     *)
(* engine it calls.  The script runs one verlib trial per (ds, rqsize),    *)
(* one C++ trial per (ds, rqsize, repeat) and one Java trial per           *)
(* (ds, rqsize), each writing its own data-trials<i> file; any non-zero   *)
(* exit aborts the script.  It then concatenates each family's trial files *)
(* with "cat data-*", in the shell's glob order, and hands the three files *)
(* to plot_combined_rqsize_graphs (module RqsizeReport).                   *)
(*                                                                         *)
(* What a benchmark binary prints is outside this repository; a trial's    *)
(* output is modelled as the lines the readers look for, with the measured *)
(* numbers chosen from small sets: the verlib binary prints one "./" line  *)
(* per round (-r) followed by an optional "retry percent" line, the C++    *)
(* binary an RQSIZE line and then its two throughput lines, the Java      *)
(* harness a CSV with a title row and one row per round (it is asked for  *)
(* 2*repeats rounds).  The history variable runs keeps every trial with   *)
(* its numbers, from which the properties compute what the report should   *)
(* say.                                                                    *)
(***************************************************************************)
EXTENDS RqsizeReport

CONSTANTS
    VerlibDS, CppDS, JavaDS,  \* the script's three data-structure lists
    RqSizes,          \* the rqsize list given on the command line
    Repeats,          \* num_repeats
    NumKeys,          \* num_keys
    UpdateThreads,    \* update_threads
    RqThreads,        \* rq_threads
    VerlibMeasures,   \* what one verlib round may print: [rqt, upt, retry]
    CppMeasures,      \* what one C++ trial may print: [upd, rq]
    JavaMeasures,     \* what one Java CSV row may hold: [time, nupd, nrq, tput]
    Experiments,      \* merged-experiment columns: [text, tag]
    NoRetry           \* a round that printed no "retry percent" line

ASSUME Repeats \in Nat \ {0}

VARIABLES
    stage,   \* "verlib", "cpp", "java" (running trials), "report", "aborted"
    next,    \* 1-based index of the next trial of the current loop
    vOut, cOut, jOut,  \* the data-trials<i> files of each family, by i
    runs     \* history: every trial run, with what it measured

vars == <<stage, next, vOut, cOut, jOut, runs, reportVars>>

Ins == 50
Rmv == 50
Th == UpdateThreads + RqThreads   \* th
KeyRange == NumKeys * 2           \* key_range

-----------------------------------------------------------------------------
(* The loops of the script *)

\* The (ds, rqsize, repeat) triples of "for ds: for rqsize: for j", in order.
LoopPlan(dss, reps) ==
    LET n == Len(RqSizes)
    IN  [i \in 1..(Len(dss) * n * reps) |->
          [ds   |-> dss[((i - 1) \div (n * reps)) + 1],
           size |-> RqSizes[(((i - 1) \div reps) % n) + 1]]]

VerlibPlan == LoopPlan(VerlibDS, 1)
CppPlan == LoopPlan(CppDS, Repeats)
JavaPlan == LoopPlan(JavaDS, 1)
PlanOf(s) == CASE s = "verlib" -> VerlibPlan
               [] s = "cpp"    -> CppPlan
               [] s = "java"   -> JavaPlan

\* The lines a verlib trial file holds: the command echo, then per round the
\* result line (its numbers are the flags the script passed: -u, range,
\* -rs rqsize/2, trans, -n, -p, -rqthreads, z, then the two throughputs)
\* and a retry line if the round printed one.
VerlibEcho == [retry |-> FALSE, dot |-> FALSE, ds |-> "", nums |-> <<>>, val |-> 0]
VerlibRound(ds, size, m) ==
    <<[retry |-> FALSE, dot |-> TRUE, ds |-> ds, val |-> 0,
       nums |-> <<Ins + Rmv, 0, size \div 2, 0, NumKeys, Th, RqThreads, 0,
                  m.rqt, m.upt>>]>>
    \o (IF m.retry = NoRetry THEN <<>>
        ELSE <<[retry |-> TRUE, dot |-> FALSE, ds |-> "", nums |-> <<>>, val |-> m.retry]>>)
VerlibTrialFile(ds, size, ms) ==
    <<VerlibEcho>> \o FlattenSeq([r \in 1..Len(ms) |-> VerlibRound(ds, size, ms[r])])

\* A C++ trial file: the command echo naming the binary, output the reader
\* matches nothing in, RQSIZE, the two throughputs.
CppTrialFile(ds, size, m) ==
    << [text |-> {ds}, num |-> 0], [text |-> {}, num |-> 0],
       [text |-> {"RQSIZE"}, num |-> size],
       [text |-> {"update throughput"}, num |-> m.upd],
       [text |-> {"rq throughput"}, num |-> m.rq] >>

\* A Java trial CSV: title row, then one row per round.
JavaTrialFile(ds, size, e, ms) ==
    <<Header>> \o
    [r \in 1..Len(ms) |->
       [title |-> FALSE, name |-> ds, nthreads |-> Th, ratio |-> ToRatio(Ins, Rmv, 0),
        maxkey |-> KeyRange, rqsize |-> size, time |-> ms[r].time,
        nupd |-> ms[r].nupd, nrq |-> ms[r].nrq, tput |-> ms[r].tput,
        exp |-> e.text]]

RunVerlibTrial ==
    /\ stage = "verlib" /\ next <= Len(VerlibPlan)
    /\ \E ms \in [1..Repeats -> VerlibMeasures] :
         LET t == VerlibPlan[next]
         IN  /\ vOut' = Append(vOut, VerlibTrialFile(t.ds, t.size, ms))
             /\ runs' = Append(runs, [kind |-> "verlib", ds |-> t.ds,
                                      size |-> t.size, meas |-> ms])
    /\ next' = next + 1
    /\ UNCHANGED <<stage, cOut, jOut, reportVars>>

RunCppTrial ==
    /\ stage = "cpp" /\ next <= Len(CppPlan)
    /\ \E m \in CppMeasures :
         LET t == CppPlan[next]
         IN  /\ cOut' = Append(cOut, CppTrialFile(t.ds, t.size, m))
             /\ runs' = Append(runs, [kind |-> "cpp", ds |-> t.ds,
                                      size |-> t.size, meas |-> <<m>>])
    /\ next' = next + 1
    /\ UNCHANGED <<stage, vOut, jOut, reportVars>>

RunJavaTrial ==
    /\ stage = "java" /\ next <= Len(JavaPlan)
    /\ \E e \in Experiments, ms \in [1..(2 * Repeats) -> JavaMeasures] :
         LET t == JavaPlan[next]
         IN  /\ jOut' = Append(jOut, JavaTrialFile(t.ds, t.size, e, ms))
             /\ runs' = Append(runs, [kind |-> "java", ds |-> t.ds, size |-> t.size,
                                      exp |-> e, meas |-> ms])
    /\ next' = next + 1
    /\ UNCHANGED <<stage, vOut, cOut, reportVars>>

\* os.system(cmd) != 0: print and exit(1); no report is made.
FailTrial ==
    /\ stage \in {"verlib", "cpp", "java"} /\ next <= Len(PlanOf(stage))
    /\ stage' = "aborted"
    /\ UNCHANGED <<next, vOut, cOut, jOut, runs, reportVars>>

\* A loop is over: the next one starts with i = 0 again.
EndLoop ==
    /\ stage \in {"verlib", "cpp"} /\ next > Len(PlanOf(stage))
    /\ stage' = IF stage = "verlib" THEN "cpp" ELSE "java"
    /\ next' = 1
    /\ UNCHANGED <<vOut, cOut, jOut, runs, reportVars>>

\* The decimal digits of i: the part of "data-trials<i>" the glob sorts on.
RECURSIVE Digits(_)
Digits(i) == IF i < 10 THEN <<i>> ELSE Digits(i \div 10) \o <<i % 10>>

\* "data-trials<a>.x" sorts before "data-trials<b>.x": the digit strings
\* compared character by character, '.' (end of digits) below any digit.
GlobBefore(a, b) ==
    LET x == Digits(a)
        y == Digits(b)
    IN  \E k \in 0..Len(x) :
          /\ k <= Len(y)
          /\ SubSeq(x, 1, k) = SubSeq(y, 1, k)
          /\ \/ k = Len(x) /\ k < Len(y)
             \/ k < Len(x) /\ k < Len(y) /\ x[k + 1] < y[k + 1]

\* cat data-*: the files of outs concatenated in glob order.
Cat(outs) ==
    LET order == SortSeq([i \in 1..Len(outs) |-> i], GlobBefore)
    IN  FlattenSeq([i \in 1..Len(outs) |-> outs[order[i]]])

\* The three cat commands, then plot_combined_rqsize_graphs starts.
CatAndReport ==
    /\ stage = "java" /\ next > Len(JavaPlan)
    /\ javaFile' = Cat(jOut)
    /\ cppFile' = Cat(cOut)
    /\ verlibFile' = Cat(vOut)
    /\ phase' = "javaBegin"
    /\ stage' = "report"
    /\ UNCHANGED <<next, vOut, cOut, jOut, runs, pos, raw, curAlg, curRq, param,
                   throughput, stddev, threads, maxkeys, ratios, rqsizes, algs,
                   series>>

\* A step of plot_combined_rqsize_graphs; the orchestrator waits on it.
\* (Every engine action is guarded by a phase that only CatAndReport leaves.)
orchVars == <<stage, next, vOut, cOut, jOut, runs>>

\* The script has ended: aborted, or the report drawn or crashed.
Finished ==
    /\ stage = "aborted" \/ phase \in {"done", "crashed"}
    /\ UNCHANGED vars

Init ==
    /\ stage = "verlib" /\ next = 1
    /\ vOut = <<>> /\ cOut = <<>> /\ jOut = <<>> /\ runs = <<>>
    /\ javaFile = <<>> /\ cppFile = <<>> /\ verlibFile = <<>>
    /\ phase = "idle" /\ pos = 1 /\ raw = <<>>
    /\ curAlg = "" /\ curRq = Empty /\ param = NoParam
    /\ throughput = <<>> /\ stddev = <<>>
    /\ threads = <<>> /\ maxkeys = <<>> /\ ratios = <<>> /\ rqsizes = <<>>
    /\ algs = <<>>
    /\ series = [o \in PlotOps |-> <<>>]

Next ==
    \/ RunVerlibTrial \/ RunCppTrial \/ RunJavaTrial \/ FailTrial \/ EndLoop
    \/ CatAndReport \/ Finished
    \/ JavaBegin /\ UNCHANGED orchVars
    \/ JavaHeaderRow /\ UNCHANGED orchVars
    \/ JavaRqRow /\ UNCHANGED orchVars
    \/ JavaPlainRow /\ UNCHANGED orchVars
    \/ JavaEnd /\ UNCHANGED orchVars
    \/ CppBegin /\ UNCHANGED orchVars
    \/ CppAlgLine /\ UNCHANGED orchVars
    \/ CppRqsizeLine /\ UNCHANGED orchVars
    \/ CppThroughputLine /\ UNCHANGED orchVars
    \/ CppOtherLine /\ UNCHANGED orchVars
    \/ CppEnd /\ UNCHANGED orchVars
    \/ VerlibBegin /\ UNCHANGED orchVars
    \/ VerlibRetryLine /\ UNCHANGED orchVars
    \/ VerlibResultLine /\ UNCHANGED orchVars
    \/ VerlibOtherLine /\ UNCHANGED orchVars
    \/ VerlibEnd /\ UNCHANGED orchVars
    \/ Plot /\ UNCHANGED orchVars

Spec == Init /\ [][Next]_vars

-----------------------------------------------------------------------------
(* What the report should say, computed from the trials themselves *)

\* The rounds of a trial that count: the second half of a Java trial's rows,
\* the first half being warm-up (spec 4.3); every round otherwise.
Measured(r) == IF r.kind = "java" THEN SubSeq(r.meas, Repeats + 1, 2 * Repeats)
                                  ELSE r.meas

\* The <<key, sample in Mop/s>> pairs one counted round m of trial r gives:
\* keyed by the configuration the script ran, not by anything parsed.
Pairs(r, m) ==
    LET base == ToStringRQ(r.ds, Th, KeyRange, r.size)
    IN  CASE r.kind = "verlib" ->
               {<<WithOp(base, "rqs"), Rat(m.rqt, 1)>>,
                <<WithOp(base, "updates"), Rat(m.upt, 1)>>}
               \cup (IF m.retry = NoRetry THEN {}
                     ELSE {<<WithOp(base, "retry-percent"), Rat(m.retry, 1)>>})
          [] r.kind = "cpp" ->
               {<<WithOp(base, "updates"), Rat(m.upd, Mega)>>,
                <<WithOp(base, "rqs"), Rat(m.rq, Mega)>>}
          [] r.kind = "java" /\ m.nrq > 0 ->
               {<<WithOp(WithTag(base, r.exp.tag), "updates"), Rat(m.nupd, m.time * Mega)>>,
                <<WithOp(WithTag(base, r.exp.tag), "rqs"), Rat(m.nrq, m.time * Mega)>>}
          [] OTHER ->
               {<<ToStringKey(r.ds, Th, ToRatio(Ins, Rmv, 0), KeyRange, r.size),
                  Rat(m.tput, Mega)>>}

\* The samples of key k over all trials, in trial order.
RefSamples(k) ==
    FlattenSeq([i \in 1..Len(runs) |->
      LET ms == Measured(runs[i])
      IN  FlattenSeq([j \in 1..Len(ms) |->
            LET hit == {p \in Pairs(runs[i], ms[j]) : p[1] = k}
            IN  IF hit = {} THEN <<>> ELSE <<(CHOOSE p \in hit : TRUE)[2]>>])])

RefKeys == UNION {{p[1] : p \in UNION {Pairs(runs[i], m) : m \in Range(Measured(runs[i]))}} :
                  i \in 1..Len(runs)}

RefMean(k) == Avg(RefSamples(k))

\* A point the plot should draw for (alg, size, opType): some trial measured
\* it, and, for the Java reader, which drops zero means, its mean is not zero.
RefPoint(a, s, o) ==
    LET k == ToStringRQ3(a, s, <<Th, KeyRange>>, o)
    IN  k \in RefKeys /\ (Contains(JavaDS, a) => ~RIsZero(RefMean(k)))

-----------------------------------------------------------------------------
(* Properties *)

KeyOK(k) ==
    /\ DOMAIN k = {"rq", "alg", "t", "k", "ratio", "size", "tag", "op"}
    /\ k.rq \in BOOLEAN
    /\ k.op \in {"", "updates", "rqs", "retry-percent"}

TypeOK ==
    /\ stage \in {"verlib", "cpp", "java", "report", "aborted"}
    /\ next \in 1..(Len(PlanOf("verlib")) + Len(CppPlan) + Len(JavaPlan) + 1)
    /\ phase \in {"idle", "javaBegin", "java", "cppBegin", "cpp", "verlibBegin",
                  "verlib", "plot", "done", "crashed"}
    /\ pos \in Nat \ {0}
    /\ \A k \in DOMAIN raw : KeyOK(k) /\ raw[k] \in Seq(Int \X (Nat \ {0}))
    /\ \A k \in DOMAIN throughput : KeyOK(k) /\ k \in DOMAIN stddev
    /\ DOMAIN series = PlotOps
    /\ \A o \in PlotOps : DOMAIN series[o] \subseteq Range(algs)

\* The store the three readers build holds, for every key, exactly the mean
\* and pstdev of the counted samples of the trials that ran that
\* configuration (Java warm-up rows dropped), and every configuration
\* measured with a non-zero mean is in it: the line-by-line parsing with
\* its carried alg/rqsize/param, the subtag tests, the rs halving and
\* doubling, the borrowed thread count and key range of the C++ keys and
\* the per-key trimming all reproduce the script's own configuration.
StoreReflectsTrials ==
    phase \in {"plot", "done"} =>
        /\ \A k \in DOMAIN throughput :
              /\ k \in RefKeys
              /\ REq(throughput[k], RefMean(k))
              /\ REq(stddev[k], PVariance(RefSamples(k)))
        /\ \A k \in RefKeys : ~RIsZero(RefMean(k)) => k \in DOMAIN throughput

\* plot_rqsize_graphs draws, for each opType, a series for an algorithm of
\* the script exactly when its trials gave a point at every rqsize of the
\* command line (all or nothing), with one value per size in increasing
\* size order: the mean (times the size for range queries).
SeriesReflectTrials ==
    phase = "done" =>
      LET xs == SetToSortSeq(Range(RqSizes), <)
      IN  \A o \in PlotOps, a \in Range(VerlibDS) \cup Range(CppDS) \cup Range(JavaDS) :
            /\ (a \in DOMAIN series[o] <=> \A s \in Range(RqSizes) : RefPoint(a, s, o))
            /\ a \in DOMAIN series[o] =>
                 /\ Len(series[o][a]) = Len(xs)
                 /\ \A i \in 1..Len(xs) :
                      LET m == RefMean(ToStringRQ3(a, xs[i], <<Th, KeyRange>>, o))
                      IN  REq(series[o][a][i], IF o = "rqs" THEN RMulInt(m, xs[i]) ELSE m)

\* No aggregate in the store has a mean of zero: spec 4.3 says a (key,
\* class) whose mean is zero is a failed configuration and is left out.
NoZeroAggregate ==
    phase \in {"plot", "done"} => \A k \in DOMAIN throughput : ~RIsZero(throughput[k])


=============================================================================
