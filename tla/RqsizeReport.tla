---------------------------- MODULE RqsizeReport ----------------------------
(***************************************************************************)
(* The report engine of rqsize_benchmark/internals/create_graphs.py:       *)
(* plot_combined_rqsize_graphs reads the Java CSV file, then the C++ log,  *)
(* then the verlib log into one shared store (throughput, stddev) and the  *)
(* shared dimension lists (threads, maxkeys, rqsizes, ratios, algs), and   *)
(* plot_rqsize_graphs slices the store into one series per algorithm.      *)
(*                                                                         *)
(* One step is one line (or CSV row) of a file, or the aggregation loop at *)
(* the end of a reader, or the plot.  Text is abstracted to what the code  *)
(* tests of it: a C++ log line is the set of the markers it contains       *)
(* (line.find(m) != -1) and its trailing integer; a verlib line is whether *)
(* it contains "retry percent" or starts with "./", its data-structure     *)
(* name and its numeric tokens; a CSV row is a record of its columns, its  *)
(* merged-experiment column being the set of markers it contains.  A key   *)
(* string built by toStringRQ/toString is a record of its components:     *)
(* the string is injective on them (fields are separated by '-' and end    *)
(* in a unit letter), so equal records are equal strings.                  *)
(***************************************************************************)
EXTENDS Integers, Sequences, SequencesExt, ReportStats

CONSTANTS
    Mega,      \* the 1000000.0 of the Mop/s conversion (scaled down for TLC)
    Empty      \* the "" the C++ reader puts in for a thread count, key
               \* range or rqsize it has not seen

ASSUME Mega \in Nat \ {0}

VARIABLES
    javaFile, cppFile, verlibFile,  \* the three input files
    phase,       \* which reader runs, or the plot, or the end
    pos,         \* index of the next line of the file being read
    raw,         \* the reader's local throughputRaw: key -> samples
    curAlg,      \* readCppResultsFile's alg
    curRq,       \* readCppResultsFile's rqsize
    param,       \* readVerlibResultsFile's param (the last "./" line)
    throughput,  \* shared store: key -> mean
    stddev,      \* shared store: key -> population variance
    threads, maxkeys, ratios, rqsizes, algs,  \* shared dimension lists
    series       \* plot_rqsize_graphs' series: opType -> alg -> values

reportVars == <<javaFile, cppFile, verlibFile, phase, pos, raw, curAlg,
                curRq, param, throughput, stddev, threads, maxkeys, ratios,
                rqsizes, algs, series>>

NoParam == [ds |-> "none"]       \* param = {} before the first "./" line
\* A CSV title row: its throughput column reads 'throughput'; a data row
\* has title = FALSE.
Header == [title |-> TRUE]
PlotOps == {"rqs", "updates"}

\* The keys of the names dict: plot_rqsize_graphs draws only these.
Names == {"LFCA", "Jiffy", "bst.rq_lockfree", "skiplistlock.rq_bundle", "citrus.rq_bundle",
          "btree_lf_versioned_ls", "btree_lf_versioned_hs", "btree_lf_versioned_rs"}
\* The keys that the colors, linestyles and markers dicts all have.
StyleKeys == {"LFCA", "Jiffy", "bst.rq_lockfree", "skiplistlock.rq_bundle", "citrus.rq_bundle",
              "btree_lf_versioned_ls", "btree_lf_versioned_hs", "btree_lf_versioned_rs"}

-----------------------------------------------------------------------------
(* Keys *)

\* toStringRQ(algname, nthreads, maxkey, rqsize) ("RQ-a-4t-20k-8s")
ToStringRQ(a, t, k, s) ==
    [rq |-> TRUE, alg |-> a, t |-> t, k |-> k, ratio |-> "", size |-> s,
     tag |-> "", op |-> ""]
\* toString(algname, nthreads, ratio, maxkey, rqsize) ("a-4t-20k-<ratio>-8s")
ToStringKey(a, t, r, k, s) ==
    [rq |-> FALSE, alg |-> a, t |-> t, k |-> k, ratio |-> r, size |-> s,
     tag |-> "", op |-> ""]
\* key + '-findif' and the like
WithTag(key, g) == [key EXCEPT !.tag = g]
\* key + '-updates', key + '-rqs', key + "-retry-percent"
WithOp(key, o) == [key EXCEPT !.op = o]
\* toStringRQ3(algname, rqsize, benchmark, optype), benchmark = "<t>t-<k>k"
ToStringRQ3(a, s, bench, o) == WithOp(ToStringRQ(a, bench[1], bench[2], s), o)
\* toRatio(insert, delete, rq)
ToRatio(i, d, q) == <<i, d, q>>
\* the '50i-50d-0rq' the RQ branch of the CSV reader tests for
RqRatio == ToRatio(50, 50, 0)

-----------------------------------------------------------------------------
(* Helpers *)

\* "if x not in list: list.append(x)"
AppendNew(s, x) == IF Contains(s, x) THEN s ELSE Append(s, x)

\* "throughputRaw[key].append(v)", creating the list on first use
AddSample(r, key, v) ==
    IF key \in DOMAIN r THEN [r EXCEPT ![key] = Append(@, v)]
                        ELSE (key :> <<v>>) @@ r

\* The first marker of an if/elif chain of line.find() tests the text
\* contains, or "" when none does.
FirstIn(chain, text) ==
    LET hits == {i \in 1..Len(chain) : chain[i] \in text}
    IN  IF hits = {} THEN "" ELSE chain[Min(hits)]

\* The merged-experiment tests of readJavaResultsFile, in code order.
SubtagChain == <<"findif", "succ", "multisearch-nonatomic", "multisearch">>

\* The line tests of readCppResultsFile, in code order.
CppAlgMarkers == <<"vcasbst", "bst.rq_unsafe", "bst.rq_lockfree",
                   "skiplistlock.rq_bundle", "citrus.rq_bundle">>
CppChain == CppAlgMarkers \o <<"RQSIZE", "update throughput", "rq throughput">>

\* list.sort() of a list of ints; threads and maxkeys may hold just Empty.
SortList(s) == IF Len(s) <= 1 THEN s ELSE SortSeq(s, <)

-----------------------------------------------------------------------------
(* readJavaResultsFile *)

JavaBegin ==
    /\ phase = "javaBegin"
    /\ phase' = "java"
    /\ pos' = 1
    /\ raw' = <<>>
    /\ UNCHANGED <<javaFile, cppFile, verlibFile, curAlg, curRq, param,
                   throughput, stddev, threads, maxkeys, ratios, rqsizes,
                   algs, series>>

JavaLine == phase = "java" /\ pos <= Len(javaFile)
JavaRow == javaFile[pos]

\* A title row: "if row[...] == columns[0]: continue".
JavaHeaderRow ==
    /\ JavaLine /\ JavaRow.title
    /\ pos' = pos + 1
    /\ UNCHANGED <<javaFile, cppFile, verlibFile, phase, raw, curAlg, curRq,
                   param, throughput, stddev, threads, maxkeys, ratios,
                   rqsizes, algs, series>>

\* A 50/50 update row that completed range queries: one update sample and
\* one range-query sample, count / time, under the RQ key and subtag.
JavaRqRow ==
    /\ JavaLine /\ ~JavaRow.title
    /\ JavaRow.ratio = RqRatio /\ JavaRow.nrq > 0
    /\ LET r   == JavaRow
           tag == FirstIn(SubtagChain, r.exp)
           key == WithTag(ToStringRQ(r.name, r.nthreads, r.maxkey, r.rqsize), tag)
       IN  /\ threads' = AppendNew(threads, r.nthreads)
           /\ maxkeys' = AppendNew(maxkeys, r.maxkey)
           /\ rqsizes' = AppendNew(rqsizes, r.rqsize)
           /\ algs' = AppendNew(algs, r.name)
           /\ raw' = AddSample(AddSample(raw, WithOp(key, "updates"), Rat(r.nupd, r.time)),
                               WithOp(key, "rqs"), Rat(r.nrq, r.time))
    /\ pos' = pos + 1
    /\ UNCHANGED <<javaFile, cppFile, verlibFile, phase, curAlg, curRq, param,
                   throughput, stddev, ratios, series>>

\* Any other row: its throughput column under the plain toString key.
JavaPlainRow ==
    /\ JavaLine /\ ~JavaRow.title
    /\ ~(JavaRow.ratio = RqRatio /\ JavaRow.nrq > 0)
    /\ LET r == JavaRow
       IN  /\ threads' = AppendNew(threads, r.nthreads)
           /\ maxkeys' = AppendNew(maxkeys, r.maxkey)
           /\ ratios' = AppendNew(ratios, r.ratio)
           /\ rqsizes' = AppendNew(rqsizes, r.rqsize)
           /\ algs' = AppendNew(algs, r.name)
           /\ raw' = AddSample(raw, ToStringKey(r.name, r.nthreads, r.ratio, r.maxkey, r.rqsize),
                               Rat(r.tput, 1))
    /\ pos' = pos + 1
    /\ UNCHANGED <<javaFile, cppFile, verlibFile, phase, curAlg, curRq, param,
                   throughput, stddev, series>>

\* Mutant: every sample kept, warm-up included.
JavaResultsNoTrim(k) == DivAll(raw[k], Mega)

\* The trimmed samples of a key, in Mop/s.
JavaResults(k) == DivAll(WarmupTrim(raw[k]), Mega)

\* The closing loop: drop the first half of every key's samples, skip a key
\* whose mean is zero, store mean and pstdev.
JavaEnd ==
    /\ phase = "java" /\ pos > Len(javaFile)
    /\ LET kept == {k \in DOMAIN raw : ~RIsZero(Avg(JavaResults(k)))}
       IN  /\ throughput' = [k \in kept |-> Avg(JavaResults(k))] @@ throughput
           /\ stddev' = [k \in kept |-> PVariance(JavaResults(k))] @@ stddev
    /\ phase' = "cppBegin"
    /\ UNCHANGED <<javaFile, cppFile, verlibFile, pos, raw, curAlg, curRq,
                   param, threads, maxkeys, ratios, rqsizes, algs, series>>

-----------------------------------------------------------------------------
(* readCppResultsFile *)

\* Entry: put "" into empty threads/ratios/maxkeys, alg = rqsize = "".
CppBegin ==
    /\ phase = "cppBegin"
    /\ threads' = IF threads = <<>> THEN <<Empty>> ELSE threads
    /\ ratios' = IF ratios = <<>> THEN <<Empty>> ELSE ratios
    /\ maxkeys' = IF maxkeys = <<>> THEN <<Empty>> ELSE maxkeys
    /\ curAlg' = "" /\ curRq' = Empty
    /\ raw' = <<>> /\ pos' = 1
    /\ phase' = "cpp"
    /\ UNCHANGED <<javaFile, cppFile, verlibFile, param, throughput, stddev,
                   rqsizes, algs, series>>

CppLine == phase = "cpp" /\ pos <= Len(cppFile)
CppMatch == FirstIn(CppChain, cppFile[pos].text)
\* The key of a throughput line: the Java file's first thread count and
\* key range, the last alg and RQSIZE lines seen.
CppKey(o) == WithOp(ToStringRQ(curAlg, threads[1], maxkeys[1], curRq), o)

CppAlgLine ==
    /\ CppLine /\ Contains(CppAlgMarkers, CppMatch)
    /\ curAlg' = CppMatch
    /\ pos' = pos + 1
    /\ UNCHANGED <<javaFile, cppFile, verlibFile, phase, raw, curRq, param,
                   throughput, stddev, threads, maxkeys, ratios, rqsizes,
                   algs, series>>

CppRqsizeLine ==
    /\ CppLine /\ CppMatch = "RQSIZE"
    /\ curRq' = cppFile[pos].num
    /\ rqsizes' = AppendNew(rqsizes, cppFile[pos].num)
    /\ pos' = pos + 1
    /\ UNCHANGED <<javaFile, cppFile, verlibFile, phase, raw, curAlg, param,
                   throughput, stddev, threads, maxkeys, ratios, algs, series>>

\* Mutant: the marker text itself as the key suffix.
CppOpMarker(m) == m

\* The key suffix a throughput line gives: '-updates' or '-rqs'.
CppOp(m) == IF m = "update throughput" THEN "updates" ELSE "rqs"

CppThroughputLine ==
    /\ CppLine /\ CppMatch \in {"update throughput", "rq throughput"}
    /\ algs' = AppendNew(algs, curAlg)
    /\ raw' = AddSample(raw, CppKey(CppOp(CppMatch)), Rat(cppFile[pos].num, 1))
    /\ pos' = pos + 1
    /\ UNCHANGED <<javaFile, cppFile, verlibFile, phase, curAlg, curRq, param,
                   throughput, stddev, threads, maxkeys, ratios, rqsizes, series>>

CppOtherLine ==
    /\ CppLine /\ CppMatch = ""
    /\ pos' = pos + 1
    /\ UNCHANGED <<javaFile, cppFile, verlibFile, phase, raw, curAlg, curRq,
                   param, throughput, stddev, threads, maxkeys, ratios,
                   rqsizes, algs, series>>

\* The closing loop: every key's samples in Mop/s, mean and pstdev, stored
\* whatever the mean.
CppEnd ==
    /\ phase = "cpp" /\ pos > Len(cppFile)
    /\ throughput' = [k \in DOMAIN raw |-> Avg(DivAll(raw[k], Mega))] @@ throughput
    /\ stddev' = [k \in DOMAIN raw |-> PVariance(DivAll(raw[k], Mega))] @@ stddev
    /\ phase' = "verlibBegin"
    /\ UNCHANGED <<javaFile, cppFile, verlibFile, pos, raw, curAlg, curRq,
                   param, threads, maxkeys, ratios, rqsizes, algs, series>>

-----------------------------------------------------------------------------
(* readVerlibResultsFile *)

VerlibBegin ==
    /\ phase = "verlibBegin"
    /\ raw' = <<>> /\ param' = NoParam /\ pos' = 1
    /\ phase' = "verlib"
    /\ UNCHANGED <<javaFile, cppFile, verlibFile, curAlg, curRq, throughput,
                   stddev, threads, maxkeys, ratios, rqsizes, algs, series>>

VerlibLine == phase = "verlib" /\ pos <= Len(verlibFile)
VLine == verlibFile[pos]

\* toParam(string): ds is the text before the first comma, the next eight
\* numeric tokens are up, range, rs, trans, n, p, rq_threads, z; rs doubled.
ToParam(line) ==
    [ds |-> line.ds, p |-> line.nums[6], n |-> line.nums[5],
     rs |-> 2 * line.nums[3]]
VerlibKey(prm) == ToStringRQ(prm.ds, prm.p, prm.n * 2, prm.rs)

\* A "retry percent" line: its value under the key of the last "./" line;
\* before any "./" line param is {} and param['ds'] raises KeyError.
VerlibRetryLine ==
    /\ VerlibLine /\ VLine.retry
    /\ IF param = NoParam
       THEN /\ phase' = "crashed"
            /\ UNCHANGED <<raw, pos>>
       ELSE /\ raw' = AddSample(raw, WithOp(VerlibKey(param), "retry-percent"),
                                Rat(VLine.val, 1))
            /\ pos' = pos + 1
            /\ UNCHANGED phase
    /\ UNCHANGED <<javaFile, cppFile, verlibFile, curAlg, curRq, param,
                   throughput, stddev, threads, maxkeys, ratios, rqsizes,
                   algs, series>>

\* A "./" line: parse the key; the last two numeric tokens are the range
\* query and update throughputs.  Fewer than eight tokens: IndexError.
VerlibResultLine ==
    /\ VerlibLine /\ ~VLine.retry /\ VLine.dot
    /\ LET n == VLine.nums
       IN  IF Len(n) < 8
           THEN /\ phase' = "crashed"
                /\ UNCHANGED <<param, algs, raw, pos>>
           ELSE LET prm == ToParam(VLine)
                IN  /\ param' = prm
                    /\ algs' = AppendNew(algs, prm.ds)
                    /\ raw' = AddSample(AddSample(raw, WithOp(VerlibKey(prm), "rqs"),
                                                  Rat(n[Len(n) - 1], 1)),
                                        WithOp(VerlibKey(prm), "updates"),
                                        Rat(n[Len(n)], 1))
                    /\ pos' = pos + 1
                    /\ UNCHANGED phase
    /\ UNCHANGED <<javaFile, cppFile, verlibFile, curAlg, curRq, throughput,
                   stddev, threads, maxkeys, ratios, rqsizes, series>>

VerlibOtherLine ==
    /\ VerlibLine /\ ~VLine.retry /\ ~VLine.dot
    /\ pos' = pos + 1
    /\ UNCHANGED <<javaFile, cppFile, verlibFile, phase, raw, curAlg, curRq,
                   param, throughput, stddev, threads, maxkeys, ratios,
                   rqsizes, algs, series>>

\* The closing loop: sum/len and pstdev of every key, no unit division.
VerlibEnd ==
    /\ phase = "verlib" /\ pos > Len(verlibFile)
    /\ throughput' = [k \in DOMAIN raw |-> SumOverLen(raw[k])] @@ throughput
    /\ stddev' = [k \in DOMAIN raw |-> PVariance(raw[k])] @@ stddev
    /\ phase' = "plot"
    /\ UNCHANGED <<javaFile, cppFile, verlibFile, pos, raw, curAlg, curRq,
                   param, threads, maxkeys, ratios, rqsizes, algs, series>>

-----------------------------------------------------------------------------
(* plot_rqsize_graphs *)

\* The key the plot looks up for (alg, size, opType) once the lists are
\* sorted: bench is the smallest thread count and key range.
PlotKey(a, s, o) == ToStringRQ3(a, s, <<SortList(threads)[1], SortList(maxkeys)[1]>>, o)

\* An algorithm keeps its series only if every size has a value.
PlotComplete(a, o) ==
    \A i \in 1..Len(rqsizes) : PlotKey(a, SortList(rqsizes)[i], o) \in DOMAIN throughput

\* Mutant: range-query values drawn in Mop/s, unscaled.
PlotValueUnscaled(a, s, o) == throughput[PlotKey(a, s, o)]

\* rqs values are scaled by the size (keys/s), updates are as stored.
PlotValue(a, s, o) ==
    IF o = "rqs" THEN RMulInt(throughput[PlotKey(a, s, o)], s)
                 ELSE throughput[PlotKey(a, s, o)]

\* Sort the lists, build the series of both opTypes, draw the algorithms of
\* names: an empty series fails in max(), one without a colors, linestyles
\* or markers entry with a KeyError.
Plot ==
    /\ phase = "plot"
    /\ LET ss == SortList(rqsizes)
           sr == [o \in PlotOps |->
                   [a \in {x \in Range(algs) : PlotComplete(x, o)} |->
                     [i \in 1..Len(ss) |-> PlotValue(a, ss[i], o)]]]
       IN  /\ series' = sr
           /\ phase' = IF \E o \in PlotOps : \E a \in DOMAIN sr[o] \cap Names :
                              sr[o][a] = <<>> \/ a \notin StyleKeys
                       THEN "crashed" ELSE "done"
    /\ threads' = SortList(threads)
    /\ maxkeys' = SortList(maxkeys)
    /\ rqsizes' = SortList(rqsizes)
    /\ UNCHANGED <<javaFile, cppFile, verlibFile, pos, raw, curAlg, curRq,
                   param, throughput, stddev, ratios, algs>>

ReportNext ==
    \/ JavaBegin \/ JavaHeaderRow \/ JavaRqRow \/ JavaPlainRow \/ JavaEnd
    \/ CppBegin \/ CppAlgLine \/ CppRqsizeLine \/ CppThroughputLine
    \/ CppOtherLine \/ CppEnd
    \/ VerlibBegin \/ VerlibRetryLine \/ VerlibResultLine \/ VerlibOtherLine
    \/ VerlibEnd
    \/ Plot

=============================================================================
