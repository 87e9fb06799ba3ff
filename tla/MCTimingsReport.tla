-------------------------- MODULE MCTimingsReport --------------------------
(***************************************************************************)
(* readResultsFile over every results file of at most MaxLines lines drawn *)
(* from a small set of lines, then the queries the verlib experiment       *)
(* scripts make: print_table_mix_percent (run_experiments.py), and each    *)
(* print_*_graph over two x values so that a series can be complete or    *)
(* partial.  A line is the benchmark's echo of one trial:                  *)
(*   ./<name>,<up>%update,<range>%range,<qt>,rs=..,trans=..,n=..,p=..,z=..,<val> *)
(* given as its name, query-type text and numeric tokens.                  *)
(***************************************************************************)
EXTENDS TimingsReport

CONSTANT MaxLines        \* the longest results file
CONSTANT LineSet         \* the lines a file is made of

T(w) == Tok(w, <<>>)
\* An echo line with up 5, range 0, rs 16 unless given otherwise.
Echo(name, qt, trans, n, p, z, val) ==
    [echo |-> TRUE, hdr |-> FALSE, name |-> name, qt |-> qt,
     toks |-> <<T(5), T(0), T(16), trans, n, p, z, val>>]
EchoUp(name, up, val) ==
    [echo |-> TRUE, hdr |-> FALSE, name |-> name, qt |-> "mfind",
     toks |-> <<T(up), T(0), T(16), T(0), T(100), T(4), T(0), val>>]

\* The lines the benchmark prints for the configurations queried below.
MCBaseLine == Echo("arttree_lf_versioned_hs", "mfind", T(0), T(100), T(4), T(0), T(2))
\* z printed with a trailing zero: the check fails, the key is z=0.5
MCSpelledLine == Echo("arttree_lf_versioned_hs", "mfind", T(0), T(100), T(4), Tok(0, <<5, 0>>), T(6))
MCLines ==
    { MCBaseLine,
      Echo("arttree_lf_versioned_hs", "mfind", T(0), T(100), T(4), T(0), Tok(1, <<5>>)),
      Echo("dlist_lf_noversion", "mfind", T(0), T(10), T(4), T(0), T(3)),
      Echo("btree_lck_noversion", "find", T(0), T(100), T(4), T(0), T(5)),
      Echo("../../setbench/leis_olc_art", "find", T(0), T(100), T(4), T(0), T(7)),
      Echo("leis_olc_art", "find", T(0), T(100), T(8), T(0), T(9)),
      EchoUp("arttree_lf_versioned_hs", 50, T(4)),
      Echo("arttree_lf_versioned_hs", "mfind", T(0), T(1000), T(4), T(0), T(1)),
      MCSpelledLine,
      \* a name splitdsname does not know
      Echo("skiplist_lf", "find", T(0), T(100), T(4), T(0), T(1)),
      [echo |-> TRUE, hdr |-> TRUE, name |-> "update_throughput", qt |-> "", toks |-> <<>>],
      [echo |-> FALSE, hdr |-> FALSE, name |-> "", qt |-> "", toks |-> <<>>] }

\* A trans=1 trial of the configuration of the first line.
MCTransLine == Echo("arttree_lf_versioned_hs", "mfind", T(1), T(100), T(4), T(0), T(6))
MCTransLines == {MCBaseLine, MCTransLine} \cup {l \in MCLines : ~l.echo}
\* A trial whose zipf parameter was printed as 0.0.
MCZeroLine == Echo("arttree_lf_versioned_hs", "mfind", T(0), T(100), T(4), Tok(0, <<0>>), T(6))
MCZeroLines == {MCBaseLine, MCZeroLine}

AllFiles == UNION {[1..k -> LineSet] : k \in 1..MaxLines}
Files == AllFiles
\* The files that hold at least one measurement, and the lines the benchmark
\* prints as toString would (no spelling the check rejects).
MCMeasuredFiles == {f \in AllFiles : \E i \in DOMAIN f : IsMeasurement(f[i])}
MCCanonLines == MCLines \ {MCSpelledLine}

\* run_experiments.py: params with the per-kind size dict and z 0 (int).
TableParams ==
    [ds |-> "*", per |-> "*", query_type |-> "find", up |-> PyInt(0), range |-> PyInt(0),
     rs |-> PyInt(0), trans |-> PyInt(0), n |-> [list |-> PyInt(10), tree |-> PyInt(100)],
     p |-> PyInt(4), z |-> PyInt(0)]
Mix == <<PyInt(5), "mfind", PyInt(16)>>

Query ==
    \/ PrintTableMixPercent(Mix, TableParams)
    \/ PrintTableTimestampInc(Mix, TableParams)
    \/ PrintScalabilityGraph(<<"btree_lck", "leis_olc_art">>, <<"noversion">>, PyInt(100),
                             PyInt(5), "find", PyInt(16), PyInt(0), <<PyInt(4), PyInt(8)>>)
    \/ PrintUpdateGraph(<<"arttree_lf">>, <<"versioned_hs">>, PyInt(100), <<PyInt(5), PyInt(50)>>,
                        "mfind", PyInt(16), PyInt(0), PyInt(4))
    \/ PrintSizeGraph(<<"arttree_lf">>, <<"versioned_hs", "noversion">>,
                      <<PyInt(100), PyInt(1000)>>, PyInt(5), "mfind", PyInt(16), PyInt(0), PyInt(4))
    \/ PrintZipfGraph(<<"arttree_lf">>, <<"versioned_hs">>, PyInt(100), PyInt(5), "mfind",
                      PyInt(16), <<PyInt(0), PyFloat(0, <<5>>)>>, PyInt(4))

Init == TInit(Files)
Next == SkipLine \/ ParseLineFails \/ ReadLine \/ MismatchLine \/ PromptEnter \/ PromptEOF \/ EndRead \/ Query \/ Crashed
Spec == Init /\ [][Next]_timingsVars

\* One iteration of readResultsFile's loop over the lines.
ReadStep == SkipLine \/ ParseLineFails \/ ReadLine \/ MismatchLine

\* Weak fairness of ReadStep, WF_timingsVars(ReadStep), with its
\* enabledness written out: while Reading, exactly one of the four cases
\* applies to the line at tPos and each changes tPos or tPhase, so
\* ENABLED <<ReadStep>>_timingsVars is Reading.  (Spelled out because TLC
\* re-evaluates the codec's LETs without caching inside ENABLED.)
ReadFairness == <>[]Reading => []<><<ReadStep>>_timingsVars

\* The script's own steps are fair: once started it keeps running.  The
\* answer to input() is the user's and is not: PromptEnter and PromptEOF
\* have no fairness.  The scripts make one query after reading.
FairSpec ==
    /\ Spec
    /\ ReadFairness /\ WF_timingsVars(EndRead) /\ WF_timingsVars(Query)

\* A report run ends: readResultsFile finishes the file and the script
\* draws its table or graph, or the script dies; it never waits forever.
Termination == <>(tPhase = "crashed" \/ report.kind # "none")

\* A report run over a file whose lines the benchmark spelled as toString
\* does ends: the consistency check never stops readResultsFile in input(),
\* so under fairness of the script's own steps it reads every line, and the
\* script draws its table or graph or dies on a line toParam cannot take.
CanonTermination ==
    (\A i \in DOMAIN tFile : tFile[i] \in MCCanonLines) => Termination

====
