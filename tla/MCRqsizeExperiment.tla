------------------------- MODULE MCRqsizeExperiment -------------------------
(***************************************************************************)
(* Model values for RqsizeExperiment.  The script's defaults are scaled    *)
(* down: one data structure per family, two range-query sizes, one repeat, *)
(* a Mop/s divisor of 4 instead of 10^6.  The measured numbers are chosen  *)
(* so that warm-up and measured rows differ, means can be zero, a round    *)
(* may or may not print a retry line, and the Java experiment may carry a  *)
(* subtag whose text contains the text of another subtag.                  *)
(***************************************************************************)
EXTENDS RqsizeExperiment

MCVerlibDS == <<"btree_lf_versioned_ls">>
MCCppDS == <<"citrus.rq_bundle">>
MCJavaDS == <<"LFCA">>
\* java_datastructures emptied, as verlib_datastructures is in a comment
MCNoJavaDS == <<>>

\* the default command line's sizes, and an odd one
MCRqSizes == <<8, 64>>
MCOddRqSizes == <<8, 7>>

MCVerlibMeasures ==
    {[rqt |-> 1, upt |-> 2, retry |-> NoRetry],
     [rqt |-> 3, upt |-> 1, retry |-> 2]}

MCCppMeasures ==
    {[upd |-> 4, rq |-> 8], [upd |-> 0, rq |-> 4]}

\* every row completed range queries
MCJavaMeasures ==
    {[time |-> 1, nupd |-> 4, nrq |-> 2, tput |-> 0],
     [time |-> 2, nupd |-> 4, nrq |-> 1, tput |-> 0],
     [time |-> 1, nupd |-> 0, nrq |-> 2, tput |-> 0]}

\* a row may complete no range query (its throughput column then counts)
MCJavaMeasuresNoRq ==
    {[time |-> 1, nupd |-> 4, nrq |-> 2, tput |-> 8],
     [time |-> 1, nupd |-> 4, nrq |-> 0, tput |-> 8]}

\* with rq_threads = 0 no row completes a range query
MCJavaMeasuresNoRqThreads ==
    {[time |-> 1, nupd |-> 4, nrq |-> 0, tput |-> 8],
     [time |-> 2, nupd |-> 2, nrq |-> 0, tput |-> 2]}

MCExperiments ==
    {[text |-> {}, tag |-> ""],
     [text |-> {"multisearch-nonatomic", "multisearch"}, tag |-> "multisearch-nonatomic"]}

MCPlainExperiments == {[text |-> {}, tag |-> ""]}

=============================================================================
