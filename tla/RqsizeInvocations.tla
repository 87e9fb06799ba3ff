------------------------- MODULE RqsizeInvocations -------------------------
(***************************************************************************)
(* Successive invocations of run_rqsize_experiments.py over the files they *)
(* leave behind.  One invocation, unless graphs_only, clears and refills   *)
(* the three trial directories family by family (verlib, C++, Java), cats  *)
(* each directory into its combined results file and plots the three      *)
(* combined files; a trial whose command exits non-zero ends the script    *)
(* with exit(1).  A graphs_only invocation (a ninth argument) only plots.  *)
(* The combined files are named after num_keys, update_threads and        *)
(* rq_threads alone, which every invocation here shares, so each           *)
(* invocation reads what the earlier ones wrote.                           *)
(*                                                                         *)
(* A file's content is abstracted to the trials it holds: a trial is the   *)
(* invocation that ran it, its family, its file number and whether its     *)
(* command completed.  RqsizeExperiment and RqsizeReport model what a      *)
(* trial's lines say and how the plot reads them.                          *)
(***************************************************************************)
EXTENDS Naturals, Sequences, FiniteSets, Functions, TLC

CONSTANTS
    MaxRuns,      \* invocations in a behaviour
    Sizes,        \* possible lengths of the rqsizes argument
    NumDS,        \* family -> number of data structures in its list
    Repeats,      \* num_repeats (the C++ loop runs each trial this often)
    Kills         \* TRUE: the script may be killed between two steps or in a cat

VARIABLES
    pc,        \* "idle" (no script running), a family, "cat" or "plot"
    run,       \* invocations started so far; the running one's id
    size,      \* len(rqsizes) of the running invocation
    j,         \* the loop counter i of the current family
    catAt,     \* the next cat command of lines 106-108
    fs,        \* family -> (file number -> trial): the data-trials* files
    comb,      \* family -> the trials in its combined results file
    present,   \* the families whose combined file exists
    report,    \* the last plot: none, crashed, or the trials drawn
    lastCat    \* (history) family -> <<invocation, len(rqsizes), completed>>
               \* of its last cat

invVars == <<pc, run, size, j, catAt, fs, comb, present, report, lastCat>>

Fam == {"verlib", "cpp", "java"}
RunOrder == <<"verlib", "cpp", "java">>
CatOrder == <<"java", "cpp", "verlib">>

\* The number of trial files a family's loop writes.
Trials(f, n) == NumDS[f] * n * (IF f = "cpp" THEN Repeats ELSE 1)

Trial(r, f, i, ok) == [run |-> r, fam |-> f, no |-> i, ok |-> ok]

\* rm -rf of a family's trial directory
Rm(f) == [fs EXCEPT ![f] = <<>>]

\* A plot and, as history, each family's last cat when it was drawn.
Drawn(k, t) == [kind |-> k, trials |-> t, cats |-> lastCat]

Init ==
    /\ pc = "idle" /\ run = 0 /\ size = 0 /\ j = 0 /\ catAt = 1
    /\ fs = [f \in Fam |-> <<>>]
    /\ comb = [f \in Fam |-> {}] /\ present = {}
    /\ lastCat = [f \in Fam |-> <<0, 0, TRUE>>]
    /\ report = [kind |-> "none", trials |-> {}, cats |-> lastCat]

\* The user starts the script with n rqsizes, graphs_only or not.  A full
\* run clears the verlib directory first (line 53).
Start(go, n) ==
    /\ pc = "idle" /\ run < MaxRuns
    /\ run' = run + 1 /\ size' = n /\ j' = 0
    /\ IF go THEN pc' = "plot" /\ UNCHANGED fs
       ELSE pc' = "verlib" /\ fs' = Rm("verlib")
    /\ UNCHANGED <<catAt, comb, present, report, lastCat>>

\* (mutant) the file named before i = i+1
RunTrialBeforeIncrement ==
    /\ pc \in Fam /\ j < Trials(pc, size)
    /\ fs' = [fs EXCEPT ![pc] = (j :> Trial(run, pc, j, TRUE)) @@ @]
    /\ j' = j + 1
    /\ UNCHANGED <<pc, run, size, catAt, comb, present, report, lastCat>>

\* A trial whose command succeeds: data-trials<i> holds its output.
RunTrial ==
    /\ pc \in Fam /\ j < Trials(pc, size)
    /\ fs' = [fs EXCEPT ![pc] = (j + 1 :> Trial(run, pc, j + 1, TRUE)) @@ @]
    /\ j' = j + 1
    /\ UNCHANGED <<pc, run, size, catAt, comb, present, report, lastCat>>

\* A trial whose command exits non-zero: exit(1).  The verlib and C++ file
\* already holds the command line and whatever the binary wrote; the Java
\* program writes its own csv, or nothing.
FailTrial ==
    /\ pc \in Fam /\ j < Trials(pc, size)
    /\ \/ fs' = [fs EXCEPT ![pc] = (j + 1 :> Trial(run, pc, j + 1, FALSE)) @@ @]
       \/ pc = "java" /\ UNCHANGED fs
    /\ pc' = "idle"
    /\ UNCHANGED <<run, size, j, catAt, comb, present, report, lastCat>>

\* (mutant) the C++ directory is not cleared before its loop
NextFamilyNoRm ==
    /\ pc \in Fam /\ j = Trials(pc, size)
    /\ j' = 0
    /\ CASE pc = "verlib" -> pc' = "cpp" /\ UNCHANGED <<fs, catAt>>
         [] pc = "cpp"    -> pc' = "java" /\ fs' = Rm("java") /\ UNCHANGED catAt
         [] pc = "java"   -> pc' = "cat" /\ catAt' = 1 /\ UNCHANGED fs
    /\ UNCHANGED <<run, size, comb, present, report, lastCat>>

\* A family's loop is over: the next one starts with i = 0 after clearing
\* its directory (lines 72, 93-94); after Java come the cats.
NextFamily ==
    /\ pc \in Fam /\ j = Trials(pc, size)
    /\ j' = 0
    /\ CASE pc = "verlib" -> pc' = "cpp" /\ fs' = Rm("cpp") /\ UNCHANGED catAt
         [] pc = "cpp"    -> pc' = "java" /\ fs' = Rm("java") /\ UNCHANGED catAt
         [] pc = "java"   -> pc' = "cat" /\ catAt' = 1 /\ UNCHANGED fs
    /\ UNCHANGED <<run, size, comb, present, report, lastCat>>

\* cat <dir>/data-* > <combined file>: every trial file of the directory.
Cat ==
    LET f == CatOrder[catAt] IN
    /\ pc = "cat"
    /\ comb' = [comb EXCEPT ![f] = Range(fs[f])]
    /\ present' = present \cup {f}
    /\ lastCat' = [lastCat EXCEPT ![f] = <<run, size, TRUE>>]
    /\ IF catAt = Len(CatOrder)
       THEN pc' = "plot" /\ UNCHANGED catAt
       ELSE catAt' = catAt + 1 /\ UNCHANGED pc
    /\ UNCHANGED <<run, size, j, fs, report>>

\* The script is killed inside a cat: the shell has truncated the combined
\* file and cat has copied the first k trial files (k < all) in glob order.
CatKilled ==
    LET f == CatOrder[catAt] IN
    /\ Kills /\ pc = "cat"
    /\ \E k \in 0..(Cardinality(DOMAIN fs[f]) - 1) :
           comb' = [comb EXCEPT ![f] = {fs[f][i] : i \in DOMAIN fs[f] \cap 1..k}]
    /\ present' = present \cup {f}
    /\ lastCat' = [lastCat EXCEPT ![f] = <<run, size, FALSE>>]
    /\ pc' = "idle"
    /\ UNCHANGED <<run, size, j, catAt, fs, report>>

\* plot_combined_rqsize_graphs reads the three combined files; an absent
\* one is a FileNotFoundError and no graph.
Plot ==
    /\ pc = "plot"
    /\ report' = IF present = Fam
                 THEN Drawn("plot", UNION {comb[f] : f \in Fam})
                 ELSE Drawn("crashed", {})
    /\ pc' = "idle"
    /\ UNCHANGED <<run, size, j, catAt, fs, comb, present, lastCat>>

\* The script is killed (Ctrl-C, the machine's OOM killer) mid-run.
Kill ==
    /\ Kills /\ pc # "idle"
    /\ pc' = "idle"
    /\ UNCHANGED <<run, size, j, catAt, fs, comb, present, report, lastCat>>

Next ==
    \/ \E go \in BOOLEAN, n \in Sizes : Start(go, n)
    \/ RunTrial \/ FailTrial \/ NextFamily \/ Cat \/ CatKilled \/ Plot \/ Kill

Spec == Init /\ [][Next]_invVars

-----------------------------------------------------------------------------
(* Properties *)

TypeOK ==
    /\ pc \in {"idle", "cat", "plot"} \cup Fam
    /\ run \in 0..MaxRuns /\ j \in Nat /\ catAt \in 1..Len(CatOrder)
    /\ \A f \in Fam : \A t \in comb[f] \cup Range(fs[f]) :
           t.fam = f /\ t.run \in 1..MaxRuns /\ t.no \in Nat \ {0} /\ t.ok \in BOOLEAN
    /\ present \subseteq Fam /\ report.kind \in {"none", "crashed", "plot"}

\* The trials of family f that invocation c[1], with c[2] rqsizes, runs
\* when none of them fails.
FamTrials(f, c) == {Trial(c[1], f, i, TRUE) : i \in 1..Trials(f, c[2])}

\* A graph, drawn by a full or by a graphs_only invocation, shows for each
\* family only trials of the invocation that last ran that family's cat,
\* each completed, and no file of a failed trial or of an earlier
\* invocation with more rqsizes; and all of them unless that cat was
\* killed.  This is what the rm before each family's loop (lines 53, 72,
\* 93-94) and the exit(1) before the cats (lines 65-67) are for.  A kill
\* between two cats can leave the families' last cats in different
\* invocations, and the graph then mixes them; a kill inside a cat leaves
\* a truncated file that a later graphs_only run draws as it is.
FamilyFromLastCat ==
    report.kind = "plot" =>
        \A f \in Fam :
            LET part == {t \in report.trials : t.fam = f}
                c == report.cats[f]
            IN  /\ part \subseteq FamTrials(f, c)
                /\ c[3] => part = FamTrials(f, c)

====
