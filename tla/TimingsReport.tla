--------------------------- MODULE TimingsReport ---------------------------
(***************************************************************************)
(* timings/create_graphs_ppopp.py: the native-text report engine the verlib *)
(* experiment scripts call.  readResultsFile scans a results file for the  *)
(* "./" lines the benchmark prints (one per trial: the structure name, the *)
(* configuration and the throughput), turns each into a parameter dict     *)
(* with toParam, keys it with toString, checks that the key reproduces the *)
(* line (asking the user with input() when it does not), and averages the  *)
(* samples of every key.  print_table and the print_*_graph functions then *)
(* look up keys built with toString from the caller's params.              *)
(*                                                                         *)
(* Names are TLA+ strings, on which TLC evaluates Len, SubSeq and \o, so   *)
(* splitdsname's startswith, 'in' and replace are modelled character by   *)
(* character.  A number as printed is a token [w, fr]: the digits before  *)
(* the point and the digits after it (<<>> when there is no point).  A    *)
(* Python number is [f, w, fr]: float or int, fraction digits without     *)
(* trailing zeros.  Floats are exact (module ReportStats).                *)
(***************************************************************************)
EXTENDS Integers, Sequences, SequencesExt, TLC, ReportStats

VARIABLES
    tFile,        \* the results file: a sequence of lines
    tPhase,       \* "read", "prompt" (blocked in input()), "ready", "crashed"
    tPos,         \* the line being read
    tRaw,         \* throughputs_raw: key -> samples
    throughputs,  \* key -> mean
    parameters,   \* dimension -> the values seen (deduplicated with ==)
    report        \* the last table or set of series built from the store

timingsVars == <<tFile, tPhase, tPos, tRaw, throughputs, parameters, report>>

ParamList == <<"ds", "per", "query_type", "up", "range", "rs", "trans", "n", "p", "z">>
NumericDims == {"up", "range", "rs", "trans", "n", "p", "z"}
DsList == <<"arttree_lf", "btree_lf", "arttree_lck", "btree_lck", "dlist_lf",
            "list_lf", "hash_block_cas">>
DsListOther == <<"srivastava_abtree_pub", "leis_olc_art">>
\* the keys of the colors/names dicts and of colors2/names2
ColorKeys == {"btree_lf_versioned_hs", "btree_lck_versioned_hs", "btree_lck_noversion",
              "btree_lf_noversion", "srivastava_abtree_pub", "arttree_lf_versioned_hs",
              "arttree_lck_versioned_hs", "arttree_lck_noversion", "arttree_lf_noversion",
              "leis_olc_art"}
Color2Keys == {"arttree_lf_versioned_hs", "arttree_lf_noversion", "arttree_lf_indirect_hs",
               "arttree_lf_noshortcut_hs", "hash_block_cas_versioned_ws",
               "hash_block_cas_versioned_rs", "hash_block_cas_versioned_tl2s",
               "hash_block_cas_versioned_ls", "hash_block_cas_versioned_hs",
               "hash_block_cas_versioned_ns"}
Dash == "-"                        \* the table's sentinel for a missing cell
InvalidKey == [name |-> "invalid key"]

-----------------------------------------------------------------------------
(* Strings and numbers *)

\* x in s, for strings
InStr(x, s) == x \in {SubSeq(s, i, i + Len(x) - 1) : i \in 1..(Len(s) - Len(x) + 1)}

\* s.replace(x, r): every occurrence, left to right, scanning from index i
RECURSIVE ReplaceFrom(_, _, _, _)
ReplaceFrom(s, x, r, i) ==
    IF Len(s) - i + 1 < Len(x) THEN SubSeq(s, i, Len(s))
    ELSE IF SubSeq(s, i, i + Len(x) - 1) = x THEN r \o ReplaceFrom(s, x, r, i + Len(x))
    ELSE SubSeq(s, i, i) \o ReplaceFrom(s, x, r, i + 1)
Replace(s, x, r) == ReplaceFrom(s, x, r, 1)

Tok(w, fr) == [w |-> w, fr |-> fr]
\* Python values as the scripts write them: 16, 0.5
PyInt(w) == [f |-> FALSE, w |-> w, fr |-> <<>>]
PyFloat(w, fr) == [f |-> TRUE, w |-> w, fr |-> fr]

RECURSIVE StripZeros(_)
StripZeros(fr) == IF fr # <<>> /\ Last(fr) = 0 THEN StripZeros(Front(fr)) ELSE fr

\* (mutant) the value keeps the digits as printed
ToNumberKeepZeros(t) == [f |-> t.fr # <<>>, w |-> t.w, fr |-> t.fr]
\* float(tok) if '.' in tok else int(tok)
ToNumber(t) == [f |-> t.fr # <<>>, w |-> t.w, fr |-> StripZeros(t.fr)]

\* str(x): an int prints its digits, a float always has a fraction digit;
\* a string (already a token) is itself.
PyStr(x) ==
    IF "f" \in DOMAIN x
    THEN Tok(x.w, IF x.f /\ x.fr = <<>> THEN <<0>> ELSE x.fr)
    ELSE x

\* float(val_str) as an exact rational
TokRat(t) == Rat(t.w * 10 ^ Len(t.fr) + FoldLeft(LAMBDA a, d : 10 * a + d, 0, t.fr),
                 10 ^ Len(t.fr))

\* x == y in Python: numbers by value (0 == 0.0), strings by text
PyEq(d, x, y) == IF d \in NumericDims THEN x.w = y.w /\ x.fr = y.fr ELSE x = y

-----------------------------------------------------------------------------
(* The codec *)

\* splitdsname(name): <<ds, per>>, or None when no listed name matches.
None == <<>>
SplitDsName(name) ==
    LET other == {i \in 1..Len(DsListOther) : InStr(DsListOther[i], name)}
        listed == {i \in 1..Len(DsList) : IsPrefix(DsList[i], name)}
    IN  IF other # {} THEN <<DsListOther[Min(other)], "">>
        ELSE IF listed = {} THEN None
        ELSE LET ds == DsList[Min(listed)]
             IN  IF ds = name THEN <<ds, "non_per">> ELSE <<ds, Replace(name, ds \o "_", "")>>

\* the name of a "./" line with '../' and 'setbench/' removed
LineName(l) == Replace(Replace(l.name, "../", ""), "setbench/", "")

\* toParam(line[2:]): the numeric tokens after the name, in param_list order.
ToParam(l) ==
    LET sp == SplitDsName(LineName(l))
        t  == l.toks
    IN  [ds |-> sp[1], per |-> sp[2],
         query_type |-> IF InStr("mfind", l.qt) THEN "mfind" ELSE "find",
         up |-> ToNumber(t[1]), range |-> ToNumber(t[2]), rs |-> ToNumber(t[3]),
         trans |-> ToNumber(t[4]), n |-> ToNumber(t[5]), p |-> ToNumber(t[6]),
         z |-> ToNumber(t[7])]

\* (mutant) a per-kind size always resolved to the tree size
SizeOfTreeOnly(prm) ==
    IF "tree" \in DOMAIN prm.n /\ prm.per # "*" THEN prm.n.tree ELSE prm.n
\* toString's size: a per-kind size {'list', 'tree'} is resolved by 'list' in ds.
SizeOf(prm) ==
    IF "tree" \in DOMAIN prm.n /\ prm.per # "*"
    THEN IF InStr("list", prm.ds) THEN prm.n.list ELSE prm.n.tree
    ELSE prm.n

\* toString(param): the key; trans is not part of it.
ToStringKey(prm) ==
    LET dsName == IF prm.per \notin {"non_per", "*", ""} THEN prm.ds \o "_" \o prm.per
                  ELSE prm.ds
        size   == SizeOf(prm)
    IN  IF prm.per = "ro" /\ prm.ds = "list" THEN InvalidKey
        ELSE [name |-> dsName, up |-> PyStr(prm.up), range |-> PyStr(prm.range),
              qt |-> prm.query_type, rs |-> PyStr(prm.rs), n |-> PyStr(size),
              p |-> PyStr(prm.p), z |-> PyStr(prm.z)]

\* The consistency check: the line without 'trans=0,' against key + ',' + val_str.
\* (mutant) the line compared with its 'trans=0,' left in
LineTextKeepTrans(l) == [name |-> LineName(l), qt |-> l.qt, toks |-> l.toks]
LineText(l) ==
    [name |-> LineName(l), qt |-> l.qt,
     toks |-> IF l.toks[4] = Tok(0, <<>>) THEN RemoveAt(l.toks, 4) ELSE l.toks]
KeyText(k, val) ==
    IF k = InvalidKey THEN [name |-> k.name, qt |-> "", toks |-> <<val>>]
    ELSE [name |-> k.name, qt |-> k.qt, toks |-> <<k.up, k.range, k.rs, k.n, k.p, k.z, val>>]
Consistent(l) == LineText(l) = KeyText(ToStringKey(ToParam(l)), Last(l.toks))

-----------------------------------------------------------------------------
(* readResultsFile *)

TLine == tFile[tPos]
IsMeasurement(l) == l.echo /\ ~l.hdr
Reading == tPhase = "read" /\ tPos <= Len(tFile)

\* 'update_throughput' lines and lines not starting with './' are skipped.
SkipLine ==
    /\ Reading /\ (TLine.hdr \/ ~TLine.echo)
    /\ tPos' = tPos + 1
    /\ UNCHANGED <<tFile, tPhase, tRaw, throughputs, parameters, report>>

\* toParam fails: an unknown name (None unpacked) or fewer than 7 numbers.
ParseFails(l) == SplitDsName(LineName(l)) = None \/ Len(l.toks) < 7

\* (mutant) the sample replaces the key's list instead of joining it
AddRawReplace(r, k, v) == IF k \in DOMAIN r THEN [r EXCEPT ![k] = <<v>>] ELSE r @@ (k :> <<v>>)

\* throughputs_raw[key].append(val), or a new list
AddRaw(r, k, v) == IF k \in DOMAIN r THEN [r EXCEPT ![k] = Append(@, v)] ELSE r @@ (k :> <<v>>)

\* The sample of the line under its key, and every dimension's value
\* appended to parameters[p] unless an equal value is there.
Record(l) ==
    LET prm == ToParam(l)
        key == ToStringKey(prm)
    IN  /\ tRaw' = AddRaw(tRaw, key, TokRat(Last(l.toks)))
        /\ parameters' = [d \in ToSet(ParamList) |->
                            IF d \in DOMAIN parameters
                            THEN IF \E v \in parameters[d] : PyEq(d, v, prm[d])
                                 THEN parameters[d] ELSE parameters[d] \cup {prm[d]}
                            ELSE {prm[d]}]
        /\ tPos' = tPos + 1

\* A "./" line whose toParam raises: an unknown name (TypeError unpacking
\* None) or fewer than 7 numbers (IndexError).
ParseLineFails ==
    /\ Reading /\ IsMeasurement(TLine) /\ ParseFails(TLine)
    /\ tPhase' = "crashed"
    /\ UNCHANGED <<tFile, tPos, tRaw, throughputs, parameters, report>>

\* A "./" line that toString reproduces: recorded.
ReadLine ==
    /\ Reading /\ IsMeasurement(TLine) /\ ~ParseFails(TLine) /\ Consistent(TLine)
    /\ Record(TLine)
    /\ UNCHANGED <<tFile, tPhase, throughputs, report>>

\* A "./" line that toString does not reproduce: print both, block in input().
MismatchLine ==
    /\ Reading /\ IsMeasurement(TLine) /\ ~ParseFails(TLine) /\ ~Consistent(TLine)
    /\ tPhase' = "prompt"
    /\ UNCHANGED <<tFile, tPos, tRaw, throughputs, parameters, report>>

\* The user presses Enter: the line is recorded anyway.
PromptEnter ==
    /\ tPhase = "prompt"
    /\ Record(TLine) /\ tPhase' = "read"
    /\ UNCHANGED <<tFile, throughputs, report>>

\* stdin is closed or not a terminal: input() raises EOFError.
PromptEOF ==
    /\ tPhase = "prompt"
    /\ tPhase' = "crashed"
    /\ UNCHANGED <<tFile, tPos, tRaw, throughputs, parameters, report>>

\* The closing loops: sum/len per key, then parameters[p].sort() for every
\* p of param_list, a KeyError when no line was recorded.  The sort leaves
\* the values, which is all that is read of parameters here.
EndRead ==
    /\ tPhase = "read" /\ tPos > Len(tFile)
    /\ IF DOMAIN parameters = {}
       THEN tPhase' = "crashed" /\ UNCHANGED throughputs
       ELSE /\ throughputs' = [k \in DOMAIN tRaw |-> SumOverLen(tRaw[k])]
            /\ tPhase' = "ready"
    /\ UNCHANGED <<tFile, tPos, tRaw, parameters, report>>

-----------------------------------------------------------------------------
(* Tables *)

\* custom_round: round half to even at 0, 1, 2 or 3 decimals by magnitude.
RGe(q, k) == q[1] >= k * q[2]
RoundHalfEven(a, b) ==
    LET fl == a \div b
        twice == 2 * (a - fl * b)
    IN  IF twice > b \/ (twice = b /\ fl % 2 = 1) THEN fl + 1 ELSE fl
CustomRound(q) ==
    LET d == CASE RGe(q, 100) -> 0 [] RGe(q, 10) -> 1 [] RGe(q, 1) -> 2 [] OTHER -> 3
    IN  Rat(RoundHalfEven(q[1] * 10 ^ d, q[2]), 10 ^ d)

\* print_table: the title reads params['n']['tree'] (a TypeError when n is
\* not a per-kind dict); empty rowvals/colvals default to the values seen;
\* a cell is custom_round of the mean or '-'.  Row and column order, the
\* text and the bar graph are layout.
PrintTable(row, col, params, rowvals, colvals) ==
    /\ tPhase = "ready"
    /\ IF "tree" \notin DOMAIN params.n
       THEN tPhase' = "crashed" /\ UNCHANGED report
       ELSE LET rows == IF rowvals = {} THEN parameters[row] ELSE rowvals
                cols == IF colvals = {} THEN parameters[col] ELSE colvals
                Key(r, c) == ToStringKey([params EXCEPT ![row] = r, ![col] = c])
                Cell(r, c) == IF Key(r, c) \in DOMAIN throughputs
                              THEN CustomRound(throughputs[Key(r, c)]) ELSE Dash
            IN  /\ report' = [kind |-> "table", row |-> row, col |-> col, params |-> params,
                              cell |-> [rc \in rows \X cols |-> Cell(rc[1], rc[2])]]
                /\ UNCHANGED tPhase
    /\ UNCHANGED <<tFile, tPos, tRaw, throughputs, parameters>>

\* mix_percent = [up, query_type, rs] into params; one row per lock-free
\* structure of ds_list that was seen; the five versioning columns.
MixColumns == {"indirect_hs", "noshortcut_hs", "versioned_hs", "reconce_hs", "noversion"}
PrintTableMixPercent(mix, params) ==
    PrintTable("ds", "per", [params EXCEPT !.up = mix[1], !.query_type = mix[2], !.rs = mix[3]],
               {DsList[i] : i \in {j \in 1..Len(DsList) : DsList[j] \in parameters["ds"]
                                                         /\ ~InStr("lck", DsList[j])}},
               MixColumns)

StampRows == {"dlist_lf_versioned", "arttree_lf_versioned", "btree_lf_versioned",
              "hash_block_cas_versioned"}
StampColumns == {"ws", "rs", "tl2s", "ls", "hs", "ns"}
PrintTableTimestampInc(mix, params) ==
    PrintTable("ds", "per", [params EXCEPT !.up = mix[1], !.query_type = mix[2], !.rs = mix[3]],
               StampRows, StampColumns)

-----------------------------------------------------------------------------
(* Graphs *)

\* algs: a structure of ds_list_other alone, any other one with each per
Algs(ds, per) ==
    UNION {IF a \in ToSet(DsListOther) THEN {[ds |-> a, per |-> ""]}
           ELSE {[ds |-> a, per |-> pp] : pp \in ToSet(per)} : a \in ToSet(ds)}
Label(al) == IF al.per = "" THEN al.ds ELSE al.ds \o "_" \o al.per
\* (mutant) the swept parameter is not set before the lookup
PointKeyNoSweep(prm, al, dim, x) == ToStringKey([prm EXCEPT !.ds = al.ds, !.per = al.per])
PointKey(prm, al, dim, x) == ToStringKey([prm EXCEPT !.ds = al.ds, !.per = al.per, ![dim] = x])

\* The body the four print_*_graph functions share: one series per alg,
\* deleted at the first x with no key; then max() of every series and its
\* colors/names entry (ValueError, KeyError).
SweepSeries(prm, ds, per, dim, xs, keys) ==
    LET algs == Algs(ds, per)
        done == {al \in algs : \A i \in 1..Len(xs) : PointKey(prm, al, dim, xs[i]) \in DOMAIN throughputs}
        series == [lb \in {Label(al) : al \in done} |->
                     LET al == CHOOSE a \in done : Label(a) = lb
                     IN  [i \in 1..Len(xs) |-> throughputs[PointKey(prm, al, dim, xs[i])]]]
    IN  /\ tPhase = "ready"
        /\ IF \E lb \in DOMAIN series : xs = <<>> \/ lb \notin keys
           THEN tPhase' = "crashed" /\ UNCHANGED report
           ELSE /\ report' = [kind |-> "series", params |-> prm, dim |-> dim, xs |-> xs,
                              algs |-> algs, series |-> series]
                /\ UNCHANGED tPhase
        /\ UNCHANGED <<tFile, tPos, tRaw, throughputs, parameters>>

\* The graph's fixed params; ds, per and the swept one are set per point.
GraphParams(up, qt, rs, z, n, p) ==
    [ds |-> "*", per |-> "*", query_type |-> qt, up |-> up, range |-> PyInt(0), rs |-> rs,
     trans |-> PyInt(0), n |-> n, p |-> p, z |-> z]
StrAll(xs) == [i \in DOMAIN xs |-> PyStr(xs[i])]

PrintScalabilityGraph(ds, per, size, up, qt, rs, zipf, threads) ==
    SweepSeries(GraphParams(up, qt, rs, zipf, size, PyInt(0)), ds, per, "p", threads, ColorKeys)
PrintUpdateGraph(ds, per, size, ups, qt, rs, zipf, threads) ==
    SweepSeries(GraphParams(PyInt(0), qt, rs, zipf, size, threads), ds, per, "up", StrAll(ups), Color2Keys)
PrintSizeGraph(ds, per, sizes, up, qt, rs, zipf, threads) ==
    SweepSeries(GraphParams(up, qt, rs, zipf, PyInt(0), threads), ds, per, "n", StrAll(sizes), Color2Keys)
PrintZipfGraph(ds, per, size, up, qt, rs, zipfs, threads) ==
    SweepSeries(GraphParams(up, qt, rs, PyInt(0), size, threads), ds, per, "z", StrAll(zipfs), Color2Keys)

-----------------------------------------------------------------------------
(* The engine: readResultsFile over a file, then the caller's queries. *)

NoReport == [kind |-> "none"]

TInit(files) ==
    /\ tFile \in files
    /\ tPhase = "read" /\ tPos = 1
    /\ tRaw = <<>> /\ throughputs = <<>> /\ parameters = <<>>
    /\ report = NoReport

\* A crashed script stays crashed.
Crashed == tPhase = "crashed" /\ UNCHANGED timingsVars

-----------------------------------------------------------------------------
(* Properties *)

\* A number printed by str(): no trailing zero after the point but the one
\* str(float) writes for a whole value.
CanonTok(t) == t.fr = <<>> \/ t.fr = <<0>> \/ Last(t.fr) # 0
KeyOK(k) == k = InvalidKey \/ \A d \in {"up", "range", "rs", "n", "p", "z"} : CanonTok(k[d])

\* Type invariant of the engine; store keys are printed with str().
TypeOK ==
    /\ tPhase \in {"read", "prompt", "ready", "crashed"}
    /\ tPos \in 1..(Len(tFile) + 1)
    /\ \A k \in DOMAIN tRaw : KeyOK(k) /\ Len(tRaw[k]) > 0
    /\ tPhase = "ready" => DOMAIN throughputs = DOMAIN tRaw
    /\ report.kind \in {"none", "table", "series"}

(* The configuration a measurement belongs to, as the spec defines it: every *)
(* dimension, trans included, with numbers compared by value (0 = 0.0), and *)
(* the per-kind size taken by whether the structure is a linked list.       *)
ListKinds == {"dlist_lf", "list_lf", "dlist_lf_versioned"}
Canon(x) == [w |-> x.w, fr |-> StripZeros(x.fr)]
VariantName(ds, per) == IF per \in {"non_per", ""} THEN ds ELSE ds \o "_" \o per
LineConfig(l) ==
    [name |-> LineName(l), qt |-> IF InStr("mfind", l.qt) THEN "mfind" ELSE "find",
     up |-> Canon(l.toks[1]), range |-> Canon(l.toks[2]), rs |-> Canon(l.toks[3]),
     trans |-> Canon(l.toks[4]), n |-> Canon(l.toks[5]), p |-> Canon(l.toks[6]),
     z |-> Canon(l.toks[7])]
QueryConfig(prm) ==
    [name |-> VariantName(prm.ds, prm.per), qt |-> prm.query_type,
     up |-> Canon(prm.up), range |-> Canon(prm.range), rs |-> Canon(prm.rs),
     trans |-> Canon(prm.trans),
     n |-> Canon(IF "tree" \in DOMAIN prm.n
                 THEN IF prm.ds \in ListKinds THEN prm.n.list ELSE prm.n.tree
                 ELSE prm.n),
     p |-> Canon(prm.p), z |-> Canon(prm.z)]
\* The throughputs the file holds for a configuration, in file order.
Samples(cfg) ==
    LET ls == SelectSeq(tFile, LAMBDA l : l.echo /\ ~l.hdr /\ LineConfig(l) = cfg)
    IN  [i \in DOMAIN ls |-> TokRat(Last(ls[i].toks))]

\* print_table: a cell is '-' exactly when the file has no measurement of
\* that configuration, and otherwise custom_round of the mean of exactly the
\* measurements of that configuration.
TableReflectLines ==
    tPhase = "ready" /\ report.kind = "table" =>
        \A rc \in DOMAIN report.cell :
            LET s == Samples(QueryConfig([report.params EXCEPT ![report.row] = rc[1],
                                                               ![report.col] = rc[2]]))
            IN  IF s = <<>> THEN report.cell[rc] = Dash
                ELSE report.cell[rc] # Dash /\ REq(report.cell[rc], CustomRound(Avg(s)))

\* The print_*_graph functions: an algorithm has a series exactly when the
\* file measured it at every x, and the series holds the means in x order.
SeriesReflectLines ==
    tPhase = "ready" /\ report.kind = "series" =>
        \A al \in report.algs :
            LET pts == [i \in 1..Len(report.xs) |->
                          Samples(QueryConfig([report.params EXCEPT !.ds = al.ds, !.per = al.per,
                                                                    ![report.dim] = report.xs[i]]))]
                drawn == Label(al) \in DOMAIN report.series
            IN  /\ drawn <=> \A i \in DOMAIN pts : pts[i] # <<>>
                /\ drawn => \A i \in DOMAIN pts : REq(report.series[Label(al)][i], Avg(pts[i]))

-----------------------------------------------------------------------------
(* readResultsFile implements the Metric Store's ingestion (MetricStore).  *)

\* A key's configuration: toString's fields by value; the key has no trans,
\* so a key stands for the trans=0 configuration.
KeyConfig(k) ==
    [name |-> k.name, qt |-> k.qt, up |-> Canon(k.up), range |-> Canon(k.range),
     rs |-> Canon(k.rs), trans |-> Canon(Tok(0, <<>>)), n |-> Canon(k.n),
     p |-> Canon(k.p), z |-> Canon(k.z)]
LineSample(l) == TokRat(Last(l.toks))
StoreOf == [c \in {KeyConfig(k) : k \in DOMAIN tRaw} |->
              tRaw[CHOOSE k \in DOMAIN tRaw : KeyConfig(k) = c]]
StatusOf == CASE tPhase \in {"read", "prompt"} -> "reading"
              [] tPhase = "ready"              -> "built"
              [] tPhase = "crashed"            -> "failed"

Store == INSTANCE MetricStore
           WITH log <- tFile, at <- tPos, store <- StoreOf, status <- StatusOf,
                Measurement <- IsMeasurement, Malformed <- ParseFails,
                Config <- LineConfig, Sample <- LineSample

====
