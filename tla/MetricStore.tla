---------------------------- MODULE MetricStore ----------------------------
(***************************************************************************)
(* The Metric Store as spec.md describes ingestion: an adapter reads a log *)
(* line by line; a line that is not a measurement is ignored; a            *)
(* measurement line adds its throughput sample to the samples of its       *)
(* configuration (every key dimension, numbers compared by value); a       *)
(* malformed measurement line is fatal for the whole run (MalformedLine);  *)
(* at the end of the log the store is built, an empty one included (a      *)
(* missing configuration is a MissingKey for the queries, never fatal).    *)
(* The log and the meaning of a line are parameters.                       *)
(***************************************************************************)
EXTENDS Naturals, Sequences, TLC

CONSTANTS
    Measurement(_),   \* the line is a measurement (the adapter's trigger)
    Malformed(_),     \* a measurement line of the wrong shape
    Config(_),        \* the configuration a measurement line belongs to
    Sample(_)         \* the throughput it reports

VARIABLES
    log,      \* the log being ingested
    at,       \* the next line
    store,    \* configuration -> its samples, in log order
    status    \* "reading", "built", "failed"

storeVars == <<log, at, store, status>>

Init == at = 1 /\ store = <<>> /\ status = "reading"

Line == log[at]
Reading == status = "reading" /\ at <= Len(log)

Ignore ==
    /\ Reading /\ ~Measurement(Line)
    /\ at' = at + 1
    /\ UNCHANGED <<log, store, status>>

Ingest ==
    /\ Reading /\ Measurement(Line) /\ ~Malformed(Line)
    /\ store' = IF Config(Line) \in DOMAIN store
                THEN [store EXCEPT ![Config(Line)] = Append(@, Sample(Line))]
                ELSE store @@ (Config(Line) :> <<Sample(Line)>>)
    /\ at' = at + 1
    /\ UNCHANGED <<log, status>>

Fail ==
    /\ Reading /\ Measurement(Line) /\ Malformed(Line)
    /\ status' = "failed"
    /\ UNCHANGED <<log, at, store>>

Build ==
    /\ status = "reading" /\ at > Len(log)
    /\ status' = "built"
    /\ UNCHANGED <<log, at, store>>

Next == Ignore \/ Ingest \/ Fail \/ Build

\* Once built the store is immutable, which the stuttering steps allow.
Spec == Init /\ [][Next]_storeVars

====
