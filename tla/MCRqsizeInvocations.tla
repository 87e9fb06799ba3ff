------------------------ MODULE MCRqsizeInvocations ------------------------
EXTENDS RqsizeInvocations

\* Two verlib structures and one of each other family: a run with more
\* rqsizes leaves trial files that a run with fewer does not overwrite,
\* and the verlib loop writes up to six files, so a killed cat can stop
\* in the middle of a family (still fewer than ten, so glob order is
\* numeric order).
MCNumDS == [f \in Fam |-> IF f = "verlib" THEN 2 ELSE 1]

====
