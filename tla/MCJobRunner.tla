----------------------------- MODULE MCJobRunner -----------------------------
(***************************************************************************)
(* Instances of JobRunner for TLC: the constants of each configuration.    *)
(***************************************************************************)
EXTENDS JobRunner

\* One kind of job for each shape of worker body: with held data and
\* follow-ups (which adds jobs of the plain shape), and with a missing-entry
\* exit.
EachShape == {"ingest", "mood"}

AnyMood == BOOLEAN
WithMood == {TRUE}
=============================================================================
