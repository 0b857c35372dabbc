-------------------------- MODULE MCRunNormalizer ---------------------------
(***************************************************************************)
(* Small instances of RunNormalizer for TLC.                               *)
(***************************************************************************)
EXTENDS RunNormalizer, TLC

CONSTANTS d1, d2, primary, baseline

Primary == [name |-> primary, data_keys |-> "time" :> FALSE @@ "image" :> TRUE]
Baseline(keys) == [name |-> baseline, data_keys |-> keys]

Run(other) == [d \in Descriptors |-> IF d = d1 THEN Primary ELSE other]

\* Two descriptors of one stream, or of two, where the image is external in both,
\* or internal in one, or a key cannot be renamed.
MCRuns ==
     {Run(Primary), Run(Baseline("image" :> TRUE))} \X {"unfilled"} \X {TRUE}
\cup {Run(Baseline("image" :> FALSE @@ "x" :> FALSE))} \X {"absent", "unfilled", "filled"} \X {FALSE}
\cup {<<Run(Baseline("time" :> FALSE @@ "time_" :> FALSE)), "absent", FALSE>>}
=============================================================================
