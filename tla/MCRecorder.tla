----------------------------- MODULE MCRecorder -----------------------------
(***************************************************************************)
(* A small instance of the recorder.                                       *)
(***************************************************************************)
EXTENDS Recorder

\* Once every recording is disturbed no property but TypeOK, which is proved,
\* says anything: the search ends there.
SomeUndisturbed == disturbed # Recs
=============================================================================
