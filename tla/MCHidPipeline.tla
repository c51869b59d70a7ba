---------------------------- MODULE MCHidPipeline ----------------------------
(* A ring of four slots (three entries) and four stamped reports: the ring
   fills, overflows and wraps, and a wakeup reset meets it in every fill. *)
EXTENDS HidPipeline

MCReport == 0..MaxStaged

==============================================================================
