---------------------------- MODULE MCReportQueue ----------------------------
(* A ring of four slots, three reports and a four-valued wait counter: full,
   wrapped and empty rings are all reached, and so is the 0 -> 3 wrap. *)
EXTENDS ReportQueue

CONSTANTS r1, r2, zero

MCReport == {r1, r2, zero}

==============================================================================
