------------------------------ MODULE InputScan ------------------------------
(***************************************************************************)
(* The inputs of one tick: keyboard_task() scans the matrix and then the   *)
(* encoder.  The two share no state; Keyboard takes their results (a set   *)
(* of edges, at most one step) as its arbitrary inputs.                    *)
(***************************************************************************)
EXTENDS MatrixScan, Encoder

inputVars == <<matrixVars, encoderVars>>

InputInit == matrix_init /\ encoder_init

InputTick == MatrixNext /\ EncoderTick

InputSpec == InputInit /\ [][InputTick]_inputVars

(* The variables hold values the declarations of both files allow. *)
InputTypeOK == MatrixTypeOK /\ EncoderTypeOK
=============================================================================
