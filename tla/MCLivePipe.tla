----------------------------- MODULE MCLivePipe -----------------------------
(* Model-checking instances of LivePipe: two threads, one object with two   *)
(* values, one faulting address, one known and one unknown module.          *)
EXTENDS LivePipe
=============================================================================
