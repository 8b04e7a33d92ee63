--------------------------- MODULE MCAsyncRuntime ---------------------------
(* A small instance of AsyncRuntime: the constants are model values.       *)
EXTENDS AsyncRuntime
=============================================================================
