----------------------------- MODULE MCAsyncPipe -----------------------------
(* AsyncPipe on small instances.                                           *)
EXTENDS AsyncPipe
=============================================================================
