---------------------------- MODULE MCCoroutine ----------------------------
(* Coroutine on a small instance, by itself.                               *)
EXTENDS Coroutine
=============================================================================
