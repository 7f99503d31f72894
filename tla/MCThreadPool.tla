---------------------------- MODULE MCThreadPool ----------------------------
(* TLC instances of ThreadPool; the bounds are in the .cfg files.             *)
EXTENDS ThreadPool, TLC

\* One priority below THREAD_POOL_PRIO_MIN, one in the middle.
MCPrios == {-3, 0}

\* Nothing but equality tells workers apart.
WorkerSymmetry == Permutations(Workers)
=============================================================================
