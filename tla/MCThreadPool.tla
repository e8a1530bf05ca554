---------------------------- MODULE MCThreadPool ----------------------------
(* The thread pool on small sets of threads. *)
EXTENDS ThreadPool

=============================================================================
