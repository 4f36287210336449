------------------------- MODULE MCWorkerLifecycle -------------------------
(* Instance of WorkerLifecycle for TLC. *)
EXTENDS WorkerLifecycle

\* One worker, replaced once by another.
MCSizes == <<1, 1>>
=============================================================================
