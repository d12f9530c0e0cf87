-------------------------- MODULE MCWorkerProtocol --------------------------
(* Instances of WorkerProtocol for TLC.                                    *)
EXTENDS WorkerProtocol
=============================================================================
