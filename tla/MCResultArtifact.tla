-------------------------- MODULE MCResultArtifact --------------------------
(* Instances of ResultArtifact for TLC.                                    *)
EXTENDS ResultArtifact
=============================================================================
