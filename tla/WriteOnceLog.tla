---------------------------- MODULE WriteOnceLog ----------------------------
(***************************************************************************)
(* What a Result Artifact promises its consumers, without journals, stages *)
(* and interruptions: a log of files in which no path occurs twice, which  *)
(* a manifest may seal once and for all.  An entry appears as a whole, and *)
(* may appear although its writer was never told; what a writer or the     *)
(* holder of a receipt was told is in the log.                             *)
(***************************************************************************)
EXTENDS Naturals, Sequences

CONSTANTS Files, Contents, Manifest, Unsealed

VARIABLES
  log,      \* the completed files in the order of their completion
  seal,     \* what the manifest states, or Unsealed
  acked,    \* entries whose writers were told
  receipts  \* the sealed logs the receipts given out describe

logVars == <<log, seal, acked, receipts>>

Paths == {log[i].path : i \in 1..Len(log)}

Init == log = <<>> /\ seal = Unsealed /\ acked = {} /\ receipts = {}

AppendFile ==
  /\ seal = Unsealed
  /\ \E f \in Files \ Paths, c \in Contents :
       log' = Append(log, [path |-> f, content |-> c])
  /\ UNCHANGED <<seal, acked, receipts>>

Seal ==
  /\ seal = Unsealed
  /\ seal' \in Contents
  /\ UNCHANGED <<log, acked, receipts>>

\* The writer of an entry in the log is told so.
Acknowledge ==
  /\ \E i \in 1..Len(log) : acked' = acked \cup {log[i]}
  /\ UNCHANGED <<log, seal, receipts>>

\* Every receipt describes the sealed log.
GiveReceipt ==
  /\ seal # Unsealed
  /\ receipts' = receipts \cup {Append(log, [path |-> Manifest, content |-> seal])}
  /\ UNCHANGED <<log, seal, acked>>

Next == AppendFile \/ Seal \/ Acknowledge \/ GiveReceipt

Spec == Init /\ [][Next]_logVars
=============================================================================
