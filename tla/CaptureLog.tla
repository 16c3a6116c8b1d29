------------------------------ MODULE CaptureLog ------------------------------
(***************************************************************************)
(* What input.txt promises to whoever reads it, whenever they read it: the *)
(* complete lines on disk are the packets of one capture in the order they *)
(* came, from the first one on, with no packet left out in between.  Lines *)
(* are added and never changed or taken back until the next capture starts *)
(* the file again.  A line is represented by the number of its packet.     *)
(***************************************************************************)
EXTENDS Naturals, Sequences, SequencesExt

VARIABLES
  delivered,   \* packets the capture has been given so far
  disk         \* packet numbers of the complete lines in the file

logVars == <<delivered, disk>>

\* The packets 1, 2, ... in order; one that is repeated is repeated at once.
Gapless(s) ==
  \A i \in 1..Len(s) : s[i] = 1 \/ (i > 1 /\ s[i] \in {s[i-1], s[i-1] + 1})

LogInit == delivered = 0 /\ disk = <<>>

Start == delivered' = 0 /\ disk' = <<>>

Deliver == delivered' = delivered + 1 /\ UNCHANGED disk

Write ==
  /\ IsPrefix(disk, disk')
  /\ Gapless(disk')
  /\ \A i \in 1..Len(disk') : disk'[i] \in 1..delivered
  /\ UNCHANGED delivered

LogNext == Start \/ Deliver \/ Write

LogSpec == LogInit /\ [][LogNext]_logVars
=============================================================================
