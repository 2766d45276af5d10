----------------------- MODULE MCTeleporterRegistry -----------------------
(***************************************************************************)
(* TeleporterRegistry for TLC.  Two teleporters can wait for each other,   *)
(* meet in a jam and leave it; ids and workers are interchangeable.        *)
(*                                                                         *)
(* What moves during a behaviour, beside requests and restarts: either the *)
(* jams, or heartbeats and time.  Neither has an effect on the other, and  *)
(* no property is about both.                                              *)
(***************************************************************************)
EXTENDS TeleporterRegistry, TLC

VARIABLE moving  \* what moves

Alike == Permutations(Teleporters) \cup Permutations(Workers)

PartInit == Init /\ moving \in {"jams", "heartbeats"}
PartNext ==
  /\ Next
  /\ moving = "heartbeats" => jams' = {} /\ waiting' = {}
  /\ moving = "jams" => \A t \in Teleporters : beat'[t] = Absent
  /\ UNCHANGED moving
PartSpec == PartInit /\ [][PartNext]_<<vars, moving>>
=============================================================================
