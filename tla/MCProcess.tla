------------------------------ MODULE MCProcess -------------------------------
(***************************************************************************)
(* Process for TLC: two command lines that differ in every address.        *)
(***************************************************************************)
EXTENDS Process

TwoLines ==
  {[LOCAL_IP |-> <<1, 3>>, DEST_IP |-> <<2, 2>>, MASK_IP |-> <<3, 0>>, GTWAY_IP |-> <<1, 1>>],
   [LOCAL_IP |-> <<0, 2>>, DEST_IP |-> <<1, 3>>, MASK_IP |-> <<2, 3>>, GTWAY_IP |-> <<0, 3>>]}
=============================================================================
