---------------------------- MODULE MCStreamPanel -----------------------------
(***************************************************************************)
(* All commands of StreamControl, those of one group in each behaviour.    *)
(* One command runs at a time, so commands meet only in what they leave in *)
(* the registers: a group holds the commands that write the same unit,     *)
(* and the last one a command that writes each unit.                       *)
(***************************************************************************)
EXTENDS MCStreamControl

VARIABLE group  \* the commands that are typed

AudioToEth ==
  {"areset", "strstart", "strpktcon", "strpktcoff", "strsndon", "strsndoff",
   "strteston", "strtestm1", "strtestm2", "strtestm3", "strtestm4", "strtestm5",
   "strtestoff"}

\* The control register, the synchroniser and the synchronisation frames.
Synchronisation ==
  {"areset", "dreset", "creset", "setsyncen", "setsyncoff", "setsyncrst",
   "setsyncon", "tgsync", "strstart", "strstop", "strrxon", "strrxstop",
   "strnsp0", "strnsp1", "strnsp2", "strnsp3"}

\* The packet sequencer and eth_to_audio.
Receiver ==
  {"dreset", "preset", "pseqoff", "pseqon", "sqwon", "sqwoff", "sqsdon",
   "sqsdoff", "plcon", "plcoff", "strblen", "strselarm", "strseleth",
   "tgsrcorr", "setcoron", "setcoroff"}

PlainWrites ==
  {"strxteston", "strxtestm1", "strxtestm2", "strxtestm3", "strxtestm4",
   "strxtestm5", "strxtestoff", "sethdrstrip", "clearhdrstrip"}

\* The resets of the whole chain, with a switch of every unit they write.
Chain ==
  {"freset", "rxrsync", "dreset", "areset", "strstart", "strrxon", "setsyncen",
   "strstop", "strtestm5", "pseqoff", "setcoron"}

TypedGroups == {AudioToEth, Synchronisation, Receiver, PlainWrites, Chain}
InGroups == UNION TypedGroups

GroupInit == Init /\ group \in TypedGroups
GroupNext ==
  /\ Next
  /\ command' \in Commands => command' \in group
  /\ UNCHANGED group
GroupSpec ==
  /\ GroupInit /\ [][GroupNext]_<<vars, group>>
  /\ WF_vars(Step) /\ WF_vars(Prompt)

ASSUME EveryCommandTyped == Commands = AllCommands
=============================================================================
