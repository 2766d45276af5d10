--------------------------- MODULE MCStreamControl ---------------------------
(***************************************************************************)
(* Instances of StreamControl for TLC.  The registers of one unit only     *)
(* interact with those of another through the commands that write both,    *)
(* so each instance types the commands around one hazard.                  *)
(***************************************************************************)
EXTENDS StreamControl

MacSet == {"strstart", "strstop", "setsyncon", "tgsync"}
ResyncSet == {"strstart", "strstop", "rxrsync", "areset", "preset"}
SyncOffSet == {"setsyncon", "setsyncoff", "tgsync"}

NoFlags == {{}}
\* Nothing to report; both channels empty; both channels full.
SomeFlags == {{}, {2, 3}, {4, 5}}
FullOrNot == {{}, {4, 5}}
\* An address whose first word is odd.
OneMac == {{0}}
TwoMacs == {{}, {0}}
=============================================================================
