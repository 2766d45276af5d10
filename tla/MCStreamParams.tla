--------------------------- MODULE MCStreamParams ---------------------------
(***************************************************************************)
(* Instances of StreamParams for TLC: words of four bits, a microsecond of *)
(* four clocks and a millisecond of six samples, so that the products and  *)
(* the difference of setplcpktsize leave the word for some of the numbers. *)
(***************************************************************************)
EXTENDS StreamParams

\* One setter of each kind: a destination of five registers, a halved product,
\* a product, a difference, a limit kept in two units; and getters that read
\* the register of their setter.
ReadableSet ==
  {"strdip", "setplcpktsize", "setppdly", "setpoutdly", "setpblim",
   "setcrwin", "getdip", "getlip", "getpoutdly"}

\* The getters of the UDP stack.
NetworkSet == {"strdip", "strgip", "strmask", "getdip", "getgip", "getmask"}

Small == {1, 5}
\* The addresses on the command line are all different from each other's
\* neighbours in the register file.
OneLaunch == {[p \in Network \ {"strsip"} |->
                 IF p \in {"strdip", "strmask", "strport"} THEN 5 ELSE 1]}
=============================================================================
