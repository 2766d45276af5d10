----------------------------- MODULE StreamPanel -----------------------------
(***************************************************************************)
(* What an operator of the CS7 streamer counts on: a panel of switches and *)
(* one command at a time.  A command moves none but its own switches, in   *)
(* any number of steps, and when it returns they stand where the command's *)
(* name and the help text put them.  Registers, masks, sleeps and copies   *)
(* do not appear.                                                          *)
(***************************************************************************)
VARIABLES
  on,    \* the switches that are on
  busy   \* the command that runs, "none" or "off"

panel == <<on, busy>>

Mode(m0, m1, m2) ==
  [on  |-> {s \in {"mode0", "mode1", "mode2"} :
              \/ s = "mode0" /\ m0
              \/ s = "mode1" /\ m1
              \/ s = "mode2" /\ m2},
   off |-> {s \in {"mode0", "mode1", "mode2"} :
              \/ s = "mode0" /\ ~m0
              \/ s = "mode1" /\ ~m1
              \/ s = "mode2" /\ ~m2}]
XMode(m) ==
  [on |-> m, off |-> {"xmode0", "xmode1", "xmode2"} \ m]
Turn(up, down) == [on |-> up, off |-> down]

\* The switches a command turns on and those it turns off.  creset, freset and
\* rxrsync pulse the switch of the transmitter and leave it off; setsyncon ends
\* with the synchroniser's start bit down again.
Effect ==
  [dreset        |-> Turn({"syncTx", "syncUnit"}, {}),
   pseqoff       |-> Turn({"seqOff"}, {}),
   pseqon        |-> Turn({}, {"seqOff"}),
   creset        |-> Turn({}, {"tx"}),
   freset        |-> Turn({}, {"tx"}),
   rxrsync       |-> Turn({}, {"tx"}),
   strteston     |-> Turn({"test"}, {}),
   strtestoff    |-> Turn({}, {"test"}),
   strtestm1     |-> Mode(FALSE, FALSE, FALSE),
   strtestm2     |-> Mode(TRUE, FALSE, FALSE),
   strtestm3     |-> Mode(FALSE, TRUE, FALSE),
   strtestm4     |-> Mode(TRUE, TRUE, FALSE),
   strtestm5     |-> Mode(FALSE, FALSE, TRUE),
   sethdrstrip   |-> Turn({"hdrStrip"}, {}),
   clearhdrstrip |-> Turn({}, {"hdrStrip"}),
   strxteston    |-> Turn({"xtest"}, {}),
   strxtestoff   |-> Turn({}, {"xtest"}),
   strxtestm1    |-> XMode({}),
   strxtestm2    |-> XMode({"xmode0"}),
   strxtestm3    |-> XMode({"xmode1"}),
   strxtestm4    |-> XMode({"xmode0", "xmode1"}),
   strxtestm5    |-> XMode({"xmode2"}),
   setsyncen     |-> Turn({"syncTx", "syncUnit"}, {}),
   setsyncoff    |-> Turn({}, {"syncUnit"}),
   setsyncon     |-> Turn({"syncFrames"}, {"syncUnit"}),
   tgsync        |-> Turn({"syncFrames"}, {}),
   strpktcon     |-> Turn({"count"}, {}),
   strpktcoff    |-> Turn({}, {"count"}),
   strsndon      |-> Turn({"send"}, {}),
   strsndoff     |-> Turn({}, {"send"}),
   strstart      |-> Turn({"tx"}, {}),
   strrxon       |-> Turn({"rx"}, {}),
   strstop       |-> Turn({}, {"tx", "syncFrames"}),
   strrxstop     |-> Turn({}, {"rx"}),
   strnsp0       |-> Turn({}, {"tx", "rx"}),
   strnsp1       |-> Turn({}, {"rx"}),
   strnsp2       |-> Turn({}, {"tx"}),
   sqwon         |-> Turn({}, {"waitOff"}),
   sqwoff        |-> Turn({"waitOff"}, {}),
   sqsdon        |-> Turn({}, {"delayOff"}),
   sqsdoff       |-> Turn({"delayOff"}, {}),
   ui_init       |-> Turn({}, {"syncFrames", "syncTx"})]

\* Every other command leaves the panel alone.
TurnsOn(c)  == IF c \in DOMAIN Effect THEN Effect[c].on ELSE {}
TurnsOff(c) == IF c \in DOMAIN Effect THEN Effect[c].off ELSE {}
Owns(c) == TurnsOn(c) \cup TurnsOff(c)

Idle == busy \in {"none", "off"}

Init == on = {} /\ busy = "off"

Boot == busy = "off" /\ busy' = "ui_init" /\ UNCHANGED on

Begin == /\ busy = "none" /\ busy' # "off"
         /\ UNCHANGED on

Move == /\ ~Idle /\ UNCHANGED busy
        /\ on' \ Owns(busy) = on \ Owns(busy)

Done == /\ ~Idle /\ busy' = "none"
        /\ TurnsOn(busy) \subseteq on
        /\ TurnsOff(busy) \cap on = {}
        /\ UNCHANGED on

Halt == busy # "off" /\ busy' = "off" /\ UNCHANGED on

Next == Boot \/ Begin \/ Move \/ Done \/ Halt

Spec == Init /\ [][Next]_panel

=============================================================================
