------------------------------- MODULE Mixer --------------------------------
(***************************************************************************)
(* The mixer commands of the streamer's prompt (ui_control.c): volumes,    *)
(* filters, the LED bar of the global volume, and the mute of exit.        *)
(*                                                                         *)
(* A setting exists several times: in params, which ui_vol_draw prints; in *)
(* setting, the menu's copy; in the argument of the last set_volume or in  *)
(* a filter register; and, for the global volume, in globalVol and in the  *)
(* LEDs.  A command updates the copies one after the other.  What the      *)
(* process holds is gone after a kill; filters and LEDs stay as they are.  *)
(*                                                                         *)
(* set_volume writes nothing in this tree (volume_control.c:27-29): what   *)
(* is kept is the gain it was last asked for.  scanf leaves gain unchanged *)
(* when no number follows, and gain is shared by the commands.             *)
(***************************************************************************)
EXTENDS Integers, Sequences

CONSTANTS
  Gains,        \* the numbers an operator types
  Word,         \* 2^32 in the program: one more than the largest unsigned
  MaxCommands,  \* bound on the commands entered
  MaxLaunches   \* bound on the starts of the process

\* The volume ui_init sets, 30, is an int.
ASSUME MixerAssumption ==
  /\ Word \in Nat /\ Word > 60 /\ Gains \subseteq 0 .. (Word - 1)
  /\ MaxCommands \in Nat /\ MaxLaunches \in Nat

VARIABLES
  memory,    \* cell -> value: params, setting, ui, and the volumes asked for
  device,    \* cell -> value: filter registers and LEDs
  todo,      \* the writes left of the command that runs
  mode,      \* "off", "init", "prompt", "busy", "leaving", "exited"
  entered, launches

vars == <<memory, device, todo, mode, entered, launches>>

Chains  == {"lpbk", "net"}
Volumes == {"vl_lpbk", "vr_lpbk", "vl_net", "vr_net"}
Filters == {"filter_b_lpbk", "filter_h_lpbk", "filter_l_lpbk",
            "filter_b_net", "filter_h_net", "filter_l_net"}
Leds == <<"GPIO_LED_0", "GPIO_LED_1", "GPIO_LED_2", "GPIO_LED_3",
          "GPIO_LED_4", "GPIO_LED_5", "GPIO_LED_6", "GPIO_LED_7">>

Memory ==
  {"params"} \X (Volumes \cup Filters \cup {"v_global"})
    \cup {"setting"} \X (Volumes \cup Filters)
    \cup {"volume"} \X Volumes
    \cup {"ui"} \X {"globalVol", "gain"}
Device ==
  {"filter"} \X Filters \cup {"coefficients", "reg15", "reg16"} \X Chains
    \cup {"led"} \X {Leds[i] : i \in DOMAIN Leds}

\* What an unsigned becomes in the int it is assigned to.
\* Variant: the number is kept unsigned.
SignedNot(g) == g
Signed(g) == IF 2 * g < Word THEN g ELSE g - Word

-----------------------------------------------------------------------------
(***************************************************************************)
(* The functions the commands call, as the writes they make.               *)
(***************************************************************************)
Put(area, name, v) == <<[cell |-> <<area, name>>, val |-> v]>>

set_volume(channel, gain) == Put("volume", channel, gain % Word)

\* The enumeration FILTER_TYPE.
FilterType ==
  [f \in Filters |-> CASE f \in {"filter_b_lpbk", "filter_b_net"} -> 1
                       [] f \in {"filter_h_lpbk", "filter_h_net"} -> 2
                       [] OTHER -> 4]
\* Variant: the maximum taken for the last type.
FilterTypeMaxLast == 4
FILTER_TYPE_MAX == 5

set_filter_type(filter, enable) ==
  IF FilterType[filter] \in 1 .. (FILTER_TYPE_MAX - 1)
  THEN Put("filter", filter, enable)
  ELSE <<>>

\* The fifteen coefficients are one write.
set_coefficients(chain) ==
  Put("reg15", chain, 1) \o Put("reg15", chain, 0) \o Put("reg16", chain, 1)
    \o Put("coefficients", chain, 1) \o Put("reg15", chain, 0)

\* Variant: a LED is lit only above its threshold.
update_leds_above(vol) ==
  [i \in DOMAIN Leds |-> [cell |-> <<"led", Leds[i]>>,
                          val  |-> IF vol > 18 - 2 * i THEN 1 ELSE 0]]
update_leds(vol) ==
  [i \in DOMAIN Leds |-> [cell |-> <<"led", Leds[i]>>,
                          val  |-> IF vol >= 18 - 2 * i THEN 1 ELSE 0]]

-----------------------------------------------------------------------------
(***************************************************************************)
(* The commands, each from the memory it starts with.                      *)
(***************************************************************************)
params(x) == memory[<<"params", x>>]

ScaleAll(gain) ==
  set_volume("vl_lpbk", params("vl_lpbk") * gain)
    \o set_volume("vr_lpbk", params("vr_lpbk") * gain)
    \o set_volume("vl_net", params("vl_net") * gain)
    \o set_volume("vr_net", params("vr_net") * gain)

\* Variant: the global volume is not remembered in params.
vgg_forgets(gain) ==
  Put("ui", "gain", gain) \o Put("ui", "globalVol", Signed(gain))
    \o ScaleAll(gain) \o update_leds(Signed(gain))
vgg(gain) ==
  Put("ui", "gain", gain) \o Put("params", "v_global", Signed(gain))
    \o Put("ui", "globalVol", Signed(gain)) \o ScaleAll(gain)
    \o update_leds(Signed(gain))

\* vll, vlr, vnl, vnr
Volume(channel, gain) ==
  Put("ui", "gain", gain) \o set_volume(channel, params("v_global") * gain)
    \o Put("params", channel, Signed(gain))
    \o Put("setting", channel, Signed(gain))

\* lfhe, lfhd, ..., nfle, nfld
Filter(filter, enable) ==
  set_filter_type(filter, enable) \o Put("params", filter, enable)
    \o Put("setting", filter, enable)

\* Variant: the network's volumes are left alone.
Exit_lpbk ==
  Put("ui", "gain", 0) \o Put("ui", "globalVol", 0)
    \o set_volume("vl_lpbk", 0) \o set_volume("vr_lpbk", 0) \o update_leds(0)
Exit ==
  Put("ui", "gain", 0) \o Put("ui", "globalVol", 0) \o ScaleAll(0)
    \o update_leds(0)

ui_init ==
  set_coefficients("lpbk") \o set_coefficients("net")
    \o set_volume("vl_lpbk", 30) \o set_volume("vr_lpbk", 30)
    \o set_volume("vl_net", 30) \o set_volume("vr_net", 30)
    \o Put("params", "vl_lpbk", 30) \o Put("params", "v_global", 4)
    \o Put("ui", "globalVol", 4) \o Put("params", "vr_lpbk", 30)
    \o Put("params", "vl_net", 30) \o Put("params", "vr_net", 30)

\* What a process starts with: initialised variables, the others zero.
Statics ==
  [c \in Memory |-> CASE c[1] = "setting" /\ c[2] \in Volumes -> 5
                      [] c = <<"ui", "globalVol">> -> 8
                      [] OTHER -> 0]

-----------------------------------------------------------------------------
Init ==
  /\ memory = Statics /\ device = [c \in Device |-> 0]
  /\ todo = <<>> /\ mode = "off" /\ entered = 0 /\ launches = 0

Launch ==
  /\ mode \in {"off", "exited"} /\ launches < MaxLaunches
  /\ memory' = Statics /\ todo' = ui_init /\ mode' = "init"
  /\ launches' = launches + 1
  /\ UNCHANGED <<device, entered>>

Enter(writes, then) ==
  /\ mode = "prompt" /\ entered < MaxCommands
  /\ todo' = writes /\ mode' = then /\ entered' = entered + 1
  /\ UNCHANGED <<memory, device, launches>>

\* The number typed, or none.
Typed == Gains \cup {memory[<<"ui", "gain">>]}

GlobalVolume == \E g \in Typed : Enter(vgg(g), "busy")
ChannelVolume ==
  \E c \in Volumes, g \in Typed : Enter(Volume(c, g), "busy")
SwitchFilter == \E f \in Filters, on \in {0, 1} : Enter(Filter(f, on), "busy")
Leave == Enter(Exit, "leaving")

\* The next write; the last one ends the command.
Step ==
  /\ todo # <<>>
  /\ LET w == Head(todo) IN
       IF w.cell \in Memory
       THEN memory' = [memory EXCEPT ![w.cell] = w.val] /\ UNCHANGED device
       ELSE device' = [device EXCEPT ![w.cell] = w.val] /\ UNCHANGED memory
  /\ todo' = Tail(todo)
  /\ mode' = IF Tail(todo) # <<>> THEN mode
             ELSE IF mode = "leaving" THEN "exited" ELSE "prompt"
  /\ UNCHANGED <<entered, launches>>

\* The process is killed, or ui_init gives up.
Kill ==
  /\ mode \notin {"off", "exited"}
  /\ mode' = "off" /\ todo' = <<>> /\ memory' = Statics
  /\ UNCHANGED <<device, entered, launches>>

Next ==
  \/ Launch \/ GlobalVolume \/ ChannelVolume \/ SwitchFilter \/ Leave
  \/ Step \/ Kill

Spec == Init /\ [][Next]_vars

-----------------------------------------------------------------------------
\* Every cell holds a value its C type can hold: gain and the arguments of
\* set_volume (ui_control.c:301-305) are unsigned, filter flags and device
\* bits 0 or 1, every other variable an int.
TypeOK ==
  /\ DOMAIN memory = Memory /\ DOMAIN device = Device
  /\ \A c \in Memory :
       CASE c[1] = "volume" \/ c = <<"ui", "gain">> ->
              memory[c] \in 0 .. (Word - 1)
         [] c[2] \in Filters -> memory[c] \in {0, 1}
         [] OTHER -> 2 * memory[c] \in (-Word) .. (Word - 1)
  /\ \A c \in Device : device[c] \in {0, 1}
  /\ mode \in {"off", "init", "prompt", "busy", "leaving", "exited"}
  /\ (todo # <<>>) = (mode \in {"init", "busy", "leaving"})
  /\ entered \in 0 .. MaxCommands /\ launches \in 0 .. MaxLaunches

\* Whatever global and channel volumes were typed, in whatever order, the
\* mixer was last asked for the product of the two numbers the screen shows
\* (ui_vol_draw, ui_control.c:2258-2262), in unsigned arithmetic; the one
\* exception is a channel nobody has touched since the start, which plays 30
\* although 4 and 30 are shown (ui_control.c:2548-2562).
VolumesFollow ==
  mode = "prompt" =>
    \A c \in Volumes :
      \/ memory[<<"volume", c>>] = (params("v_global") * params(c)) % Word
      \/ params("v_global") = 4 /\ params(c) = 30 /\ memory[<<"volume", c>>] = 30

Lit == {i \in DOMAIN Leds : device[<<"led", Leds[i]>>] = 1}

\* At the prompt the LEDs are a bar that counts the global volume in twos from
\* GPIO_LED_7 upwards (update_leds, ui_control.c:2726-2766), whatever a killed
\* process left of an earlier bar, once a global volume other than the start's
\* 4 is set: ui_init sets globalVol without updating the LEDs.
LedsShowGlobal ==
  mode = "prompt" =>
    LET vol  == memory[<<"ui", "globalVol">>]
        bars == IF vol < 0 THEN 0 ELSE IF vol >= 16 THEN 8 ELSE vol \div 2
    IN /\ vol = params("v_global")
       /\ vol = 4 \/ Lit = (9 - bars) .. 8

\* At the prompt both filter chains have their coefficients and are out of
\* the load (filter_control.c:25-43), the menu's copy of every filter switch
\* is the one displayed, and a filter displayed as on is on in its register,
\* whatever a killed process switched before.  (The converse fails: a restart
\* displays every filter as off and leaves the registers.)
FiltersShown ==
  mode = "prompt" =>
    /\ \A b \in Chains :
         device[<<"coefficients", b>>] = 1 /\ device[<<"reg15", b>>] = 0
    /\ \A f \in Filters :
         /\ memory[<<"setting", f>>] = params(f)
         /\ params(f) = 1 => device[<<"filter", f>>] = 1

\* When the process has ended by exit, and not by a kill, it has asked for
\* silence on all four channels and darkened the LEDs, whatever volumes were
\* set (ui_control.c:2212-2231).
ExitSilent ==
  mode = "exited" =>
    /\ \A c \in Volumes : memory[<<"volume", c>>] = 0
    /\ Lit = {} /\ memory[<<"ui", "globalVol">>] = 0
=============================================================================
