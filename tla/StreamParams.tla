---------------------------- MODULE StreamParams ----------------------------
(***************************************************************************)
(* The numbers and addresses an operator sets on the CS7 streamer and      *)
(* reads back: one register of the FPGA for most of them, several for a    *)
(* destination (one per stream) and for the packet wait (low and high      *)
(* half).                                                                  *)
(*                                                                         *)
(* Numbers are read with scanf("%d", &tmp) into an unsigned long that      *)
(* ui_input_reader never initialises and every getter overwrites.  It is   *)
(* the program on the board, where a long is a word, 0..Word-1, and scanf  *)
(* replaces all of it: no other program gets as far as a setter's register *)
(* (the one app_main.c builds calls no ui_init and faults, see Process).   *)
(*                                                                         *)
(* Registers whose value the hardware makes up (counters, occupancies) are *)
(* external: reading them yields any word.  The MAC address and the switch *)
(* registers are in StreamControl.                                         *)
(***************************************************************************)
EXTENDS Integers, Sequences, FiniteSets

CONSTANTS
  Word,        \* how many values an unsigned int or long has
  WaitUnit,    \* 0x40, the clocks in a microsecond
  PlayoutUnit, \* 96, the samples in a millisecond
  Typed,       \* the words an operator types
  Commands,    \* the commands that are typed in this instance
  LaunchArgs   \* the words on the command line: [Network -> Typed]

VARIABLES
  reg,      \* register -> its word
  tmp,      \* the local of ui_input_reader, a word
  command,  \* what runs: "off", "none", "ui_init" or a setter
  todo,     \* the register writes that are left
  setting,  \* what the running command sets: parameter -> word
  given,    \* what the operator last set and saw complete, or Unset
  shown     \* what the last getter printed, <<>> after another command

vars == <<reg, tmp, command, todo, setting, given, shown>>

Words == 0..Word - 1
Unset == -1

(***************************************************************************)
(* Registers: unit and number.                                             *)
(***************************************************************************)
\* Register numbers of write_eth_param, by parameter.
write_eth_param ==
  [LOCAL_IP |-> <<2>>, GTWAY_IP |-> <<3>>, MASK_IP |-> <<4>>,
   DEST_IP |-> <<5, 7, 9, 11, 13>>, DEST_PORT |-> <<6, 8, 10, 12, 14>>,
   SYNC_IP |-> <<16>>, SYNC_PORT |-> <<17>>]

\* The numbers the two enumerations give a parameter: the writers and the
\* getters of ui_input_reader name it by the first ...
ETH_PARAM_ID ==
  [LOCAL_IP |-> 1, DEST_IP |-> 2, SYNC_IP |-> 3, GTWAY_IP |-> 4,
   MASK_IP |-> 5, DEST_PORT |-> 6, SYNC_PORT |-> 7]
\* ... and read_eth_param compares it with the second.  It knows no register
\* for PKT_LEN_REG_ID, 6.
read_eth_param ==
  [id \in {1, 2, 3, 4, 5} |-> CASE id = 1 -> 2    \* LOCAL_IP_REG_ID
                                [] id = 2 -> 5    \* DEST_IP_REG_ID
                                [] id = 3 -> 3    \* GTWAY_IP_REG_ID
                                [] id = 4 -> 4    \* MASK_IP_REG_ID
                                [] id = 5 -> 6]   \* DEST_PORT_REG_ID

(***************************************************************************)
(* The setters: which registers they write, in order, and with what.       *)
(***************************************************************************)
To(unit, numbers, code) ==
  [i \in DOMAIN numbers |-> [reg |-> <<unit, numbers[i]>>, code |-> code]]

\* What the operand becomes in a register.  The packet wait has two, for the
\* halves of 64 bits: there is nothing above the 32nd in what is passed.
\* Variant: the product is kept wider than the register.
CodedUnmasked(code, v) == IF code = "playout" THEN v * PlayoutUnit ELSE v
Coded(code, v) ==
  CASE code = "word"    -> v % Word
    [] code = "less 2"  -> (v + Word - 2) % Word
    [] code = "playout" -> (v * PlayoutUnit) % Word
    [] code = "low"     -> (v * WaitUnit) % Word
    [] code = "high"    -> 0

\* The parameters of the UDP stack, from variables of their own.
NetworkSetters ==
  [strlip   |-> To("udp", write_eth_param.LOCAL_IP, "word"),
   strgip   |-> To("udp", write_eth_param.GTWAY_IP, "word"),
   strmask  |-> To("udp", write_eth_param.MASK_IP, "word"),
   strdip   |-> To("udp", write_eth_param.DEST_IP, "word"),
   strport  |-> To("udp", write_eth_param.DEST_PORT, "word"),
   strsip   |-> To("udp", write_eth_param.SYNC_IP, "word"),
   strsport |-> To("udp", write_eth_param.SYNC_PORT, "word")]

\* Variant: the packet size lands on the buffer limit's register.
set_stream_rx_pkt_size_crossed == To("seq", <<6>>, "less 2")
set_stream_rx_pkt_size == To("seq", <<7>>, "less 2")
set_stream_rx_buf_lim  == To("seq", <<6>>, "word")
set_stream_rx_buf_lim2 == To("e2a", <<6>>, "word")
set_stream_pkt_wait    == To("seq", <<2>>, "low") \o To("seq", <<3>>, "high")

\* The parameters typed as a number into tmp.  The reset strblen ends with is
\* in StreamControl; setsqsdly reads its number and drops it.
NumberSetters ==
  [strplen      |-> To("a2e", <<3>>, "word"),
   setsyncdly   |-> To("ts", <<5>>, "word"),
   strblen      |-> To("e2a", <<5>>, "word"),
   sethdrlen    |-> To("e2a", <<9>>, "word"),
   setdlim      |-> To("e2a", <<9>>, "word"),
   setbslk      |-> To("e2a", <<10>>, "word"),
   setpoutdly   |-> To("e2a", <<11>>, "playout"),
   setbdlm      |-> To("e2a", <<11>>, "word"),
   setlooplimit |-> To("e2a", <<29>>, "word"),
   strporder    |-> To("seq", <<0>>, "word"),
   setppdly     |-> set_stream_pkt_wait,
   setsqsdly    |-> <<>>,
   setpblim     |-> set_stream_rx_buf_lim \o set_stream_rx_buf_lim2,
   setplcpktsize |-> set_stream_rx_pkt_size,
   setprdly     |-> To("seq", <<8>>, "word"),
   setsqlkdly   |-> To("seq", <<10>>, "word")]

\* setcrwin reads no number: it writes whatever tmp holds.
CorrectionWindow == To("e2a", <<23>>, "word")

Network == DOMAIN NetworkSetters
Params  == Network \cup DOMAIN NumberSetters
Setter(p) == IF p \in Network THEN NetworkSetters[p] ELSE NumberSetters[p]

\* The getters whose parameter a setter writes.
Udp(name) ==
  IF ETH_PARAM_ID[name] \in DOMAIN read_eth_param
    THEN <<<<"udp", read_eth_param[ETH_PARAM_ID[name]]>>>>
    ELSE <<>>
\* Variant: the playout delay is read from the buffer limit's register.
GettersBeside ==
  [getdip |-> Udp("DEST_IP"), getlip |-> Udp("LOCAL_IP"),
   getgip |-> Udp("GTWAY_IP"), getmask |-> Udp("MASK_IP"),
   getport |-> Udp("DEST_PORT"), getplen |-> <<<<"a2e", 3>>>>,
   getporder |-> <<<<"seq", 0>>>>, getblen |-> <<<<"e2a", 5>>>>,
   getpoutdly |-> <<<<"e2a", 6>>>>]
Getters ==
  [getdip |-> Udp("DEST_IP"), getlip |-> Udp("LOCAL_IP"),
   getgip |-> Udp("GTWAY_IP"), getmask |-> Udp("MASK_IP"),
   getport |-> Udp("DEST_PORT"), getplen |-> <<<<"a2e", 3>>>>,
   getporder |-> <<<<"seq", 0>>>>, getblen |-> <<<<"e2a", 5>>>>,
   getpoutdly |-> <<<<"e2a", 11>>>>]

Shows ==
  [getdip |-> "strdip", getlip |-> "strlip", getgip |-> "strgip",
   getmask |-> "strmask", getport |-> "strport", getplen |-> "strplen",
   getporder |-> "strporder", getblen |-> "strblen",
   getpoutdly |-> "setpoutdly"]

Writes == UNION {{Setter(p)[i] : i \in DOMAIN Setter(p)} : p \in Params}
Registers == {w.reg : w \in Writes} \cup {CorrectionWindow[1].reg}

ASSUME ParamsAssumption ==
  /\ Word \in Nat \ {0, 1}
  /\ WaitUnit \in Nat /\ PlayoutUnit \in Nat
  /\ Typed \subseteq 0..Word - 1
  /\ LaunchArgs \subseteq [Network \ {"strsip"} -> Typed]

-----------------------------------------------------------------------------
Encoded(writes, v) ==
  [i \in DOMAIN writes |-> [cell |-> writes[i].reg,
                            val  |-> Coded(writes[i].code, v)]]

Begin(c, writes, args) ==
  /\ command' = c /\ todo' = writes /\ setting' = args
  /\ given' = [p \in Params |-> IF p \in DOMAIN args THEN Unset ELSE given[p]]
  /\ shown' = <<>>
  /\ UNCHANGED reg

\* strdip, strlip, strgip, strmask, strsip, strport, strsport
SetAddress(p, v) ==
  /\ command = "none"
  /\ Begin(p, Encoded(Setter(p), v), [q \in {p} |-> v])
  /\ UNCHANGED tmp

\* The number goes through tmp.
SetNumber(p, v) ==
  /\ command = "none"
  /\ tmp' = v
  /\ Begin(p, Encoded(Setter(p), v), [q \in {p} |-> v])

setcrwin ==
  /\ command = "none"
  /\ Begin("setcrwin", Encoded(CorrectionWindow, tmp), [q \in {} |-> 0])
  /\ UNCHANGED tmp

WriteNext ==
  /\ todo # <<>>
  /\ reg' = [reg EXCEPT ![Head(todo).cell] = Head(todo).val]
  /\ todo' = Tail(todo)
  /\ UNCHANGED <<tmp, command, setting, given, shown>>

Prompt ==
  /\ command \notin {"none", "off"} /\ todo = <<>>
  /\ command' = "none"
  /\ given' = [p \in Params |-> IF p \in DOMAIN setting THEN setting[p]
                                                        ELSE given[p]]
  /\ setting' = [q \in {} |-> 0]
  /\ UNCHANGED <<reg, tmp, todo, shown>>

\* A getter prints one register; a parameter read_eth_param does not know
\* reads as -1.  getport keeps its result in dest_port.
Get(g) ==
  LET v == IF Getters[g] = <<>> THEN Word - 1 ELSE reg[Getters[g][1]] IN
  /\ command = "none"
  /\ shown' = <<g, v>>
  /\ tmp' = IF g = "getport" THEN tmp ELSE v
  /\ UNCHANGED <<reg, command, todo, setting, given>>

\* The other getters print what the hardware counts.
Measure ==
  /\ command = "none"
  /\ tmp' \in Typed
  /\ shown' = <<>>
  /\ UNCHANGED <<reg, command, todo, setting, given>>

\* tmp starts with whatever the stack held.
Launch(args) ==
  LET In(p) == Encoded(Setter(p), args[p]) IN
  /\ command = "off"
  /\ tmp' \in Typed
  /\ Begin("ui_init",
           In("strlip") \o In("strdip") \o In("strmask") \o In("strgip")
             \o In("strport") \o In("strsport"), args)

Exit ==
  /\ command = "none"
  /\ command' = "off" /\ tmp' = 0 /\ shown' = <<>>
  /\ UNCHANGED <<reg, todo, setting, given>>

\* The process is killed between two register writes.
Kill ==
  /\ command \notin {"none", "off"}
  /\ command' = "off" /\ todo' = <<>> /\ setting' = [q \in {} |-> 0]
  /\ tmp' = 0 /\ shown' = <<>>
  /\ UNCHANGED <<reg, given>>

Init ==
  /\ reg = [r \in Registers |-> 0]
  /\ tmp = 0 /\ command = "off" /\ todo = <<>>
  /\ setting = [q \in {} |-> 0]
  /\ given = [p \in Params |-> Unset]
  /\ shown = <<>>

Next ==
  \/ \E p \in Commands \cap Network, v \in Typed : SetAddress(p, v)
  \/ \E p \in Commands \cap DOMAIN NumberSetters, v \in Typed : SetNumber(p, v)
  \/ "setcrwin" \in Commands /\ setcrwin
  \/ WriteNext
  \/ Prompt
  \/ \E g \in Commands \cap DOMAIN Getters : Get(g)
  \/ Measure
  \/ \E args \in LaunchArgs : Launch(args)
  \/ Exit
  \/ Kill

Spec == Init /\ [][Next]_vars

-----------------------------------------------------------------------------
(***************************************************************************)
(* Properties.                                                             *)
(***************************************************************************)
\* Registers and tmp hold words, and what is left to write fits.
TypeOK ==
  /\ reg \in [Registers -> Words]
  /\ tmp \in Words
  /\ command \in Params \cup {"none", "off", "ui_init", "setcrwin"}
  /\ todo \in Seq([cell : Registers, val : Words])
  /\ DOMAIN setting \subseteq Params /\ \A p \in DOMAIN setting : setting[p] \in Words
  /\ given \in [Params -> Words \cup {Unset}]
  /\ shown \in {<<>>} \cup ((DOMAIN Getters) \X Words)

\* What a completed command has set stands in all of its registers, until the
\* same parameter is set again: no other command, getter, exit, kill or
\* restart disturbs it (ui_input_reader and the setters of stream_control.c).
SettingsHold ==
  \A p \in Params : given[p] # Unset =>
    \A i \in DOMAIN Setter(p) :
      reg[Setter(p)[i].reg] = Coded(Setter(p)[i].code, given[p])

\* A getter prints what the operator last set, if its setter was not cut short
\* (the get commands of ui_input_reader, read_eth_param).
ReadBack ==
  shown # <<>> =>
    LET p == Shows[shown[1]] IN
    given[p] # Unset => shown[2] = Coded(Setter(p)[1].code, given[p])

=============================================================================
