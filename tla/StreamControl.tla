---------------------------- MODULE StreamControl ----------------------------
(***************************************************************************)
(* The control registers of the CS7 streamer's FPGA cores and the commands *)
(* of the user interface that drive them.                                  *)
(*                                                                         *)
(* A command of ui_input_reader (ui_control.c) is a fixed sequence of      *)
(* register operations, most of them read-modify-writes with a mask, some  *)
(* of them pulses: a bit is raised, the thread sleeps, and the register is *)
(* written back from the value that was read BEFORE the sleep.  Every      *)
(* register operation is a step of its own here, because the process may   *)
(* be killed between any two of them, and the registers outlive it.        *)
(*                                                                         *)
(* A register is the set of the numbers of the bits that are one, so       *)
(* d|mask is d \cup bits and d&~mask is d \ bits.  Bits no code names are  *)
(* left out; of the MAC address only the lowest bit of its first word is   *)
(* kept, the only one the commands other than strmac can touch.            *)
(***************************************************************************)
EXTENDS Integers, Sequences

CONSTANTS
  Commands,    \* the commands the operator may type in this instance
  FifoStatus,  \* the FIFO flags a read of the DAC status register can show
  MacWords     \* the values of the MAC bit in the addresses that are typed

VARIABLES
  regs,     \* register -> the bits that are set in the FPGA
  local,    \* register -> the copy a command of ui_input_reader read last
  command,  \* the command that runs, "none" at the prompt, "off" when dead
  todo,     \* the register operations the command has still to perform
  held,     \* the first operation of todo has raised its bits and sleeps
  cut       \* registers whose pulse a kill cut short and nobody completed

vars == <<regs, local, command, todo, held, cut>>

(***************************************************************************)
(* Registers and bits.                                                     *)
(***************************************************************************)
Bits == 0..11

\* a2e, e2a: REG0 of audio_to_eth and of eth_to_audio; seq: REG1 of the packet
\* sequencer; ctrl, mac: REG15 and REG0 of the UDP stack; ts: REG0 of the time
\* synchroniser; fsync: REG6 of audio_to_eth; xtest, xmode, hdr: REG7, REG8 and
\* REG10 of eth_to_audio.
Registers == {"a2e", "e2a", "seq", "ctrl", "mac", "ts", "fsync",
              "xtest", "xmode", "hdr"}

SyncTx == 0         \* ctrl: answer and send time synchronisation packets
Tx     == 1         \* ctrl: transmit the audio stream
Rx     == 2         \* ctrl: receive the audio stream
SyncEn == 0         \* ts: the time synchroniser runs
Correction == 5     \* e2a: sample rate correction
FlagBits == 2..5    \* e2a when read: left/right empty, left/right full

\* The bits that hold a unit in reset for as long as they are one.
ResetBits == [r \in Registers |->
                CASE r \in {"a2e", "e2a"} -> {0, 1}
                  [] r = "seq"            -> {0}
                  [] r = "ts"             -> {1}
                  [] OTHER                -> {}]

(***************************************************************************)
(* Register operations.                                                    *)
(*   rmw    read, clear the bits off, set the bits on, write               *)
(*   write  write the bits on                                              *)
(*   pulse  read d, write d with on, sleep, write d without off            *)
(*   load   read into the command's local copy                             *)
(*   store  write the local copy without off                               *)
(***************************************************************************)
Ops == {"rmw", "write", "pulse", "load", "store"}
Call == [op : Ops, reg : Registers, on : SUBSET Bits, off : SUBSET Bits]

Do(op, r, on, off) == <<[op |-> op, reg |-> r, on |-> on, off |-> off]>>
SetBits(r, b)      == Do("rmw", r, b, {})
ClearBits(r, b)    == Do("rmw", r, {}, b)
SetField(r, f, b)  == Do("rmw", r, b, f)
Write(r, b)        == Do("write", r, b, {})
Pulse(r, on, off)  == Do("pulse", r, on, off)

(***************************************************************************)
(* The functions of stream_control.c.                                      *)
(***************************************************************************)
\* Variants, here and below, are mistakes the properties must reject.
\* Variant: the mask of the first write reaches the left FIFO only.
reset_adc_fifos_left == Pulse("a2e", {0}, {0, 1})
reset_adc_fifos == Pulse("a2e", {0, 1}, {0, 1})
reset_dac_fifos == Pulse("e2a", {0, 1}, {0, 1})
reset_pkt_seq   == Pulse("seq", {0}, {0})
set_sync_rst    == Pulse("ts", {1}, {1})

set_buf_corr_on == SetBits("e2a", {Correction})
clear_buf_corr  == ClearBits("e2a", {Correction})
set_plc_enable  == SetBits("e2a", {4})
set_plc_disable == ClearBits("e2a", {4})

set_test_mode_on  == SetBits("a2e", {7})
set_test_mode_off == ClearBits("a2e", {7})
\* The bits of each mode; the variant shifts them one too far.
ModeMasks == <<{}, {0}, {1}, {0, 1}, {2}>>
ModeBitsShifted(mode, low) == {low + i + 1 : i \in ModeMasks[mode + 1]}
ModeBits(mode, low) == {low + i : i \in ModeMasks[mode + 1]}
set_test_mode(mode) == SetField("a2e", {9, 10, 11}, ModeBits(mode, 9))

set_pcnt_mode_on    == SetBits("a2e", {6})
set_pcnt_mode_off   == ClearBits("a2e", {6})
set_stream_send_on  == SetBits("a2e", {8})
set_stream_send_off == ClearBits("a2e", {8})

set_xtest_mode_on   == Write("xtest", {0})
set_xtest_mode_off  == Write("xtest", {})
set_xtest_mode(mode) == Write("xmode", ModeBits(mode, 0))
set_rx_hdr_strip    == Write("hdr", {0})
clear_rx_hdr_strip  == Write("hdr", {})

time_sync_en     == Write("ts", {SyncEn})
\* Variant: written through the base address of the UDP stack.
time_sync_off_mac == Write("mac", {})
time_sync_off    == Write("ts", {})
time_sync_tx_en  == SetBits("ctrl", {SyncTx})
time_sync_tx_off == ClearBits("ctrl", {SyncTx})
set_sync_on      == Write("fsync", {0})

\* Both address the UDP stack's REG0 by the offset of a register of another
\* unit: REG0 of the UDP stack holds the MAC address.
initiate_sync == SetBits("mac", {0}) \o Write("ts", {SyncEn})
                   \o Pulse("mac", {}, {0}) \o Write("ts", {})
set_sync_off  == Write("fsync", {}) \o Pulse("mac", {}, {0})

disble_pkt_seq                    == SetBits("seq", {1})
enable_pkt_seq                    == ClearBits("seq", {1})
set_stream_pkt_wait_enable        == ClearBits("seq", {2})
\* Variant: the mask 0x06 also disables the sequencer.
set_stream_pkt_wait_disable_wide  == SetBits("seq", {1, 2})
set_stream_pkt_wait_disable       == SetBits("seq", {2})
set_stream_pkt_send_delay_enable  == ClearBits("seq", {3})
set_stream_pkt_send_delay_disable == SetBits("seq", {3})

write_eth_mac(word) == Write("mac", word)

(***************************************************************************)
(* The commands of ui_input_reader, in groups.                             *)
(***************************************************************************)
\* creset, freset and rxrsync begin with the same pulse of the Tx bit.
reset_core == Pulse("ctrl", {Tx}, {Tx})
reset_chain == reset_core \o reset_pkt_seq \o reset_adc_fifos \o reset_dac_fifos

ResetCommands ==
  [areset  |-> reset_adc_fifos,
   dreset  |-> time_sync_tx_off \o time_sync_off \o set_sync_rst
                 \o time_sync_en \o time_sync_tx_en \o reset_dac_fifos,
   preset  |-> reset_pkt_seq,
   pseqoff |-> disble_pkt_seq,
   pseqon  |-> enable_pkt_seq,
   creset  |-> reset_core,
   freset  |-> reset_chain,
   rxrsync |-> reset_chain]

TestCommands ==
  [strteston     |-> set_test_mode_on,
   strtestm1     |-> set_test_mode(0),
   strtestm2     |-> set_test_mode(1),
   strtestm3     |-> set_test_mode(2),
   strtestm4     |-> set_test_mode(3),
   strtestm5     |-> set_test_mode(4),
   strtestoff    |-> set_test_mode_off,
   sethdrstrip   |-> set_rx_hdr_strip,
   clearhdrstrip |-> clear_rx_hdr_strip]

XTestCommands ==
  [strxteston  |-> set_xtest_mode_on,
   strxtestm1  |-> set_xtest_mode(0),
   strxtestm2  |-> set_xtest_mode(1),
   strxtestm3  |-> set_xtest_mode(2),
   strxtestm4  |-> set_xtest_mode(3),
   strxtestm5  |-> set_xtest_mode(4),
   strxtestoff |-> set_xtest_mode_off]

\* The second "setsyncoff" branch of the source is never reached: the first
\* one takes the command.
\* Variant: setsyncen starts sending before the unit is enabled.
SyncCommandsSwapped ==
  [setsyncen  |-> time_sync_tx_en \o time_sync_en,
   setsyncoff |-> time_sync_off,
   setsyncrst |-> set_sync_rst,
   setsyncon  |-> initiate_sync \o set_sync_on,
   tgsync     |-> set_sync_off \o set_sync_on]

SyncCommands ==
  [setsyncen  |-> time_sync_en \o time_sync_tx_en,
   setsyncoff |-> time_sync_off,
   setsyncrst |-> set_sync_rst,
   setsyncon  |-> initiate_sync \o set_sync_on,
   tgsync     |-> set_sync_off \o set_sync_on]

StreamCommands ==
  [strpktcon  |-> set_pcnt_mode_on,
   strpktcoff |-> set_pcnt_mode_off,
   strsndon   |-> set_stream_send_on,
   strsndoff  |-> set_stream_send_off,
   strselarm  |-> reset_dac_fifos,
   strseleth  |-> reset_dac_fifos,
   strstart   |-> SetBits("ctrl", {Tx}) \o reset_adc_fifos,
   strrxon    |-> SetBits("ctrl", {Rx}),
   strstop    |-> Do("load", "ctrl", {}, {}) \o set_sync_off
                    \o Do("store", "ctrl", {}, {Tx}),
   strrxstop  |-> ClearBits("ctrl", {Rx})]

\* strnsp takes a number; another number than 0, 1 or 2 changes nothing.  It is
\* compared whole, so these are the commands of a build whose long is an int.
SpeedCommands ==
  [strnsp0 |-> ClearBits("ctrl", {Tx, Rx}),
   strnsp1 |-> ClearBits("ctrl", {Rx}),
   strnsp2 |-> ClearBits("ctrl", {Tx}),
   strnsp3 |-> Do("load", "ctrl", {}, {})]

DelayCommands ==
  [sqwon    |-> set_stream_pkt_wait_enable,
   sqwoff   |-> set_stream_pkt_wait_disable,
   sqsdon   |-> set_stream_pkt_send_delay_enable,
   sqsdoff  |-> set_stream_pkt_send_delay_disable,
   plcoff   |-> set_plc_disable,
   plcon    |-> set_plc_enable,
   strblen  |-> reset_dac_fifos]

CorrectionCommands ==
  [tgsrcorr  |-> clear_buf_corr \o set_buf_corr_on,
   setcoron  |-> set_buf_corr_on,
   setcoroff |-> clear_buf_corr]

Groups == {ResetCommands, TestCommands, XTestCommands, SyncCommands,
           StreamCommands, SpeedCommands, DelayCommands, CorrectionCommands}
AllCommands == UNION {DOMAIN g : g \in Groups}

ScriptOf(c) == (CHOOSE g \in Groups : c \in DOMAIN g)[c]

\* What ui_init writes to these registers once the devices are mapped.
ui_init(word) == write_eth_mac(word) \o set_sync_off \o ClearBits("ctrl", {SyncTx})

ASSUME StreamAssumption ==
  /\ Commands \subseteq AllCommands
  /\ FifoStatus \subseteq SUBSET FlagBits
  /\ FifoStatus # {}
  /\ MacWords \subseteq SUBSET {0}

-----------------------------------------------------------------------------
(***************************************************************************)
(* Executing one register operation.                                       *)
(***************************************************************************)
\* A read of eth_to_audio's REG0 shows the FIFO flags in bits 2 to 5, whatever
\* was written there.
Readings(r) ==
  IF r = "e2a" THEN {(regs[r] \ FlagBits) \cup flags : flags \in FifoStatus}
               ELSE {regs[r]}

Next_op == Head(todo)
Put(r, value) == regs' = [regs EXCEPT ![r] = value]
Keep(r, value) == local' = [local EXCEPT ![r] = value]
Pop == todo' = Tail(todo) /\ held' = FALSE
Running == command \notin {"none", "off"}
Ready(op) == Running /\ todo # <<>> /\ Next_op.op = op

ReadModifyWrite ==
  /\ Ready("rmw")
  /\ \E d \in Readings(Next_op.reg) :
       Put(Next_op.reg, (d \ Next_op.off) \cup Next_op.on)
  /\ Pop
  /\ UNCHANGED <<local, command, cut>>

WriteRegister ==
  /\ Ready("write")
  /\ Put(Next_op.reg, Next_op.on)
  /\ cut' = cut \ {Next_op.reg}
  /\ Pop
  /\ UNCHANGED <<local, command>>

\* The first half of a pulse: read, raise, fall asleep.
Raise ==
  /\ Ready("pulse") /\ ~held
  /\ \E d \in Readings(Next_op.reg) :
       Keep(Next_op.reg, d) /\ Put(Next_op.reg, d \cup Next_op.on)
  /\ held' = TRUE
  /\ UNCHANGED <<command, todo, cut>>

\* The second half writes back the value read before the sleep.
LowerForgets ==  \* Variant: the mask of the second write is missing.
  /\ Ready("pulse") /\ held
  /\ Put(Next_op.reg, local[Next_op.reg] \cup Next_op.off)
  /\ cut' = cut \ {Next_op.reg}
  /\ Pop
  /\ UNCHANGED <<local, command>>
LowerRepeats ==  \* Variant: the write waits for a read-back and starts again.
  /\ Ready("pulse") /\ held
  /\ Put(Next_op.reg, local[Next_op.reg] \ Next_op.off)
  /\ cut' = cut \ {Next_op.reg}
  /\ held' = FALSE
  /\ UNCHANGED <<local, command, todo>>
Lower ==
  /\ Ready("pulse") /\ held
  /\ Put(Next_op.reg, local[Next_op.reg] \ Next_op.off)
  /\ cut' = cut \ {Next_op.reg}
  /\ Pop
  /\ UNCHANGED <<local, command>>

Load ==
  /\ Ready("load")
  /\ \E d \in Readings(Next_op.reg) : Keep(Next_op.reg, d)
  /\ Pop
  /\ UNCHANGED <<regs, command, cut>>

Store ==
  /\ Ready("store")
  /\ Put(Next_op.reg, local[Next_op.reg] \ Next_op.off)
  /\ Pop
  /\ UNCHANGED <<local, command, cut>>

Step == ReadModifyWrite \/ WriteRegister \/ Raise \/ Lower \/ Load \/ Store

(***************************************************************************)
(* The command loop and the life of the process.                           *)
(***************************************************************************)
Start(c, script) ==
  /\ command' = c /\ todo' = script /\ held' = FALSE
  /\ UNCHANGED <<regs, local, cut>>

Type(c) == command = "none" /\ Start(c, ScriptOf(c))

strmac(word) == command = "none" /\ Start("strmac", write_eth_mac(word))

\* The branch ends and its block-scoped copies go with it.
Prompt ==
  /\ Running /\ todo = <<>>
  /\ command' = "none"
  /\ local' = [r \in Registers |-> {}]
  /\ UNCHANGED <<regs, todo, held, cut>>

Launch(word) == command = "off" /\ Start("ui_init", ui_init(word))

\* The exit command: none of these registers is written.
Exit ==
  /\ command = "none"
  /\ command' = "off"
  /\ UNCHANGED <<regs, local, todo, held, cut>>

\* The process is killed; a pulse it slept in stays raised.
Kill ==
  /\ Running
  /\ command' = "off" /\ todo' = <<>> /\ held' = FALSE
  /\ local' = [r \in Registers |-> {}]
  /\ cut' = IF held THEN cut \cup {Next_op.reg} ELSE cut
  /\ UNCHANGED regs

Init ==
  /\ regs  = [r \in Registers |-> {}]
  /\ local = [r \in Registers |-> {}]
  /\ command = "off" /\ todo = <<>> /\ held = FALSE /\ cut = {}

Live ==
  \/ Step
  \/ \E c \in Commands : Type(c)
  \/ \E w \in MacWords : strmac(w) \/ Launch(w)
  \/ Prompt
  \/ Exit

Next == Live \/ Kill

Spec == Init /\ [][Next]_vars
\* The thread that runs a command is never suspended for ever; nothing obliges
\* the operator to type or to start the program.
FairSpec == Spec /\ WF_vars(Step) /\ WF_vars(Prompt)
-----------------------------------------------------------------------------
(***************************************************************************)
(* Properties.                                                             *)
(***************************************************************************)
\* The registers, the copies and the operations left to do are what the types
\* of stream_control.c allow: every mask stays inside the bits that are used.
TypeOK ==
  /\ regs \in [Registers -> SUBSET Bits]
  /\ local \in [Registers -> SUBSET Bits]
  /\ command \in AllCommands \cup {"none", "off", "ui_init", "strmac"}
  /\ todo \in Seq(Call)
  /\ held \in BOOLEAN
  /\ cut \subseteq Registers

\* A unit is held in reset only while the command that resets it sleeps, or
\* since a kill cut such a command short: no read-modify-write of the same
\* register and no stale copy written back leaves a FIFO, the packet sequencer
\* or the time synchroniser in reset (reset_adc_fifos, reset_dac_fifos,
\* reset_pkt_seq, set_sync_rst and everything else that writes their
\* registers), and the first reset that completes after a kill releases it.
ResetReleased ==
  \A r \in Registers :
    regs[r] \cap ResetBits[r] # {} =>
      \/ r \in cut
      \/ held /\ todo # <<>> /\ Next_op.op = "pulse" /\ Next_op.reg = r

\* The left and the right FIFO of a converter are in reset together or not at
\* all, kills included: otherwise the two channels would drift apart by what
\* one of them kept (the two low bits of REG0 in reset_adc_fifos and
\* reset_dac_fifos).
ChannelsTogether ==
  \A r \in {"a2e", "e2a"} : regs[r] \cap {0, 1} \in {{}, {0, 1}}

\* The transmission of synchronisation packets is switched on only while the
\* time synchroniser runs and is out of reset: dreset and setsyncen enable the
\* unit first, whatever commands and kills came before.
SyncTxNeedsUnit ==
  [][SyncTx \notin regs["ctrl"] /\ SyncTx \in regs'["ctrl"]
       => SyncEn \in regs["ts"] /\ regs["ts"] \cap ResetBits["ts"] = {}]_vars

\* Every command comes back to the prompt unless the process is killed, under
\* the fairness of FairSpec (the while loop of ui_input_reader).
CommandReturns == Running ~> ~Running

\* The switch positions an operator believes in, as an instance of the abstract
\* panel.  Bits 4 and 5 of e2a are left out: what a read shows there is not
\* what was written.
SwitchBit ==
  [syncTx |-> <<"ctrl", SyncTx>>, tx |-> <<"ctrl", Tx>>, rx |-> <<"ctrl", Rx>>,
   syncUnit |-> <<"ts", SyncEn>>, syncFrames |-> <<"fsync", 0>>,
   count |-> <<"a2e", 6>>, test |-> <<"a2e", 7>>, send |-> <<"a2e", 8>>,
   mode0 |-> <<"a2e", 9>>, mode1 |-> <<"a2e", 10>>, mode2 |-> <<"a2e", 11>>,
   seqOff |-> <<"seq", 1>>, waitOff |-> <<"seq", 2>>, delayOff |-> <<"seq", 3>>,
   xtest |-> <<"xtest", 0>>, hdrStrip |-> <<"hdr", 0>>,
   xmode0 |-> <<"xmode", 0>>, xmode1 |-> <<"xmode", 1>>, xmode2 |-> <<"xmode", 2>>]

SwitchesOn ==
  {s \in DOMAIN SwitchBit : SwitchBit[s][2] \in regs[SwitchBit[s][1]]}

Panel == INSTANCE StreamPanel WITH on <- SwitchesOn, busy <- command

\* The registers implement the panel: whatever copies are written back after a
\* sleep, a command moves only its own switches, and when it returns they are
\* where its name says.
PanelSpec == Panel!Spec

\* The MAC address changes only when strmac or the start of the program writes
\* it (write_eth_mac).
MacOnlySetByStrmac ==
  [][regs'["mac"] # regs["mac"] => Ready("write")]_vars

\* What MacOnlySetByStrmac comes to: the five commands and functions that name
\* REG0 of the UDP stack are the only ones that change the MAC address, whatever
\* else runs, is cut short or writes an old copy back (initiate_sync,
\* set_sync_off, write_eth_mac).
MacOwners == {"strmac", "ui_init", "setsyncon", "tgsync", "strstop"}
MacKept == [][regs'["mac"] # regs["mac"] => command \in MacOwners]_vars

\* rxrsync re-synchronises the receive audio chain: when it returns, the stream
\* is transmitted exactly if it was when the command read the control register.
ResyncKeepsTx ==
  command = "rxrsync" /\ todo = <<>> =>
    (Tx \in regs["ctrl"] <=> Tx \in local["ctrl"])

\* setsyncoff disables time synchronisation: when it returns, neither the unit
\* nor the synchronisation frames of the audio sender are on.
SyncOffStopsSync ==
  command = "setsyncoff" /\ todo = <<>> =>
    regs["ts"] = {} /\ regs["fsync"] = {}

=============================================================================
