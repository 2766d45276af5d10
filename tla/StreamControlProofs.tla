------------------------- MODULE StreamControlProofs -------------------------
(***************************************************************************)
(* What StreamControl guarantees for every set of commands, every set of   *)
(* FIFO flags the hardware may show and every address typed.               *)
(***************************************************************************)
EXTENDS StreamControl, SequenceTheorems, TLAPS

(***************************************************************************)
(* The argument looks at the reset bits of one register at a time.  A call *)
(* is disciplined when only a pulse raises the reset bits of its register, *)
(* all of them, and a write-back of an old copy clears all of them.        *)
(***************************************************************************)
Disciplined(c) ==
  LET bits == ResetBits[c.reg] IN
    /\ c.op \in {"rmw", "write"} => c.on \cap bits = {}
    /\ c.op = "rmw" => c.off \cap bits = {}
    /\ c.op = "pulse" => c.on \cap bits \in {{}, bits}
    /\ c.op \in {"pulse", "store"} => bits \subseteq c.off

GoodCall == {c \in Call : Disciplined(c)}
Scripts == Seq(GoodCall)

\* The reset bits of r are all set or all clear.
Whole(r) == regs[r] \cap ResetBits[r] \in {{}, ResetBits[r]}

\* The inductive invariant.
IInv ==
  /\ TypeOK
  /\ todo \in Scripts
  /\ held => Running /\ todo # <<>> /\ Next_op.op = "pulse"
  /\ \A r \in Registers : Whole(r)
  /\ ResetReleased

-----------------------------------------------------------------------------
(***************************************************************************)
(* The command tables.                                                     *)
(***************************************************************************)
\* A script of one disciplined call.
LEMMA OneCall ==
  ASSUME NEW op \in Ops, NEW r \in Registers,
         NEW up \in SUBSET Bits, NEW down \in SUBSET Bits,
         Disciplined([op |-> op, reg |-> r, on |-> up, off |-> down])
  PROVE  Do(op, r, up, down) \in Scripts
<1> DEFINE c == [op |-> op, reg |-> r, on |-> up, off |-> down]
<1>1. c \in GoodCall
  BY DEF GoodCall, Call
<1>2. <<c>> \in Seq(GoodCall)
  BY <1>1
<1> QED BY <1>2 DEF Do, Scripts

\* Calls made one after the other are a script again.
LEMMA Joined ==
  ASSUME NEW s \in Scripts, NEW t \in Scripts
  PROVE  s \o t \in Scripts
BY ConcatProperties DEF Scripts

\* Which bits hold the unit of each register in reset (reg_io.h).
LEMMA ResetBitsValues ==
  /\ ResetBits \in [Registers -> SUBSET Bits]
  /\ ResetBits["a2e"] = {0, 1} /\ ResetBits["e2a"] = {0, 1}
  /\ ResetBits["seq"] = {0} /\ ResetBits["ts"] = {1}
  /\ \A r \in {"ctrl", "mac", "fsync", "xtest", "xmode", "hdr"} : ResetBits[r] = {}
BY DEF ResetBits, Registers, Bits

\* One lemma per operation: when it respects the reset bits of its register.
LEMMA PulseGood ==
  ASSUME NEW r \in Registers, NEW up \in SUBSET Bits, NEW down \in SUBSET Bits,
         up \cap ResetBits[r] \in {{}, ResetBits[r]},
         ResetBits[r] \subseteq down
  PROVE  Pulse(r, up, down) \in Scripts
BY OneCall DEF Pulse, Ops, Disciplined

\* d|mask, away from the reset bits.
LEMMA SetBitsGood ==
  ASSUME NEW r \in Registers, NEW b \in SUBSET Bits, b \cap ResetBits[r] = {}
  PROVE  SetBits(r, b) \in Scripts
BY OneCall DEF SetBits, Ops, Disciplined

\* d&~mask, away from the reset bits.
LEMMA ClearBitsGood ==
  ASSUME NEW r \in Registers, NEW b \in SUBSET Bits, b \cap ResetBits[r] = {}
  PROVE  ClearBits(r, b) \in Scripts
BY OneCall DEF ClearBits, Ops, Disciplined

\* A plain write that raises no reset bit.
LEMMA WriteGood ==
  ASSUME NEW r \in Registers, NEW b \in SUBSET Bits, b \cap ResetBits[r] = {}
  PROVE  Write(r, b) \in Scripts
BY OneCall DEF Write, Ops, Disciplined

\* The mode of set_test_mode and set_xtest_mode fits its three bits.
LEMMA ModeBitsType ==
  ASSUME NEW mode \in 0..4
  PROVE  /\ ModeBits(mode, 9) \in SUBSET {9, 10, 11}
         /\ ModeBits(mode, 0) \in SUBSET {0, 1, 2}
BY DEF ModeBits, ModeMasks

\* Each function of stream_control.c is a sequence of disciplined calls.
LEMMA ResetsGood ==
  /\ reset_adc_fifos \in Scripts
  /\ reset_dac_fifos \in Scripts
  /\ reset_pkt_seq \in Scripts
  /\ set_sync_rst \in Scripts
  /\ reset_core \in Scripts
<1> USE PulseGood, ResetBitsValues DEF Registers, Bits
<1>1. reset_adc_fifos \in Scripts BY DEF reset_adc_fifos
<1>2. reset_dac_fifos \in Scripts BY DEF reset_dac_fifos
<1>3. reset_pkt_seq \in Scripts   BY DEF reset_pkt_seq
<1>4. set_sync_rst \in Scripts    BY DEF set_sync_rst
<1>5. reset_core \in Scripts      BY DEF reset_core, Tx
<1> QED BY <1>1, <1>2, <1>3, <1>4, <1>5

\* The switches of audio_to_eth and eth_to_audio.
LEMMA AudioGood ==
  /\ set_buf_corr_on \in Scripts /\ clear_buf_corr \in Scripts
  /\ set_plc_enable \in Scripts /\ set_plc_disable \in Scripts
  /\ set_test_mode_on \in Scripts /\ set_test_mode_off \in Scripts
  /\ set_pcnt_mode_on \in Scripts /\ set_pcnt_mode_off \in Scripts
  /\ set_stream_send_on \in Scripts /\ set_stream_send_off \in Scripts
<1> USE SetBitsGood, ClearBitsGood, ResetBitsValues DEF Registers, Bits
<1>1. set_buf_corr_on \in Scripts /\ clear_buf_corr \in Scripts
  BY DEF set_buf_corr_on, clear_buf_corr, Correction
<1>2. set_plc_enable \in Scripts /\ set_plc_disable \in Scripts
  BY DEF set_plc_enable, set_plc_disable
<1>3. set_test_mode_on \in Scripts /\ set_test_mode_off \in Scripts
  BY DEF set_test_mode_on, set_test_mode_off
<1>4. set_pcnt_mode_on \in Scripts /\ set_pcnt_mode_off \in Scripts
  BY DEF set_pcnt_mode_on, set_pcnt_mode_off
<1>5. set_stream_send_on \in Scripts /\ set_stream_send_off \in Scripts
  BY DEF set_stream_send_on, set_stream_send_off
<1> QED BY <1>1, <1>2, <1>3, <1>4, <1>5

\* The test modes and the header strip.
LEMMA TestsGood ==
  /\ \A m \in 0..4 : set_test_mode(m) \in Scripts
  /\ \A m \in 0..4 : set_xtest_mode(m) \in Scripts
  /\ set_xtest_mode_on \in Scripts /\ set_xtest_mode_off \in Scripts
  /\ set_rx_hdr_strip \in Scripts /\ clear_rx_hdr_strip \in Scripts
<1>1. ASSUME NEW m \in 0..4 PROVE set_test_mode(m) \in Scripts
  <2> DEFINE b == ModeBits(m, 9)
  <2>1. b \in SUBSET {9, 10, 11}
    BY ModeBitsType
  <2> HIDE DEF b
  <2>2. /\ b \in SUBSET Bits /\ {9, 10, 11} \in SUBSET Bits
        /\ b \cap {0, 1} = {}
    BY <2>1 DEF Bits
  <2>3. Do("rmw", "a2e", b, {9, 10, 11}) \in Scripts
    BY <2>2, OneCall, ResetBitsValues DEF Ops, Registers, Disciplined
  <2> QED BY <2>3 DEF set_test_mode, SetField, b
<1>2. ASSUME NEW m \in 0..4 PROVE set_xtest_mode(m) \in Scripts
  <2>1. ModeBits(m, 0) \in SUBSET Bits
    BY ModeBitsType DEF Bits
  <2> QED BY <2>1, WriteGood, ResetBitsValues DEF Registers, set_xtest_mode
<1>3. set_xtest_mode_on \in Scripts /\ set_xtest_mode_off \in Scripts
  BY WriteGood, ResetBitsValues
     DEF Registers, Bits, set_xtest_mode_on, set_xtest_mode_off
<1>4. set_rx_hdr_strip \in Scripts /\ clear_rx_hdr_strip \in Scripts
  BY WriteGood, ResetBitsValues
     DEF Registers, Bits, set_rx_hdr_strip, clear_rx_hdr_strip
<1> QED BY <1>1, <1>2, <1>3, <1>4

\* Time synchronisation: the unit, its transmitter and its frames.
LEMMA SyncGood ==
  /\ time_sync_en \in Scripts /\ time_sync_off \in Scripts
  /\ time_sync_tx_en \in Scripts /\ time_sync_tx_off \in Scripts
  /\ set_sync_on \in Scripts
  /\ initiate_sync \in Scripts /\ set_sync_off \in Scripts
<1> USE ResetBitsValues DEF Registers, Bits
<1>1. time_sync_en \in Scripts /\ time_sync_off \in Scripts
  BY WriteGood DEF time_sync_en, time_sync_off, SyncEn
<1>2. time_sync_tx_en \in Scripts /\ time_sync_tx_off \in Scripts
  BY SetBitsGood, ClearBitsGood DEF time_sync_tx_en, time_sync_tx_off, SyncTx
<1>3. set_sync_on \in Scripts
  BY WriteGood DEF set_sync_on
<1>4. /\ SetBits("mac", {0}) \in Scripts
      /\ Pulse("mac", {}, {0}) \in Scripts
      /\ Write("ts", {SyncEn}) \in Scripts
      /\ Write("ts", {}) \in Scripts
      /\ Write("fsync", {}) \in Scripts
  BY SetBitsGood, PulseGood, WriteGood DEF SyncEn
<1>5. initiate_sync \in Scripts
  BY <1>4, Joined DEF initiate_sync
<1>6. set_sync_off \in Scripts
  BY <1>4, Joined DEF set_sync_off
<1> QED BY <1>1, <1>2, <1>3, <1>5, <1>6

\* The switches of the packet sequencer.
LEMMA SequencerGood ==
  /\ disble_pkt_seq \in Scripts /\ enable_pkt_seq \in Scripts
  /\ set_stream_pkt_wait_enable \in Scripts
  /\ set_stream_pkt_wait_disable \in Scripts
  /\ set_stream_pkt_send_delay_enable \in Scripts
  /\ set_stream_pkt_send_delay_disable \in Scripts
<1> USE SetBitsGood, ClearBitsGood, ResetBitsValues DEF Registers, Bits
<1>1. disble_pkt_seq \in Scripts /\ enable_pkt_seq \in Scripts
  BY DEF disble_pkt_seq, enable_pkt_seq
<1>2. /\ set_stream_pkt_wait_enable \in Scripts
      /\ set_stream_pkt_wait_disable \in Scripts
  BY DEF set_stream_pkt_wait_enable, set_stream_pkt_wait_disable
<1>3. /\ set_stream_pkt_send_delay_enable \in Scripts
      /\ set_stream_pkt_send_delay_disable \in Scripts
  BY DEF set_stream_pkt_send_delay_enable, set_stream_pkt_send_delay_disable
<1> QED BY <1>1, <1>2, <1>3

(***************************************************************************)
(* Every command of every group is a sequence of disciplined calls.        *)
(***************************************************************************)
\* areset to rxrsync.
LEMMA ResetCommandsGood ==
  \A c \in DOMAIN ResetCommands : ResetCommands[c] \in Scripts
<1>1. reset_chain \in Scripts
  BY ResetsGood, Joined DEF reset_chain
<1> DEFINE d == time_sync_tx_off \o time_sync_off \o set_sync_rst
                  \o time_sync_en \o time_sync_tx_en \o reset_dac_fifos
<1>2. d \in Scripts
  BY ResetsGood, SyncGood, Joined
<1>3. ResetCommands =
        [areset |-> reset_adc_fifos, dreset |-> d, preset |-> reset_pkt_seq,
         pseqoff |-> disble_pkt_seq, pseqon |-> enable_pkt_seq,
         creset |-> reset_core, freset |-> reset_chain, rxrsync |-> reset_chain]
  BY DEF ResetCommands
<1> HIDE DEF d
<1> QED BY <1>1, <1>2, <1>3, ResetsGood, SequencerGood

\* strteston to clearhdrstrip.
LEMMA TestCommandsGood ==
  \A c \in DOMAIN TestCommands : TestCommands[c] \in Scripts
BY TestsGood, AudioGood DEF TestCommands

\* strxteston to strxtestoff.
LEMMA XTestCommandsGood ==
  \A c \in DOMAIN XTestCommands : XTestCommands[c] \in Scripts
BY TestsGood DEF XTestCommands

\* setsyncen to tgsync.
LEMMA SyncCommandsGood ==
  \A c \in DOMAIN SyncCommands : SyncCommands[c] \in Scripts
<1> DEFINE en == time_sync_en \o time_sync_tx_en
           up == initiate_sync \o set_sync_on
           toggle == set_sync_off \o set_sync_on
<1>1. en \in Scripts /\ up \in Scripts /\ toggle \in Scripts
  BY SyncGood, Joined
<1>2. SyncCommands =
        [setsyncen |-> en, setsyncoff |-> time_sync_off,
         setsyncrst |-> set_sync_rst, setsyncon |-> up, tgsync |-> toggle]
  BY DEF SyncCommands
<1> HIDE DEF en, up, toggle
<1> QED BY <1>1, <1>2, SyncGood, ResetsGood

\* strpktcon to strrxstop; strstop writes an old copy back.
LEMMA StreamCommandsGood ==
  \A c \in DOMAIN StreamCommands : StreamCommands[c] \in Scripts
<1> USE ResetBitsValues DEF Registers, Bits
<1>1. /\ SetBits("ctrl", {Tx}) \in Scripts
      /\ SetBits("ctrl", {Rx}) \in Scripts
      /\ ClearBits("ctrl", {Rx}) \in Scripts
  BY SetBitsGood, ClearBitsGood DEF Tx, Rx
<1>2. /\ Do("load", "ctrl", {}, {}) \in Scripts
      /\ Do("store", "ctrl", {}, {Tx}) \in Scripts
  BY OneCall DEF Ops, Disciplined, Tx
<1> DEFINE start == SetBits("ctrl", {Tx}) \o reset_adc_fifos
           stop == Do("load", "ctrl", {}, {}) \o set_sync_off
                     \o Do("store", "ctrl", {}, {Tx})
           rx == SetBits("ctrl", {Rx})
           norx == ClearBits("ctrl", {Rx})
<1>3. start \in Scripts /\ stop \in Scripts /\ rx \in Scripts /\ norx \in Scripts
  BY <1>1, <1>2, Joined, ResetsGood, SyncGood
<1>4. StreamCommands =
        [strpktcon |-> set_pcnt_mode_on, strpktcoff |-> set_pcnt_mode_off,
         strsndon |-> set_stream_send_on, strsndoff |-> set_stream_send_off,
         strselarm |-> reset_dac_fifos, strseleth |-> reset_dac_fifos,
         strstart |-> start, strrxon |-> rx, strstop |-> stop, strrxstop |-> norx]
  BY DEF StreamCommands
<1> HIDE DEF start, stop, rx, norx
<1> QED BY <1>3, <1>4, AudioGood, ResetsGood

\* strnsp.
LEMMA SpeedCommandsGood ==
  \A c \in DOMAIN SpeedCommands : SpeedCommands[c] \in Scripts
<1> USE ResetBitsValues DEF Registers, Bits
<1>1. /\ ClearBits("ctrl", {Tx, Rx}) \in Scripts
      /\ ClearBits("ctrl", {Rx}) \in Scripts
      /\ ClearBits("ctrl", {Tx}) \in Scripts
      /\ Do("load", "ctrl", {}, {}) \in Scripts
  BY ClearBitsGood, OneCall DEF Ops, Disciplined, Tx, Rx
<1> QED BY <1>1 DEF SpeedCommands

\* sqwon to strblen.
LEMMA DelayCommandsGood ==
  \A c \in DOMAIN DelayCommands : DelayCommands[c] \in Scripts
BY SequencerGood, AudioGood, ResetsGood DEF DelayCommands

\* tgsrcorr, setcoron and setcoroff.
LEMMA CorrectionCommandsGood ==
  \A c \in DOMAIN CorrectionCommands : CorrectionCommands[c] \in Scripts
<1> DEFINE toggle == clear_buf_corr \o set_buf_corr_on
<1>1. toggle \in Scripts
  BY AudioGood, Joined
<1>2. CorrectionCommands =
        [tgsrcorr |-> toggle, setcoron |-> set_buf_corr_on, setcoroff |-> clear_buf_corr]
  BY DEF CorrectionCommands
<1> HIDE DEF toggle
<1> QED BY <1>1, <1>2, AudioGood

\* Every command the loop can start, whatever the operator types.
LEMMA ScriptsGood ==
  /\ \A c \in AllCommands : ScriptOf(c) \in Scripts
  /\ \A w \in MacWords : /\ write_eth_mac(w) \in Scripts
                         /\ ui_init(w) \in Scripts
<1>1. \A g \in Groups : \A c \in DOMAIN g : g[c] \in Scripts
  BY ResetCommandsGood, TestCommandsGood, XTestCommandsGood, SyncCommandsGood,
     StreamCommandsGood, SpeedCommandsGood, DelayCommandsGood,
     CorrectionCommandsGood DEF Groups
<1>2. ASSUME NEW c \in AllCommands PROVE ScriptOf(c) \in Scripts
  <2>1. \E g \in Groups : c \in DOMAIN g
    BY DEF AllCommands
  <2> DEFINE h == CHOOSE g \in Groups : c \in DOMAIN g
  <2>2. h \in Groups /\ c \in DOMAIN h
    BY <2>1
  <2> QED BY <1>1, <2>2 DEF ScriptOf
<1>3. ASSUME NEW w \in MacWords
      PROVE  /\ write_eth_mac(w) \in Scripts
             /\ ui_init(w) \in Scripts
  <2>1. w \in SUBSET Bits
    BY StreamAssumption DEF Bits
  <2>2. write_eth_mac(w) \in Scripts
    BY <2>1, WriteGood, ResetBitsValues DEF write_eth_mac, Registers
  <2>3. ClearBits("ctrl", {SyncTx}) \in Scripts
    BY ClearBitsGood, ResetBitsValues DEF SyncTx, Registers, Bits
  <2> QED BY <2>2, <2>3, SyncGood, Joined DEF ui_init
<1> QED BY <1>2, <1>3

-----------------------------------------------------------------------------
(***************************************************************************)
(* The inductive invariant.                                                *)
(***************************************************************************)
\* What Head and Tail of the operations left to do are.
LEMMA HeadTail ==
  ASSUME todo \in Scripts, todo # <<>>
  PROVE  /\ Next_op \in GoodCall
         /\ Next_op.reg \in Registers /\ Next_op.op \in Ops
         /\ Next_op.on \in SUBSET Bits /\ Next_op.off \in SUBSET Bits
         /\ Disciplined(Next_op)
         /\ Tail(todo) \in Scripts
<1>1. Next_op \in GoodCall /\ Tail(todo) \in Scripts
  BY HeadTailProperties DEF Scripts, Next_op
<1> QED BY <1>1 DEF GoodCall, Call

\* A script is a sequence of register operations.
LEMMA ScriptIsCalls ==
  ASSUME NEW s \in Scripts PROVE s \in Seq(Call)
BY DEF Scripts, GoodCall

\* A read of a register shows its reset bits as they are: the FIFO flags are
\* above them.
LEMMA ReadingsType ==
  ASSUME TypeOK, NEW r \in Registers, NEW d \in Readings(r)
  PROVE  d \in SUBSET Bits /\ d \cap ResetBits[r] = regs[r] \cap ResetBits[r]
<1>1. CASE r = "e2a"
  <2>1. PICK flags \in FifoStatus : d = (regs[r] \ FlagBits) \cup flags
    BY <1>1 DEF Readings
  <2>2. flags \in SUBSET FlagBits /\ FlagBits \cap {0, 1} = {} /\ FlagBits \subseteq Bits
    BY StreamAssumption DEF FlagBits, Bits
  <2> QED BY <1>1, <2>1, <2>2, ResetBitsValues DEF TypeOK
<1>2. CASE r # "e2a"
  BY <1>2 DEF Readings, TypeOK
<1> QED BY <1>1, <1>2

\* The FPGA starts with all registers zero and no process.
LEMMA InitIInv == Init => IInv
<1> SUFFICES ASSUME Init PROVE IInv
  OBVIOUS
<1>1. <<>> \in Scripts /\ <<>> \in Seq(Call)
  BY DEF Scripts
<1>2. TypeOK
  BY <1>1 DEF Init, TypeOK, Registers
<1>3. \A r \in Registers : Whole(r)
  BY DEF Init, Whole
<1>4. ResetReleased
  BY DEF Init, ResetReleased
<1> QED BY <1>1, <1>2, <1>3, <1>4 DEF IInv, Init

\* One register is written with v and the operation is finished: what v has to
\* satisfy.
LEMMA WrittenIInv ==
  ASSUME IInv, todo # <<>>, Running,
         NEW v \in SUBSET Bits,
         regs' = [regs EXCEPT ![Next_op.reg] = v],
         local' \in [Registers -> SUBSET Bits],
         command' = command, Pop,
         v \cap ResetBits[Next_op.reg] \in {{}, ResetBits[Next_op.reg]},
         \/ cut' = cut \ {Next_op.reg} /\ v \cap ResetBits[Next_op.reg] = {}
         \/ /\ cut' = cut /\ ~held
            /\ v \cap ResetBits[Next_op.reg] \in {{}, regs[Next_op.reg] \cap ResetBits[Next_op.reg]}
  PROVE  IInv'
<1> USE HeadTail DEF IInv
<1> DEFINE q == Next_op.reg
<1>1. TypeOK'
  BY ScriptIsCalls DEF TypeOK, Pop
<1>2. todo' \in Scripts /\ held' = FALSE
  BY DEF Pop
<1>3. \A r \in Registers : Whole(r)'
  BY DEF TypeOK, Whole
<1>4. ASSUME NEW r \in Registers, regs'[r] \cap ResetBits[r] # {}
      PROVE  r \in cut'
  <2>1. CASE r = q
    <3>1. v \cap ResetBits[q] # {}
      BY <2>1, <1>4 DEF TypeOK
    <3>2. cut' = cut /\ ~held /\ regs[q] \cap ResetBits[q] # {}
      BY <3>1
    <3> QED BY <2>1, <3>2 DEF ResetReleased
  <2>2. CASE r # q
    <3>1. regs[r] \cap ResetBits[r] # {}
      BY <2>2, <1>4 DEF TypeOK
    <3>2. r \in cut
      BY <2>2, <3>1 DEF ResetReleased
    <3> QED BY <2>2, <3>2
  <2> QED BY <2>1, <2>2
<1>5. ResetReleased'
  BY <1>4 DEF ResetReleased
<1> QED BY <1>1, <1>2, <1>3, <1>5

\* Every register operation, the prompt, the start, exit and kill keep IInv.
LEMMA NextIInv == IInv /\ [Next]_vars => IInv'
<1> SUFFICES ASSUME IInv, [Next]_vars PROVE IInv'
  OBVIOUS
<1> DEFINE q == Next_op.reg
<1>1. CASE ReadModifyWrite
  <2> USE <1>1 DEF ReadModifyWrite, Ready
  <2>1. todo # <<>> /\ todo \in Scripts /\ TypeOK
    BY DEF IInv
  <2>2. PICK d \in Readings(q) :
          regs' = [regs EXCEPT ![q] = (d \ Next_op.off) \cup Next_op.on]
    BY DEF Put
  <2>3. d \in SUBSET Bits /\ d \cap ResetBits[q] = regs[q] \cap ResetBits[q]
    BY <2>1, HeadTail, ReadingsType
  <2> DEFINE v == (d \ Next_op.off) \cup Next_op.on
  <2>4. v \in SUBSET Bits
    BY <2>1, <2>3, HeadTail
  <2>5. Next_op.on \cap ResetBits[q] = {} /\ Next_op.off \cap ResetBits[q] = {}
    BY <2>1, HeadTail DEF Disciplined
  <2>6. v \cap ResetBits[q] = regs[q] \cap ResetBits[q]
    BY <2>3, <2>5
  <2>7. regs[q] \cap ResetBits[q] \in {{}, ResetBits[q]}
    BY <2>1, HeadTail DEF IInv, Whole
  <2>8. ~held
    BY DEF IInv
  <2>9. local' \in [Registers -> SUBSET Bits]
    BY DEF IInv, TypeOK
  <2> HIDE DEF v
  <2> QED BY <2>1, <2>2, <2>4, <2>6, <2>7, <2>8, <2>9, WrittenIInv DEF v
<1>2. CASE WriteRegister
  <2> USE <1>2 DEF WriteRegister, Ready
  <2>1. todo # <<>> /\ todo \in Scripts
    BY DEF IInv
  <2>2. Next_op.on \in SUBSET Bits /\ Next_op.on \cap ResetBits[q] = {}
    BY <2>1, HeadTail DEF Disciplined
  <2>3. local' \in [Registers -> SUBSET Bits]
    BY DEF IInv, TypeOK
  <2> QED BY <2>1, <2>2, <2>3, WrittenIInv DEF Put
<1>3. CASE Raise
  <2> USE <1>3 DEF Raise, Ready
  <2>1. todo # <<>> /\ todo \in Scripts /\ TypeOK
    BY DEF IInv
  <2>2. PICK d \in Readings(q) : /\ local' = [local EXCEPT ![q] = d]
                                 /\ regs' = [regs EXCEPT ![q] = d \cup Next_op.on]
    BY DEF Keep, Put
  <2>3. d \in SUBSET Bits /\ d \cap ResetBits[q] = regs[q] \cap ResetBits[q]
    BY <2>1, HeadTail, ReadingsType
  <2>4. q \in Registers /\ Next_op.on \in SUBSET Bits
        /\ Next_op.on \cap ResetBits[q] \in {{}, ResetBits[q]}
    BY <2>1, HeadTail DEF Disciplined
  <2>5. regs[q] \cap ResetBits[q] \in {{}, ResetBits[q]}
    BY <2>4 DEF IInv, Whole
  <2>6. (d \cup Next_op.on) \cap ResetBits[q] \in {{}, ResetBits[q]}
    BY <2>3, <2>4, <2>5
  <2>7. TypeOK'
    BY <2>1, <2>2, <2>3, <2>4 DEF TypeOK
  <2>8. \A r \in Registers : Whole(r)'
    BY <2>1, <2>2, <2>6 DEF IInv, Whole, TypeOK
  <2>9. ASSUME NEW r \in Registers, regs'[r] \cap ResetBits[r] # {}
        PROVE  r \in cut' \/ r = q
    BY <2>1, <2>2, <2>9 DEF IInv, ResetReleased, TypeOK
  <2>10. ResetReleased'
    BY <2>9, <2>1 DEF ResetReleased, Next_op
  <2> QED BY <2>1, <2>7, <2>8, <2>10 DEF IInv, Next_op, Running
<1>4. CASE Lower
  <2> USE <1>4 DEF Lower, Ready
  <2>1. todo # <<>> /\ todo \in Scripts /\ TypeOK
    BY DEF IInv
  <2> DEFINE v == local[q] \ Next_op.off
  <2>2. v \in SUBSET Bits /\ v \cap ResetBits[q] = {}
    BY <2>1, HeadTail DEF Disciplined, TypeOK
  <2>3. local' \in [Registers -> SUBSET Bits]
    BY <2>1 DEF TypeOK
  <2> QED BY <2>1, <2>2, <2>3, WrittenIInv DEF Put
<1>5. CASE Load
  <2> USE <1>5 DEF Load, Ready
  <2>1. todo # <<>> /\ todo \in Scripts /\ TypeOK /\ ~held
    BY DEF IInv
  <2>2. PICK d \in Readings(q) : local' = [local EXCEPT ![q] = d]
    BY DEF Keep
  <2>3. d \in SUBSET Bits /\ q \in Registers /\ Tail(todo) \in Scripts
    BY <2>1, HeadTail, ReadingsType
  <2>4. TypeOK'
    BY <2>1, <2>2, <2>3, ScriptIsCalls DEF TypeOK, Pop
  <2> QED BY <2>1, <2>3, <2>4 DEF IInv, ResetReleased, Whole, Pop
<1>6. CASE Store
  <2> USE <1>6 DEF Store, Ready
  <2>1. todo # <<>> /\ todo \in Scripts /\ TypeOK /\ ~held
    BY DEF IInv
  <2>2. local[q] \ Next_op.off \in SUBSET Bits
        /\ (local[q] \ Next_op.off) \cap ResetBits[q] = {}
    BY <2>1, HeadTail DEF Disciplined, TypeOK
  <2>3. local' \in [Registers -> SUBSET Bits]
    BY <2>1 DEF TypeOK
  <2> QED BY <2>1, <2>2, <2>3, WrittenIInv DEF Put
<1>7. ASSUME NEW c, NEW s \in Scripts, Start(c, s), ~held,
             c \in AllCommands \cup {"ui_init", "strmac"}
      PROVE  IInv'
  <2>1. TypeOK'
    BY <1>7, ScriptIsCalls DEF IInv, TypeOK, Start
  <2> QED BY <1>7, <2>1 DEF IInv, ResetReleased, Whole, Start
<1>8. ASSUME NEW c \in Commands, Type(c) PROVE IInv'
  BY <1>7, <1>8, StreamAssumption, ScriptsGood DEF Type, IInv, Running
<1>9. ASSUME NEW w \in MacWords, strmac(w) \/ Launch(w) PROVE IInv'
  BY <1>7, <1>9, ScriptsGood DEF strmac, Launch, IInv, Running
<1>10. CASE Prompt
  <2>1. ~held /\ held' = held /\ todo' = todo /\ regs' = regs /\ cut' = cut
    BY <1>10 DEF Prompt, IInv
  <2>2. TypeOK'
    BY <1>10 DEF Prompt, IInv, TypeOK
  <2> QED BY <2>1, <2>2 DEF IInv, ResetReleased, Whole
<1>11. CASE Exit
  <2>1. ~held /\ held' = held /\ todo' = todo /\ regs' = regs /\ cut' = cut
    BY <1>11 DEF Exit, IInv, Running
  <2>2. TypeOK'
    BY <1>11 DEF Exit, IInv, TypeOK
  <2> QED BY <2>1, <2>2 DEF IInv, ResetReleased, Whole
<1>12. CASE Kill
  <2>1. <<>> \in Scripts /\ <<>> \in Seq(Call)
    BY DEF Scripts
  <2>2. held => q \in Registers
    BY HeadTail DEF IInv
  <2>3. TypeOK'
    BY <1>12, <2>1, <2>2 DEF Kill, IInv, TypeOK
  <2>4. ASSUME NEW r \in Registers, regs[r] \cap ResetBits[r] # {} PROVE r \in cut'
    BY <1>12, <2>4 DEF Kill, IInv, ResetReleased
  <2> QED BY <1>12, <2>1, <2>3, <2>4 DEF Kill, IInv, ResetReleased, Whole
<1>13. CASE UNCHANGED vars
  BY <1>13 DEF vars, IInv, TypeOK, ResetReleased, Whole, Running, Next_op
<1> QED
  BY <1>1, <1>2, <1>3, <1>4, <1>5, <1>6, <1>8, <1>9, <1>10, <1>11, <1>12, <1>13
     DEF Next, Live, Step

-----------------------------------------------------------------------------
(***************************************************************************)
(* Theorems.                                                               *)
(***************************************************************************)
\* IInv holds in every behaviour.
LEMMA AlwaysIInv == Spec => []IInv
BY InitIInv, NextIInv, PTL DEF Spec

\* Whatever is typed and whenever the process dies, the registers and the
\* copies the commands keep of them hold only the bits the code names.
THEOREM TypeCorrect == Spec => []TypeOK
<1>1. IInv => TypeOK
  BY DEF IInv
<1> QED BY <1>1, AlwaysIInv, PTL

\* No unit is left in reset by a command that returned: reset_adc_fifos,
\* reset_dac_fifos, reset_pkt_seq and set_sync_rst against every other command
\* that rewrites their registers, with kills at any register operation.
THEOREM ResetsAreReleased == Spec => []ResetReleased
<1>1. IInv => ResetReleased
  BY DEF IInv
<1> QED BY <1>1, AlwaysIInv, PTL

\* The left and the right FIFO of a converter enter and leave reset together
\* (REG0 of audio_to_eth and of eth_to_audio), also when a kill cuts the reset.
THEOREM ChannelsStayTogether == Spec => []ChannelsTogether
<1>1. IInv => ChannelsTogether
  BY ResetBitsValues DEF IInv, Whole, ChannelsTogether, Registers
<1> QED BY <1>1, AlwaysIInv, PTL

-----------------------------------------------------------------------------
(***************************************************************************)
(* The panel, and the transmitter of synchronisation packets.  Here the    *)
(* argument looks at one bit of one register, a pair p, and at what the    *)
(* operations left to do make of it: e2a has no such bit, because what is  *)
(* read there is not what was written.                                     *)
(***************************************************************************)
Positions == (Registers \ {"e2a"}) \X Bits

IsOn(p) == p[2] \in regs[p[1]]

\* Operation c keeps the bit; it makes the bit v whatever it was.
Keeps(c, p) ==
  \/ c.reg # p[1]
  \/ c.op = "load"
  \/ c.op \in {"rmw", "pulse", "store"} /\ p[2] \notin c.on \cup c.off
Makes(c, p, v) ==
  /\ c.reg = p[1]
  /\ IF v THEN c.op \in {"rmw", "write"} /\ p[2] \in c.on
     ELSE \/ c.op = "write" /\ p[2] \notin c.on
          \/ c.op = "rmw" /\ p[2] \in c.off \ c.on
          \/ c.op \in {"pulse", "store"} /\ p[2] \in c.off

\* All operations of s keep the bit; the last one that does not makes it v.
Spares(s, p) == \A i \in DOMAIN s : Keeps(s[i], p)
Ends(s, p, v) ==
  \E i \in DOMAIN s : Makes(s[i], p, v) /\ \A j \in DOMAIN s : j > i => Keeps(s[j], p)

\* The first i - 1 operations of s leave the bit v, if it is bit now.
Before(s, i, p, v, bit) ==
  \/ \E j \in DOMAIN s : /\ j < i /\ Makes(s[j], p, v)
                         /\ \A k \in DOMAIN s : j < k /\ k < i => Keeps(s[k], p)
  \/ (bit <=> v) /\ \A k \in DOMAIN s : k < i => Keeps(s[k], p)

\* Synchronisation packets are switched on; the unit that sends them runs.
Lifts(c) == c.reg = "ctrl" /\ c.op \in {"rmw", "write", "pulse"} /\ SyncTx \in c.on
UnitOn  == <<"ts", SyncEn>>
UnitRst == <<"ts", 1>>

\* The copy a store writes back was loaded from its register, which nothing
\* has touched since.
Loaded(s, i) ==
  \E j \in DOMAIN s : /\ j < i /\ s[j].op = "load" /\ s[j].reg = s[i].reg
                      /\ \A k \in DOMAIN s : j < k /\ k < i => s[k].reg # s[i].reg
Untouched(s, i) ==
  /\ \A k \in DOMAIN s : k < i => s[k].reg # s[i].reg
  /\ local[s[i].reg] = regs[s[i].reg]

\* What is left of the command keeps the bits it is not to move, ends with the
\* others where they belong, and sends no packets from a unit that is off.
Due(p, v) == Ends(todo, p, v) \/ (Spares(todo, p) /\ (IsOn(p) <=> v))
PanelDue ==
  Running =>
    \A x \in DOMAIN SwitchBit :
      /\ x \notin Panel!Owns(command) => Spares(todo, SwitchBit[x])
      /\ x \in Panel!TurnsOn(command) => Due(SwitchBit[x], TRUE)
      /\ x \in Panel!TurnsOff(command) => Due(SwitchBit[x], FALSE)
UnitDue ==
  \A i \in DOMAIN todo : Lifts(todo[i]) =>
    /\ Before(todo, i, UnitOn, TRUE, IsOn(UnitOn))
    /\ Before(todo, i, UnitRst, FALSE, IsOn(UnitRst))
CopiesFresh ==
  /\ held /\ Next_op.reg # "e2a" => regs[Next_op.reg] = local[Next_op.reg] \cup Next_op.on
  /\ \A i \in DOMAIN todo : todo[i].op = "store" =>
       todo[i].reg # "e2a" /\ (Loaded(todo, i) \/ Untouched(todo, i))

\* Nothing is left to do at the prompt.
Idling == Running \/ todo = <<>>

PInv == PanelDue /\ UnitDue /\ CopiesFresh

\* What a script must be for that, in any state.
Fits(c, s) ==
  \A x \in DOMAIN SwitchBit :
    /\ x \notin Panel!Owns(c) => Spares(s, SwitchBit[x])
    /\ x \in Panel!TurnsOn(c) => Ends(s, SwitchBit[x], TRUE)
    /\ x \in Panel!TurnsOff(c) => Ends(s, SwitchBit[x], FALSE)
Prepared(s) ==
  \A i \in DOMAIN s : Lifts(s[i]) =>
    /\ \E j \in DOMAIN s : /\ j < i /\ Makes(s[j], UnitOn, TRUE)
                           /\ \A k \in DOMAIN s : j < k /\ k < i => Keeps(s[k], UnitOn)
    /\ \E j \in DOMAIN s : /\ j < i /\ Makes(s[j], UnitRst, FALSE)
                           /\ \A k \in DOMAIN s : j < k /\ k < i => Keeps(s[k], UnitRst)
Copying(s) ==
  \A i \in DOMAIN s : s[i].op = "store" => s[i].reg # "e2a" /\ Loaded(s, i)
\* Nothing to copy; nothing to prepare either.
Plain(s) == \A i \in DOMAIN s : s[i].op # "store"
Calm(s) == \A i \in DOMAIN s : ~Lifts(s[i]) /\ s[i].op # "store"

-----------------------------------------------------------------------------
(***************************************************************************)
(* Sequences of operations.                                                *)
(***************************************************************************)
\* Two scripts one after the other.
LEMMA TwoScripts ==
  ASSUME NEW s \in Scripts, NEW t \in Scripts
  PROVE  /\ s \o t \in Scripts
         /\ DOMAIN s = 1 .. Len(s) /\ DOMAIN t = 1 .. Len(t)
         /\ Len(s) \in Nat /\ Len(t) \in Nat
         /\ DOMAIN (s \o t) = 1 .. (Len(s) + Len(t))
         /\ \A i \in DOMAIN s : i \in DOMAIN (s \o t) /\ (s \o t)[i] = s[i]
         /\ \A i \in DOMAIN t : Len(s) + i \in DOMAIN (s \o t) /\ (s \o t)[Len(s) + i] = t[i]
         /\ \A i \in DOMAIN (s \o t) : \/ i \in DOMAIN s
                                       \/ /\ i - Len(s) \in DOMAIN t /\ i > Len(s)
                                          /\ (s \o t)[i] = t[i - Len(s)]
<1>1. /\ s \in Seq(GoodCall) /\ t \in Seq(GoodCall)
  BY DEF Scripts
<1>2. /\ s \o t \in Seq(GoodCall) /\ Len(s \o t) = Len(s) + Len(t)
      /\ \A i \in 1 .. Len(s) : (s \o t)[i] = s[i]
      /\ \A i \in 1 .. Len(t) : (s \o t)[Len(s) + i] = t[i]
      /\ DOMAIN (s \o t) = 1 .. (Len(s) + Len(t))
      /\ DOMAIN s = 1 .. Len(s) /\ DOMAIN t = 1 .. Len(t)
      /\ Len(s) \in Nat /\ Len(t) \in Nat
  BY <1>1
<1> DEFINE u == s \o t
<1> HIDE DEF u
<1>3. \A i \in DOMAIN u : i \in DOMAIN s \/ (i - Len(s) \in DOMAIN t /\ i > Len(s) /\ u[i] = t[i - Len(s)])
  <2> SUFFICES ASSUME NEW i \in DOMAIN u, i \notin DOMAIN s
               PROVE  i - Len(s) \in DOMAIN t /\ i > Len(s) /\ u[i] = t[i - Len(s)]
    OBVIOUS
  <2>1. i - Len(s) \in DOMAIN t /\ i = Len(s) + (i - Len(s)) /\ i > Len(s)
    BY <1>2 DEF u
  <2> QED
    BY <1>2, <2>1 DEF u
<1> QED
  BY <1>2, <1>3 DEF u, Scripts

\* What two scripts make of a bit.
LEMMA JoinedBit ==
  ASSUME NEW s \in Scripts, NEW t \in Scripts, NEW p
  PROVE  /\ Spares(s, p) /\ Spares(t, p) => Spares(s \o t, p)
         /\ \A v : Ends(t, p, v) => Ends(s \o t, p, v)
         /\ \A v : Ends(s, p, v) /\ Spares(t, p) => Ends(s \o t, p, v)
<1> DEFINE u == s \o t
<1>0. /\ DOMAIN s = 1 .. Len(s) /\ DOMAIN t = 1 .. Len(t)
      /\ Len(s) \in Nat /\ Len(t) \in Nat
      /\ \A i \in DOMAIN s : i \in DOMAIN u /\ u[i] = s[i]
      /\ \A i \in DOMAIN t : Len(s) + i \in DOMAIN u /\ u[Len(s) + i] = t[i]
      /\ \A i \in DOMAIN u : \/ i \in DOMAIN s
                             \/ i - Len(s) \in DOMAIN t /\ i > Len(s) /\ u[i] = t[i - Len(s)]
      /\ DOMAIN u = 1 .. (Len(s) + Len(t))
  BY TwoScripts
<1> HIDE DEF u
<1>1. Spares(s, p) /\ Spares(t, p) => Spares(u, p)
  BY <1>0 DEF Spares
<1>2. ASSUME NEW v, Ends(t, p, v) PROVE Ends(u, p, v)
  <2>1. PICK i \in DOMAIN t : Makes(t[i], p, v) /\ \A j \in DOMAIN t : j > i => Keeps(t[j], p)
    BY <1>2 DEF Ends
  <2>2. Len(s) + i \in DOMAIN u /\ Makes(u[Len(s) + i], p, v)
    BY <1>0, <2>1
  <2>3. ASSUME NEW j \in DOMAIN u, j > Len(s) + i PROVE Keeps(u[j], p)
    BY <1>0, <2>1, <2>3
  <2> QED
    BY <2>2, <2>3 DEF Ends
<1>3. ASSUME NEW v, Ends(s, p, v), Spares(t, p) PROVE Ends(u, p, v)
  <2>1. PICK i \in DOMAIN s : Makes(s[i], p, v) /\ \A j \in DOMAIN s : j > i => Keeps(s[j], p)
    BY <1>3 DEF Ends
  <2>2. i \in DOMAIN u /\ Makes(u[i], p, v)
    BY <1>0, <2>1
  <2>3. ASSUME NEW j \in DOMAIN u, j > i PROVE Keeps(u[j], p)
    BY <1>0, <1>3, <2>1, <2>3 DEF Spares
  <2> QED
    BY <2>2, <2>3 DEF Ends
<1> QED
  BY <1>1, <1>2, <1>3 DEF u

\* Calm scripts, and one that prepares and loads before or after a calm one.
LEMMA JoinedCalm ==
  ASSUME NEW s \in Scripts, NEW t \in Scripts
  PROVE  /\ Calm(s) /\ Calm(t) => Calm(s \o t)
         /\ Prepared(s) /\ Calm(t) => Prepared(s \o t)
         /\ Calm(s) /\ Prepared(t) => Prepared(s \o t)
<1> DEFINE u == s \o t
<1>0. /\ DOMAIN s = 1 .. Len(s) /\ DOMAIN t = 1 .. Len(t)
      /\ Len(s) \in Nat /\ Len(t) \in Nat
      /\ \A i \in DOMAIN s : i \in DOMAIN u /\ u[i] = s[i]
      /\ \A i \in DOMAIN t : Len(s) + i \in DOMAIN u /\ u[Len(s) + i] = t[i]
      /\ \A i \in DOMAIN u : \/ i \in DOMAIN s
                             \/ i - Len(s) \in DOMAIN t /\ i > Len(s) /\ u[i] = t[i - Len(s)]
      /\ DOMAIN u = 1 .. (Len(s) + Len(t))
  BY TwoScripts
<1> HIDE DEF u
<1>1. Calm(s) /\ Calm(t) => Calm(u)
  BY <1>0 DEF Calm
<1> DEFINE Settles(w, i, p, v) ==
      \E j \in DOMAIN w : /\ j < i /\ Makes(w[j], p, v)
                          /\ \A k \in DOMAIN w : j < k /\ k < i => Keeps(w[k], p)
<1>2. ASSUME NEW i \in DOMAIN s, NEW p, NEW v, Settles(s, i, p, v) PROVE Settles(u, i, p, v)
  <2>1. PICK j \in DOMAIN s : /\ j < i /\ Makes(s[j], p, v)
                              /\ \A k \in DOMAIN s : j < k /\ k < i => Keeps(s[k], p)
    BY <1>2
  <2>2. ASSUME NEW k \in DOMAIN u, j < k, k < i PROVE Keeps(u[k], p)
    BY <1>0, <2>1, <2>2
  <2> QED
    BY <1>0, <2>1, <2>2
<1>3. ASSUME NEW i \in DOMAIN t, NEW p, NEW v, Settles(t, i, p, v)
      PROVE  Settles(u, Len(s) + i, p, v)
  <2>1. PICK j \in DOMAIN t : /\ j < i /\ Makes(t[j], p, v)
                              /\ \A k \in DOMAIN t : j < k /\ k < i => Keeps(t[k], p)
    BY <1>3
  <2>2. ASSUME NEW k \in DOMAIN u, Len(s) + j < k, k < Len(s) + i PROVE Keeps(u[k], p)
    <3>1. k - Len(s) \in DOMAIN t /\ u[k] = t[k - Len(s)] /\ j < k - Len(s) /\ k - Len(s) < i
      BY <1>0, <2>2
    <3> QED
      BY <2>1, <3>1
  <2>3. Len(s) + j \in DOMAIN u /\ Len(s) + j < Len(s) + i /\ Makes(u[Len(s) + j], p, v)
    BY <1>0, <2>1
  <2> QED
    BY <2>2, <2>3
<1>4. \A w : Prepared(w) <=>
        \A i \in DOMAIN w : Lifts(w[i]) => Settles(w, i, UnitOn, TRUE) /\ Settles(w, i, UnitRst, FALSE)
  BY DEF Prepared
<1> HIDE DEF Settles
<1>5. ASSUME Prepared(s), Calm(t) PROVE Prepared(u)
  <2> SUFFICES ASSUME NEW i \in DOMAIN u, Lifts(u[i])
               PROVE  Settles(u, i, UnitOn, TRUE) /\ Settles(u, i, UnitRst, FALSE)
    BY <1>4
  <2>1. i \in DOMAIN s /\ u[i] = s[i]
    BY <1>0, <1>5 DEF Calm
  <2> QED
    BY <1>2, <1>4, <1>5, <2>1
<1>6. ASSUME Calm(s), Prepared(t) PROVE Prepared(u)
  <2> SUFFICES ASSUME NEW i \in DOMAIN u, Lifts(u[i])
               PROVE  Settles(u, i, UnitOn, TRUE) /\ Settles(u, i, UnitRst, FALSE)
    BY <1>4
  <2>1. i - Len(s) \in DOMAIN t /\ u[i] = t[i - Len(s)]
    BY <1>0, <1>6 DEF Calm
  <2>2. Len(s) + (i - Len(s)) = i
    BY <1>0
  <2>3. Settles(t, i - Len(s), UnitOn, TRUE) /\ Settles(t, i - Len(s), UnitRst, FALSE)
    BY <1>4, <1>6, <2>1
  <2> DEFINE h == i - Len(s)
  <2> HIDE DEF h
  <2>4. h \in DOMAIN t /\ Settles(t, h, UnitOn, TRUE) /\ Settles(t, h, UnitRst, FALSE)
        /\ Len(s) + h = i
    BY <2>1, <2>2, <2>3 DEF h
  <2>5. Settles(u, Len(s) + h, UnitOn, TRUE) /\ Settles(u, Len(s) + h, UnitRst, FALSE)
    BY <1>3, <2>4
  <2> QED
    BY <2>4, <2>5
<1> QED
  BY <1>1, <1>5, <1>6 DEF u

\* A script of one operation.
LEMMA OneOperation ==
  ASSUME NEW op, NEW r, NEW up, NEW down, NEW p
  PROVE  LET c == [op |-> op, reg |-> r, on |-> up, off |-> down]
         IN  /\ Keeps(c, p) => Spares(Do(op, r, up, down), p)
             /\ \A v : Makes(c, p, v) => Ends(Do(op, r, up, down), p, v)
             /\ ~Lifts(c) /\ op # "store" => Calm(Do(op, r, up, down))
<1> DEFINE c == [op |-> op, reg |-> r, on |-> up, off |-> down]
<1>1. c.op = op
  OBVIOUS
<1> HIDE DEF c
<1>2. DOMAIN <<c>> = {1} /\ <<c>>[1] = c
  OBVIOUS
<1>3. Do(op, r, up, down) = <<c>>
  BY DEF Do, c
<1>4. Keeps(c, p) => Spares(<<c>>, p)
  BY <1>2 DEF Spares
<1>5. \A v : Makes(c, p, v) => Ends(<<c>>, p, v)
  BY <1>2 DEF Ends
<1>6. ~Lifts(c) /\ op # "store" => Calm(<<c>>)
  BY <1>1, <1>2 DEF Calm
<1> QED
  BY <1>3, <1>4, <1>5, <1>6 DEF c

\* A calm script needs no preparation and no copy.
LEMMA CalmIs ==
  ASSUME NEW s, Calm(s)
  PROVE  Prepared(s) /\ Copying(s)
BY DEF Calm, Prepared, Copying

\* The first operation and the rest.
LEMMA HeadAndRest ==
  ASSUME todo \in Scripts, todo # <<>>
  PROVE  /\ DOMAIN todo = 1 .. Len(todo) /\ Len(todo) \in Nat \ {0}
         /\ DOMAIN Tail(todo) = 1 .. (Len(todo) - 1)
         /\ \A i \in DOMAIN Tail(todo) : i + 1 \in DOMAIN todo /\ Tail(todo)[i] = todo[i + 1]
         /\ \A i \in DOMAIN todo : i # 1 => i - 1 \in DOMAIN Tail(todo) /\ Tail(todo)[i - 1] = todo[i]
         /\ 1 \in DOMAIN todo /\ todo[1] = Next_op
<1>1. todo \in Seq(GoodCall)
  BY DEF Scripts
<1>2. /\ DOMAIN todo = 1 .. Len(todo) /\ Len(todo) \in Nat \ {0}
      /\ DOMAIN Tail(todo) = 1 .. (Len(todo) - 1)
      /\ \A i \in 1 .. (Len(todo) - 1) : Tail(todo)[i] = todo[i + 1]
      /\ todo[1] = Head(todo)
  BY <1>1
<1> DEFINE t == Tail(todo)
<1> HIDE DEF t
<1>3. \A i \in DOMAIN todo : i # 1 => i - 1 \in DOMAIN t /\ t[i - 1] = todo[i]
  <2> SUFFICES ASSUME NEW i \in DOMAIN todo, i # 1
               PROVE  i - 1 \in DOMAIN t /\ t[i - 1] = todo[i]
    OBVIOUS
  <2>1. i - 1 \in 1 .. (Len(todo) - 1) /\ (i - 1) + 1 = i
    BY <1>2
  <2> QED
    BY <1>2, <2>1 DEF t
<1> QED
  BY <1>2, <1>3 DEF t, Next_op

\* Every switch of the panel is a bit of a register other than e2a.
LEMMA SwitchBitsAre == \A x \in DOMAIN SwitchBit : SwitchBit[x] \in Positions
BY DEF SwitchBit, Positions, Registers, Bits, SyncTx, Tx, Rx, SyncEn

\* An operation that is finished does what it is to do with every bit: what is
\* left is as the invariant wants it.
LEMMA Finished ==
  ASSUME IInv, PInv, Running, todo # <<>>, command' = command, Pop,
         \A p \in Positions : Keeps(Next_op, p) => (IsOn(p)' <=> IsOn(p)),
         \A p \in Positions : \A v \in BOOLEAN : Makes(Next_op, p, v) => (IsOn(p)' <=> v),
         \A r \in Registers : r # Next_op.reg => regs'[r] = regs[r] /\ local'[r] = local[r],
         Next_op.op = "load" /\ Next_op.reg # "e2a" => local'[Next_op.reg] = regs'[Next_op.reg]
  PROVE  PInv'
<1> DEFINE t == Tail(todo)
<1>0. /\ DOMAIN todo = 1 .. Len(todo) /\ Len(todo) \in Nat \ {0}
      /\ DOMAIN t = 1 .. (Len(todo) - 1)
      /\ \A i \in DOMAIN t : i + 1 \in DOMAIN todo /\ t[i] = todo[i + 1]
      /\ \A i \in DOMAIN todo : i # 1 => i - 1 \in DOMAIN t /\ t[i - 1] = todo[i]
      /\ 1 \in DOMAIN todo /\ todo[1] = Next_op
  BY HeadAndRest DEF IInv
<1>a. todo' = t /\ held' = FALSE /\ todo \in Seq(Call)
  BY DEF Pop, IInv, TypeOK
<1> HIDE DEF t
<1>1. ASSUME NEW p, Spares(todo, p) PROVE Spares(t, p) /\ Keeps(Next_op, p)
  BY <1>0, <1>1 DEF Spares
<1>2. ASSUME NEW p \in Positions, NEW v \in BOOLEAN, Due(p, v)
      PROVE  Ends(t, p, v) \/ (Spares(t, p) /\ (IsOn(p)' <=> v))
  <2>1. CASE Ends(todo, p, v)
    <3>1. PICK i \in DOMAIN todo : /\ Makes(todo[i], p, v)
                                   /\ \A j \in DOMAIN todo : j > i => Keeps(todo[j], p)
      BY <2>1 DEF Ends
    <3>2. CASE i = 1
      <4>1. Spares(t, p)
        BY <1>0, <3>1, <3>2 DEF Spares
      <4>2. Makes(Next_op, p, v)
        BY <1>0, <3>1, <3>2
      <4> QED
        BY <4>1, <4>2
    <3>3. CASE i # 1
      <4>1. i - 1 \in DOMAIN t /\ Makes(t[i - 1], p, v)
        BY <1>0, <3>1, <3>3
      <4>2. ASSUME NEW j \in DOMAIN t, j > i - 1 PROVE Keeps(t[j], p)
        BY <1>0, <3>1, <4>2
      <4> QED
        BY <4>1, <4>2 DEF Ends
    <3> QED
      BY <3>2, <3>3
  <2>2. CASE Spares(todo, p) /\ (IsOn(p) <=> v)
    <3>1. Spares(t, p) /\ Keeps(Next_op, p)
      BY <1>1, <2>2
    <3> QED
      BY <2>2, <3>1
  <2> QED
    BY <1>2, <2>1, <2>2 DEF Due
<1>3. PanelDue'
  <2> SUFFICES ASSUME Running', NEW x \in DOMAIN SwitchBit
               PROVE  /\ x \notin Panel!Owns(command') => Spares(t, SwitchBit[x])
                      /\ x \in Panel!TurnsOn(command') =>
                           \/ Ends(t, SwitchBit[x], TRUE)
                           \/ Spares(t, SwitchBit[x]) /\ (IsOn(SwitchBit[x])' <=> TRUE)
                      /\ x \in Panel!TurnsOff(command') =>
                           \/ Ends(t, SwitchBit[x], FALSE)
                           \/ Spares(t, SwitchBit[x]) /\ (IsOn(SwitchBit[x])' <=> FALSE)
    BY <1>a DEF PanelDue, Due
  <2>1. SwitchBit[x] \in Positions
    BY SwitchBitsAre
  <2>2. /\ x \notin Panel!Owns(command) => Spares(todo, SwitchBit[x])
        /\ x \in Panel!TurnsOn(command) => Due(SwitchBit[x], TRUE)
        /\ x \in Panel!TurnsOff(command) => Due(SwitchBit[x], FALSE)
    BY DEF PInv, PanelDue
  <2>3. x \notin Panel!Owns(command) => Spares(t, SwitchBit[x])
    BY <1>1, <2>2
  <2>4. x \in Panel!TurnsOn(command) =>
          \/ Ends(t, SwitchBit[x], TRUE)
          \/ Spares(t, SwitchBit[x]) /\ (IsOn(SwitchBit[x])' <=> TRUE)
    BY <1>2, <2>1, <2>2
  <2>5. x \in Panel!TurnsOff(command) =>
          \/ Ends(t, SwitchBit[x], FALSE)
          \/ Spares(t, SwitchBit[x]) /\ (IsOn(SwitchBit[x])' <=> FALSE)
    BY <1>2, <2>1, <2>2
  <2> QED
    BY <2>3, <2>4, <2>5
<1>4. ASSUME NEW i \in DOMAIN t, NEW p \in Positions, NEW v \in BOOLEAN,
             Before(todo, i + 1, p, v, IsOn(p))
      PROVE  Before(t, i, p, v, IsOn(p)')
  <2>1. CASE \A k \in DOMAIN todo : k < i + 1 => Keeps(todo[k], p)
    <3>1. Keeps(Next_op, p)
      BY <1>0, <2>1
    <3>2. \A k \in DOMAIN t : k < i => Keeps(t[k], p)
      BY <1>0, <2>1
    <3>3. CASE IsOn(p) <=> v
      BY <3>1, <3>2, <3>3 DEF Before
    <3>4. ASSUME NEW j \in DOMAIN todo, j < i + 1, Makes(todo[j], p, v)
          PROVE  Before(t, i, p, v, IsOn(p)')
      <4>1. CASE j = 1
        <5>1. IsOn(p)' <=> v
          BY <1>0, <3>4, <4>1
        <5> QED
          BY <3>2, <5>1 DEF Before
      <4>2. CASE j # 1
        <5>1. j - 1 \in DOMAIN t /\ t[j - 1] = todo[j] /\ j - 1 < i
          BY <1>0, <3>4, <4>2
        <5>2. \A k \in DOMAIN t : j - 1 < k /\ k < i => Keeps(t[k], p)
          BY <3>2
        <5> QED
          BY <3>4, <5>1, <5>2 DEF Before
      <4> QED
        BY <4>1, <4>2
    <3> QED
      BY <1>4, <3>3, <3>4 DEF Before
  <2>2. CASE \E j \in DOMAIN todo : /\ j < i + 1 /\ Makes(todo[j], p, v)
                                    /\ \A k \in DOMAIN todo : j < k /\ k < i + 1 => Keeps(todo[k], p)
    <3>1. PICK j \in DOMAIN todo : /\ j < i + 1 /\ Makes(todo[j], p, v)
                                   /\ \A k \in DOMAIN todo : j < k /\ k < i + 1 => Keeps(todo[k], p)
      BY <2>2
    <3>2. CASE j = 1
      <4>1. IsOn(p)' <=> v
        BY <1>0, <3>1, <3>2
      <4>2. \A k \in DOMAIN t : k < i => Keeps(t[k], p)
        BY <1>0, <3>1, <3>2
      <4> QED
        BY <4>1, <4>2 DEF Before
    <3>3. CASE j # 1
      <4>1. j - 1 \in DOMAIN t /\ t[j - 1] = todo[j] /\ j - 1 < i
        BY <1>0, <3>1, <3>3
      <4>2. \A k \in DOMAIN t : j - 1 < k /\ k < i => Keeps(t[k], p)
        BY <1>0, <3>1
      <4> QED
        BY <3>1, <4>1, <4>2 DEF Before
    <3> QED
      BY <3>2, <3>3
  <2> QED
    BY <1>4, <2>1, <2>2 DEF Before
<1>5. UnitDue'
  <2> SUFFICES ASSUME NEW i \in DOMAIN t, Lifts(t[i])
               PROVE  /\ Before(t, i, UnitOn, TRUE, IsOn(UnitOn)')
                      /\ Before(t, i, UnitRst, FALSE, IsOn(UnitRst)')
    BY <1>a DEF UnitDue
  <2>1. UnitOn \in Positions /\ UnitRst \in Positions
    BY DEF UnitOn, UnitRst, SyncEn, Positions, Registers, Bits
  <2>2. i + 1 \in DOMAIN todo /\ Lifts(todo[i + 1])
    BY <1>0
  <2>3. /\ Before(todo, i + 1, UnitOn, TRUE, IsOn(UnitOn))
        /\ Before(todo, i + 1, UnitRst, FALSE, IsOn(UnitRst))
    BY <2>2 DEF PInv, UnitDue
  <2> QED
    BY <1>4, <2>1, <2>3
<1>6. CopiesFresh'
  <2> SUFFICES ASSUME NEW i \in DOMAIN t, t[i].op = "store"
               PROVE  /\ t[i].reg # "e2a"
                      /\ \/ Loaded(t, i)
                         \/ /\ \A k \in DOMAIN t : k < i => t[k].reg # t[i].reg
                            /\ local'[t[i].reg] = regs'[t[i].reg]
    BY <1>a DEF CopiesFresh, Untouched
  <2>1. /\ i + 1 \in DOMAIN todo /\ t[i] = todo[i + 1] /\ i \in Int
    BY <1>0
  <2>2. /\ todo[i + 1].reg # "e2a"
        /\ Loaded(todo, i + 1) \/ Untouched(todo, i + 1)
    BY <2>1 DEF PInv, CopiesFresh
  <2>3. todo[i + 1].reg \in Registers
    <3>1. todo[i + 1] \in Call
      BY <1>a, <2>1
    <3> QED
      BY <3>1 DEF Call
  <2>4. CASE Untouched(todo, i + 1)
    <3>1. Next_op.reg # t[i].reg /\ local[t[i].reg] = regs[t[i].reg]
      BY <1>0, <2>1, <2>4 DEF Untouched
    <3>2. \A k \in DOMAIN t : k < i => t[k].reg # t[i].reg
      BY <1>0, <2>1, <2>4 DEF Untouched
    <3>3. local'[t[i].reg] = regs'[t[i].reg]
      BY <2>1, <2>3, <3>1
    <3> QED
      BY <2>1, <2>2, <3>2, <3>3
  <2>5. CASE Loaded(todo, i + 1)
    <3>1. PICK j \in DOMAIN todo :
            /\ j < i + 1 /\ todo[j].op = "load" /\ todo[j].reg = todo[i + 1].reg
            /\ \A k \in DOMAIN todo : j < k /\ k < i + 1 => todo[k].reg # todo[i + 1].reg
      BY <2>5 DEF Loaded
    <3>2. CASE j = 1
      <4>1. Next_op.op = "load" /\ Next_op.reg = t[i].reg
        BY <1>0, <2>1, <3>1, <3>2
      <4>2. \A k \in DOMAIN t : k < i => t[k].reg # t[i].reg
        BY <1>0, <2>1, <3>1, <3>2
      <4> QED
        BY <2>1, <2>2, <4>1, <4>2
    <3>3. CASE j # 1
      <4>1. j - 1 \in DOMAIN t /\ t[j - 1] = todo[j] /\ j - 1 < i
        BY <1>0, <3>1, <3>3
      <4>2. ASSUME NEW k \in DOMAIN t, j - 1 < k, k < i PROVE t[k].reg # t[i].reg
        <5>1. k + 1 \in DOMAIN todo /\ t[k] = todo[k + 1] /\ j < k + 1 /\ k + 1 < i + 1
          BY <1>0, <2>1, <4>2
        <5> QED
          BY <2>1, <3>1, <5>1
      <4>3. Loaded(t, i)
        BY <2>1, <3>1, <4>1, <4>2 DEF Loaded
      <4> QED
        BY <2>1, <2>2, <4>3
    <3> QED
      BY <3>2, <3>3
  <2> QED
    BY <2>2, <2>4, <2>5
<1> QED
  BY <1>3, <1>5, <1>6 DEF PInv

\* A finished register operation, a write to q: bits elsewhere stay.
LEMMA WrittenBits ==
  ASSUME TypeOK, NEW q \in Registers, NEW v \in SUBSET Bits, regs' = [regs EXCEPT ![q] = v]
  PROVE  /\ \A p \in Positions : p[1] # q => (IsOn(p)' <=> IsOn(p))
         /\ \A p \in Positions : p[1] = q => (IsOn(p)' <=> p[2] \in v)
         /\ \A r \in Registers : r # q => regs'[r] = regs[r]
BY DEF TypeOK, IsOn, Positions

\* A read of a register of the panel shows what stands there.
LEMMA ReadingsAre ==
  ASSUME NEW r, r # "e2a", NEW d \in Readings(r)
  PROVE  d = regs[r]
BY DEF Readings

\* Every register operation leaves the bits it is to leave, and makes the
\* others what it is to make them.
LEMMA StepPInv ==
  ASSUME IInv, PInv, Step
  PROVE  /\ PInv'
         /\ \A p \in Positions : ~Raise /\ Keeps(Next_op, p) => (IsOn(p)' <=> IsOn(p))
         /\ \A p \in Positions : Raise /\ p[2] \notin Next_op.on => (IsOn(p)' <=> IsOn(p))
         /\ \A p \in Positions : Raise /\ p[1] # Next_op.reg => (IsOn(p)' <=> IsOn(p))
<1> DEFINE q == Next_op.reg
<1>0. /\ TypeOK /\ todo \in Scripts /\ Running /\ todo # <<>>
      /\ q \in Registers /\ Next_op.on \in SUBSET Bits /\ Next_op.off \in SUBSET Bits
      /\ Next_op.op \in Ops
  BY HeadTail DEF IInv, Step, ReadModifyWrite, WriteRegister, Raise, Lower, Load, Store, Ready
<1>k. \A p \in Positions : p[1] # "e2a" /\ p[1] \in Registers
  BY DEF Positions
<1> HIDE DEF q
<1>1. CASE ReadModifyWrite
  <2>1. PICK d \in Readings(q) : regs' = [regs EXCEPT ![q] = (d \ Next_op.off) \cup Next_op.on]
    BY <1>1 DEF ReadModifyWrite, Put, q
  <2>2. d \in SUBSET Bits
    BY <1>0, ReadingsType
  <2> DEFINE v == (d \ Next_op.off) \cup Next_op.on
  <2>3. v \in SUBSET Bits
    BY <1>0, <2>2
  <2>4. Next_op.op = "rmw" /\ local' = local /\ command' = command /\ Pop /\ ~Raise
    BY <1>1 DEF ReadModifyWrite, Ready, Raise
  <2>5. \A x : x \in v <=> (x \in d /\ x \notin Next_op.off) \/ x \in Next_op.on
    OBVIOUS
  <2> HIDE DEF v
  <2>6. /\ \A p \in Positions : p[1] # q => (IsOn(p)' <=> IsOn(p))
        /\ \A p \in Positions : p[1] = q => (IsOn(p)' <=> p[2] \in v)
        /\ \A r \in Registers : r # q => regs'[r] = regs[r]
    BY <1>0, <2>1, <2>3, WrittenBits DEF v
  <2>7. ASSUME NEW p \in Positions, Keeps(Next_op, p) PROVE IsOn(p)' <=> IsOn(p)
    <3>1. CASE p[1] = q
      <4>1. d = regs[q]
        BY <1>k, <3>1, ReadingsAre
      <4>2. p[2] \notin Next_op.on \cup Next_op.off
        BY <2>4, <2>7, <3>1 DEF Keeps, q
      <4> QED
        BY <2>5, <2>6, <3>1, <4>1, <4>2 DEF IsOn
    <3>2. CASE p[1] # q
      BY <2>6, <3>2
    <3> QED
      BY <3>1, <3>2
  <2>8. ASSUME NEW p \in Positions, NEW b \in BOOLEAN, Makes(Next_op, p, b)
        PROVE  IsOn(p)' <=> b
    <3>1. p[1] = q /\ (b => p[2] \in Next_op.on) /\ (~b => p[2] \in Next_op.off \ Next_op.on)
      BY <2>4, <2>8 DEF Makes, q
    <3> QED
      BY <2>5, <2>6, <3>1
  <2>9. PInv'
    BY <1>0, <2>4, <2>6, <2>7, <2>8, Finished DEF q
  <2> QED
    BY <2>4, <2>7, <2>9
<1>2. CASE WriteRegister
  <2>1. /\ regs' = [regs EXCEPT ![q] = Next_op.on] /\ Next_op.op = "write"
        /\ local' = local /\ command' = command /\ Pop /\ ~Raise
    BY <1>2 DEF WriteRegister, Put, Ready, Raise, q
  <2>2. /\ \A p \in Positions : p[1] # q => (IsOn(p)' <=> IsOn(p))
        /\ \A p \in Positions : p[1] = q => (IsOn(p)' <=> p[2] \in Next_op.on)
        /\ \A r \in Registers : r # q => regs'[r] = regs[r]
    BY <1>0, <2>1, WrittenBits
  <2>3. ASSUME NEW p \in Positions, Keeps(Next_op, p) PROVE IsOn(p)' <=> IsOn(p)
    BY <2>1, <2>2, <2>3 DEF Keeps, q
  <2>4. ASSUME NEW p \in Positions, NEW b \in BOOLEAN, Makes(Next_op, p, b)
        PROVE  IsOn(p)' <=> b
    BY <2>1, <2>2, <2>4 DEF Makes, q
  <2>5. PInv'
    BY <1>0, <2>1, <2>2, <2>3, <2>4, Finished DEF q
  <2> QED
    BY <2>1, <2>3, <2>5
<1>3. CASE Raise
  <2>1. PICK d \in Readings(q) : /\ local' = [local EXCEPT ![q] = d]
                                 /\ regs' = [regs EXCEPT ![q] = d \cup Next_op.on]
    BY <1>3 DEF Raise, Put, Keep, q
  <2>2. d \in SUBSET Bits /\ d \cup Next_op.on \in SUBSET Bits
    BY <1>0, <2>1, ReadingsType
  <2>3. /\ Next_op.op = "pulse" /\ command' = command /\ todo' = todo /\ held' = TRUE
        /\ Next_op' = Next_op
    BY <1>3 DEF Raise, Ready, Next_op
  <2>4. /\ \A p \in Positions : p[1] # q => (IsOn(p)' <=> IsOn(p))
        /\ \A p \in Positions : p[1] = q => (IsOn(p)' <=> p[2] \in d \cup Next_op.on)
        /\ \A r \in Registers : r # q => regs'[r] = regs[r]
    BY <1>0, <2>1, <2>2, WrittenBits
  <2>5. ASSUME NEW p \in Positions, p[2] \notin Next_op.on \/ p[1] # q
        PROVE  IsOn(p)' <=> IsOn(p)
    <3>1. CASE p[1] = q
      <4>1. d = regs[q]
        BY <1>k, <3>1, ReadingsAre
      <4> QED
        BY <2>4, <2>5, <3>1, <4>1 DEF IsOn
    <3> QED
      BY <2>4, <3>1
  <2>6. ASSUME NEW p \in Positions, Spares(todo, p) PROVE IsOn(p)' <=> IsOn(p)
    <3>1. Keeps(Next_op, p)
      BY <1>0, <2>6, HeadAndRest DEF Spares
    <3> QED
      BY <2>3, <2>5, <3>1 DEF Keeps, q
  <2>7. PanelDue'
    <3> SUFFICES ASSUME Running', NEW x \in DOMAIN SwitchBit
                 PROVE  /\ x \notin Panel!Owns(command) => Spares(todo, SwitchBit[x])
                        /\ x \in Panel!TurnsOn(command) =>
                             \/ Ends(todo, SwitchBit[x], TRUE)
                             \/ Spares(todo, SwitchBit[x]) /\ (IsOn(SwitchBit[x])' <=> TRUE)
                        /\ x \in Panel!TurnsOff(command) =>
                             \/ Ends(todo, SwitchBit[x], FALSE)
                             \/ Spares(todo, SwitchBit[x]) /\ (IsOn(SwitchBit[x])' <=> FALSE)
      BY <2>3 DEF PanelDue, Due
    <3>1. SwitchBit[x] \in Positions
      BY SwitchBitsAre
    <3>2. Spares(todo, SwitchBit[x]) => (IsOn(SwitchBit[x])' <=> IsOn(SwitchBit[x]))
      BY <2>6, <3>1
    <3> QED
      BY <1>0, <3>2 DEF PInv, PanelDue, Due
  <2>8. UnitDue'
    <3> SUFFICES ASSUME NEW i \in DOMAIN todo, Lifts(todo[i])
                 PROVE  /\ Before(todo, i, UnitOn, TRUE, IsOn(UnitOn)')
                        /\ Before(todo, i, UnitRst, FALSE, IsOn(UnitRst)')
      BY <2>3 DEF UnitDue
    <3>0. UnitOn \in Positions /\ UnitRst \in Positions
      BY DEF UnitOn, UnitRst, SyncEn, Positions, Registers, Bits
    <3>1. ASSUME NEW p \in Positions, p[1] = "ts", NEW b, Before(todo, i, p, b, IsOn(p))
          PROVE  Before(todo, i, p, b, IsOn(p)')
      <4>1. CASE i = 1
        <5>0. todo[i] = Next_op
          BY <1>0, <4>1, HeadAndRest
        <5>1. q = "ctrl"
          BY <5>0 DEF Lifts, q
        <5>2. IsOn(p)' <=> IsOn(p)
          BY <2>5, <3>1, <5>1
        <5> QED
          BY <3>1, <5>2 DEF Before
      <4>2. CASE i # 1 /\ \A k \in DOMAIN todo : k < i => Keeps(todo[k], p)
        <5>1. Keeps(Next_op, p)
          BY <1>0, <4>2, HeadAndRest
        <5>2. IsOn(p)' <=> IsOn(p)
          BY <2>3, <2>5, <5>1 DEF Keeps, q
        <5> QED
          BY <3>1, <5>2 DEF Before
      <4>3. CASE ~(\A k \in DOMAIN todo : k < i => Keeps(todo[k], p))
        BY <3>1, <4>3 DEF Before
      <4> QED
        BY <4>1, <4>2, <4>3
    <3>2. UnitOn[1] = "ts" /\ UnitRst[1] = "ts"
      BY DEF UnitOn, UnitRst
    <3> QED
      BY <3>0, <3>1, <3>2 DEF PInv, UnitDue
  <2>9. CopiesFresh'
    <3>1. q # "e2a" => regs'[q] = local'[q] \cup Next_op.on
      BY <1>0, <2>1 DEF TypeOK
    <3>2. ASSUME NEW i \in DOMAIN todo, todo[i].op = "store",
                 Untouched(todo, i), ~Loaded(todo, i)
          PROVE  local'[todo[i].reg] = regs'[todo[i].reg]
      <4>1. i # 1
        BY <1>0, <2>3, <3>2, HeadAndRest
      <4>2. todo[i].reg # q
        BY <1>0, <3>2, <4>1, HeadAndRest DEF Untouched, q
      <4>3. todo[i].reg \in Registers
        <5>1. todo \in Seq(Call)
          BY <1>0 DEF TypeOK
        <5>2. todo[i] \in Call
          BY <5>1
        <5> QED
          BY <5>2 DEF Call
      <4> QED
        BY <1>0, <2>1, <3>2, <4>2, <4>3 DEF Untouched, TypeOK
    <3> QED
      BY <2>3, <3>1, <3>2 DEF PInv, CopiesFresh, Untouched, q
  <2> QED
    BY <1>3, <2>5, <2>7, <2>8, <2>9 DEF PInv, q
<1>4. CASE Lower
  <2>1. /\ regs' = [regs EXCEPT ![q] = local[q] \ Next_op.off] /\ Next_op.op = "pulse" /\ held
        /\ local' = local /\ command' = command /\ Pop /\ ~Raise
    BY <1>4 DEF Lower, Put, Ready, Raise, q
  <2>2. local[q] \ Next_op.off \in SUBSET Bits
    BY <1>0 DEF TypeOK
  <2>3. /\ \A p \in Positions : p[1] # q => (IsOn(p)' <=> IsOn(p))
        /\ \A p \in Positions : p[1] = q => (IsOn(p)' <=> p[2] \in local[q] \ Next_op.off)
        /\ \A r \in Registers : r # q => regs'[r] = regs[r]
    BY <1>0, <2>1, <2>2, WrittenBits
  <2>4. ASSUME NEW p \in Positions, Keeps(Next_op, p) PROVE IsOn(p)' <=> IsOn(p)
    <3>1. CASE p[1] = q
      <4>1. regs[q] = local[q] \cup Next_op.on
        BY <1>k, <2>1, <3>1 DEF PInv, CopiesFresh, q
      <4>2. p[2] \notin Next_op.on \cup Next_op.off
        BY <2>1, <2>4, <3>1 DEF Keeps, q
      <4> QED
        BY <2>3, <3>1, <4>1, <4>2 DEF IsOn
    <3> QED
      BY <2>3, <3>1
  <2>5. ASSUME NEW p \in Positions, NEW b \in BOOLEAN, Makes(Next_op, p, b)
        PROVE  IsOn(p)' <=> b
    <3>1. p[1] = q /\ ~b /\ p[2] \in Next_op.off
      BY <2>1, <2>5 DEF Makes, q
    <3> QED
      BY <2>3, <3>1
  <2>6. PInv'
    BY <1>0, <2>1, <2>3, <2>4, <2>5, Finished DEF q
  <2> QED
    BY <2>1, <2>4, <2>6
<1>5. CASE Load
  <2>1. PICK d \in Readings(q) : local' = [local EXCEPT ![q] = d]
    BY <1>5 DEF Load, Keep, q
  <2>2. /\ regs' = regs /\ Next_op.op = "load" /\ command' = command /\ Pop /\ ~Raise
    BY <1>5 DEF Load, Ready, Raise
  <2>3. \A r \in Registers : r # q => regs'[r] = regs[r] /\ local'[r] = local[r]
    BY <1>0, <2>1, <2>2 DEF TypeOK
  <2>4. q # "e2a" => local'[q] = regs'[q]
    BY <1>0, <2>1, <2>2, ReadingsAre DEF TypeOK
  <2>5. \A p \in Positions : IsOn(p)' <=> IsOn(p)
    BY <2>2 DEF IsOn
  <2>6. \A p, b : ~Makes(Next_op, p, b)
    BY <2>2 DEF Makes
  <2>7. PInv'
    BY <1>0, <2>2, <2>3, <2>4, <2>5, <2>6, Finished DEF q
  <2> QED
    BY <2>2, <2>5, <2>7
<1>6. CASE Store
  <2>1. /\ regs' = [regs EXCEPT ![q] = local[q] \ Next_op.off] /\ Next_op.op = "store"
        /\ local' = local /\ command' = command /\ Pop /\ ~Raise
    BY <1>6 DEF Store, Put, Ready, Raise, q
  <2>2. local[q] \ Next_op.off \in SUBSET Bits
    BY <1>0 DEF TypeOK
  <2>3. /\ \A p \in Positions : p[1] # q => (IsOn(p)' <=> IsOn(p))
        /\ \A p \in Positions : p[1] = q => (IsOn(p)' <=> p[2] \in local[q] \ Next_op.off)
        /\ \A r \in Registers : r # q => regs'[r] = regs[r]
    BY <1>0, <2>1, <2>2, WrittenBits
  <2>4. local[q] = regs[q]
    <3>1. 1 \in DOMAIN todo /\ todo[1] = Next_op /\ DOMAIN todo \subseteq Nat \ {0}
      BY <1>0, HeadAndRest
    <3>2. ~Loaded(todo, 1)
      BY <3>1 DEF Loaded
    <3> QED
      BY <2>1, <3>1, <3>2 DEF PInv, CopiesFresh, Untouched, q
  <2>5. ASSUME NEW p \in Positions, Keeps(Next_op, p) PROVE IsOn(p)' <=> IsOn(p)
    <3>1. CASE p[1] = q
      <4>1. p[2] \notin Next_op.on \cup Next_op.off
        BY <2>1, <2>5, <3>1 DEF Keeps, q
      <4> QED
        BY <2>3, <2>4, <3>1, <4>1 DEF IsOn
    <3> QED
      BY <2>3, <3>1
  <2>6. ASSUME NEW p \in Positions, NEW b \in BOOLEAN, Makes(Next_op, p, b)
        PROVE  IsOn(p)' <=> b
    <3>1. p[1] = q /\ ~b /\ p[2] \in Next_op.off
      BY <2>1, <2>6 DEF Makes, q
    <3> QED
      BY <2>3, <3>1
  <2>7. PInv'
    BY <1>0, <2>1, <2>3, <2>5, <2>6, Finished DEF q
  <2> QED
    BY <2>1, <2>5, <2>7
<1> QED
  BY <1>1, <1>2, <1>3, <1>4, <1>5, <1>6 DEF Step

-----------------------------------------------------------------------------
(***************************************************************************)
(* The tables again: every command does what the panel says of its name.   *)
(***************************************************************************)
\* The registers and bits of the switches.
LEMMA SwitchTable ==
  /\ DOMAIN SwitchBit = {"syncTx", "tx", "rx", "syncUnit", "syncFrames", "count", "test",
                         "send", "mode0", "mode1", "mode2", "seqOff", "waitOff", "delayOff",
                         "xtest", "hdrStrip", "xmode0", "xmode1", "xmode2"}
  /\ SwitchBit["syncTx"] = <<"ctrl", 0>> /\ SwitchBit["tx"] = <<"ctrl", 1>>
  /\ SwitchBit["rx"] = <<"ctrl", 2>>
  /\ SwitchBit["syncUnit"] = <<"ts", 0>> /\ SwitchBit["syncFrames"] = <<"fsync", 0>>
  /\ SwitchBit["count"] = <<"a2e", 6>> /\ SwitchBit["test"] = <<"a2e", 7>>
  /\ SwitchBit["send"] = <<"a2e", 8>> /\ SwitchBit["mode0"] = <<"a2e", 9>>
  /\ SwitchBit["mode1"] = <<"a2e", 10>> /\ SwitchBit["mode2"] = <<"a2e", 11>>
  /\ SwitchBit["seqOff"] = <<"seq", 1>> /\ SwitchBit["waitOff"] = <<"seq", 2>>
  /\ SwitchBit["delayOff"] = <<"seq", 3>>
  /\ SwitchBit["xtest"] = <<"xtest", 0>> /\ SwitchBit["hdrStrip"] = <<"hdr", 0>>
  /\ SwitchBit["xmode0"] = <<"xmode", 0>> /\ SwitchBit["xmode1"] = <<"xmode", 1>>
  /\ SwitchBit["xmode2"] = <<"xmode", 2>>
BY DEF SwitchBit, SyncTx, Tx, Rx, SyncEn

\* What a script is to be for its command.
Well(c, s) == Fits(c, s) /\ Prepared(s) /\ Copying(s)

\* A command of one read-modify-write, write or pulse.
LEMMA OneWell ==
  ASSUME NEW c, NEW op \in {"rmw", "write", "pulse"}, NEW r, NEW up, NEW down,
         ~(r = "ctrl" /\ SyncTx \in up),
         \A x \in DOMAIN SwitchBit : SwitchBit[x][1] = r /\ x \notin Panel!Owns(c) =>
           op # "write" /\ SwitchBit[x][2] \notin up \cup down,
         \A x \in Panel!TurnsOn(c) :
           SwitchBit[x][1] = r /\ op # "pulse" /\ SwitchBit[x][2] \in up,
         \A x \in Panel!TurnsOff(c) :
           /\ SwitchBit[x][1] = r
           /\ SwitchBit[x][2] \notin up \/ op = "pulse"
           /\ op # "write" => SwitchBit[x][2] \in down
  PROVE  Well(c, Do(op, r, up, down))
<1> DEFINE k == [op |-> op, reg |-> r, on |-> up, off |-> down]
<1>0. k.op = op /\ k.reg = r /\ k.on = up /\ k.off = down
  OBVIOUS
<1> DEFINE s == Do(op, r, up, down)
<1>1. \A p : /\ Keeps(k, p) => Spares(s, p)
             /\ \A v : Makes(k, p, v) => Ends(s, p, v)
  BY OneOperation
<1>2. ~Lifts(k) /\ op # "store" => Calm(s)
  BY OneOperation
<1> HIDE DEF k, s
<1>3. Calm(s)
  BY <1>0, <1>2 DEF Lifts
<1>4. ASSUME NEW x \in DOMAIN SwitchBit, x \notin Panel!Owns(c) PROVE Keeps(k, SwitchBit[x])
  BY <1>0, <1>4 DEF Keeps
<1>5. ASSUME NEW x \in Panel!TurnsOn(c) PROVE Makes(k, SwitchBit[x], TRUE)
  BY <1>0, <1>5 DEF Makes
<1>6. ASSUME NEW x \in Panel!TurnsOff(c) PROVE Makes(k, SwitchBit[x], FALSE)
  BY <1>0, <1>6 DEF Makes
<1> QED
  BY <1>1, <1>3, <1>4, <1>5, <1>6, CalmIs DEF Well, Fits, s

\* The bits of the test modes.
LEMMA ModeValues ==
  /\ ModeBits(0, 9) = {} /\ ModeBits(1, 9) = {9} /\ ModeBits(2, 9) = {10}
  /\ ModeBits(3, 9) = {9, 10} /\ ModeBits(4, 9) = {11}
  /\ ModeBits(0, 0) = {} /\ ModeBits(1, 0) = {0} /\ ModeBits(2, 0) = {1}
  /\ ModeBits(3, 0) = {0, 1} /\ ModeBits(4, 0) = {2}
BY DEF ModeBits, ModeMasks

\* strteston to clearhdrstrip.
LEMMA TestCommandsWell ==
  \A c \in DOMAIN TestCommands : Well(c, TestCommands[c])
<1>1. /\ Panel!TurnsOn("strteston") = {"test"}
      /\ Panel!TurnsOff("strteston") = {}
      /\ Panel!TurnsOn("strtestm1") = {}
      /\ Panel!TurnsOff("strtestm1") = {"mode0", "mode1", "mode2"}
      /\ Panel!TurnsOn("strtestm2") = {"mode0"}
      /\ Panel!TurnsOff("strtestm2") = {"mode1", "mode2"}
      /\ Panel!TurnsOn("strtestm3") = {"mode1"}
      /\ Panel!TurnsOff("strtestm3") = {"mode0", "mode2"}
      /\ Panel!TurnsOn("strtestm4") = {"mode0", "mode1"}
      /\ Panel!TurnsOff("strtestm4") = {"mode2"}
      /\ Panel!TurnsOn("strtestm5") = {"mode2"}
      /\ Panel!TurnsOff("strtestm5") = {"mode0", "mode1"}
      /\ Panel!TurnsOn("strtestoff") = {}
      /\ Panel!TurnsOff("strtestoff") = {"test"}
      /\ Panel!TurnsOn("sethdrstrip") = {"hdrStrip"}
      /\ Panel!TurnsOff("sethdrstrip") = {}
      /\ Panel!TurnsOn("clearhdrstrip") = {}
      /\ Panel!TurnsOff("clearhdrstrip") = {"hdrStrip"}
  BY DEF Panel!TurnsOn, Panel!TurnsOff, Panel!Effect, Panel!Turn, Panel!Mode
<1>2. Well("strteston", set_test_mode_on)
  BY <1>1, SwitchTable, OneWell
  DEF Panel!Owns, set_test_mode_on, SetBits
<1>3. Well("strtestm1", set_test_mode(0))
  BY <1>1, SwitchTable, OneWell, ModeValues
  DEF Panel!Owns, set_test_mode, SetField
<1>4. Well("strtestm2", set_test_mode(1))
  BY <1>1, SwitchTable, OneWell, ModeValues
  DEF Panel!Owns, set_test_mode, SetField
<1>5. Well("strtestm3", set_test_mode(2))
  BY <1>1, SwitchTable, OneWell, ModeValues
  DEF Panel!Owns, set_test_mode, SetField
<1>6. Well("strtestm4", set_test_mode(3))
  BY <1>1, SwitchTable, OneWell, ModeValues
  DEF Panel!Owns, set_test_mode, SetField
<1>7. Well("strtestm5", set_test_mode(4))
  BY <1>1, SwitchTable, OneWell, ModeValues
  DEF Panel!Owns, set_test_mode, SetField
<1>8. Well("strtestoff", set_test_mode_off)
  BY <1>1, SwitchTable, OneWell
  DEF Panel!Owns, set_test_mode_off, ClearBits
<1>9. Well("sethdrstrip", set_rx_hdr_strip)
  BY <1>1, SwitchTable, OneWell
  DEF Panel!Owns, set_rx_hdr_strip, Write
<1>10. Well("clearhdrstrip", clear_rx_hdr_strip)
  BY <1>1, SwitchTable, OneWell
  DEF Panel!Owns, clear_rx_hdr_strip, Write
<1> QED
  BY <1>2, <1>3, <1>4, <1>5, <1>6, <1>7, <1>8, <1>9, <1>10 DEF TestCommands

\* strxteston to strxtestoff.
LEMMA XTestCommandsWell ==
  \A c \in DOMAIN XTestCommands : Well(c, XTestCommands[c])
<1>1. /\ Panel!TurnsOn("strxteston") = {"xtest"}
      /\ Panel!TurnsOff("strxteston") = {}
      /\ Panel!TurnsOn("strxtestm1") = {}
      /\ Panel!TurnsOff("strxtestm1") = {"xmode0", "xmode1", "xmode2"}
      /\ Panel!TurnsOn("strxtestm2") = {"xmode0"}
      /\ Panel!TurnsOff("strxtestm2") = {"xmode1", "xmode2"}
      /\ Panel!TurnsOn("strxtestm3") = {"xmode1"}
      /\ Panel!TurnsOff("strxtestm3") = {"xmode0", "xmode2"}
      /\ Panel!TurnsOn("strxtestm4") = {"xmode0", "xmode1"}
      /\ Panel!TurnsOff("strxtestm4") = {"xmode2"}
      /\ Panel!TurnsOn("strxtestm5") = {"xmode2"}
      /\ Panel!TurnsOff("strxtestm5") = {"xmode0", "xmode1"}
      /\ Panel!TurnsOn("strxtestoff") = {}
      /\ Panel!TurnsOff("strxtestoff") = {"xtest"}
  BY DEF Panel!TurnsOn, Panel!TurnsOff, Panel!Effect, Panel!Turn, Panel!XMode
<1>2. Well("strxteston", set_xtest_mode_on)
  BY <1>1, SwitchTable, OneWell
  DEF Panel!Owns, set_xtest_mode_on, Write
<1>3. Well("strxtestm1", set_xtest_mode(0))
  BY <1>1, SwitchTable, OneWell, ModeValues
  DEF Panel!Owns, set_xtest_mode, Write
<1>4. Well("strxtestm2", set_xtest_mode(1))
  BY <1>1, SwitchTable, OneWell, ModeValues
  DEF Panel!Owns, set_xtest_mode, Write
<1>5. Well("strxtestm3", set_xtest_mode(2))
  BY <1>1, SwitchTable, OneWell, ModeValues
  DEF Panel!Owns, set_xtest_mode, Write
<1>6. Well("strxtestm4", set_xtest_mode(3))
  BY <1>1, SwitchTable, OneWell, ModeValues
  DEF Panel!Owns, set_xtest_mode, Write
<1>7. Well("strxtestm5", set_xtest_mode(4))
  BY <1>1, SwitchTable, OneWell, ModeValues
  DEF Panel!Owns, set_xtest_mode, Write
<1>8. Well("strxtestoff", set_xtest_mode_off)
  BY <1>1, SwitchTable, OneWell
  DEF Panel!Owns, set_xtest_mode_off, Write
<1> QED
  BY <1>2, <1>3, <1>4, <1>5, <1>6, <1>7, <1>8 DEF XTestCommands

\* sqwon to strblen.
LEMMA DelayCommandsWell ==
  \A c \in DOMAIN DelayCommands : Well(c, DelayCommands[c])
<1>1. /\ Panel!TurnsOn("sqwon") = {}
      /\ Panel!TurnsOff("sqwon") = {"waitOff"}
      /\ Panel!TurnsOn("sqwoff") = {"waitOff"}
      /\ Panel!TurnsOff("sqwoff") = {}
      /\ Panel!TurnsOn("sqsdon") = {}
      /\ Panel!TurnsOff("sqsdon") = {"delayOff"}
      /\ Panel!TurnsOn("sqsdoff") = {"delayOff"}
      /\ Panel!TurnsOff("sqsdoff") = {}
      /\ Panel!TurnsOn("plcoff") = {}
      /\ Panel!TurnsOff("plcoff") = {}
      /\ Panel!TurnsOn("plcon") = {}
      /\ Panel!TurnsOff("plcon") = {}
      /\ Panel!TurnsOn("strblen") = {}
      /\ Panel!TurnsOff("strblen") = {}
  BY DEF Panel!TurnsOn, Panel!TurnsOff, Panel!Effect, Panel!Turn
<1>2. Well("sqwon", set_stream_pkt_wait_enable)
  BY <1>1, SwitchTable, OneWell
  DEF Panel!Owns, set_stream_pkt_wait_enable, ClearBits
<1>3. Well("sqwoff", set_stream_pkt_wait_disable)
  BY <1>1, SwitchTable, OneWell
  DEF Panel!Owns, set_stream_pkt_wait_disable, SetBits
<1>4. Well("sqsdon", set_stream_pkt_send_delay_enable)
  BY <1>1, SwitchTable, OneWell
  DEF Panel!Owns, set_stream_pkt_send_delay_enable, ClearBits
<1>5. Well("sqsdoff", set_stream_pkt_send_delay_disable)
  BY <1>1, SwitchTable, OneWell
  DEF Panel!Owns, set_stream_pkt_send_delay_disable, SetBits
<1>6. Well("plcoff", set_plc_disable)
  BY <1>1, SwitchTable, OneWell
  DEF Panel!Owns, set_plc_disable, ClearBits
<1>7. Well("plcon", set_plc_enable)
  BY <1>1, SwitchTable, OneWell
  DEF Panel!Owns, set_plc_enable, SetBits
<1>8. Well("strblen", reset_dac_fifos)
  BY <1>1, SwitchTable, OneWell
  DEF Panel!Owns, reset_dac_fifos, Pulse
<1> QED
  BY <1>2, <1>3, <1>4, <1>5, <1>6, <1>7, <1>8 DEF DelayCommands

\* What each kind of operation makes of a bit.
LEMMA OperationBits ==
  ASSUME NEW r, NEW b, NEW up, NEW down
  PROVE  \A p :
         /\ p[1] # r \/ p[2] \notin up \cup down => Spares(Pulse(r, up, down), p)
         /\ p[1] # r \/ p[2] \notin b => Spares(SetBits(r, b), p) /\ Spares(ClearBits(r, b), p)
         /\ p[1] # r => Spares(Write(r, b), p)
         /\ p[1] = r /\ p[2] \in down => Ends(Pulse(r, up, down), p, FALSE)
         /\ p[1] = r /\ p[2] \in b => Ends(SetBits(r, b), p, TRUE) /\ Ends(Write(r, b), p, TRUE)
         /\ p[1] = r /\ p[2] \in b => Ends(ClearBits(r, b), p, FALSE)
         /\ p[1] = r /\ p[2] \notin b => Ends(Write(r, b), p, FALSE)
<1> TAKE p
<1>1. \A op, on, off :
        LET c == [op |-> op, reg |-> r, on |-> on, off |-> off]
        IN  /\ Keeps(c, p) => Spares(Do(op, r, on, off), p)
            /\ \A v : Makes(c, p, v) => Ends(Do(op, r, on, off), p, v)
  BY OneOperation
<1>2. /\ p[1] # r \/ p[2] \notin up \cup down => Spares(Pulse(r, up, down), p)
      /\ p[1] = r /\ p[2] \in down => Ends(Pulse(r, up, down), p, FALSE)
  BY <1>1 DEF Pulse, Keeps, Makes
<1>3. /\ p[1] # r \/ p[2] \notin b => Spares(SetBits(r, b), p)
      /\ p[1] = r /\ p[2] \in b => Ends(SetBits(r, b), p, TRUE)
  BY <1>1 DEF SetBits, Keeps, Makes
<1>4. /\ p[1] # r \/ p[2] \notin b => Spares(ClearBits(r, b), p)
      /\ p[1] = r /\ p[2] \in b => Ends(ClearBits(r, b), p, FALSE)
  BY <1>1 DEF ClearBits, Keeps, Makes
<1>5. /\ p[1] # r => Spares(Write(r, b), p)
      /\ p[1] = r /\ p[2] \in b => Ends(Write(r, b), p, TRUE)
      /\ p[1] = r /\ p[2] \notin b => Ends(Write(r, b), p, FALSE)
  BY <1>1 DEF Write, Keeps, Makes
<1> QED
  BY <1>2, <1>3, <1>4, <1>5

\* Only a write that raises SyncTx switches the packets on.
LEMMA OperationCalm ==
  ASSUME NEW r, NEW b, NEW up, NEW down
  PROVE  /\ r # "ctrl" \/ SyncTx \notin up => Calm(Pulse(r, up, down))
         /\ r # "ctrl" \/ SyncTx \notin b => Calm(SetBits(r, b)) /\ Calm(Write(r, b))
         /\ Calm(ClearBits(r, b))
<1>1. \A op, on, off :
        LET c == [op |-> op, reg |-> r, on |-> on, off |-> off]
        IN  ~Lifts(c) /\ op # "store" => Calm(Do(op, r, on, off))
  BY OneOperation
<1> QED
  BY <1>1 DEF Pulse, SetBits, ClearBits, Write, Lifts

\* set_sync_off clears the frames, and bit 0 of the MAC address.
LEMMA SyncOffBits ==
  /\ \A p : p[1] \notin {"fsync", "mac"} => Spares(set_sync_off, p)
  /\ Ends(set_sync_off, <<"fsync", 0>>, FALSE)
  /\ Calm(set_sync_off) /\ set_sync_off \in Scripts
  /\ \A i \in DOMAIN set_sync_off : set_sync_off[i].reg # "ctrl"
<1> DEFINE a == Write("fsync", {})
           b == Pulse("mac", {}, {0})
<1>1. a \in Scripts /\ b \in Scripts
  BY WriteGood, PulseGood, ResetBitsValues DEF Registers, Bits
<1>2. /\ \A p : p[1] # "fsync" => Spares(a, p)
      /\ \A p : p[1] # "mac" => Spares(b, p)
      /\ Ends(a, <<"fsync", 0>>, FALSE)
  <2>1. \A p : p[1] # "fsync" => Spares(a, p)
    BY OperationBits
  <2>2. \A p : p[1] # "mac" => Spares(b, p)
    BY OperationBits
  <2>3. Ends(a, <<"fsync", 0>>, FALSE)
    <3> DEFINE p == <<"fsync", 0>>
    <3>1. p[1] = "fsync" /\ p[2] \notin {}
      OBVIOUS
    <3> HIDE DEF p
    <3>2. Ends(Write("fsync", {}), p, FALSE)
      BY <3>1, OperationBits
    <3> QED
      BY <3>2 DEF p
  <2> QED
    BY <2>1, <2>2, <2>3
<1>6. Calm(a) /\ Calm(b)
  BY OperationCalm
<1>3. DOMAIN a = {1} /\ a[1].reg = "fsync" /\ DOMAIN b = {1} /\ b[1].reg = "mac"
  BY DEF Write, Pulse, Do
<1>4. set_sync_off = a \o b
  BY DEF set_sync_off
<1> HIDE DEF a, b
<1>5. \A i \in DOMAIN set_sync_off : set_sync_off[i].reg # "ctrl"
  <2>1. \A i \in DOMAIN set_sync_off :
          \/ i \in DOMAIN a /\ set_sync_off[i] = a[i]
          \/ i - Len(a) \in DOMAIN b /\ set_sync_off[i] = b[i - Len(a)]
    <3> DEFINE u == a \o b
    <3>1. /\ \A i \in DOMAIN a : i \in DOMAIN u /\ u[i] = a[i]
          /\ \A i \in DOMAIN u : \/ i \in DOMAIN a
                                 \/ i - Len(a) \in DOMAIN b /\ i > Len(a) /\ u[i] = b[i - Len(a)]
      BY <1>1, TwoScripts
    <3>2. set_sync_off = u
      BY <1>4
    <3> HIDE DEF u
    <3> QED
      BY <3>1, <3>2
  <2> QED
    BY <1>3, <2>1
<1>7. Calm(set_sync_off)
  BY <1>1, <1>4, <1>6, JoinedCalm
<1>8. Ends(set_sync_off, <<"fsync", 0>>, FALSE)
  <2>1. Spares(b, <<"fsync", 0>>)
    BY <1>2
  <2> QED
    BY <1>1, <1>2, <1>4, <2>1, JoinedBit
<1>9. \A p : p[1] \notin {"fsync", "mac"} => Spares(set_sync_off, p)
  BY <1>1, <1>2, <1>4, JoinedBit
<1> QED
  BY <1>5, <1>7, <1>8, <1>9, SyncGood

\* initiate_sync leaves the unit off and clears bit 0 of the MAC address.
LEMMA InitiateBits ==
  /\ \A p : p[1] \notin {"ts", "mac"} => Spares(initiate_sync, p)
  /\ Ends(initiate_sync, <<"ts", 0>>, FALSE)
  /\ Calm(initiate_sync) /\ initiate_sync \in Scripts
<1> DEFINE a == SetBits("mac", {0})
           b == Write("ts", {SyncEn})
           c == Pulse("mac", {}, {0})
           d == Write("ts", {})
<1>1. a \in Scripts /\ b \in Scripts /\ c \in Scripts /\ d \in Scripts
  BY SetBitsGood, WriteGood, PulseGood, ResetBitsValues DEF Registers, Bits, SyncEn
<1>2. /\ \A p : p[1] # "mac" => Spares(a, p) /\ Spares(c, p)
      /\ \A p : p[1] # "ts" => Spares(b, p) /\ Spares(d, p)
      /\ Ends(d, <<"ts", 0>>, FALSE)
  <2>1. \A p : p[1] # "mac" => Spares(a, p) /\ Spares(c, p)
    BY OperationBits
  <2>2. \A p : p[1] # "ts" => Spares(b, p) /\ Spares(d, p)
    BY OperationBits
  <2>3. Ends(d, <<"ts", 0>>, FALSE)
    <3> DEFINE p == <<"ts", 0>>
    <3>1. p[1] = "ts" /\ p[2] \notin {}
      OBVIOUS
    <3> HIDE DEF p
    <3>2. Ends(Write("ts", {}), p, FALSE)
      BY <3>1, OperationBits
    <3> QED
      BY <3>2 DEF p
  <2> QED
    BY <2>1, <2>2, <2>3
<1>8. Calm(a) /\ Calm(b) /\ Calm(c) /\ Calm(d)
  BY OperationCalm
<1>3. initiate_sync = ((a \o b) \o c) \o d
  BY DEF initiate_sync
<1> HIDE DEF a, b, c, d
<1>4. a \o b \in Scripts /\ (a \o b) \o c \in Scripts
  BY <1>1, Joined
<1>5. Calm(a \o b) /\ Calm((a \o b) \o c) /\ Calm(((a \o b) \o c) \o d)
  BY <1>1, <1>4, <1>8, JoinedCalm
<1>6. ASSUME NEW p, p[1] \notin {"ts", "mac"}
      PROVE  Spares(((a \o b) \o c) \o d, p)
  <2>1. Spares(a \o b, p)
    BY <1>1, <1>2, <1>6, JoinedBit
  <2>2. Spares((a \o b) \o c, p)
    BY <1>1, <1>2, <1>4, <1>6, <2>1, JoinedBit
  <2> QED
    BY <1>1, <1>2, <1>4, <1>6, <2>2, JoinedBit
<1>7. Ends(((a \o b) \o c) \o d, <<"ts", 0>>, FALSE)
  BY <1>1, <1>2, <1>4, JoinedBit
<1> QED
  BY <1>3, <1>5, <1>6, <1>7, SyncGood

\* The chain of resets leaves the transmitter off and every other switch alone.
LEMMA ChainBits ==
  /\ \A p : /\ p[1] # "e2a"
            /\ p[1] # "ctrl" \/ p[2] # Tx
            /\ p[1] # "seq" \/ p[2] # 0
            /\ p[1] # "a2e" \/ p[2] \notin {0, 1}
            => Spares(reset_chain, p)
  /\ Ends(reset_chain, <<"ctrl", Tx>>, FALSE)
  /\ Calm(reset_chain) /\ reset_chain \in Scripts
<1> DEFINE a == reset_core
           b == reset_pkt_seq
           c == reset_adc_fifos
           d == reset_dac_fifos
<1>1. a \in Scripts /\ b \in Scripts /\ c \in Scripts /\ d \in Scripts
  BY ResetsGood
<1>2. /\ \A p : p[1] # "ctrl" \/ p[2] # Tx => Spares(a, p)
      /\ Ends(a, <<"ctrl", Tx>>, FALSE) /\ Calm(a)
  <2>1. /\ \A p : p[1] # "ctrl" \/ p[2] # Tx => Spares(a, p)
        /\ Ends(a, <<"ctrl", Tx>>, FALSE)
    BY OperationBits DEF reset_core
  <2>2. Calm(a)
    BY OperationCalm DEF reset_core, Tx, SyncTx
  <2> QED
    BY <2>1, <2>2
<1>3. /\ \A p : p[1] # "seq" \/ p[2] # 0 => Spares(b, p)
      /\ Calm(b)
  BY OperationBits, OperationCalm DEF reset_pkt_seq
<1>4. /\ \A p : p[1] # "a2e" \/ p[2] \notin {0, 1} => Spares(c, p)
      /\ Calm(c)
  BY OperationBits, OperationCalm DEF reset_adc_fifos
<1>5. /\ \A p : p[1] # "e2a" => Spares(d, p)
      /\ Calm(d)
  BY OperationBits, OperationCalm DEF reset_dac_fifos
<1>6. reset_chain = ((a \o b) \o c) \o d
  BY DEF reset_chain
<1> HIDE DEF a, b, c, d
<1>7. a \o b \in Scripts /\ (a \o b) \o c \in Scripts /\ ((a \o b) \o c) \o d \in Scripts
  BY <1>1, Joined
<1>8. Calm(a \o b) /\ Calm((a \o b) \o c) /\ Calm(((a \o b) \o c) \o d)
  BY <1>1, <1>2, <1>3, <1>4, <1>5, <1>7, JoinedCalm
<1>9. ASSUME NEW p, p[1] # "e2a", p[1] # "ctrl" \/ p[2] # Tx, p[1] # "seq" \/ p[2] # 0,
             p[1] # "a2e" \/ p[2] \notin {0, 1}
      PROVE  Spares(((a \o b) \o c) \o d, p)
  <2>1. Spares(a \o b, p)
    BY <1>1, <1>2, <1>3, <1>9, JoinedBit
  <2>2. Spares((a \o b) \o c, p)
    BY <1>1, <1>4, <1>7, <1>9, <2>1, JoinedBit
  <2> QED
    BY <1>1, <1>5, <1>7, <1>9, <2>2, JoinedBit
<1>10. Ends(((a \o b) \o c) \o d, <<"ctrl", Tx>>, FALSE)
  <2> DEFINE p == <<"ctrl", Tx>>
  <2>1. p[1] = "ctrl"
    OBVIOUS
  <2>2. Ends(a, p, FALSE)
    BY <1>2
  <2> HIDE DEF p
  <2>3. Ends(a \o b, p, FALSE)
    BY <1>1, <1>3, <2>1, <2>2, JoinedBit
  <2>4. Ends((a \o b) \o c, p, FALSE)
    BY <1>1, <1>4, <1>7, <2>1, <2>3, JoinedBit
  <2>5. Ends(((a \o b) \o c) \o d, p, FALSE)
    BY <1>1, <1>5, <1>7, <2>1, <2>4, JoinedBit
  <2> QED
    BY <2>5 DEF p
<1> QED
  BY <1>6, <1>7, <1>8, <1>9, <1>10

\* The unit runs before the packets are switched on.
LEMMA LiftPrepared ==
  ASSUME NEW s \in Scripts, Calm(s), Ends(s, UnitOn, TRUE), Ends(s, UnitRst, FALSE)
  PROVE  Prepared(s \o time_sync_tx_en)
<1> DEFINE t == time_sync_tx_en
           u == s \o t
<1>1. t \in Scripts /\ DOMAIN t = {1}
  BY SyncGood DEF time_sync_tx_en, SetBits, Do
<1> HIDE DEF t
<1>0. /\ DOMAIN s = 1 .. Len(s) /\ Len(s) \in Nat
      /\ \A i \in DOMAIN s : i \in DOMAIN u /\ u[i] = s[i]
      /\ \A i \in DOMAIN u : i \in DOMAIN s \/ (i - Len(s) \in DOMAIN t /\ i > Len(s))
      /\ DOMAIN u \subseteq Nat
  <2>1. /\ DOMAIN s = 1 .. Len(s) /\ Len(s) \in Nat /\ Len(t) \in Nat
        /\ DOMAIN u = 1 .. (Len(s) + Len(t))
        /\ \A i \in DOMAIN s : i \in DOMAIN u /\ u[i] = s[i]
        /\ \A i \in DOMAIN u : i \in DOMAIN s \/ (i - Len(s) \in DOMAIN t /\ i > Len(s))
    BY <1>1, TwoScripts
  <2> HIDE DEF u
  <2> QED
    BY <2>1
<1> HIDE DEF u
<1>2. ASSUME NEW i \in DOMAIN u, Lifts(u[i]) PROVE i = Len(s) + 1
  <2>1. i \notin DOMAIN s
    BY <1>0, <1>2 DEF Calm
  <2> QED
    BY <1>0, <1>1, <2>1
<1>3. ASSUME NEW p, NEW v, Ends(s, p, v), NEW i \in DOMAIN u, i = Len(s) + 1
      PROVE  \E j \in DOMAIN u : /\ j < i /\ Makes(u[j], p, v)
                                 /\ \A k \in DOMAIN u : j < k /\ k < i => Keeps(u[k], p)
  <2>1. PICK j \in DOMAIN s : Makes(s[j], p, v) /\ \A k \in DOMAIN s : k > j => Keeps(s[k], p)
    BY <1>3 DEF Ends
  <2>2. j \in DOMAIN u /\ j < i /\ Makes(u[j], p, v)
    BY <1>0, <1>3, <2>1
  <2>3. ASSUME NEW k \in DOMAIN u, j < k, k < i PROVE Keeps(u[k], p)
    <3>1. k \in DOMAIN s
      BY <1>0, <1>3, <2>3
    <3> QED
      BY <1>0, <2>1, <2>3, <3>1
  <2> QED
    BY <2>2, <2>3
<1>4. Prepared(u)
  BY <1>2, <1>3 DEF Prepared
<1> QED
  BY <1>4 DEF u, t

\* The copy strstop writes back is fresh.
LEMMA CopyBack ==
  ASSUME NEW s \in Scripts, \A i \in DOMAIN s : s[i].reg # "ctrl", Calm(s)
  PROVE  LET u == Do("load", "ctrl", {}, {}) \o s \o Do("store", "ctrl", {}, {Tx})
         IN  Copying(u) /\ Prepared(u)
<1> DEFINE a == Do("load", "ctrl", {}, {})
           b == Do("store", "ctrl", {}, {Tx})
           v == a \o s
           u == v \o b
<1>1. /\ a \in Scripts /\ DOMAIN a = {1} /\ a[1].op = "load" /\ a[1].reg = "ctrl"
      /\ b \in Scripts /\ DOMAIN b = {1} /\ b[1].op = "store" /\ b[1].reg = "ctrl"
  <2>1. a \in Scripts /\ b \in Scripts
    BY OneCall, ResetBitsValues DEF Ops, Disciplined, Registers, Bits, Tx
  <2> QED
    BY <2>1 DEF Do
<1> HIDE DEF a, b
<1>2. /\ v \in Scripts /\ DOMAIN v = 1 .. (1 + Len(s)) /\ Len(v) = 1 + Len(s) /\ Len(s) \in Nat
      /\ v[1] = a[1]
      /\ \A i \in DOMAIN v : i # 1 => v[i].reg # "ctrl" /\ v[i].op # "store" /\ ~Lifts(v[i])
  <2>1. Len(a) = 1
    BY <1>1, TwoScripts
  <2>2. /\ v \in Scripts /\ DOMAIN v = 1 .. (1 + Len(s)) /\ Len(s) \in Nat /\ v[1] = a[1]
        /\ \A i \in DOMAIN v : i # 1 => i - 1 \in DOMAIN s /\ v[i] = s[i - 1]
    <3>1. /\ v \in Scripts /\ DOMAIN v = 1 .. (Len(a) + Len(s)) /\ Len(s) \in Nat
          /\ \A i \in DOMAIN a : i \in DOMAIN v /\ v[i] = a[i]
          /\ \A i \in DOMAIN v : \/ i \in DOMAIN a
                                 \/ i - Len(a) \in DOMAIN s /\ i > Len(a) /\ v[i] = s[i - Len(a)]
      BY <1>1, TwoScripts
    <3> HIDE DEF v
    <3> QED
      BY <1>1, <2>1, <3>1
  <2>3. Len(v) = 1 + Len(s)
    BY <1>1, <2>2, TwoScripts
  <2> HIDE DEF v
  <2> QED
    BY <2>2, <2>3 DEF Calm
<1> HIDE DEF v
<1>3. /\ DOMAIN u = 1 .. (2 + Len(s))
      /\ u[1] = a[1] /\ u[2 + Len(s)] = b[1]
      /\ \A i \in DOMAIN u : i # 2 + Len(s) => i \in DOMAIN v /\ u[i] = v[i]
  <2>1. Len(b) = 1
    BY <1>1, TwoScripts
  <2>2. /\ DOMAIN u = 1 .. (Len(v) + Len(b))
        /\ \A i \in DOMAIN v : i \in DOMAIN u /\ u[i] = v[i]
        /\ \A i \in DOMAIN b : Len(v) + i \in DOMAIN u /\ u[Len(v) + i] = b[i]
    BY <1>1, <1>2, TwoScripts
  <2> HIDE DEF u
  <2>3. DOMAIN u = 1 .. (2 + Len(s))
    BY <1>2, <2>1, <2>2
  <2>4. u[Len(v) + 1] = b[1] /\ Len(v) + 1 = 2 + Len(s)
    BY <1>1, <1>2, <2>2
  <2> QED
    BY <1>2, <2>2, <2>3, <2>4
<1> HIDE DEF u
<1>4. ASSUME NEW i \in DOMAIN u, u[i].op = "store" PROVE u[i].reg # "e2a" /\ Loaded(u, i)
  <2>1. i = 2 + Len(s)
    BY <1>1, <1>2, <1>3, <1>4
  <2>2. u[i].reg = "ctrl"
    BY <1>1, <1>3, <2>1
  <2>3. 1 \in DOMAIN u /\ 1 < i /\ u[1].op = "load" /\ u[1].reg = "ctrl"
    BY <1>1, <1>2, <1>3, <2>1
  <2>4. \A k \in DOMAIN u : 1 < k /\ k < i => u[k].reg # "ctrl"
    BY <1>2, <1>3, <2>1
  <2> QED
    BY <2>2, <2>3, <2>4 DEF Loaded
<1>5. ASSUME NEW i \in DOMAIN u, Lifts(u[i]) PROVE FALSE
  BY <1>1, <1>2, <1>3, <1>5 DEF Lifts
<1> QED
  BY <1>4, <1>5 DEF Copying, Prepared, u, v, a, b

\* Two scripts that write no copy back.
LEMMA JoinedPlain ==
  ASSUME NEW s \in Scripts, NEW t \in Scripts, Plain(s), Plain(t)
  PROVE  Plain(s \o t)
<1> DEFINE u == s \o t
<1>1. /\ \A i \in DOMAIN s : i \in DOMAIN u /\ u[i] = s[i]
      /\ \A i \in DOMAIN u : \/ i \in DOMAIN s
                             \/ i - Len(s) \in DOMAIN t /\ i > Len(s) /\ u[i] = t[i - Len(s)]
  BY TwoScripts
<1> HIDE DEF u
<1>2. Plain(u)
  BY <1>1 DEF Plain
<1> QED
  BY <1>2 DEF u

\* They copy nothing; a calm script is one of them.
LEMMA PlainIs ==
  ASSUME NEW s
  PROVE  (Plain(s) => Copying(s)) /\ (Calm(s) => Plain(s))
BY DEF Plain, Copying, Calm

\* strnsp: a load changes nothing.
LEMMA SpeedCommandsWell ==
  \A c \in DOMAIN SpeedCommands : Well(c, SpeedCommands[c])
<1>1. /\ Panel!TurnsOn("strnsp0") = {}
      /\ Panel!TurnsOff("strnsp0") = {"tx", "rx"}
      /\ Panel!TurnsOn("strnsp1") = {}
      /\ Panel!TurnsOff("strnsp1") = {"rx"}
      /\ Panel!TurnsOn("strnsp2") = {}
      /\ Panel!TurnsOff("strnsp2") = {"tx"}
      /\ Panel!TurnsOn("strnsp3") = {}
      /\ Panel!TurnsOff("strnsp3") = {}
  BY DEF Panel!TurnsOn, Panel!TurnsOff, Panel!Effect, Panel!Turn
<1>2. Well("strnsp0", ClearBits("ctrl", {Tx, Rx}))
  BY <1>1, SwitchTable, OneWell
  DEF Panel!Owns, ClearBits, SyncTx, Tx, Rx
<1>3. Well("strnsp1", ClearBits("ctrl", {Rx}))
  BY <1>1, SwitchTable, OneWell
  DEF Panel!Owns, ClearBits, SyncTx, Rx
<1>4. Well("strnsp2", ClearBits("ctrl", {Tx}))
  BY <1>1, SwitchTable, OneWell
  DEF Panel!Owns, ClearBits, SyncTx, Tx
<1>5. Well("strnsp3", Do("load", "ctrl", {}, {}))
  <2> DEFINE s == Do("load", "ctrl", {}, {})
             k == [op |-> "load", reg |-> "ctrl", on |-> {}, off |-> {}]
  <2>1. \A p : Keeps(k, p) => Spares(s, p)
    BY OneOperation
  <2>2. ~Lifts(k) => Calm(s)
    BY OneOperation
  <2>3. (\A p : Keeps(k, p)) /\ ~Lifts(k)
    BY DEF Keeps, Lifts
  <2>4. (\A p : Spares(s, p)) /\ Calm(s)
    BY <2>1, <2>2, <2>3
  <2> HIDE DEF s
  <2>5. Well("strnsp3", s)
    BY <1>1, <2>4, CalmIs DEF Well, Fits
  <2> QED
    BY <2>5 DEF s
<1> QED
  BY <1>2, <1>3, <1>4, <1>5 DEF SpeedCommands

\* tgsrcorr, setcoron and setcoroff: no switch of the panel.
LEMMA CorrectionCommandsWell ==
  \A c \in DOMAIN CorrectionCommands : Well(c, CorrectionCommands[c])
<1>1. /\ Panel!TurnsOn("setcoron") = {}
      /\ Panel!TurnsOff("setcoron") = {}
      /\ Panel!TurnsOn("setcoroff") = {}
      /\ Panel!TurnsOff("setcoroff") = {}
      /\ Panel!TurnsOn("tgsrcorr") = {}
      /\ Panel!TurnsOff("tgsrcorr") = {}
  BY DEF Panel!TurnsOn, Panel!TurnsOff, Panel!Effect, Panel!Turn
<1>2. Well("setcoron", set_buf_corr_on)
  BY <1>1, SwitchTable, OneWell
  DEF Panel!Owns, set_buf_corr_on, SetBits, Correction
<1>3. Well("setcoroff", clear_buf_corr)
  BY <1>1, SwitchTable, OneWell
  DEF Panel!Owns, clear_buf_corr, ClearBits, Correction
<1>4. Well("tgsrcorr", clear_buf_corr \o set_buf_corr_on)
  <2>1. clear_buf_corr \in Scripts /\ set_buf_corr_on \in Scripts
    BY AudioGood
  <2>2. Calm(clear_buf_corr) /\ Calm(set_buf_corr_on)
    BY OperationCalm DEF clear_buf_corr, set_buf_corr_on
  <2>3. \A p : p[1] # "e2a" => Spares(clear_buf_corr, p) /\ Spares(set_buf_corr_on, p)
    BY OperationBits DEF clear_buf_corr, set_buf_corr_on
  <2> DEFINE s == clear_buf_corr \o set_buf_corr_on
  <2>4. Calm(s) /\ \A p : p[1] # "e2a" => Spares(s, p)
    BY <2>1, <2>2, <2>3, JoinedBit, JoinedCalm
  <2>5. \A x \in DOMAIN SwitchBit : SwitchBit[x][1] # "e2a"
    BY SwitchTable
  <2> HIDE DEF s
  <2>6. Well("tgsrcorr", s)
    BY <1>1, <2>4, <2>5, CalmIs DEF Well, Fits
  <2> QED
    BY <2>6 DEF s
<1> DEFINE toggle == clear_buf_corr \o set_buf_corr_on
<1>5. CorrectionCommands =
        [tgsrcorr |-> toggle, setcoron |-> set_buf_corr_on, setcoroff |-> clear_buf_corr]
  BY DEF CorrectionCommands
<1> HIDE DEF toggle
<1>6. Well("tgsrcorr", toggle)
  BY <1>4 DEF toggle
<1> QED
  BY <1>2, <1>3, <1>5, <1>6

\* setsyncen to tgsync.
LEMMA SyncCommandsWell ==
  \A c \in DOMAIN SyncCommands : Well(c, SyncCommands[c])
<1>1. /\ Panel!TurnsOn("setsyncoff") = {}
      /\ Panel!TurnsOff("setsyncoff") = {"syncUnit"}
      /\ Panel!TurnsOn("setsyncrst") = {}
      /\ Panel!TurnsOff("setsyncrst") = {}
      /\ Panel!TurnsOn("setsyncen") = {"syncTx", "syncUnit"}
      /\ Panel!TurnsOff("setsyncen") = {}
      /\ Panel!TurnsOn("setsyncon") = {"syncFrames"}
      /\ Panel!TurnsOff("setsyncon") = {"syncUnit"}
      /\ Panel!TurnsOn("tgsync") = {"syncFrames"}
      /\ Panel!TurnsOff("tgsync") = {}
  BY DEF Panel!TurnsOn, Panel!TurnsOff, Panel!Effect, Panel!Turn
<1>2. Well("setsyncoff", time_sync_off)
  BY <1>1, SwitchTable, OneWell
  DEF Panel!Owns, time_sync_off, Write
<1>3. Well("setsyncrst", set_sync_rst)
  BY <1>1, SwitchTable, OneWell
  DEF Panel!Owns, set_sync_rst, Pulse
<1> DEFINE en == time_sync_en \o time_sync_tx_en
           up == initiate_sync \o set_sync_on
           toggle == set_sync_off \o set_sync_on
<1>0. /\ time_sync_en \in Scripts /\ time_sync_tx_en \in Scripts /\ set_sync_on \in Scripts
      /\ initiate_sync \in Scripts /\ set_sync_off \in Scripts
  BY SyncGood
<1>4. /\ \A p : p[1] # "ts" => Spares(time_sync_en, p)
      /\ \A p : p[1] = "ts" /\ p[2] = 0 => Ends(time_sync_en, p, TRUE)
      /\ \A p : p[1] = "ts" /\ p[2] # 0 => Ends(time_sync_en, p, FALSE)
      /\ Calm(time_sync_en)
  BY OperationBits, OperationCalm DEF time_sync_en, SyncEn
<1>5. /\ \A p : p[1] # "ctrl" \/ p[2] # 0 => Spares(time_sync_tx_en, p)
      /\ \A p : p[1] = "ctrl" /\ p[2] = 0 => Ends(time_sync_tx_en, p, TRUE)
      /\ Plain(time_sync_tx_en)
  <2>1. /\ \A p : p[1] # "ctrl" \/ p[2] # 0 => Spares(time_sync_tx_en, p)
        /\ \A p : p[1] = "ctrl" /\ p[2] = 0 => Ends(time_sync_tx_en, p, TRUE)
    BY OperationBits DEF time_sync_tx_en, SyncTx
  <2>2. Plain(time_sync_tx_en)
    BY DEF time_sync_tx_en, SetBits, Do, Plain
  <2> QED
    BY <2>1, <2>2
<1>6. /\ \A p : p[1] # "fsync" => Spares(set_sync_on, p)
      /\ \A p : p[1] = "fsync" /\ p[2] = 0 => Ends(set_sync_on, p, TRUE)
      /\ Calm(set_sync_on)
  BY OperationBits, OperationCalm DEF set_sync_on
<1>7. Well("setsyncen", en)
  <2>1. Prepared(en) /\ Copying(en)
    <3>a. UnitOn[1] = "ts" /\ UnitOn[2] = 0 /\ UnitRst[1] = "ts" /\ UnitRst[2] # 0
      BY DEF UnitOn, UnitRst, SyncEn
    <3>1. Ends(time_sync_en, UnitOn, TRUE) /\ Ends(time_sync_en, UnitRst, FALSE)
      BY <1>4, <3>a
    <3>2. Prepared(en)
      BY <1>0, <1>4, <3>1, LiftPrepared
    <3> QED
      BY <1>0, <1>4, <1>5, <3>2, JoinedPlain, PlainIs
  <2>2. /\ \A p : p[1] # "ts" /\ (p[1] # "ctrl" \/ p[2] # 0) => Spares(en, p)
        /\ \A p : p[1] = "ts" /\ p[2] = 0 => Ends(en, p, TRUE)
        /\ \A p : p[1] = "ctrl" /\ p[2] = 0 => Ends(en, p, TRUE)
    BY <1>0, <1>4, <1>5, JoinedBit
  <2> HIDE DEF en
  <2>a. Panel!Owns("setsyncen") = {"syncTx", "syncUnit"}
    BY <1>1 DEF Panel!Owns
  <2>b. \A x \in DOMAIN SwitchBit : x \notin {"syncTx", "syncUnit"} =>
          SwitchBit[x][1] # "ts" /\ (SwitchBit[x][1] # "ctrl" \/ SwitchBit[x][2] # 0)
    BY SwitchTable
  <2>c. /\ SwitchBit["syncTx"][1] = "ctrl" /\ SwitchBit["syncTx"][2] = 0
        /\ SwitchBit["syncUnit"][1] = "ts" /\ SwitchBit["syncUnit"][2] = 0
    BY SwitchTable
  <2>3. Ends(en, SwitchBit["syncTx"], TRUE)
    <3> DEFINE p == SwitchBit["syncTx"]
    <3>1. p[1] = "ctrl" /\ p[2] = 0
      BY <2>c
    <3> HIDE DEF p
    <3>2. Ends(en, p, TRUE)
      BY <2>2, <3>1
    <3> QED
      BY <3>2 DEF p
  <2>4. Ends(en, SwitchBit["syncUnit"], TRUE)
    <3> DEFINE p == SwitchBit["syncUnit"]
    <3>1. p[1] = "ts" /\ p[2] = 0
      BY <2>c
    <3> HIDE DEF p
    <3>2. Ends(en, p, TRUE)
      BY <2>2, <3>1
    <3> QED
      BY <3>2 DEF p
  <2>5. ASSUME NEW x \in DOMAIN SwitchBit, x \notin Panel!Owns("setsyncen")
        PROVE  Spares(en, SwitchBit[x])
    <3> DEFINE p == SwitchBit[x]
    <3>1. p[1] # "ts" /\ (p[1] # "ctrl" \/ p[2] # 0)
      BY <2>5, <2>a, <2>b
    <3> HIDE DEF p
    <3>2. Spares(en, p)
      BY <2>2, <3>1
    <3> QED
      BY <3>2 DEF p
  <2>6. Fits("setsyncen", en)
    BY <1>1, <2>3, <2>4, <2>5 DEF Fits
  <2> QED
    BY <2>1, <2>6 DEF Well
<1>8. Well("setsyncon", up)
  <2>1. Calm(up)
    BY <1>0, <1>6, InitiateBits, JoinedCalm
  <2>2. /\ \A p : p[1] \notin {"ts", "mac", "fsync"} => Spares(up, p)
        /\ \A p : p[1] = "fsync" /\ p[2] = 0 => Ends(up, p, TRUE)
    BY <1>0, <1>6, InitiateBits, JoinedBit
  <2>3. Ends(up, <<"ts", 0>>, FALSE)
    <3>1. Spares(set_sync_on, <<"ts", 0>>)
      BY <1>6
    <3> QED
      BY <1>0, <3>1, InitiateBits, JoinedBit
  <2> HIDE DEF up
  <2>a. Panel!Owns("setsyncon") = {"syncFrames", "syncUnit"}
    BY <1>1 DEF Panel!Owns
  <2>b. \A x \in DOMAIN SwitchBit : x \notin {"syncFrames", "syncUnit"} =>
          SwitchBit[x][1] \notin {"ts", "mac", "fsync"}
    BY SwitchTable
  <2>c. /\ SwitchBit["syncFrames"][1] = "fsync" /\ SwitchBit["syncFrames"][2] = 0
        /\ SwitchBit["syncUnit"] = <<"ts", 0>>
    BY SwitchTable
  <2>4. Ends(up, SwitchBit["syncFrames"], TRUE) /\ Ends(up, SwitchBit["syncUnit"], FALSE)
    BY <2>2, <2>3, <2>c
  <2> QED
    BY <1>1, <2>1, <2>2, <2>4, <2>a, <2>b, CalmIs DEF Well, Fits
<1>9. Well("tgsync", toggle)
  <2>1. Calm(toggle)
    BY <1>0, <1>6, SyncOffBits, JoinedCalm
  <2>2. /\ \A p : p[1] \notin {"mac", "fsync"} => Spares(toggle, p)
        /\ \A p : p[1] = "fsync" /\ p[2] = 0 => Ends(toggle, p, TRUE)
    BY <1>0, <1>6, SyncOffBits, JoinedBit
  <2> HIDE DEF toggle
  <2>a. Panel!Owns("tgsync") = {"syncFrames"}
    BY <1>1 DEF Panel!Owns
  <2>b. \A x \in DOMAIN SwitchBit : x \notin {"syncFrames"} =>
          SwitchBit[x][1] \notin {"mac", "fsync"}
    BY SwitchTable
  <2>c. SwitchBit["syncFrames"][1] = "fsync" /\ SwitchBit["syncFrames"][2] = 0
    BY SwitchTable
  <2>3. Ends(toggle, SwitchBit["syncFrames"], TRUE)
    BY <2>2, <2>c
  <2> QED
    BY <1>1, <2>1, <2>2, <2>3, <2>a, <2>b, CalmIs DEF Well, Fits
<1>10. SyncCommands =
        [setsyncen |-> en, setsyncoff |-> time_sync_off,
         setsyncrst |-> set_sync_rst, setsyncon |-> up, tgsync |-> toggle]
  BY DEF SyncCommands
<1> HIDE DEF en, up, toggle
<1> QED
  BY <1>2, <1>3, <1>7, <1>8, <1>9, <1>10

\* strpktcon to strrxstop.
LEMMA StreamCommandsWell ==
  \A c \in DOMAIN StreamCommands : Well(c, StreamCommands[c])
<1>1. /\ Panel!TurnsOn("strpktcon") = {"count"}
      /\ Panel!TurnsOff("strpktcon") = {}
      /\ Panel!TurnsOn("strpktcoff") = {}
      /\ Panel!TurnsOff("strpktcoff") = {"count"}
      /\ Panel!TurnsOn("strsndon") = {"send"}
      /\ Panel!TurnsOff("strsndon") = {}
      /\ Panel!TurnsOn("strsndoff") = {}
      /\ Panel!TurnsOff("strsndoff") = {"send"}
      /\ Panel!TurnsOn("strselarm") = {}
      /\ Panel!TurnsOff("strselarm") = {}
      /\ Panel!TurnsOn("strseleth") = {}
      /\ Panel!TurnsOff("strseleth") = {}
      /\ Panel!TurnsOn("strrxon") = {"rx"}
      /\ Panel!TurnsOff("strrxon") = {}
      /\ Panel!TurnsOn("strrxstop") = {}
      /\ Panel!TurnsOff("strrxstop") = {"rx"}
      /\ Panel!TurnsOn("strstart") = {"tx"}
      /\ Panel!TurnsOff("strstart") = {}
      /\ Panel!TurnsOn("strstop") = {}
      /\ Panel!TurnsOff("strstop") = {"tx", "syncFrames"}
  BY DEF Panel!TurnsOn, Panel!TurnsOff, Panel!Effect, Panel!Turn
<1>2. Well("strpktcon", set_pcnt_mode_on)
  BY <1>1, SwitchTable, OneWell
  DEF Panel!Owns, set_pcnt_mode_on, SetBits
<1>3. Well("strpktcoff", set_pcnt_mode_off)
  BY <1>1, SwitchTable, OneWell
  DEF Panel!Owns, set_pcnt_mode_off, ClearBits
<1>4. Well("strsndon", set_stream_send_on)
  BY <1>1, SwitchTable, OneWell
  DEF Panel!Owns, set_stream_send_on, SetBits
<1>5. Well("strsndoff", set_stream_send_off)
  BY <1>1, SwitchTable, OneWell
  DEF Panel!Owns, set_stream_send_off, ClearBits
<1>6. Well("strselarm", reset_dac_fifos)
  BY <1>1, SwitchTable, OneWell
  DEF Panel!Owns, reset_dac_fifos, Pulse
<1>7. Well("strseleth", reset_dac_fifos)
  BY <1>1, SwitchTable, OneWell
  DEF Panel!Owns, reset_dac_fifos, Pulse
<1>8. Well("strrxon", SetBits("ctrl", {Rx}))
  BY <1>1, SwitchTable, OneWell
  DEF Panel!Owns, SetBits, SyncTx, Rx
<1>9. Well("strrxstop", ClearBits("ctrl", {Rx}))
  BY <1>1, SwitchTable, OneWell
  DEF Panel!Owns, ClearBits, SyncTx, Rx
<1> DEFINE first == SetBits("ctrl", {Tx})
           start == first \o reset_adc_fifos
           load == Do("load", "ctrl", {}, {})
           store == Do("store", "ctrl", {}, {Tx})
           stop == load \o set_sync_off \o store
           rx == SetBits("ctrl", {Rx})
           norx == ClearBits("ctrl", {Rx})
<1>10. first \in Scripts /\ load \in Scripts /\ store \in Scripts /\ reset_adc_fifos \in Scripts
  BY SetBitsGood, OneCall, ResetsGood, ResetBitsValues DEF Ops, Disciplined, Tx, Registers, Bits
<1>11. Well("strstart", start)
  <2>1. /\ \A p : p[1] # "ctrl" \/ p[2] # 1 => Spares(first, p)
        /\ \A p : p[1] = "ctrl" /\ p[2] = 1 => Ends(first, p, TRUE)
    <3>1. \A p : p[1] # "ctrl" \/ p[2] # 1 => Spares(SetBits("ctrl", {1}), p)
      BY OperationBits
    <3>2. \A p : p[1] = "ctrl" /\ p[2] = 1 => Ends(SetBits("ctrl", {1}), p, TRUE)
      BY OperationBits
    <3> QED
      BY <3>1, <3>2 DEF Tx
  <2>2. Calm(first)
    <3>1. SyncTx \notin {Tx}
      BY DEF Tx, SyncTx
    <3> QED
      BY <3>1, OperationCalm
  <2>3. /\ \A p : p[1] # "a2e" \/ p[2] \notin {0, 1} => Spares(reset_adc_fifos, p)
        /\ Calm(reset_adc_fifos)
    BY OperationBits, OperationCalm DEF reset_adc_fifos
  <2> HIDE DEF first
  <2>4. Calm(start)
    BY <1>10, <2>2, <2>3, JoinedCalm
  <2>5. /\ \A p : (p[1] # "ctrl" \/ p[2] # 1) /\ (p[1] # "a2e" \/ p[2] \notin {0, 1}) =>
               Spares(start, p)
        /\ \A p : p[1] = "ctrl" /\ p[2] = 1 => Ends(start, p, TRUE)
    BY <1>10, <2>1, <2>3, JoinedBit
  <2> HIDE DEF start
  <2>a. Panel!Owns("strstart") = {"tx"}
    BY <1>1 DEF Panel!Owns
  <2>b. \A x \in DOMAIN SwitchBit : x \notin {"tx"} =>
          /\ SwitchBit[x][1] # "ctrl" \/ SwitchBit[x][2] # 1
          /\ SwitchBit[x][1] # "a2e" \/ SwitchBit[x][2] \notin {0, 1}
    BY SwitchTable
  <2>c. SwitchBit["tx"][1] = "ctrl" /\ SwitchBit["tx"][2] = 1
    BY SwitchTable
  <2>6. Ends(start, SwitchBit["tx"], TRUE)
    BY <2>5, <2>c
  <2> QED
    BY <1>1, <2>4, <2>5, <2>6, <2>a, <2>b, CalmIs DEF Well, Fits
<1>12. Well("strstop", stop)
  <2>1. Copying(stop) /\ Prepared(stop)
    BY CopyBack, SyncOffBits
  <2>2. /\ \A p : Spares(load, p)
        /\ \A p : p[1] # "ctrl" \/ p[2] # 1 => Spares(store, p)
        /\ \A p : p[1] = "ctrl" /\ p[2] = 1 => Ends(store, p, FALSE)
    <3>1. \A op, off : \A p :
            LET c == [op |-> op, reg |-> "ctrl", on |-> {}, off |-> off]
            IN  /\ Keeps(c, p) => Spares(Do(op, "ctrl", {}, off), p)
                /\ \A v : Makes(c, p, v) => Ends(Do(op, "ctrl", {}, off), p, v)
      BY OneOperation
    <3>2. \A p : Spares(load, p)
      BY <3>1 DEF Keeps
    <3>3. ASSUME NEW p, p[1] # "ctrl" \/ p[2] # 1 PROVE Spares(store, p)
      <4> DEFINE k == [op |-> "store", reg |-> "ctrl", on |-> {}, off |-> {Tx}]
      <4>1. Keeps(k, p)
        BY <3>3 DEF Keeps, Tx
      <4> QED
        BY <3>1, <4>1
    <3>4. \A p : p[1] = "ctrl" /\ p[2] = 1 => Ends(store, p, FALSE)
      BY <3>1 DEF Makes, Tx
    <3> QED
      BY <3>2, <3>3, <3>4
  <2> HIDE DEF load, store
  <2> DEFINE front == load \o set_sync_off
  <2>3. front \in Scripts
    BY <1>10, SyncOffBits, Joined
  <2>4. \A p : p[1] \notin {"fsync", "mac"} => Spares(front, p)
    BY <1>10, <2>2, SyncOffBits, JoinedBit
  <2>5. Ends(front, <<"fsync", 0>>, FALSE)
    BY <1>10, SyncOffBits, JoinedBit
  <2> HIDE DEF front
  <2> DEFINE all == front \o store
  <2>6. /\ \A p : p[1] \notin {"fsync", "mac"} /\ (p[1] # "ctrl" \/ p[2] # 1) => Spares(all, p)
        /\ \A p : p[1] = "ctrl" /\ p[2] = 1 => Ends(all, p, FALSE)
    BY <1>10, <2>2, <2>3, <2>4, JoinedBit
  <2>7. Ends(all, <<"fsync", 0>>, FALSE)
    <3>1. Spares(store, <<"fsync", 0>>)
      BY <2>2
    <3> QED
      BY <1>10, <2>3, <2>5, <3>1, JoinedBit
  <2>8. stop = all
    BY DEF front
  <2> HIDE DEF all, stop
  <2>a. Panel!Owns("strstop") = {"tx", "syncFrames"}
    BY <1>1 DEF Panel!Owns
  <2>b. \A x \in DOMAIN SwitchBit : x \notin {"tx", "syncFrames"} =>
          /\ SwitchBit[x][1] \notin {"fsync", "mac"}
          /\ SwitchBit[x][1] # "ctrl" \/ SwitchBit[x][2] # 1
    BY SwitchTable
  <2>c. /\ SwitchBit["tx"][1] = "ctrl" /\ SwitchBit["tx"][2] = 1
        /\ SwitchBit["syncFrames"] = <<"fsync", 0>>
    BY SwitchTable
  <2>d. Ends(all, SwitchBit["tx"], FALSE) /\ Ends(all, SwitchBit["syncFrames"], FALSE)
    BY <2>6, <2>7, <2>c
  <2>9. Fits("strstop", all)
    BY <1>1, <2>6, <2>a, <2>b, <2>d DEF Fits
  <2> QED
    BY <2>1, <2>8, <2>9 DEF Well
<1>13. StreamCommands =
        [strpktcon |-> set_pcnt_mode_on, strpktcoff |-> set_pcnt_mode_off,
         strsndon |-> set_stream_send_on, strsndoff |-> set_stream_send_off,
         strselarm |-> reset_dac_fifos, strseleth |-> reset_dac_fifos,
         strstart |-> start, strrxon |-> rx, strstop |-> stop, strrxstop |-> norx]
  BY DEF StreamCommands
<1>14. Well("strrxon", rx) /\ Well("strrxstop", norx)
  BY <1>8, <1>9
<1> HIDE DEF start, stop, rx, norx
<1> QED
  BY <1>2, <1>3, <1>4, <1>5, <1>6, <1>7, <1>11, <1>12, <1>13, <1>14

\* areset to rxrsync.
LEMMA ResetCommandsWell ==
  \A c \in DOMAIN ResetCommands : Well(c, ResetCommands[c])
<1>1. /\ Panel!TurnsOn("areset") = {}
      /\ Panel!TurnsOff("areset") = {}
      /\ Panel!TurnsOn("preset") = {}
      /\ Panel!TurnsOff("preset") = {}
      /\ Panel!TurnsOn("pseqoff") = {"seqOff"}
      /\ Panel!TurnsOff("pseqoff") = {}
      /\ Panel!TurnsOn("pseqon") = {}
      /\ Panel!TurnsOff("pseqon") = {"seqOff"}
      /\ Panel!TurnsOn("creset") = {}
      /\ Panel!TurnsOff("creset") = {"tx"}
      /\ Panel!TurnsOn("dreset") = {"syncTx", "syncUnit"}
      /\ Panel!TurnsOff("dreset") = {}
      /\ Panel!TurnsOn("freset") = {}
      /\ Panel!TurnsOff("freset") = {"tx"}
      /\ Panel!TurnsOn("rxrsync") = {}
      /\ Panel!TurnsOff("rxrsync") = {"tx"}
  BY DEF Panel!TurnsOn, Panel!TurnsOff, Panel!Effect, Panel!Turn
<1>2. Well("areset", reset_adc_fifos)
  BY <1>1, SwitchTable, OneWell
  DEF Panel!Owns, reset_adc_fifos, Pulse
<1>3. Well("preset", reset_pkt_seq)
  BY <1>1, SwitchTable, OneWell
  DEF Panel!Owns, reset_pkt_seq, Pulse
<1>4. Well("pseqoff", disble_pkt_seq)
  BY <1>1, SwitchTable, OneWell
  DEF Panel!Owns, disble_pkt_seq, SetBits
<1>5. Well("pseqon", enable_pkt_seq)
  BY <1>1, SwitchTable, OneWell
  DEF Panel!Owns, enable_pkt_seq, ClearBits
<1>6. Well("creset", reset_core)
  BY <1>1, SwitchTable, OneWell
  DEF Panel!Owns, reset_core, Pulse, Tx, SyncTx
<1> DEFINE chain == reset_chain
<1>7. Calm(chain)
  BY ChainBits
<1>8. ASSUME NEW x \in DOMAIN SwitchBit, x # "tx" PROVE Spares(chain, SwitchBit[x])
  <2> DEFINE p == SwitchBit[x]
  <2>1. /\ p[1] # "e2a"
        /\ p[1] # "ctrl" \/ p[2] # 1
        /\ p[1] # "seq" \/ p[2] # 0
        /\ p[1] # "a2e" \/ p[2] \notin {0, 1}
    BY <1>8, SwitchTable
  <2> HIDE DEF p
  <2>2. Spares(chain, p)
    BY <2>1, ChainBits DEF Tx
  <2> QED
    BY <2>2 DEF p
<1>9. Ends(chain, SwitchBit["tx"], FALSE)
  <2>1. SwitchBit["tx"] = <<"ctrl", Tx>>
    BY SwitchTable DEF Tx
  <2> QED
    BY <2>1, ChainBits
<1> HIDE DEF chain
<1>10. Panel!Owns("freset") = {"tx"} /\ Panel!Owns("rxrsync") = {"tx"}
  BY <1>1 DEF Panel!Owns
<1>11. Well("freset", chain) /\ Well("rxrsync", chain)
  BY <1>1, <1>7, <1>8, <1>9, <1>10, CalmIs DEF Well, Fits
<1> DEFINE s1 == time_sync_tx_off \o time_sync_off
           s2 == s1 \o set_sync_rst
           s3 == s2 \o time_sync_en
           s4 == s3 \o time_sync_tx_en
           s5 == s4 \o reset_dac_fifos
<1>12. /\ time_sync_tx_off \in Scripts /\ time_sync_off \in Scripts /\ set_sync_rst \in Scripts
       /\ time_sync_en \in Scripts /\ time_sync_tx_en \in Scripts /\ reset_dac_fifos \in Scripts
  BY SyncGood, ResetsGood
<1>13. /\ s1 \in Scripts /\ s2 \in Scripts /\ s3 \in Scripts /\ s4 \in Scripts /\ s5 \in Scripts
  BY <1>12, Joined
<1>14. /\ Calm(time_sync_tx_off) /\ Calm(time_sync_off) /\ Calm(set_sync_rst)
       /\ Calm(time_sync_en) /\ Calm(reset_dac_fifos) /\ Plain(time_sync_tx_en)
  <2>1. Calm(time_sync_tx_off) /\ Calm(time_sync_off) /\ Calm(time_sync_en)
    BY OperationCalm DEF time_sync_tx_off, time_sync_off, time_sync_en
  <2>2. Calm(set_sync_rst) /\ Calm(reset_dac_fifos)
    BY OperationCalm DEF set_sync_rst, reset_dac_fifos
  <2>3. Plain(time_sync_tx_en)
    BY DEF time_sync_tx_en, SetBits, Do, Plain
  <2> QED
    BY <2>1, <2>2, <2>3
<1>15. /\ \A p : p[1] # "ctrl" \/ p[2] # 0 =>
              Spares(time_sync_tx_off, p) /\ Spares(time_sync_tx_en, p)
       /\ \A p : p[1] # "ts" =>
              Spares(time_sync_off, p) /\ Spares(set_sync_rst, p) /\ Spares(time_sync_en, p)
       /\ \A p : p[1] # "e2a" => Spares(reset_dac_fifos, p)
       /\ \A p : p[1] = "ctrl" /\ p[2] = 0 => Ends(time_sync_tx_en, p, TRUE)
       /\ \A p : p[1] = "ts" /\ p[2] = 0 => Ends(time_sync_en, p, TRUE)
       /\ \A p : p[1] = "ts" /\ p[2] = 1 => Ends(time_sync_en, p, FALSE)
  <2>1. /\ \A p : p[1] # "ctrl" \/ p[2] # 0 => Spares(time_sync_tx_off, p)
        /\ \A p : p[1] # "ctrl" \/ p[2] # 0 => Spares(time_sync_tx_en, p)
    BY OperationBits DEF time_sync_tx_off, time_sync_tx_en, SyncTx
  <2>2. /\ \A p : p[1] # "ts" => Spares(time_sync_off, p)
        /\ \A p : p[1] # "ts" => Spares(set_sync_rst, p)
        /\ \A p : p[1] # "ts" => Spares(time_sync_en, p)
    BY OperationBits DEF time_sync_off, set_sync_rst, time_sync_en
  <2>3. \A p : p[1] # "e2a" => Spares(reset_dac_fifos, p)
    BY OperationBits DEF reset_dac_fifos
  <2>4. \A p : p[1] = "ctrl" /\ p[2] = 0 => Ends(time_sync_tx_en, p, TRUE)
    BY OperationBits DEF time_sync_tx_en, SyncTx
  <2>5. /\ \A p : p[1] = "ts" /\ p[2] = 0 => Ends(time_sync_en, p, TRUE)
        /\ \A p : p[1] = "ts" /\ p[2] = 1 => Ends(time_sync_en, p, FALSE)
    <3>1. ASSUME NEW p, p[1] = "ts", p[2] = 0 PROVE Ends(time_sync_en, p, TRUE)
      BY <3>1, OperationBits DEF time_sync_en, SyncEn
    <3>2. ASSUME NEW p, p[1] = "ts", p[2] = 1 PROVE Ends(time_sync_en, p, FALSE)
      <4>1. p[2] \notin {SyncEn}
        BY <3>2 DEF SyncEn
      <4> QED
        BY <3>2, <4>1, OperationBits DEF time_sync_en
    <3> QED
      BY <3>1, <3>2
  <2> QED
    BY <2>1, <2>2, <2>3, <2>4, <2>5
<1>16. Calm(s1) /\ Calm(s2) /\ Calm(s3)
  BY <1>12, <1>13, <1>14, JoinedCalm
<1> HIDE DEF s1, s2
<1>17. /\ \A p : p[1] = "ts" /\ p[2] = 0 => Ends(s3, p, TRUE)
       /\ \A p : p[1] = "ts" /\ p[2] = 1 => Ends(s3, p, FALSE)
  BY <1>12, <1>13, <1>15, JoinedBit
<1>18. \A p : p[1] # "ts" /\ (p[1] # "ctrl" \/ p[2] # 0) => Spares(s1, p)
  BY <1>12, <1>15, JoinedBit DEF s1
<1>19. \A p : p[1] # "ts" /\ (p[1] # "ctrl" \/ p[2] # 0) => Spares(s2, p)
  BY <1>12, <1>13, <1>15, <1>18, JoinedBit DEF s2
<1>20. \A p : p[1] # "ts" /\ (p[1] # "ctrl" \/ p[2] # 0) => Spares(s3, p)
  BY <1>12, <1>13, <1>15, <1>19, JoinedBit
<1> HIDE DEF s3
<1>21. \A p : p[1] # "ts" /\ (p[1] # "ctrl" \/ p[2] # 0) => Spares(s4, p)
  BY <1>12, <1>13, <1>15, <1>20, JoinedBit
<1>22. /\ \A p : p[1] = "ts" /\ p[2] = 0 => Ends(s4, p, TRUE)
       /\ \A p : p[1] = "ctrl" /\ p[2] = 0 => Ends(s4, p, TRUE)
  <2>1. ASSUME NEW p, p[1] = "ts", p[2] = 0 PROVE Ends(s4, p, TRUE)
    BY <1>12, <1>13, <1>15, <1>17, <2>1, JoinedBit
  <2>2. ASSUME NEW p, p[1] = "ctrl", p[2] = 0 PROVE Ends(s4, p, TRUE)
    BY <1>12, <1>13, <1>15, <2>2, JoinedBit
  <2> QED
    BY <2>1, <2>2
<1>23. Prepared(s4) /\ Plain(s4)
  <2>1. UnitOn[1] = "ts" /\ UnitOn[2] = 0 /\ UnitRst[1] = "ts" /\ UnitRst[2] = 1
    BY DEF UnitOn, UnitRst, SyncEn
  <2>2. Ends(s3, UnitOn, TRUE) /\ Ends(s3, UnitRst, FALSE)
    BY <1>17, <2>1
  <2>3. Prepared(s4)
    BY <1>13, <1>16, <2>2, LiftPrepared
  <2>4. Plain(s3)
    BY <1>16, PlainIs
  <2> QED
    BY <1>12, <1>13, <1>14, <2>3, <2>4, JoinedPlain
<1> HIDE DEF s4
<1>24. /\ \A p : p[1] \notin {"ts", "e2a"} /\ (p[1] # "ctrl" \/ p[2] # 0) => Spares(s5, p)
       /\ \A p : p[1] = "ts" /\ p[2] = 0 => Ends(s5, p, TRUE)
       /\ \A p : p[1] = "ctrl" /\ p[2] = 0 => Ends(s5, p, TRUE)
  <2>1. ASSUME NEW p, p[1] \notin {"ts", "e2a"}, p[1] # "ctrl" \/ p[2] # 0 PROVE Spares(s5, p)
    BY <1>12, <1>13, <1>15, <1>21, <2>1, JoinedBit
  <2>2. ASSUME NEW p, p[1] = "ts", p[2] = 0 PROVE Ends(s5, p, TRUE)
    BY <1>12, <1>13, <1>15, <1>22, <2>2, JoinedBit
  <2>3. ASSUME NEW p, p[1] = "ctrl", p[2] = 0 PROVE Ends(s5, p, TRUE)
    BY <1>12, <1>13, <1>15, <1>22, <2>3, JoinedBit
  <2> QED
    BY <2>1, <2>2, <2>3
<1>25. Prepared(s5) /\ Copying(s5)
  <2>1. Plain(reset_dac_fifos)
    BY <1>14, PlainIs
  <2> QED
    BY <1>12, <1>13, <1>14, <1>23, <2>1, JoinedPlain, JoinedCalm, PlainIs
<1>26. ResetCommands =
         [areset |-> reset_adc_fifos, dreset |-> s5, preset |-> reset_pkt_seq,
          pseqoff |-> disble_pkt_seq, pseqon |-> enable_pkt_seq,
          creset |-> reset_core, freset |-> chain, rxrsync |-> chain]
  BY DEF ResetCommands, s1, s2, s3, s4, chain
<1> HIDE DEF s5
<1>27. Fits("dreset", s5)
  <2>a. Panel!Owns("dreset") = {"syncTx", "syncUnit"}
    BY <1>1 DEF Panel!Owns
  <2>b. \A x \in DOMAIN SwitchBit : x \notin {"syncTx", "syncUnit"} =>
          SwitchBit[x][1] \notin {"ts", "e2a"} /\ (SwitchBit[x][1] # "ctrl" \/ SwitchBit[x][2] # 0)
    BY SwitchTable
  <2>c. /\ SwitchBit["syncTx"][1] = "ctrl" /\ SwitchBit["syncTx"][2] = 0
        /\ SwitchBit["syncUnit"][1] = "ts" /\ SwitchBit["syncUnit"][2] = 0
    BY SwitchTable
  <2>1. Ends(s5, SwitchBit["syncTx"], TRUE) /\ Ends(s5, SwitchBit["syncUnit"], TRUE)
    BY <1>24, <2>c
  <2>2. \A x \in DOMAIN SwitchBit : x \notin Panel!Owns("dreset") => Spares(s5, SwitchBit[x])
    BY <1>24, <2>a, <2>b
  <2> QED
    BY <1>1, <2>1, <2>2 DEF Fits
<1>28. Well("dreset", s5)
  BY <1>25, <1>27 DEF Well
<1> QED
  BY <1>2, <1>3, <1>4, <1>5, <1>6, <1>11, <1>26, <1>28

\* The start of the program and strmac.
LEMMA AddressWell ==
  ASSUME NEW w \in MacWords
  PROVE  Well("strmac", write_eth_mac(w)) /\ Well("ui_init", ui_init(w))
<1>1. /\ Panel!TurnsOn("strmac") = {} /\ Panel!TurnsOff("strmac") = {}
      /\ Panel!TurnsOn("ui_init") = {} /\ Panel!TurnsOff("ui_init") = {"syncFrames", "syncTx"}
  BY DEF Panel!TurnsOn, Panel!TurnsOff, Panel!Effect, Panel!Turn
<1> DEFINE a == write_eth_mac(w)
           b == ClearBits("ctrl", {SyncTx})
           v == a \o set_sync_off
           u == v \o b
<1>2. a \in Scripts /\ b \in Scripts /\ set_sync_off \in Scripts
  BY ScriptsGood, SyncGood, ClearBitsGood, ResetBitsValues DEF SyncTx, Registers, Bits
<1>3. /\ \A p : p[1] # "mac" => Spares(a, p)
      /\ Calm(a)
  BY OperationBits, OperationCalm DEF write_eth_mac
<1>4. /\ \A p : p[1] # "ctrl" \/ p[2] # 0 => Spares(b, p)
      /\ \A p : p[1] = "ctrl" /\ p[2] = 0 => Ends(b, p, FALSE)
      /\ Calm(b)
  BY OperationBits, OperationCalm DEF SyncTx
<1>5. ui_init(w) = u
  BY DEF ui_init
<1> HIDE DEF a, b
<1>6. v \in Scripts /\ Calm(v)
  BY <1>2, <1>3, SyncOffBits, Joined, JoinedCalm
<1>7. Calm(u)
  BY <1>2, <1>4, <1>6, JoinedCalm
<1>8. \A p : p[1] \notin {"mac", "fsync"} => Spares(v, p)
  BY <1>2, <1>3, SyncOffBits, JoinedBit
<1>9. Ends(v, <<"fsync", 0>>, FALSE)
  BY <1>2, SyncOffBits, JoinedBit
<1> HIDE DEF v
<1>10. \A p : p[1] \notin {"mac", "fsync"} /\ (p[1] # "ctrl" \/ p[2] # 0) => Spares(u, p)
  BY <1>2, <1>4, <1>6, <1>8, JoinedBit
<1>11. \A p : p[1] = "ctrl" /\ p[2] = 0 => Ends(u, p, FALSE)
  BY <1>2, <1>4, <1>6, JoinedBit
<1>12. Ends(u, <<"fsync", 0>>, FALSE)
  <2>1. Spares(b, <<"fsync", 0>>)
    BY <1>4
  <2> QED
    BY <1>2, <1>6, <1>9, <2>1, JoinedBit
<1> HIDE DEF u
<1>13. Well("ui_init", u)
  <2>a. Panel!Owns("ui_init") = {"syncFrames", "syncTx"}
    BY <1>1 DEF Panel!Owns
  <2>b. \A x \in DOMAIN SwitchBit : x \notin {"syncFrames", "syncTx"} =>
          SwitchBit[x][1] \notin {"mac", "fsync"} /\ (SwitchBit[x][1] # "ctrl" \/ SwitchBit[x][2] # 0)
    BY SwitchTable
  <2>c. /\ SwitchBit["syncTx"][1] = "ctrl" /\ SwitchBit["syncTx"][2] = 0
        /\ SwitchBit["syncFrames"] = <<"fsync", 0>>
    BY SwitchTable
  <2>1. Ends(u, SwitchBit["syncTx"], FALSE) /\ Ends(u, SwitchBit["syncFrames"], FALSE)
    BY <1>11, <1>12, <2>c
  <2>2. \A x \in DOMAIN SwitchBit : x \notin Panel!Owns("ui_init") => Spares(u, SwitchBit[x])
    BY <1>10, <2>a, <2>b
  <2> QED
    BY <1>1, <1>7, <2>1, <2>2, CalmIs DEF Well, Fits
<1>14. Well("strmac", a)
  <2>1. \A x \in DOMAIN SwitchBit : SwitchBit[x][1] # "mac"
    BY SwitchTable
  <2>2. \A x \in DOMAIN SwitchBit : Spares(a, SwitchBit[x])
    BY <1>3, <2>1
  <2> QED
    BY <1>1, <1>3, <2>2, CalmIs DEF Well, Fits
<1> QED
  BY <1>5, <1>13, <1>14 DEF a

\* Whatever the operator types does what the panel says of it.
LEMMA ScriptsWell == \A c \in AllCommands : Well(c, ScriptOf(c))
<1>1. \A g \in Groups : \A c \in DOMAIN g : Well(c, g[c])
  BY ResetCommandsWell, TestCommandsWell, XTestCommandsWell, SyncCommandsWell,
     StreamCommandsWell, SpeedCommandsWell, DelayCommandsWell,
     CorrectionCommandsWell DEF Groups
<1> SUFFICES ASSUME NEW c \in AllCommands PROVE Well(c, ScriptOf(c))
  OBVIOUS
<1>2. \E g \in Groups : c \in DOMAIN g
  BY DEF AllCommands
<1> DEFINE h == CHOOSE g \in Groups : c \in DOMAIN g
<1>3. h \in Groups /\ c \in DOMAIN h
  BY <1>2
<1> QED
  BY <1>1, <1>3 DEF ScriptOf

-----------------------------------------------------------------------------
(***************************************************************************)
(* The invariant of the panel, and what follows from it.                   *)
(***************************************************************************)
\* No name of a command is "off" or "none".
LEMMA CommandNames == "off" \notin AllCommands /\ "none" \notin AllCommands
<1>1. \A g \in Groups : "off" \notin DOMAIN g /\ "none" \notin DOMAIN g
  <2>1. "off" \notin DOMAIN ResetCommands /\ "none" \notin DOMAIN ResetCommands
    BY DEF ResetCommands
  <2>2. "off" \notin DOMAIN TestCommands /\ "none" \notin DOMAIN TestCommands
    BY DEF TestCommands
  <2>3. "off" \notin DOMAIN XTestCommands /\ "none" \notin DOMAIN XTestCommands
    BY DEF XTestCommands
  <2>4. "off" \notin DOMAIN SyncCommands /\ "none" \notin DOMAIN SyncCommands
    BY DEF SyncCommands
  <2>5. "off" \notin DOMAIN StreamCommands /\ "none" \notin DOMAIN StreamCommands
    BY DEF StreamCommands
  <2>6. "off" \notin DOMAIN SpeedCommands /\ "none" \notin DOMAIN SpeedCommands
    BY DEF SpeedCommands
  <2>7. "off" \notin DOMAIN DelayCommands /\ "none" \notin DOMAIN DelayCommands
    BY DEF DelayCommands
  <2>8. "off" \notin DOMAIN CorrectionCommands /\ "none" \notin DOMAIN CorrectionCommands
    BY DEF CorrectionCommands
  <2> QED
    BY <2>1, <2>2, <2>3, <2>4, <2>5, <2>6, <2>7, <2>8 DEF Groups
<1> QED
  BY <1>1 DEF AllCommands

\* The panel names no switch that is not one of the registers.
LEMMA SwitchesExist ==
  \A c : Panel!TurnsOn(c) \subseteq DOMAIN SwitchBit /\ Panel!TurnsOff(c) \subseteq DOMAIN SwitchBit
<1> DEFINE S == DOMAIN SwitchBit
<1>1. /\ {"syncTx", "tx", "rx", "syncUnit", "syncFrames", "count", "test", "send"} \subseteq S
      /\ {"mode0", "mode1", "mode2", "seqOff", "waitOff", "delayOff"} \subseteq S
      /\ {"xtest", "hdrStrip", "xmode0", "xmode1", "xmode2"} \subseteq S
  BY SwitchTable
<1> HIDE DEF S
<1> DEFINE Fine(c) == Panel!Effect[c].on \subseteq S /\ Panel!Effect[c].off \subseteq S
<1>2. /\ Fine("dreset")
      /\ Fine("pseqoff")
      /\ Fine("pseqon")
      /\ Fine("creset")
      /\ Fine("freset")
      /\ Fine("rxrsync")
      /\ Fine("strteston")
  BY <1>1 DEF Panel!Effect, Panel!Turn, Panel!Mode, Panel!XMode
<1>3. /\ Fine("strtestoff")
      /\ Fine("strtestm1")
      /\ Fine("strtestm2")
      /\ Fine("strtestm3")
      /\ Fine("strtestm4")
      /\ Fine("strtestm5")
      /\ Fine("sethdrstrip")
  BY <1>1 DEF Panel!Effect, Panel!Turn, Panel!Mode, Panel!XMode
<1>4. /\ Fine("clearhdrstrip")
      /\ Fine("strxteston")
      /\ Fine("strxtestoff")
      /\ Fine("strxtestm1")
      /\ Fine("strxtestm2")
      /\ Fine("strxtestm3")
      /\ Fine("strxtestm4")
  BY <1>1 DEF Panel!Effect, Panel!Turn, Panel!Mode, Panel!XMode
<1>5. /\ Fine("strxtestm5")
      /\ Fine("setsyncen")
      /\ Fine("setsyncoff")
      /\ Fine("setsyncon")
      /\ Fine("tgsync")
      /\ Fine("strpktcon")
      /\ Fine("strpktcoff")
  BY <1>1 DEF Panel!Effect, Panel!Turn, Panel!Mode, Panel!XMode
<1>6. /\ Fine("strsndon")
      /\ Fine("strsndoff")
      /\ Fine("strstart")
      /\ Fine("strrxon")
      /\ Fine("strstop")
      /\ Fine("strrxstop")
      /\ Fine("strnsp0")
  BY <1>1 DEF Panel!Effect, Panel!Turn, Panel!Mode, Panel!XMode
<1>7. /\ Fine("strnsp1")
      /\ Fine("strnsp2")
      /\ Fine("sqwon")
      /\ Fine("sqwoff")
      /\ Fine("sqsdon")
      /\ Fine("sqsdoff")
      /\ Fine("ui_init")
  BY <1>1 DEF Panel!Effect, Panel!Turn, Panel!Mode, Panel!XMode
<1>8. DOMAIN Panel!Effect =
        {"dreset", "pseqoff", "pseqon", "creset", "freset", "rxrsync",
         "strteston", "strtestoff", "strtestm1", "strtestm2", "strtestm3", "strtestm4",
         "strtestm5", "sethdrstrip", "clearhdrstrip", "strxteston", "strxtestoff", "strxtestm1",
         "strxtestm2", "strxtestm3", "strxtestm4", "strxtestm5", "setsyncen", "setsyncoff",
         "setsyncon", "tgsync", "strpktcon", "strpktcoff", "strsndon", "strsndoff",
         "strstart", "strrxon", "strstop", "strrxstop", "strnsp0", "strnsp1",
         "strnsp2", "sqwon", "sqwoff", "sqsdon", "sqsdoff", "ui_init"}
  BY DEF Panel!Effect
<1> HIDE DEF Fine
<1>9. \A c \in DOMAIN Panel!Effect : Fine(c)
  BY <1>2, <1>3, <1>4, <1>5, <1>6, <1>7, <1>8
<1> QED
  BY <1>9 DEF Panel!TurnsOn, Panel!TurnsOff, S, Fine

\* A command starts with its whole script to do.
LEMMA StartPInv ==
  ASSUME ~held, NEW c, NEW s \in Scripts, Well(c, s), Start(c, s)
  PROVE  PInv'
<1>0. command' = c /\ todo' = s /\ held' = FALSE
  BY DEF Start
<1>1. PanelDue'
  BY <1>0 DEF PanelDue, Due, Well, Fits
<1>2. UnitDue'
  BY <1>0 DEF UnitDue, Before, Well, Prepared
<1>3. CopiesFresh'
  BY <1>0 DEF CopiesFresh, Well, Copying
<1> QED
  BY <1>1, <1>2, <1>3 DEF PInv

\* Nothing runs: nothing is due.
LEMMA RestPInv ==
  ASSUME ~Running', todo' = <<>>, ~held'
  PROVE  PInv'
<1>1. DOMAIN todo' = {}
  OBVIOUS
<1>2. PanelDue'
  BY DEF PanelDue
<1>3. UnitDue'
  BY <1>1 DEF UnitDue
<1>4. CopiesFresh'
  BY <1>1 DEF CopiesFresh
<1> QED
  BY <1>2, <1>3, <1>4 DEF PInv

\* Whatever happens, what is left to do stays right.
LEMMA NextPInv == IInv /\ Idling /\ PInv /\ [Next]_vars => PInv'
<1> SUFFICES ASSUME IInv, Idling, PInv, [Next]_vars PROVE PInv'
  OBVIOUS
<1>1. CASE Step
  BY <1>1, StepPInv
<1>2. ASSUME NEW c \in Commands, Type(c) PROVE PInv'
  <2>1. c \in AllCommands /\ ~held /\ Start(c, ScriptOf(c))
    BY <1>2, StreamAssumption DEF Type, IInv, Running
  <2> QED
    BY <2>1, ScriptsGood, ScriptsWell, StartPInv
<1>3. ASSUME NEW w \in MacWords, strmac(w) \/ Launch(w) PROVE PInv'
  BY <1>3, ScriptsGood, AddressWell, StartPInv DEF strmac, Launch, IInv, Running
<1>4. CASE Prompt
  BY <1>4, RestPInv DEF Prompt, IInv, Running
<1>5. CASE Exit
  BY <1>5, RestPInv DEF Exit, IInv, Idling, Running
<1>6. CASE Kill
  BY <1>6, RestPInv DEF Kill, Running
<1>7. CASE UNCHANGED vars
  <2>1. PanelDue' /\ UnitDue'
    BY <1>7 DEF vars, PInv, PanelDue, UnitDue, Due, IsOn, Running
  <2>2. CopiesFresh'
    BY <1>7 DEF vars, PInv, CopiesFresh, Untouched, Next_op
  <2> QED
    BY <2>1, <2>2 DEF PInv
<1> QED
  BY <1>1, <1>2, <1>3, <1>4, <1>5, <1>6, <1>7 DEF Next, Live

\* Nothing is left to do at the prompt.
LEMMA NextIdling == IInv /\ Idling /\ [Next]_vars => Idling'
<1> SUFFICES ASSUME IInv, Idling, [Next]_vars PROVE Idling'
  OBVIOUS
<1>1. CASE Step
  BY <1>1 DEF Step, ReadModifyWrite, WriteRegister, Raise, Lower, Load, Store, Ready,
    Running, Idling
<1>2. ASSUME NEW c \in Commands, Type(c) PROVE Idling'
  BY <1>2, StreamAssumption, CommandNames DEF Type, Start, Idling, Running
<1>3. ASSUME NEW w \in MacWords, strmac(w) \/ Launch(w) PROVE Idling'
  BY <1>3 DEF strmac, Launch, Start, Idling, Running
<1>4. CASE Prompt \/ Exit \/ Kill
  BY <1>4 DEF Prompt, Exit, Kill, Idling, Running
<1>5. CASE UNCHANGED vars
  BY <1>5 DEF vars, Idling, Running
<1> QED
  BY <1>1, <1>2, <1>3, <1>4, <1>5 DEF Next, Live

\* Both hold in every behaviour.
LEMMA AlwaysPInv == Spec => [](Idling /\ PInv)
<1>1. Init => Idling /\ PInv
  <2>1. Init => Idling
    BY DEF Init, Idling
  <2>2. Init => PInv
    BY DEF Init, PInv, PanelDue, UnitDue, CopiesFresh, Running
  <2> QED
    BY <2>1, <2>2
<1>2. IInv /\ (Idling /\ PInv) /\ [Next]_vars => (Idling /\ PInv)'
  BY NextIdling, NextPInv
<1> QED
  BY <1>1, <1>2, AlwaysIInv, PTL DEF Spec

\* Every step of the registers is a step of the panel, or none.
LEMMA PanelStep == IInv /\ PInv /\ [Next]_vars => [Panel!Next]_(Panel!panel)
<1> SUFFICES ASSUME IInv, PInv, [Next]_vars
             PROVE  [Panel!Next]_(Panel!panel)
  OBVIOUS
<1>a. SwitchesOn = {x \in DOMAIN SwitchBit : IsOn(SwitchBit[x])}
  BY DEF SwitchesOn, IsOn
<1>b. SwitchesOn' = {x \in DOMAIN SwitchBit : IsOn(SwitchBit[x])'}
  BY DEF SwitchesOn, IsOn
<1>c. regs' = regs => SwitchesOn' = SwitchesOn
  BY DEF SwitchesOn
<1>1. CASE Step
  <2>1. Running /\ command' = command /\ todo # <<>> /\ todo \in Scripts
    BY <1>1 DEF Step, ReadModifyWrite, WriteRegister, Raise, Lower, Load, Store, Ready, IInv
  <2>2. ASSUME NEW x \in DOMAIN SwitchBit, x \notin Panel!Owns(command)
        PROVE  IsOn(SwitchBit[x])' <=> IsOn(SwitchBit[x])
    <3> DEFINE p == SwitchBit[x]
    <3>1. p \in Positions
      BY SwitchBitsAre
    <3>2. Spares(todo, p)
      BY <2>1, <2>2 DEF PInv, PanelDue
    <3> HIDE DEF p
    <3>3. Keeps(Next_op, p)
      BY <2>1, <3>2, HeadAndRest DEF Spares
    <3>4. Raise => Next_op.op = "pulse"
      BY DEF Raise, Ready
    <3>5. Raise => p[2] \notin Next_op.on \/ p[1] # Next_op.reg
      BY <3>3, <3>4 DEF Keeps
    <3>6. IsOn(p)' <=> IsOn(p)
      BY <1>1, <3>1, <3>3, <3>5, StepPInv
    <3> QED
      BY <3>6 DEF p
  <2>3. SwitchesOn' \ Panel!Owns(command) = SwitchesOn \ Panel!Owns(command)
    BY <1>a, <1>b, <2>2
  <2>4. Panel!Move
    BY <2>1, <2>3 DEF Panel!Move, Panel!Idle, Running
  <2> QED
    BY <2>4 DEF Panel!Next
<1>2. ASSUME NEW c \in Commands, Type(c) PROVE Panel!Next
  <2>1. c # "off"
    BY StreamAssumption, CommandNames
  <2>2. Panel!Begin
    BY <1>2, <1>c, <2>1 DEF Type, Start, Panel!Begin
  <2> QED
    BY <2>2 DEF Panel!Next
<1>3. ASSUME NEW w \in MacWords, strmac(w) PROVE Panel!Next
  <2>1. Panel!Begin
    BY <1>3, <1>c DEF strmac, Start, Panel!Begin
  <2> QED
    BY <2>1 DEF Panel!Next
<1>4. ASSUME NEW w \in MacWords, Launch(w) PROVE Panel!Next
  <2>1. Panel!Boot
    BY <1>4, <1>c DEF Launch, Start, Panel!Boot
  <2> QED
    BY <2>1 DEF Panel!Next
<1>5. CASE Prompt
  <2>1. Running /\ todo = <<>> /\ command' = "none" /\ SwitchesOn' = SwitchesOn
    BY <1>5, <1>c DEF Prompt
  <2>2. \A p, v : ~Ends(todo, p, v)
    BY <2>1 DEF Ends
  <2>3. \A x \in DOMAIN SwitchBit :
          /\ x \in Panel!TurnsOn(command) => IsOn(SwitchBit[x])
          /\ x \in Panel!TurnsOff(command) => ~IsOn(SwitchBit[x])
    BY <2>1, <2>2 DEF PInv, PanelDue, Due
  <2>4. /\ Panel!TurnsOn(command) \subseteq SwitchesOn
        /\ Panel!TurnsOff(command) \cap SwitchesOn = {}
    BY <1>a, <2>3, SwitchesExist
  <2>5. Panel!Done
    BY <2>1, <2>4 DEF Panel!Done, Panel!Idle, Running
  <2> QED
    BY <2>5 DEF Panel!Next
<1>6. CASE Exit \/ Kill
  <2>1. Panel!Halt
    BY <1>6, <1>c DEF Exit, Kill, Running, Panel!Halt
  <2> QED
    BY <2>1 DEF Panel!Next
<1>7. CASE UNCHANGED vars
  <2>1. UNCHANGED Panel!panel
    BY <1>7, <1>c DEF vars, Panel!panel
  <2> QED
    BY <2>1
<1> QED
  BY <1>1, <1>2, <1>3, <1>4, <1>5, <1>6, <1>7 DEF Next, Live

\* The registers behave as the panel of switches an operator believes in:
\* whatever copies are written back after a sleep and wherever a kill falls, a
\* command moves none but its own switches (ui_input_reader over all setters of
\* stream_control.c), and when it returns they stand where its name puts them.
THEOREM ActsAsPanel == Spec => PanelSpec
<1>1. Init => Panel!Init
  <2> SUFFICES ASSUME Init PROVE Panel!Init
    OBVIOUS
  <2>1. \A p \in Positions : ~IsOn(p)
    BY DEF Init, IsOn, Positions
  <2>2. SwitchesOn = {}
    BY <2>1, SwitchBitsAre DEF SwitchesOn, IsOn
  <2> QED
    BY <2>2 DEF Init, Panel!Init
<1> QED
  BY <1>1, AlwaysIInv, AlwaysPInv, PanelStep, PTL DEF Spec, PanelSpec, Panel!Spec

\* An operation that switches the packets on finds the unit running.
LEMMA LiftFindsUnit ==
  ASSUME IInv, PInv, todo # <<>>, Lifts(Next_op)
  PROVE  SyncEn \in regs["ts"] /\ regs["ts"] \cap ResetBits["ts"] = {}
<1>1. 1 \in DOMAIN todo /\ todo[1] = Next_op /\ \A j \in DOMAIN todo : ~(j < 1)
  BY HeadAndRest DEF IInv
<1>2. /\ Before(todo, 1, UnitOn, TRUE, IsOn(UnitOn))
      /\ Before(todo, 1, UnitRst, FALSE, IsOn(UnitRst))
  BY <1>1 DEF PInv, UnitDue
<1>3. IsOn(UnitOn) /\ ~IsOn(UnitRst)
  BY <1>1, <1>2 DEF Before
<1> QED
  BY <1>3, ResetBitsValues DEF IsOn, UnitOn, UnitRst

\* Synchronisation packets are switched on only while the unit that times them
\* runs out of reset (dreset and setsyncen in ui_input_reader, time_sync_tx_en),
\* whatever commands and kills came before.
THEOREM PacketsNeedTheUnit == Spec => SyncTxNeedsUnit
<1> DEFINE A == SyncTx \notin regs["ctrl"] /\ SyncTx \in regs'["ctrl"]
                  => SyncEn \in regs["ts"] /\ regs["ts"] \cap ResetBits["ts"] = {}
<1>1. ASSUME IInv, PInv, [Next]_vars, SyncTx \notin regs["ctrl"], SyncTx \in regs'["ctrl"]
      PROVE  todo # <<>> /\ Lifts(Next_op)
  <2>0. TypeOK /\ todo \in Scripts
    BY <1>1 DEF IInv
  <2>1. Step
    BY <1>1 DEF Next, Live, Type, strmac, Launch, Start, Prompt, Exit, Kill, vars
  <2>2. todo # <<>>
    BY <2>1 DEF Step, ReadModifyWrite, WriteRegister, Raise, Lower, Load, Store, Ready
  <2> DEFINE q == Next_op.reg
  <2>3. q \in Registers
    BY <2>0, <2>2, HeadTail
  <2>4. \A v : regs' = [regs EXCEPT ![q] = v] => q = "ctrl" /\ SyncTx \in v
    BY <1>1, <2>0, <2>3 DEF TypeOK
  <2> HIDE DEF q
  <2>5. \A d \in Readings("ctrl") : d = regs["ctrl"]
    BY DEF Readings
  <2>6. CASE ReadModifyWrite
    BY <1>1, <2>2, <2>4, <2>5, <2>6 DEF ReadModifyWrite, Ready, Put, Lifts, q
  <2>7. CASE WriteRegister
    BY <2>2, <2>4, <2>7 DEF WriteRegister, Ready, Put, Lifts, q
  <2>8. CASE Raise
    BY <1>1, <2>2, <2>4, <2>5, <2>8 DEF Raise, Ready, Put, Lifts, q
  <2>9. CASE Lower
    <3>1. q = "ctrl" /\ SyncTx \in local["ctrl"]
      BY <2>4, <2>9 DEF Lower, Put, q
    <3>2. SyncTx \in regs["ctrl"]
      BY <1>1, <2>9, <3>1 DEF Lower, PInv, CopiesFresh, q
    <3> QED
      BY <1>1, <3>2
  <2>10. CASE Load
    BY <1>1, <2>10 DEF Load
  <2>11. CASE Store
    <3>1. q = "ctrl" /\ SyncTx \in local["ctrl"]
      BY <2>4, <2>11 DEF Store, Put, q
    <3>2. 1 \in DOMAIN todo /\ todo[1] = Next_op /\ \A j \in DOMAIN todo : ~(j < 1)
      BY <2>0, <2>2, HeadAndRest
    <3>3. local["ctrl"] = regs["ctrl"]
      BY <1>1, <2>11, <3>1, <3>2 DEF Store, Ready, PInv, CopiesFresh, Loaded, Untouched, q
    <3> QED
      BY <1>1, <3>1, <3>3
  <2> QED
    BY <2>1, <2>6, <2>7, <2>8, <2>9, <2>10, <2>11 DEF Step
<1>2. IInv /\ PInv /\ [Next]_vars => [A]_vars
  BY <1>1, LiftFindsUnit
<1> QED
  BY <1>2, AlwaysIInv, AlwaysPInv, PTL DEF Spec, SyncTxNeedsUnit

-----------------------------------------------------------------------------
(***************************************************************************)
(* The MAC address: which commands can change it.                          *)
(***************************************************************************)
\* No operation of s is on REG0 of the UDP stack.
Elsewhere(s) == \A i \in DOMAIN s : s[i].reg # "mac"

\* What is left of a command that does not own the address is on other registers.
MacLeft == Running /\ command \notin MacOwners => Elsewhere(todo)

\* A script of one operation on another register.
LEMMA OneElsewhere ==
  ASSUME NEW op, NEW r, r # "mac", NEW up, NEW down
  PROVE  Elsewhere(Do(op, r, up, down))
BY DEF Elsewhere, Do

\* The functions that write one register, each of its own unit.
LEMMA FunctionsElsewhere ==
  \A r, b, d : r # "mac" =>
    /\ Elsewhere(SetBits(r, b)) /\ Elsewhere(ClearBits(r, b))
    /\ Elsewhere(SetField(r, b, d)) /\ Elsewhere(Write(r, b))
    /\ Elsewhere(Pulse(r, b, d))
BY OneElsewhere DEF SetBits, ClearBits, SetField, Write, Pulse

\* One script after the other.
LEMMA JoinedElsewhere ==
  ASSUME NEW s \in Scripts, NEW t \in Scripts, Elsewhere(s), Elsewhere(t)
  PROVE  s \o t \in Scripts /\ Elsewhere(s \o t)
<1> DEFINE u == s \o t
<1>1. /\ u \in Scripts
      /\ \A i \in DOMAIN s : i \in DOMAIN u /\ u[i] = s[i]
      /\ \A i \in DOMAIN u : \/ i \in DOMAIN s
                             \/ i - Len(s) \in DOMAIN t /\ i > Len(s) /\ u[i] = t[i - Len(s)]
  BY TwoScripts
<1> HIDE DEF u
<1>2. Elsewhere(u)
  BY <1>1 DEF Elsewhere
<1> QED
  BY <1>1, <1>2 DEF u

\* The resets of the chain, and the commands made of them.
LEMMA ResetCommandsElsewhere ==
  \A c \in DOMAIN ResetCommands : Elsewhere(ResetCommands[c])
<1>1. /\ Elsewhere(reset_core) /\ Elsewhere(reset_pkt_seq)
      /\ Elsewhere(reset_adc_fifos) /\ Elsewhere(reset_dac_fifos)
      /\ Elsewhere(set_sync_rst) /\ Elsewhere(disble_pkt_seq) /\ Elsewhere(enable_pkt_seq)
  BY FunctionsElsewhere DEF reset_core, reset_pkt_seq, reset_adc_fifos, reset_dac_fifos,
     set_sync_rst, disble_pkt_seq, enable_pkt_seq
<1>2. /\ Elsewhere(time_sync_tx_off) /\ Elsewhere(time_sync_off)
      /\ Elsewhere(time_sync_en) /\ Elsewhere(time_sync_tx_en)
  BY FunctionsElsewhere DEF time_sync_tx_off, time_sync_off, time_sync_en, time_sync_tx_en
<1>3. Elsewhere(reset_chain)
  <2>1. reset_core \o reset_pkt_seq \in Scripts /\ Elsewhere(reset_core \o reset_pkt_seq)
    BY <1>1, ResetsGood, JoinedElsewhere
  <2>2. /\ (reset_core \o reset_pkt_seq) \o reset_adc_fifos \in Scripts
        /\ Elsewhere((reset_core \o reset_pkt_seq) \o reset_adc_fifos)
    BY <1>1, <2>1, ResetsGood, JoinedElsewhere
  <2> QED
    BY <1>1, <2>2, ResetsGood, JoinedElsewhere DEF reset_chain
<1> DEFINE d == time_sync_tx_off \o time_sync_off \o set_sync_rst
                  \o time_sync_en \o time_sync_tx_en \o reset_dac_fifos
<1>4. Elsewhere(d)
  <2> DEFINE s == time_sync_tx_off \o time_sync_off
             t == s \o set_sync_rst
             u == t \o time_sync_en
             v == u \o time_sync_tx_en
  <2>0. time_sync_tx_off \in Scripts /\ time_sync_off \in Scripts
        /\ time_sync_en \in Scripts /\ time_sync_tx_en \in Scripts
    BY SyncGood
  <2>1. s \in Scripts /\ Elsewhere(s)
    BY <1>2, <2>0, JoinedElsewhere
  <2> HIDE DEF s
  <2>2. t \in Scripts /\ Elsewhere(t)
    BY <1>1, <2>1, ResetsGood, JoinedElsewhere
  <2> HIDE DEF t
  <2>3. u \in Scripts /\ Elsewhere(u)
    BY <1>2, <2>0, <2>2, JoinedElsewhere
  <2> HIDE DEF u
  <2>4. v \in Scripts /\ Elsewhere(v)
    BY <1>2, <2>0, <2>3, JoinedElsewhere
  <2> HIDE DEF v
  <2>5. Elsewhere(v \o reset_dac_fifos)
    BY <1>1, <2>4, ResetsGood, JoinedElsewhere
  <2> QED
    BY <2>5 DEF s, t, u, v
<1>5. ResetCommands =
        [areset |-> reset_adc_fifos, dreset |-> d, preset |-> reset_pkt_seq,
         pseqoff |-> disble_pkt_seq, pseqon |-> enable_pkt_seq,
         creset |-> reset_core, freset |-> reset_chain, rxrsync |-> reset_chain]
  BY DEF ResetCommands
<1> HIDE DEF d
<1> QED
  BY <1>1, <1>3, <1>4, <1>5

\* The test modes.
LEMMA TestCommandsElsewhere ==
  \A c \in DOMAIN TestCommands : Elsewhere(TestCommands[c])
<1>1. /\ \A m : Elsewhere(set_test_mode(m))
      /\ Elsewhere(set_test_mode_on) /\ Elsewhere(set_test_mode_off)
      /\ Elsewhere(set_rx_hdr_strip) /\ Elsewhere(clear_rx_hdr_strip)
  BY FunctionsElsewhere DEF set_test_mode, set_test_mode_on, set_test_mode_off,
     set_rx_hdr_strip, clear_rx_hdr_strip
<1> QED
  BY <1>1 DEF TestCommands

\* The test modes of the receiver.
LEMMA XTestCommandsElsewhere ==
  \A c \in DOMAIN XTestCommands : Elsewhere(XTestCommands[c])
<1>1. /\ \A m : Elsewhere(set_xtest_mode(m))
      /\ Elsewhere(set_xtest_mode_on) /\ Elsewhere(set_xtest_mode_off)
  BY FunctionsElsewhere DEF set_xtest_mode, set_xtest_mode_on, set_xtest_mode_off
<1> QED
  BY <1>1 DEF XTestCommands

\* Synchronisation, but for the two commands that own the address.
LEMMA SyncCommandsElsewhere ==
  \A c \in DOMAIN SyncCommands \ MacOwners : Elsewhere(SyncCommands[c])
<1>1. /\ Elsewhere(time_sync_off) /\ Elsewhere(set_sync_rst)
      /\ Elsewhere(time_sync_en) /\ Elsewhere(time_sync_tx_en)
  BY FunctionsElsewhere DEF time_sync_off, set_sync_rst, time_sync_en, time_sync_tx_en
<1> DEFINE en == time_sync_en \o time_sync_tx_en
           up == initiate_sync \o set_sync_on
           toggle == set_sync_off \o set_sync_on
<1>2. Elsewhere(en)
  BY <1>1, SyncGood, JoinedElsewhere
<1>3. SyncCommands =
        [setsyncen |-> en, setsyncoff |-> time_sync_off,
         setsyncrst |-> set_sync_rst, setsyncon |-> up, tgsync |-> toggle]
  BY DEF SyncCommands
<1> HIDE DEF en, up, toggle
<1> QED
  BY <1>1, <1>2, <1>3 DEF MacOwners

\* The stream's commands, but for strstop.
LEMMA StreamCommandsElsewhere ==
  \A c \in DOMAIN StreamCommands \ MacOwners : Elsewhere(StreamCommands[c])
<1>1. /\ Elsewhere(set_pcnt_mode_on) /\ Elsewhere(set_pcnt_mode_off)
      /\ Elsewhere(set_stream_send_on) /\ Elsewhere(set_stream_send_off)
      /\ Elsewhere(reset_dac_fifos) /\ Elsewhere(reset_adc_fifos)
      /\ Elsewhere(SetBits("ctrl", {Tx})) /\ Elsewhere(SetBits("ctrl", {Rx}))
      /\ Elsewhere(ClearBits("ctrl", {Rx}))
  BY FunctionsElsewhere DEF set_pcnt_mode_on, set_pcnt_mode_off, set_stream_send_on,
     set_stream_send_off, reset_dac_fifos, reset_adc_fifos
<1>2. SetBits("ctrl", {Tx}) \in Scripts
  BY SetBitsGood, ResetBitsValues DEF Registers, Bits, Tx
<1> DEFINE start == SetBits("ctrl", {Tx}) \o reset_adc_fifos
           stop == Do("load", "ctrl", {}, {}) \o set_sync_off
                     \o Do("store", "ctrl", {}, {Tx})
           rx == SetBits("ctrl", {Rx})
           norx == ClearBits("ctrl", {Rx})
<1>3. Elsewhere(start) /\ Elsewhere(rx) /\ Elsewhere(norx)
  BY <1>1, <1>2, ResetsGood, JoinedElsewhere
<1>4. StreamCommands =
        [strpktcon |-> set_pcnt_mode_on, strpktcoff |-> set_pcnt_mode_off,
         strsndon |-> set_stream_send_on, strsndoff |-> set_stream_send_off,
         strselarm |-> reset_dac_fifos, strseleth |-> reset_dac_fifos,
         strstart |-> start, strrxon |-> rx, strstop |-> stop, strrxstop |-> norx]
  BY DEF StreamCommands
<1> HIDE DEF start, stop, rx, norx
<1> QED
  BY <1>1, <1>3, <1>4 DEF MacOwners

\* The rest of the tables.
LEMMA OtherCommandsElsewhere ==
  /\ \A c \in DOMAIN SpeedCommands : Elsewhere(SpeedCommands[c])
  /\ \A c \in DOMAIN DelayCommands : Elsewhere(DelayCommands[c])
  /\ \A c \in DOMAIN CorrectionCommands : Elsewhere(CorrectionCommands[c])
<1>1. \A c \in DOMAIN SpeedCommands : Elsewhere(SpeedCommands[c])
  BY FunctionsElsewhere, OneElsewhere DEF SpeedCommands
<1>2. \A c \in DOMAIN DelayCommands : Elsewhere(DelayCommands[c])
  BY FunctionsElsewhere DEF DelayCommands, set_stream_pkt_wait_enable,
     set_stream_pkt_wait_disable, set_stream_pkt_send_delay_enable,
     set_stream_pkt_send_delay_disable, set_plc_disable, set_plc_enable, reset_dac_fifos
<1>3. Elsewhere(clear_buf_corr) /\ Elsewhere(set_buf_corr_on)
  BY FunctionsElsewhere DEF clear_buf_corr, set_buf_corr_on
<1> DEFINE toggle == clear_buf_corr \o set_buf_corr_on
<1>4. Elsewhere(toggle)
  BY <1>3, AudioGood, JoinedElsewhere
<1>5. \A c \in DOMAIN CorrectionCommands : Elsewhere(CorrectionCommands[c])
  <2>1. CorrectionCommands =
          [tgsrcorr |-> toggle, setcoron |-> set_buf_corr_on, setcoroff |-> clear_buf_corr]
    BY DEF CorrectionCommands
  <2> HIDE DEF toggle
  <2> QED
    BY <1>3, <1>4, <2>1
<1> QED
  BY <1>1, <1>2, <1>5

\* Whatever the operator types.
LEMMA ScriptsElsewhere ==
  \A c \in AllCommands \ MacOwners : Elsewhere(ScriptOf(c))
<1>1. \A g \in Groups : \A c \in DOMAIN g \ MacOwners : Elsewhere(g[c])
  BY ResetCommandsElsewhere, TestCommandsElsewhere, XTestCommandsElsewhere,
     SyncCommandsElsewhere, StreamCommandsElsewhere, OtherCommandsElsewhere DEF Groups
<1> SUFFICES ASSUME NEW c \in AllCommands \ MacOwners PROVE Elsewhere(ScriptOf(c))
  OBVIOUS
<1>2. \E g \in Groups : c \in DOMAIN g
  BY DEF AllCommands
<1> DEFINE h == CHOOSE g \in Groups : c \in DOMAIN g
<1>3. h \in Groups /\ c \in DOMAIN h
  BY <1>2
<1> QED
  BY <1>1, <1>3 DEF ScriptOf

\* A step of a command that does not own the address leaves it, and leaves what
\* is left to do on other registers.
LEMMA NextMacLeft ==
  IInv /\ MacLeft /\ [Next]_vars
    => MacLeft' /\ (regs'["mac"] # regs["mac"] => command \in MacOwners)
<1> SUFFICES ASSUME IInv, MacLeft, [Next]_vars
             PROVE  MacLeft' /\ (regs'["mac"] # regs["mac"] => command \in MacOwners)
  OBVIOUS
<1>1. CASE Step
  <2>1. /\ Running /\ todo # <<>> /\ command' = command /\ todo' \in {todo, Tail(todo)}
        /\ \A r \in Registers : r # Next_op.reg => regs'[r] = regs[r]
    BY <1>1 DEF Step, ReadModifyWrite, WriteRegister, Raise, Lower, Load, Store, Ready, Pop,
       Put, IInv, TypeOK
  <2>2. CASE command \in MacOwners
    BY <2>1, <2>2 DEF MacLeft
  <2>3. CASE command \notin MacOwners
    <3>1. Elsewhere(todo)
      BY <2>1, <2>3 DEF MacLeft
    <3>2. /\ \A i \in DOMAIN Tail(todo) : i + 1 \in DOMAIN todo /\ Tail(todo)[i] = todo[i + 1]
          /\ 1 \in DOMAIN todo /\ todo[1] = Next_op
      BY <2>1, HeadAndRest DEF IInv
    <3>3. Next_op.reg # "mac" /\ Elsewhere(Tail(todo))
      BY <3>1, <3>2 DEF Elsewhere
    <3>4. regs'["mac"] = regs["mac"]
      BY <2>1, <3>3 DEF Registers
    <3> QED
      BY <2>1, <3>1, <3>3, <3>4 DEF MacLeft
  <2> QED
    BY <2>2, <2>3
<1>2. ASSUME NEW c \in Commands, Type(c)
      PROVE  MacLeft' /\ regs' = regs
  BY <1>2, ScriptsElsewhere, StreamAssumption DEF Type, Start, MacLeft
<1>3. ASSUME NEW w \in MacWords, strmac(w) \/ Launch(w)
      PROVE  MacLeft' /\ regs' = regs
  BY <1>3 DEF strmac, Launch, Start, MacLeft, MacOwners
<1>4. CASE Prompt \/ Exit \/ Kill
  BY <1>4 DEF Prompt, Exit, Kill, MacLeft, Running
<1>5. CASE UNCHANGED vars
  BY <1>5 DEF vars, MacLeft, Running
<1> QED
  BY <1>1, <1>2, <1>3, <1>4, <1>5 DEF Next, Live

\* The MAC address changes in the commands that name REG0 of the UDP stack and
\* in no other, whatever is typed, cut short or written back (initiate_sync,
\* set_sync_off, write_eth_mac).
THEOREM AddressKept == Spec => MacKept
<1>1. Init => MacLeft
  BY DEF Init, MacLeft, Running
<1>2. IInv /\ MacLeft /\ [Next]_vars => MacLeft'
  BY NextMacLeft
<1>3. Spec => []MacLeft
  BY <1>1, <1>2, AlwaysIInv, PTL DEF Spec
<1>4. IInv /\ MacLeft /\ [Next]_vars => [regs'["mac"] # regs["mac"] => command \in MacOwners]_vars
  BY NextMacLeft
<1> QED
  BY <1>3, <1>4, AlwaysIInv, PTL DEF Spec, MacKept

-----------------------------------------------------------------------------
(***************************************************************************)
(* How a command ends.                                                     *)
(***************************************************************************)
\* The operations a command is from its end, a pulse counting as two.
Left == 2 * Len(todo) - (IF held THEN 1 ELSE 0)

\* There is an operation for every entry a command still has.
Defined == Running => todo = <<>> \/ \E op \in Ops : Ready(op)

\* What an operation takes off the script.
LEMMA PopShortens ==
  ASSUME IInv, todo # <<>>, Pop
  PROVE  Left \in Nat /\ Left' \in Nat /\ Left' < Left
<1>1. todo \in Seq(Call) /\ held \in BOOLEAN
  BY DEF IInv, TypeOK
<1>2. Len(Tail(todo)) = Len(todo) - 1 /\ Len(todo) \in Nat \ {0}
  BY <1>1, EmptySeq, LenProperties, HeadTailProperties
<1>3. Left' = 2 * (Len(todo) - 1)
  BY <1>2 DEF Left, Pop
<1> QED
  BY <1>1, <1>2, <1>3 DEF Left

\* The operations left are a number.
LEMMA LeftIsCount == IInv => Left \in Nat /\ Defined
<1> SUFFICES ASSUME IInv PROVE Left \in Nat /\ Defined
  OBVIOUS
<1>1. todo \in Seq(Call) /\ held \in BOOLEAN /\ (held => todo # <<>>)
  BY DEF IInv, TypeOK
<1>2. Len(todo) \in Nat /\ (todo # <<>> => Len(todo) > 0)
  BY <1>1, EmptySeq, LenProperties
<1>3. Left \in Nat
  BY <1>1, <1>2 DEF Left
<1>4. todo # <<>> => Next_op.op \in Ops
  BY HeadTail DEF IInv
<1> QED
  BY <1>3, <1>4 DEF Defined, Ready

\* The variant behind CommandReturns: while a command runs there is always an
\* operation to perform or nothing left to do, and each operation brings the
\* command closer to its end, so that a thread that is scheduled comes back to
\* the prompt of ui_input_reader after at most Left steps.
THEOREM CommandsGetShorter ==
  Spec => [](Left \in Nat /\ Defined) /\ [][Step => Left' < Left]_vars
<1>1. IInv /\ [Next]_vars => [Step => Left' < Left]_vars
  <2> SUFFICES ASSUME IInv, Step PROVE Left' < Left
    BY DEF Left
  <2>1. CASE Raise
    <3>1. todo' = todo /\ held' = TRUE /\ held = FALSE
      BY <2>1 DEF Raise, IInv, TypeOK
    <3>2. Len(todo) \in Nat
      BY LenProperties DEF IInv, TypeOK
    <3> QED
      BY <3>1, <3>2 DEF Left
  <2>2. CASE Step /\ ~Raise
    <3>1. todo # <<>> /\ Pop
      BY <2>2 DEF Step, ReadModifyWrite, WriteRegister, Lower, Load, Store, Ready
    <3> QED
      BY <3>1, PopShortens
  <2> QED
    BY <2>1, <2>2
<1> QED
  BY <1>1, AlwaysIInv, LeftIsCount, PTL DEF Spec
=============================================================================
