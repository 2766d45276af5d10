-------------------------------- MODULE Codec --------------------------------
(***************************************************************************)
(* The driver of the ADAU1761 audio codec (adau1761_controller.c) and the  *)
(* serial controller in the FPGA it talks to the codec through.            *)
(*                                                                         *)
(* A transfer is four or five bus accesses and a busy-wait: data, control  *)
(* word, control word with the start bit, busy until it is zero.  The      *)
(* controller starts on the rising start bit, keeps working when the       *)
(* process is killed, and the codec keeps its registers.  The next process *)
(* runs init_codec again from the top.                                     *)
(*                                                                         *)
(* Controller and codec are external.  Modelled from how the driver uses   *)
(* them: busy is up from the access that raises the start bit, the reset   *)
(* bit aborts a transfer, and the PLL locks some time after its register   *)
(* is written and then stays locked.                                       *)
(***************************************************************************)
EXTENDS Integers, Sequences

VARIABLES
  line,    \* the call of Program that runs, 0 when no process runs
  phase,   \* its next bus access
  low,     \* the value whose low word is in the data register
  high,    \* the value whose high word is in the data register
  ctrl,    \* the control word: [read, addr, start]
  busy,    \* the controller is transferring
  seen,    \* the lock bit as the last read returned it
  codec,   \* address -> value, for the codec's registers
  locked   \* the codec's PLL has locked

driver == <<line, phase, seen>>
bus    == <<low, high, ctrl>>
device == <<busy, codec, locked>>
vars   == <<line, phase, low, high, ctrl, busy, seen, codec, locked>>

(***************************************************************************)
(* The calls of init_codec, in order.                                      *)
(***************************************************************************)
CoreOff == 14             \* 0x0e: PLL as the source, core clock off
CoreOn  == 15             \* 0x0f: core clock on
PllWord == 1000           \* stands for the six bytes 0x007d000c2301

Call(op, addr, val) == <<[op |-> op, addr |-> addr, val |-> val]>>

reset_adau1761 ==
  Call("reset", 0, 0) \o Call("read", 0, 0) \o Call("read", 0, 0)
    \o Call("read", 0, 0)

\* Variant: the core clock is enabled without waiting for the lock.
setup_pll_hasty ==
  Call("write", \h4000, CoreOff) \o Call("write", \h4002, PllWord)
    \o Call("read", \h4002, 0) \o Call("write", \h4000, CoreOn)
    \o Call("sleep", 0, 0)
setup_pll ==
  Call("write", \h4000, CoreOff) \o Call("write", \h4002, PllWord)
    \o Call("poll", \h4002, 0) \o Call("write", \h4000, CoreOn)
    \o Call("sleep", 0, 0)

\* Mixers, outputs, sample rates, converters, routing, engine clocks.
Config ==
  << <<\h4015, 1>>, <<\h400a, 15>>, <<\h400b, 7>>, <<\h400c, 15>>,
     <<\h400d, 7>>, <<\h4010, 5>>, <<\h401c, 33>>, <<\h401e, 33>>,
     <<\h4020, 5>>, <<\h4021, 17>>, <<\h4023, 231>>, <<\h4024, 231>>,
     <<\h4025, 231>>, <<\h4026, 231>>, <<\h4017, 6>>, <<\h40f8, 6>>,
     <<\h40eb, 7>>, <<\h4019, 3>>, <<\h4029, 3>>, <<\h402a, 3>>,
     <<\h402b, 0>>, <<\h402c, 0>>, <<\h40f2, 1>>, <<\h40f3, 1>>,
     <<\h40f9, 127>>, <<\h40fa, 3>> >>

init_adau1761 ==
  setup_pll \o [i \in DOMAIN Config |-> [op |-> "write", addr |-> Config[i][1],
                                          val |-> Config[i][2]]]

Program == reset_adau1761 \o init_adau1761
Done    == Len(Program) + 1

Addrs  == {Program[i].addr : i \in DOMAIN Program}
Values == {Program[i].val : i \in DOMAIN Program}
Unset   == -1     \* what the codec powered up with
Mangled == -2     \* the two halves of different values

-----------------------------------------------------------------------------
(***************************************************************************)
(* The driver: one action per bus access.                                  *)
(***************************************************************************)
Running == line \in DOMAIN Program
Now     == Program[line]
At(ops, p) == Running /\ Now.op \in ops /\ phase = p

FirstPhase(i) ==
  IF i \notin DOMAIN Program THEN "low"
  ELSE CASE Program[i].op = "write" -> "low"
         [] Program[i].op \in {"read", "poll"} -> "ctrl"
         [] Program[i].op = "reset" -> "assert"
         [] Program[i].op = "sleep" -> "sleep"

GoTo(p) == phase' = p /\ UNCHANGED <<line, seen>>
Return  == line' = line + 1 /\ phase' = FirstPhase(line + 1) /\ UNCHANGED seen

WriteLow ==
  /\ At({"write"}, "low") /\ low' = Now.val /\ GoTo("high")
  /\ UNCHANGED <<high, ctrl, device>>

\* Variant: the high word is written for transfers of more than four bytes.
WriteHighWide ==
  /\ At({"write"}, "high") /\ GoTo("ctrl")
  /\ high' = IF Now.addr = \h4002 THEN Now.val ELSE high
  /\ UNCHANGED <<low, ctrl, device>>
WriteHigh ==
  /\ At({"write"}, "high") /\ high' = Now.val /\ GoTo("ctrl")
  /\ UNCHANGED <<low, ctrl, device>>

\* Variant: the address is shifted one position too far.
ControlWordShifted(start) ==
  [read |-> Now.op # "write", addr |-> 2 * Now.addr, start |-> start]
ControlWord(start) ==
  [read |-> Now.op # "write", addr |-> Now.addr, start |-> start]

WriteControl ==
  /\ At({"write", "read", "poll"}, "ctrl")
  /\ ctrl' = ControlWord(FALSE) /\ GoTo("start")
  /\ UNCHANGED <<low, high, device>>

\* The controller takes the rising start bit as the beginning of a transfer.
RaiseStart ==
  /\ At({"write", "read", "poll"}, "start")
  /\ ctrl' = ControlWord(TRUE) /\ GoTo("busy")
  /\ busy' = (busy \/ ~ctrl.start)
  /\ UNCHANGED <<low, high, codec, locked>>

\* Variant: a read does not wait for its transfer.
BusyWaitSkipped ==
  /\ At({"write", "read", "poll"}, "busy")
  /\ ~busy \/ Now.op # "write"
  /\ IF Now.op = "write" THEN Return ELSE GoTo("data")
  /\ UNCHANGED <<bus, device>>
BusyWait ==
  /\ At({"write", "read", "poll"}, "busy")
  /\ ~busy
  /\ IF Now.op = "write" THEN Return ELSE GoTo("data")
  /\ UNCHANGED <<bus, device>>

\* while (!(read_adau1761(0x4002, 6) & 2)): the same read again.
\* Variant: the loop looks at the answer of the first read for ever.
TakeDataOnce ==
  /\ At({"read", "poll"}, "data")
  /\ IF Now.op = "poll" /\ ~seen THEN GoTo("data") ELSE Return
  /\ UNCHANGED <<bus, device>>
TakeData ==
  /\ At({"read", "poll"}, "data")
  /\ IF Now.op = "poll" /\ ~seen THEN GoTo("ctrl") ELSE Return
  /\ UNCHANGED <<bus, device>>

AssertReset ==
  /\ At({"reset"}, "assert") /\ GoTo("release")
  /\ busy' = FALSE
  /\ ctrl' = [read |-> FALSE, addr |-> 0, start |-> FALSE]
  /\ UNCHANGED <<low, high, codec, locked>>

ReleaseReset ==
  /\ At({"reset"}, "release") /\ Return
  /\ ctrl' = [read |-> FALSE, addr |-> 0, start |-> FALSE]
  /\ UNCHANGED <<low, high, device>>

Sleep == At({"sleep"}, "sleep") /\ Return /\ UNCHANGED <<bus, device>>

Driver == \/ WriteLow \/ WriteHigh \/ WriteControl \/ RaiseStart \/ BusyWait
          \/ TakeData \/ AssertReset \/ ReleaseReset \/ Sleep

(***************************************************************************)
(* The controller and the codec.                                           *)
(***************************************************************************)
\* What goes over the wire: the bytes of the two words.
Shifted == IF low = high THEN low ELSE Mangled

FinishWrite ==
  /\ busy /\ ~ctrl.read
  /\ busy' = FALSE
  /\ codec' = [codec EXCEPT ![ctrl.addr] = Shifted]
  /\ locked' = (locked /\ ctrl.addr # \h4002)
  /\ UNCHANGED <<driver, bus>>

FinishRead ==
  /\ busy /\ ctrl.read
  /\ busy' = FALSE
  /\ seen' = (ctrl.addr = \h4002 /\ locked)
  /\ UNCHANGED <<line, phase, bus, codec, locked>>

Lock ==
  /\ codec[\h4002] = PllWord /\ ~locked /\ locked' = TRUE
  /\ UNCHANGED <<driver, bus, busy, codec>>

(***************************************************************************)
(* The process.                                                            *)
(***************************************************************************)
Launch ==
  /\ line = 0 /\ line' = 1 /\ phase' = FirstPhase(1)
  /\ UNCHANGED <<bus, device, seen>>

\* Killed, or ended by exit.
Kill ==
  /\ line # 0 /\ line' = 0 /\ phase' = "low"
  /\ UNCHANGED <<bus, device, seen>>

Init ==
  /\ line = 0 /\ phase = "low" /\ seen = FALSE
  /\ low = Unset /\ high = Unset
  /\ ctrl = [read |-> FALSE, addr |-> 0, start |-> FALSE]
  /\ busy = FALSE /\ locked = FALSE
  /\ codec = [a \in Addrs |-> Unset]

Next == Driver \/ FinishWrite \/ FinishRead \/ Lock \/ Launch \/ Kill

Spec == Init /\ [][Next]_vars
\* A driver that is not killed goes on; a transfer ends; the PLL locks.
FairSpec == Spec /\ WF_vars(Driver) /\ WF_vars(FinishWrite \/ FinishRead)
                 /\ WF_vars(Lock)

-----------------------------------------------------------------------------
(***************************************************************************)
(* Properties.                                                             *)
(***************************************************************************)
\* The bus and the codec hold values the driver's calls name, whole.
TypeOK ==
  /\ line \in 0..Done
  /\ phase \in {"low", "high", "ctrl", "start", "busy", "data", "assert",
                "release", "sleep"}
  /\ {low, high} \subseteq Values \cup {Unset}
  /\ ctrl \in [read : BOOLEAN, addr : Addrs, start : BOOLEAN]
  /\ {busy, seen, locked} \subseteq BOOLEAN
  /\ codec \in [Addrs -> Values \cup {Unset, Mangled}]

\* No register of the controller but its reset bit is written during a
\* transfer, not even the one a killed process left behind: the bytes on the
\* wire are those of one call (write_adau1761, read_adau1761, reset_adau1761).
QuietWhileBusy ==
  [][busy /\ bus' # bus => At({"reset"}, "assert")]_vars

\* The codec is never clocked from an unlocked PLL: the wait for the lock, and
\* switching the core off before the PLL is set up again, survive a kill
\* anywhere (init_adau1761).
CoreClockNeedsLock == codec[\h4000] = CoreOn => locked

\* When init_codec returns, every register has the value the driver meant.
ConfiguredOnReturn ==
  line = Done =>
    /\ codec[\h4000] = CoreOn /\ codec[\h4002] = PllWord
    /\ \A i \in DOMAIN Config : codec[Config[i][1]] = Config[i][2]

\* init_codec returns unless the process is killed.
InitReturns == line = 1 ~> line \in {0, Done}

=============================================================================
