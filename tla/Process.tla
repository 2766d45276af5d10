------------------------------- MODULE Process --------------------------------
(***************************************************************************)
(* The life of the CS7 process: the command line, the mapping of the FPGA  *)
(* devices and the rest of ui_init, the prompt, and how the process ends.  *)
(*                                                                         *)
(* A base address is NULL until map_device has opened the device.  A       *)
(* device that opens and does not map has the address MAP_FAILED, which is *)
(* not NULL: ui_init goes on, and the first access ends the process with a *)
(* fault.  Nothing maps the packet time enforcer.  main has the call of    *)
(* ui_init commented out in this tree (a simulation in a container); the   *)
(* program on the board makes it.  Both programs are modelled.             *)
(*                                                                         *)
(* What commands do to registers is in the other modules.  Here a command  *)
(* is the set of the devices it reads or writes.                           *)
(***************************************************************************)
EXTENDS Integers, Sequences, FiniteSets

CONSTANTS
  CharSigned,    \* whether char is signed, as it is not on ARM
  Byte,          \* how many values a byte has
  CommandLines,  \* the addresses on a command line: [Network -> Address]
  MaxBad         \* bound on the devices of one start that open and do not map

\* ui_init maps them in this order.
\* Variant: the block of the enforcer is enabled.
MapOrderEnforcer ==
  <<"eth_to_audio", "filter_0", "volume_0", "filter_1", "volume_1", "oled",
    "pmod", "audio_to_eth", "full_udp", "eth_packet_sequencer",
    "packet_time_enforcer", "adau1761", "time_sync">>
MapOrder ==
  <<"eth_to_audio", "filter_0", "volume_0", "filter_1", "volume_1", "oled",
    "pmod", "audio_to_eth", "full_udp", "eth_packet_sequencer", "adau1761",
    "time_sync">>
Mapped  == {MapOrder[i] : i \in DOMAIN MapOrder}
Devices == Mapped \cup {"packet_time_enforcer"}

\* The parameters whose addresses ui_init writes, in this order.
NetOrder == <<"LOCAL_IP", "DEST_IP", "MASK_IP", "GTWAY_IP">>
Network  == {NetOrder[i] : i \in DOMAIN NetOrder}
Address  == (0 .. Byte - 1) \X (0 .. Byte - 1)  \* its high and its low part

ASSUME ProcessAssumption ==
  /\ CharSigned \in BOOLEAN
  /\ Byte \in Nat \ {0}
  /\ CommandLines \subseteq [Network -> Address]
  /\ MaxBad \in Nat

VARIABLES
  callsInit, \* whether main calls ui_init in this program
  at,       \* where the process is
  base,     \* device -> "null", "failed" (MAP_FAILED) or "mapped"
  tried,    \* how many devices map_device was called for
  argc,     \* the number of words on the command line, the program's included
  argv,     \* network parameter -> the address on the command line
  sent,     \* how many network parameters are written
  net,      \* network parameter -> its register, which outlives the process
  gpios,    \* whether the LED pins are exported, which outlives it as well
  codec,    \* whether this process has configured the codec
  fault     \* the command or the step that faulted, and the devices it accessed

memory == <<base, tried, argc, argv, sent, codec>>
vars   == <<callsInit, at, memory, net, gpios, fault>>

Over == {"off", "done", "failed", "faulted"}
NoFault == [by |-> "none", on |-> {}]

-----------------------------------------------------------------------------
(***************************************************************************)
(* Accesses.                                                               *)
(***************************************************************************)
\* by reads or writes registers of the devices on, and the process goes on at
\* then, unless one of the addresses is bad.
Access(by, on, then) ==
  IF \A d \in on : base[d] = "mapped"
  THEN at' = then /\ UNCHANGED fault
  ELSE at' = "faulted" /\ fault' = [by |-> by, on |-> on]

\* set_filter_type and set_coefficients return when the base is NULL.
\* Variant: they do not look.
GuardedUnlooked(on) == on
Guarded(on) == {d \in on : base[d] # "null"}

-----------------------------------------------------------------------------
(***************************************************************************)
(* main and ui_init                                                        *)
(***************************************************************************)
Launch(n, words) ==
  /\ at \in Over
  /\ at' = "main" /\ base' = [d \in Devices |-> "null"] /\ tried' = 0
  /\ argc' = n /\ argv' = words /\ sent' = 0 /\ codec' = FALSE /\ fault' = NoFault
  /\ UNCHANGED <<net, gpios>>

Main ==
  /\ at = "main"
  /\ at' = IF argc < 6 THEN "failed" ELSE IF callsInit THEN "map" ELSE "run"
  /\ UNCHANGED <<memory, net, gpios, fault>>

Unusable == {d \in Mapped : base[d] = "failed"}

\* map_device and the check of its result.  A device that does not open ends
\* ui_init.  Variant: one return -1 is missing.
MapOn ==
  /\ at = "map" /\ tried < Len(MapOrder)
  /\ \E result \in {"null", "failed", "mapped"} :
       /\ result = "failed" => Cardinality(Unusable) < MaxBad
       /\ base' = [base EXCEPT ![MapOrder[tried + 1]] = result]
       /\ at' = IF result = "null" /\ MapOrder[tried + 1] # "oled" THEN "failed"
                ELSE IF tried + 1 = Len(MapOrder) THEN "codec" ELSE "map"
  /\ tried' = tried + 1
  /\ UNCHANGED <<argc, argv, sent, codec, net, gpios, fault>>
Map ==
  /\ at = "map" /\ tried < Len(MapOrder)
  /\ \E result \in {"null", "failed", "mapped"} :
       /\ result = "failed" => Cardinality(Unusable) < MaxBad
       /\ base' = [base EXCEPT ![MapOrder[tried + 1]] = result]
       /\ at' = IF result = "null" THEN "failed"
                ELSE IF tried + 1 = Len(MapOrder) THEN "codec" ELSE "map"
  /\ tried' = tried + 1
  /\ UNCHANGED <<argc, argv, sent, codec, net, gpios, fault>>

InitCodec ==
  /\ at = "codec"
  /\ Access("init_codec", {"adau1761"}, "gpios")
  /\ codec' = (at' = "gpios")
  /\ UNCHANGED <<base, tried, argc, argv, sent, net, gpios>>

\* Without /sys/class/gpio/export the process ends.
InitGpios ==
  /\ at = "gpios"
  /\ \/ at' = "failed" /\ UNCHANGED gpios
     \/ at' = "args" /\ gpios' = TRUE
  /\ UNCHANGED <<memory, net, fault>>

\* argv[7] is read although main asks for six words only, argv[0] included;
\* argv[argc] is NULL, and so atoi faults.
ReadArgs ==
  /\ at = "args"
  /\ IF argc < 8 THEN at' = "faulted" /\ fault' = [by |-> "argv", on |-> {}]
                 ELSE at' = "net" /\ UNCHANGED fault
  /\ UNCHANGED <<memory, net, gpios>>

\* (a << 8) | b of two chars: a negative b sets every bit above it.
Packed(a) ==
  IF CharSigned /\ 2 * a[2] >= Byte THEN <<Byte - 1, a[2]>> ELSE a

\* Each address goes through the one buffer ipAddress into its register.
\* Variant: the buffer is not filled again for the last one.
WriteNetStale ==
  /\ at = "net" /\ sent < Len(NetOrder)
  /\ LET p == NetOrder[sent + 1]
         q == IF p = "GTWAY_IP" THEN "MASK_IP" ELSE p IN
       /\ Access("write_eth_param", {"full_udp"},
                 IF sent + 1 = Len(NetOrder) THEN "socket" ELSE "net")
       /\ net' = IF at' = "faulted" THEN net ELSE [net EXCEPT ![p] = Packed(argv[q])]
  /\ sent' = sent + 1
  /\ UNCHANGED <<base, tried, argc, argv, codec, gpios>>
WriteNet ==
  /\ at = "net" /\ sent < Len(NetOrder)
  /\ LET p == NetOrder[sent + 1] IN
       /\ Access("write_eth_param", {"full_udp"},
                 IF sent + 1 = Len(NetOrder) THEN "socket" ELSE "net")
       /\ net' = IF at' = "faulted" THEN net ELSE [net EXCEPT ![p] = Packed(argv[p])]
  /\ sent' = sent + 1
  /\ UNCHANGED <<base, tried, argc, argv, codec, gpios>>

udp_client_setup ==
  /\ at = "socket"
  /\ at' \in {"failed", "coefficients"}
  /\ UNCHANGED <<memory, net, gpios, fault>>

SetCoefficients ==
  /\ at = "coefficients"
  /\ Access("set_coefficients", Guarded({"filter_0", "filter_1"}), "registers")
  /\ UNCHANGED <<memory, net, gpios>>

SyncOff ==
  /\ at = "registers"
  /\ Access("set_sync_off", {"audio_to_eth", "full_udp"}, "run")
  /\ UNCHANGED <<memory, net, gpios>>

ui_run ==
  /\ at = "run"
  /\ at' \in {"failed", "prompt"}
  /\ UNCHANGED <<memory, net, gpios, fault>>

-----------------------------------------------------------------------------
(***************************************************************************)
(* The commands of ui_input_reader, as what they access.                   *)
(***************************************************************************)
EnforcerSetters ==
  {"pbtrreset", "pbtoff", "pbton", "setptl1", "setptpidl", "setptl2", "ptpidon",
   "ptpidoff", "setptlock", "setptaccum", "clrptaccum", "clrptlock", "setnetdly",
   "setpktdly", "ptdfon", "ptdfoff", "setptdiffl"}
EnforcerGetters ==
  {"getptl1", "getptpidl", "getptl2", "getptlock", "getptstatus", "getptaccum",
   "getnetdly", "getpktbuilddly", "getpkt2pktdly", "getaccpktdly", "getptdiffs",
   "getptdiffl", "getptdiffv"}
Enforcer ==
  /\ at = "prompt"
  /\ \E c \in EnforcerSetters \cup EnforcerGetters :
       Access(c, {"packet_time_enforcer"}, "prompt")
  /\ UNCHANGED <<memory, net, gpios>>

\* The sets of devices the stream commands access together.  strtestm1,
\* strtestm2, strxtestm1, strport, plcoff and plcon draw on the display when they
\* have written their register.
StreamDevices ==
  {{"audio_to_eth"}, {"eth_to_audio"}, {"eth_packet_sequencer"}, {"full_udp"},
   {"time_sync"}, {"full_udp", "time_sync"}, {"audio_to_eth", "time_sync", "full_udp"},
   {"audio_to_eth", "full_udp"}, {"eth_packet_sequencer", "eth_to_audio"},
   {"eth_to_audio", "full_udp", "time_sync"},
   {"audio_to_eth", "eth_packet_sequencer", "eth_to_audio", "full_udp"},
   {"audio_to_eth", "oled"}, {"eth_to_audio", "oled"}, {"full_udp", "oled"}}
Stream ==
  /\ at = "prompt"
  /\ \E on \in StreamDevices : Access("stream", on, "prompt")
  /\ UNCHANGED <<memory, net, gpios>>

Filter ==
  /\ at = "prompt"
  /\ \E d \in {"filter_0", "filter_1"} : Access("filter", Guarded({d}), "prompt")
  /\ UNCHANGED <<memory, net, gpios>>

\* vgg, vll, ...: set_volume accesses no register.
Volume ==
  /\ at = "prompt"
  /\ Access("volume", {}, "prompt")
  /\ UNCHANGED <<memory, net, gpios>>

\* exit mutes and goes to ui_exit, which sleeps and unmaps; munmap of NULL or
\* MAP_FAILED only returns an error.
Leave ==
  /\ at = "prompt"
  /\ Access("exit", {}, "leaving")
  /\ UNCHANGED <<memory, net, gpios>>

ui_exit ==
  /\ at = "leaving"
  /\ at' = "done" /\ base' = [d \in Devices |-> "null"]
  /\ UNCHANGED <<tried, argc, argv, sent, codec, net, gpios, fault>>

\* The process is killed.
Kill ==
  /\ at \notin Over
  /\ at' = "off"
  /\ UNCHANGED <<memory, net, gpios, fault>>

-----------------------------------------------------------------------------
ZeroAddress == [p \in Network |-> <<0, 0>>]

Init ==
  /\ callsInit \in BOOLEAN
  /\ at = "off" /\ base = [d \in Devices |-> "null"] /\ tried = 0
  /\ argc = 0 /\ argv = ZeroAddress /\ sent = 0 /\ net = ZeroAddress
  /\ gpios = FALSE /\ codec = FALSE /\ fault = NoFault

InitStep ==
  \/ Main \/ Map \/ InitCodec \/ InitGpios \/ ReadArgs \/ WriteNet
  \/ udp_client_setup \/ SetCoefficients \/ SyncOff \/ ui_run
Command == Enforcer \/ Stream \/ Filter \/ Volume \/ Leave

Next ==
  /\ \/ \E n \in 5 .. 8, words \in CommandLines : Launch(n, words)
     \/ InitStep \/ Command \/ ui_exit \/ Kill
  /\ UNCHANGED callsInit

Spec == Init /\ [][Next]_vars

-----------------------------------------------------------------------------
\* The process is somewhere in its life, an address is one of the three kinds,
\* and the enforcer's is NULL for ever.
TypeOK ==
  /\ at \in Over \cup {"main", "map", "codec", "gpios", "args", "net", "socket",
                       "coefficients", "registers", "run", "prompt", "leaving"}
  /\ callsInit \in BOOLEAN /\ argc \in 0 .. 8 /\ net \in [Network -> Address]
  /\ base \in [Devices -> {"null", "failed", "mapped"}]
  /\ base["packet_time_enforcer"] = "null"
  /\ tried \in 0 .. Len(MapOrder) /\ sent \in 0 .. Len(NetOrder)
  /\ (at = "faulted") = (fault # NoFault)

\* On the board, whoever sees the prompt has a whole machine: every device was
\* opened, the codec is configured, the LEDs can be written, and the network
\* registers hold this command line's addresses, each in its own place and bit
\* for bit, whatever an earlier process left there when it was killed half-way
\* through ui_init (ui_control.c:2297-2575).
PromptWhole ==
  at = "prompt" /\ callsInit =>
    /\ \A d \in Mapped : base[d] # "null"
    /\ codec /\ gpios
    /\ net = argv

\* Where the process faults is known.  Six or seven words on the command line,
\* which main lets pass; a device that opened and did not map, if the command
\* accesses it, the display included; the packet time enforcer; and, without
\* ui_init, every stream command.  In particular the mixer's commands and exit
\* never fault where no device is mapped, nor does a start with all devices
\* mapped and eight words (app_main.c:27-30, reg_io.c:52, filter_control.c:25-63,
\* ui_control.c:717-719, 2379-2385 and 2424-2430).
FaultsKnown ==
  at = "faulted" =>
    \/ fault.by = "argv" /\ argc \in {6, 7}
    \/ fault.by # "argv" /\ \E d \in fault.on : base[d] = "failed"
    \/ fault.by \in EnforcerSetters \cup EnforcerGetters
    \/ fault.by = "stream" /\ ~callsInit
=============================================================================
