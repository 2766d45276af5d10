----------------------------- MODULE ProcessProofs -----------------------------
(***************************************************************************)
(* What Process guarantees for every command line, every width of a byte   *)
(* and every number of devices that open and do not map.                   *)
(***************************************************************************)
EXTENDS Process, TLAPS

\* ui_init from the codec on, and the prompt that follows it.
Wiring  == {"codec", "gpios", "args", "net", "socket", "coefficients", "registers"}
Serving == {"run", "prompt"}

\* A start has read at least six words before it maps anything, and only a
\* program that calls ui_init maps.
Started ==
  /\ argv \in CommandLines \cup {ZeroAddress}
  /\ at \in {"map"} \cup Wiring => callsInit /\ argc >= 6

\* Every device map_device was called for has an address.
Opened ==
  /\ at \in {"map"} \cup Wiring \cup Serving =>
       \A i \in 1 .. tried : base[MapOrder[i]] # "null"
  /\ at = "main" => tried = 0
  /\ at = "map" => tried < Len(MapOrder)
  /\ at \in Wiring => tried = Len(MapOrder)
  /\ at \in Serving /\ callsInit => tried = Len(MapOrder)

\* A register that is written holds this command line's address, as packed.
Addressed ==
  /\ at \in {"main", "map", "codec", "gpios", "args"} => sent = 0
  /\ at = "net" => sent < Len(NetOrder)
  /\ at \in {"socket", "coefficients", "registers"} => sent = Len(NetOrder)
  /\ at \in Serving /\ callsInit => sent = Len(NetOrder)
  /\ at \in Wiring \cup Serving =>
       \A i \in 1 .. sent : net[NetOrder[i]] = Packed(argv[NetOrder[i]])

\* The codec comes before the LED pins, and these before the rest.
Equipped ==
  /\ at \in Wiring \ {"codec"} => codec
  /\ at \in Wiring \ {"codec", "gpios"} => gpios
  /\ at \in Serving /\ callsInit => codec /\ gpios

IInv == TypeOK /\ Started /\ Opened /\ Addressed /\ Equipped /\ FaultsKnown

-----------------------------------------------------------------------------
(***************************************************************************)
(* The tables, and what an access may do.                                  *)
(***************************************************************************)
\* Twelve devices are mapped, the enforcer is not one of them, and the devices
\* of the stream commands are.
LEMMA Maps ==
  /\ Len(MapOrder) = 12
  /\ \A i \in 1 .. Len(MapOrder) : MapOrder[i] \in Mapped
  /\ \A d \in Mapped : \E i \in 1 .. Len(MapOrder) : d = MapOrder[i]
  /\ "packet_time_enforcer" \notin Mapped
  /\ {"adau1761", "full_udp", "audio_to_eth", "filter_0", "filter_1"} \subseteq Mapped
<1>1. Len(MapOrder) = 12 /\ DOMAIN MapOrder = 1 .. 12
  BY DEF MapOrder
<1>2. \A i \in 1 .. 12 : MapOrder[i] # "packet_time_enforcer"
  BY DEF MapOrder
<1>3. /\ MapOrder[12] = "time_sync" /\ MapOrder[11] = "adau1761" /\ MapOrder[9] = "full_udp"
      /\ MapOrder[8] = "audio_to_eth" /\ MapOrder[2] = "filter_0" /\ MapOrder[4] = "filter_1"
  BY DEF MapOrder
<1> QED
  BY <1>1, <1>2, <1>3 DEF Mapped

\* Four parameters are written.
LEMMA Nets ==
  /\ Len(NetOrder) = 4
  /\ \A i \in 1 .. Len(NetOrder) : NetOrder[i] \in Network
  /\ \A p \in Network : \E i \in 1 .. Len(NetOrder) : p = NetOrder[i]
<1>1. Len(NetOrder) = 4 /\ DOMAIN NetOrder = 1 .. 4
  BY DEF NetOrder
<1> QED
  BY <1>1 DEF Network

\* The stream commands access devices ui_init maps.
LEMMA StreamMapped ==
  ASSUME NEW on \in StreamDevices
  PROVE  on \subseteq Mapped
<1>1. DOMAIN MapOrder = 1 .. 12
  BY DEF MapOrder
<1>2. /\ MapOrder[1] = "eth_to_audio" /\ MapOrder[8] = "audio_to_eth"
      /\ MapOrder[9] = "full_udp" /\ MapOrder[10] = "eth_packet_sequencer"
      /\ MapOrder[12] = "time_sync" /\ MapOrder[6] = "oled"
  BY DEF MapOrder
<1>3. {"eth_to_audio", "audio_to_eth", "full_udp", "eth_packet_sequencer", "time_sync",
       "oled"} \subseteq Mapped
  BY <1>1, <1>2 DEF Mapped
<1>4. on \subseteq {"eth_to_audio", "audio_to_eth", "full_udp", "eth_packet_sequencer",
                 "time_sync", "oled"}
  BY DEF StreamDevices
<1> QED
  BY <1>3, <1>4

\* A packed address is an address, and on ARM it is the one on the line.
LEMMA PackedAddress ==
  ASSUME NEW a \in Address
  PROVE  Packed(a) \in Address /\ (~CharSigned => Packed(a) = a)
BY ProcessAssumption DEF Packed, Address

\* What is on the command line is an address.
LEMMA LineTyped ==
  ASSUME Started
  PROVE  argv \in [Network -> Address]
BY ProcessAssumption DEF Started, ZeroAddress, Address

\* An access goes on, or it faults at an address that is no mapping.
LEMMA AccessEnds ==
  ASSUME NEW by, NEW on, NEW then, Access(by, on, then)
  PROVE  \/ at' = then /\ fault' = fault
         \/ /\ at' = "faulted" /\ fault' = [by |-> by, on |-> on]
            /\ \E d \in on : base[d] # "mapped"
BY DEF Access

-----------------------------------------------------------------------------
(***************************************************************************)
(* The parts of the invariant, one lemma each.                             *)
(***************************************************************************)
\* The types at first.
LEMMA TypeStart == Init => TypeOK
<1> SUFFICES ASSUME Init PROVE TypeOK
  OBVIOUS
<1>1. net \in [Network -> Address]
  BY ProcessAssumption DEF Init, ZeroAddress, Address
<1>2. base \in [Devices -> {"null", "failed", "mapped"}] /\ base["packet_time_enforcer"] = "null"
  BY DEF Init, Devices
<1> QED
  BY <1>1, <1>2, Maps, Nets DEF Init, TypeOK, Over

Steps == InitStep \/ Command \/ ui_exit \/ Kill

\* A step within a life that is no Map keeps the bases or clears them, and one
\* that is no WriteNet keeps the registers.
LEMMA FewTouchBase ==
  ASSUME InitStep \/ Command \/ Kill, ~Map
  PROVE  UNCHANGED <<base, tried>>
BY DEF InitStep, Command, Main, Map, InitCodec, InitGpios, ReadArgs, WriteNet,
  udp_client_setup, SetCoefficients, SyncOff, ui_run, Enforcer, Stream, Filter, Volume,
  Leave, Kill, memory

\* Only write_eth_param, called by ui_init, writes the network registers.
LEMMA FewTouchNet ==
  ASSUME Steps, ~WriteNet
  PROVE  UNCHANGED <<net, sent>>
BY DEF Steps, InitStep, Command, Main, Map, InitCodec, InitGpios, ReadArgs, WriteNet,
  udp_client_setup, SetCoefficients, SyncOff, ui_run, Enforcer, Stream, Filter, Volume,
  Leave, ui_exit, Kill, memory

\* The command line and the program stay for a life.
LEMMA LineStays ==
  ASSUME Steps
  PROVE  UNCHANGED <<argc, argv>>
BY DEF Steps, InitStep, Command, Main, Map, InitCodec, InitGpios, ReadArgs, WriteNet,
  udp_client_setup, SetCoefficients, SyncOff, ui_run, Enforcer, Stream, Filter, Volume,
  Leave, ui_exit, Kill, memory

\* Where a step within a life leads.
Flow ==
  \/ at = "main" /\ at' = IF argc < 6 THEN "failed" ELSE IF callsInit THEN "map" ELSE "run"
  \/ at = "map" /\ at' \in {"failed", "codec", "map"}
  \/ at = "codec" /\ at' \in {"gpios", "faulted"}
  \/ at = "gpios" /\ at' \in {"args", "failed"}
  \/ at = "args" /\ at' \in {"net", "faulted"}
  \/ at = "net" /\ at' \in {"net", "socket", "faulted"}
  \/ at = "socket" /\ at' \in {"coefficients", "failed"}
  \/ at = "coefficients" /\ at' \in {"registers", "faulted"}
  \/ at = "registers" /\ at' \in {"run", "faulted"}
  \/ at = "run" /\ at' \in {"prompt", "failed"}
  \/ at = "prompt" /\ at' \in {"prompt", "leaving", "faulted"}
  \/ at = "leaving" /\ at' = "done"
  \/ at \notin Over /\ at' = "off"

\* Every step of a life goes along the order of ui_init, or ends it.
LEMMA StepsFlow ==
  ASSUME Steps
  PROVE  Flow
BY DEF Flow, Steps, InitStep, Command, Main, Map, InitCodec, InitGpios, ReadArgs, WriteNet,
  udp_client_setup, SetCoefficients, SyncOff, ui_run, Enforcer, Stream, Filter, Volume,
  Leave, ui_exit, Kill, Access

\* Started is inductive.
LEMMA StartedStep ==
  ASSUME TypeOK, Started, Next
  PROVE  Started'
<1>1. ASSUME NEW n \in 5 .. 8, NEW words \in CommandLines, Launch(n, words)
      PROVE  Started'
  BY <1>1 DEF Launch, Started, Wiring
<1>2. CASE Steps
  <2>1. UNCHANGED <<argc, argv, callsInit>> /\ Flow
    BY <1>2, LineStays, StepsFlow DEF Next
  <2> QED
    BY <2>1 DEF Flow, Started, Wiring, TypeOK
<1> QED
  BY <1>1, <1>2 DEF Next, Steps

\* Opened is inductive: a device is tried when its turn comes and kept after.
LEMMA OpenedStep ==
  ASSUME TypeOK, Started, Opened, Next
  PROVE  Opened'
<1>1. ASSUME NEW n \in 5 .. 8, NEW words \in CommandLines, Launch(n, words)
      PROVE  Opened'
  BY <1>1 DEF Launch, Opened, Wiring, Serving
<1>2. CASE Map
  <2>1. PICK result \in {"null", "failed", "mapped"} :
          /\ base' = [base EXCEPT ![MapOrder[tried + 1]] = result]
          /\ at' = IF result = "null" THEN "failed"
                   ELSE IF tried + 1 = Len(MapOrder) THEN "codec" ELSE "map"
    BY <1>2 DEF Map
  <2>2. at = "map" /\ tried < Len(MapOrder) /\ tried' = tried + 1
    BY <1>2 DEF Map
  <2>3. CASE result = "null"
    BY <2>1, <2>2, <2>3 DEF Opened, Wiring, Serving
  <2>4. CASE result # "null"
    <3>1. \A i \in 1 .. tried : base[MapOrder[i]] # "null"
      BY <2>2 DEF Opened
    <3>2. tried \in Nat /\ MapOrder[tried + 1] \in Devices /\ DOMAIN base = Devices
      BY <2>2, Maps DEF TypeOK, Devices
    <3>3. \A i \in 1 .. tried' : i \in 1 .. tried \/ i = tried + 1
      BY <2>2, <3>2
    <3>4. \A i \in 1 .. tried' : MapOrder[i] \in Devices
      BY <2>2, <3>2, Maps DEF Devices
    <3>5. \A i \in 1 .. tried' : base'[MapOrder[i]] # "null"
      BY <2>1, <2>4, <3>1, <3>2, <3>3, <3>4
    <3> QED
      BY <2>1, <2>2, <2>4, <3>2, <3>5, Maps DEF Opened, Wiring, Serving
  <2> QED
    BY <2>3, <2>4
<1>3. CASE (InitStep \/ Command \/ Kill) /\ ~Map
  <2>1. UNCHANGED <<base, tried, callsInit>> /\ Flow
    BY <1>3, FewTouchBase, StepsFlow DEF Next, Steps
  <2>2. CASE at \in {"map"} \cup Wiring \cup Serving
    <3>1. at # "map" \/ at' \notin {"map"} \cup Wiring \cup Serving
      BY <1>3, <2>2 DEF InitStep, Command, Main, InitCodec, InitGpios, ReadArgs, WriteNet,
        udp_client_setup, SetCoefficients, SyncOff, ui_run, Enforcer, Stream, Filter, Volume,
        Leave, Kill, Wiring, Serving
    <3> QED
      BY <2>1, <2>2, <3>1 DEF Flow, Opened, Wiring, Serving
  <2>3. CASE at = "main" /\ at' \in {"map", "run"}
    <3>1. tried' = 0 /\ (at' = "run" => ~callsInit')
      BY <2>1, <2>3 DEF Flow, Opened, Over
    <3> QED
      BY <2>3, <3>1, Maps DEF Opened, Wiring, Serving
  <2> QED
    BY <2>1, <2>2, <2>3 DEF Flow, Opened, Wiring, Serving
<1>4. CASE ui_exit
  BY <1>4 DEF ui_exit, Opened, Wiring, Serving
<1> QED
  BY <1>1, <1>2, <1>3, <1>4 DEF Next

\* Addressed is inductive: each WriteNet packs the next address of the line.
LEMMA AddressedStep ==
  ASSUME TypeOK, Started, Addressed, Next
  PROVE  Addressed'
<1>1. ASSUME NEW n \in 5 .. 8, NEW words \in CommandLines, Launch(n, words)
      PROVE  Addressed'
  BY <1>1 DEF Launch, Addressed, Wiring, Serving
<1>2. CASE WriteNet
  <2>1. at = "net" /\ sent < Len(NetOrder) /\ sent' = sent + 1 /\ argv' = argv
    BY <1>2 DEF WriteNet
  <2>2. \/ at' = "faulted"
        \/ at' = IF sent + 1 = Len(NetOrder) THEN "socket" ELSE "net"
    BY <1>2 DEF WriteNet, Access
  <2>3. CASE at' = "faulted"
    BY <2>3 DEF Addressed, Wiring, Serving
  <2>4. CASE at' # "faulted"
    <3>1. net' = [net EXCEPT ![NetOrder[sent + 1]] = Packed(argv[NetOrder[sent + 1]])]
      BY <1>2, <2>4 DEF WriteNet
    <3>2. \A i \in 1 .. sent : net[NetOrder[i]] = Packed(argv[NetOrder[i]])
      BY <2>1 DEF Addressed, Wiring
    <3>3. sent \in Nat /\ NetOrder[sent + 1] \in Network /\ net \in [Network -> Address]
      BY <2>1, Nets DEF TypeOK
    <3>4. \A i \in 1 .. sent' : i \in 1 .. sent \/ i = sent + 1
      BY <2>1, <3>3
    <3>5. \A i \in 1 .. sent' : NetOrder[i] \in Network
      BY <2>1, <3>3, Nets
    <3>6. \A i \in 1 .. sent' : net'[NetOrder[i]] = Packed(argv'[NetOrder[i]])
      BY <2>1, <3>1, <3>2, <3>3, <3>4, <3>5
    <3> QED
      BY <2>1, <2>2, <2>4, <3>3, <3>6, Nets DEF Addressed, Wiring, Serving
  <2> QED
    BY <2>3, <2>4
<1>3. CASE Steps /\ ~WriteNet
  <2>1. UNCHANGED <<net, sent, argv, callsInit>> /\ Flow
    BY <1>3, FewTouchNet, LineStays, StepsFlow DEF Next
  <2>2. at' = "net" => at = "args" /\ sent = 0
    BY <1>3 DEF Steps, InitStep, Command, Main, Map, InitCodec, InitGpios, ReadArgs, Addressed,
      udp_client_setup, SetCoefficients, SyncOff, ui_run, Enforcer, Stream, Filter, Volume,
      Leave, Kill, ui_exit, Access
  <2>3. at' = "socket" => FALSE
    BY <1>3 DEF Steps, InitStep, Command, Main, Map, InitCodec, InitGpios, ReadArgs,
      udp_client_setup, SetCoefficients, SyncOff, ui_run, Enforcer, Stream, Filter, Volume,
      Leave, Kill, ui_exit, Access
  <2>4. CASE at \in Wiring \cup Serving /\ at' \in Wiring \cup Serving
    <3>1. \A i \in 1 .. sent' : net'[NetOrder[i]] = Packed(argv'[NetOrder[i]])
      BY <2>1, <2>4 DEF Addressed
    <3> QED
      BY <2>1, <2>2, <2>3, <2>4, <3>1, Nets DEF Flow, Addressed, Wiring, Serving
  <2>5. CASE at \in {"main", "map"}
    <3>1. sent' = 0 /\ (at' \in Serving => ~callsInit')
      BY <2>1, <2>5 DEF Flow, Addressed, Over, Serving
    <3> QED
      BY <2>1, <2>5, <3>1 DEF Flow, Addressed, Wiring, Serving
  <2>6. CASE at' \notin Wiring \cup Serving \cup {"map", "main"}
    BY <2>6 DEF Addressed, Wiring, Serving
  <2> QED
    BY <2>1, <2>4, <2>5, <2>6 DEF Flow, Wiring, Serving, Over
<1> QED
  BY <1>1, <1>2, <1>3 DEF Next, Steps

\* Equipped is inductive: codec and pins are set up before the prompt and stay so.
LEMMA EquippedStep ==
  ASSUME Equipped, Next
  PROVE  Equipped'
<1>1. ASSUME NEW n \in 5 .. 8, NEW words \in CommandLines, Launch(n, words)
      PROVE  Equipped'
  BY <1>1 DEF Launch, Equipped, Wiring, Serving
<1>2. CASE InitCodec \/ InitGpios
  BY <1>2 DEF InitCodec, InitGpios, Access, Equipped, Wiring, Serving, memory
<1>3. CASE Steps /\ ~InitCodec /\ ~InitGpios
  <2>1. UNCHANGED <<codec, gpios, callsInit>> /\ Flow
    <3>1. UNCHANGED <<codec, gpios>>
      BY <1>3 DEF Steps, InitStep, Command, Main, Map, ReadArgs, WriteNet,
        udp_client_setup, SetCoefficients, SyncOff, ui_run, Enforcer, Stream, Filter, Volume,
        Leave, Kill, ui_exit, memory
    <3> QED
      BY <1>3, <3>1, StepsFlow DEF Next
  <2>2. at' \notin {"gpios", "args"}
    BY <1>3 DEF Steps, InitStep, Command, Main, Map, ReadArgs, WriteNet,
      udp_client_setup, SetCoefficients, SyncOff, ui_run, Enforcer, Stream, Filter, Volume,
      Leave, Kill, ui_exit, Access
  <2> QED
    BY <2>1, <2>2 DEF Flow, Equipped, Wiring, Serving, Over
<1> QED
  BY <1>1, <1>2, <1>3 DEF Next, Steps

\* A step within a life faults for one of the known reasons or not at all.
LEMMA FaultsHow ==
  ASSUME TypeOK, Started, Opened, Steps
  PROVE  \/ at' # "faulted" /\ fault' = fault
         \/ /\ at' = "faulted"
            /\ \/ fault'.by = "argv" /\ argc \in {6, 7}
               \/ fault'.by # "argv" /\ \E d \in fault'.on : base[d] = "failed"
               \/ fault'.by # "argv" /\ fault'.by \in EnforcerSetters \cup EnforcerGetters
               \/ fault'.by = "stream" /\ ~callsInit
<1>a. \A d \in Devices : base[d] \in {"null", "failed", "mapped"}
  BY DEF TypeOK
<1>b. at \in Wiring => \A d \in Mapped : base[d] # "null"
  BY Maps DEF Opened
<1>c. at = "prompt" /\ callsInit => \A d \in Mapped : base[d] # "null"
  BY Maps DEF Opened, Serving
<1>1. ASSUME NEW by, by # "argv", NEW on, NEW then, then # "faulted", Access(by, on, then),
             on \subseteq Devices, \A d \in on : base[d] # "null"
      PROVE  \/ at' # "faulted" /\ fault' = fault
             \/ /\ at' = "faulted" /\ fault'.by # "argv"
                /\ \E d \in fault'.on : base[d] = "failed"
  BY <1>1, <1>a, AccessEnds
<1>2. CASE InitCodec
  BY <1>1, <1>2, <1>b, Maps DEF InitCodec, Wiring, Devices
<1>3. CASE WriteNet
  BY <1>1, <1>3, <1>b, Maps DEF WriteNet, Wiring, Devices
<1>4. CASE SetCoefficients
  BY <1>1, <1>4, <1>b, Maps DEF SetCoefficients, Wiring, Devices, Guarded
<1>5. CASE SyncOff
  BY <1>1, <1>5, <1>b, Maps DEF SyncOff, Wiring, Devices
<1>6. CASE Enforcer
  <2>1. "argv" \notin EnforcerSetters \cup EnforcerGetters
    BY DEF EnforcerSetters, EnforcerGetters
  <2> QED
    BY <1>6, <2>1, AccessEnds DEF Enforcer
<1>7. CASE Stream
  <2>1. PICK on \in StreamDevices : Access("stream", on, "prompt")
    BY <1>7 DEF Stream
  <2>2. on \subseteq Mapped
    BY StreamMapped
  <2> QED
    BY <1>1, <1>7, <1>c, <2>1, <2>2, AccessEnds DEF Stream, Devices
<1>8. CASE Filter
  BY <1>1, <1>8, Maps DEF Filter, Guarded, Devices
<1>9. CASE Volume \/ Leave
  BY <1>1, <1>9 DEF Volume, Leave
<1>10. CASE ReadArgs
  BY <1>10 DEF ReadArgs, Started, Wiring, TypeOK
<1>11. CASE Main \/ Map \/ InitGpios \/ udp_client_setup \/ ui_run \/ ui_exit \/ Kill
  BY <1>11 DEF Main, Map, InitGpios, udp_client_setup, ui_run, ui_exit, Kill
<1> QED
  BY <1>2, <1>3, <1>4, <1>5, <1>6, <1>7, <1>8, <1>9, <1>10, <1>11
  DEF Steps, InitStep, Command

\* Whichever step faults, the device it accessed has no good address.
LEMMA FaultsStep ==
  ASSUME TypeOK, Started, Opened, Next
  PROVE  FaultsKnown'
<1>1. ASSUME NEW n \in 5 .. 8, NEW words \in CommandLines, Launch(n, words)
      PROVE  FaultsKnown'
  BY <1>1 DEF Launch, FaultsKnown
<1>2. ASSUME Steps, at' = "faulted" PROVE FaultsKnown'
  <2>1. ~ui_exit /\ ~Map
    BY <1>2 DEF ui_exit, Map
  <2>2. UNCHANGED <<base, argc, callsInit>>
    BY <1>2, <2>1, FewTouchBase, LineStays DEF Steps, Next
  <2> QED
    BY <1>2, <2>2, FaultsHow DEF FaultsKnown
<1> QED
  BY <1>1, <1>2 DEF Next, Steps, FaultsKnown

\* No step leaves the types.
LEMMA TypeStep ==
  ASSUME TypeOK, Started, Opened, Next
  PROVE  TypeOK'
<1>1. ASSUME NEW n \in 5 .. 8, NEW words \in CommandLines, Launch(n, words)
      PROVE  TypeOK'
  <2>1. base' \in [Devices -> {"null", "failed", "mapped"}]
        /\ base'["packet_time_enforcer"] = "null"
    BY <1>1 DEF Launch, Devices
  <2>2. n \in 0 .. 8
    OBVIOUS
  <2> QED
    BY <1>1, <2>1, <2>2, Maps, Nets DEF Launch, TypeOK, Next
<1>2. CASE Steps
  <2>1. argc' \in 0 .. 8 /\ callsInit' \in BOOLEAN
    BY <1>2, LineStays DEF TypeOK, Next
  <2>2. at' \in Over \cup {"main", "map", "codec", "gpios", "args", "net", "socket",
                           "coefficients", "registers", "run", "prompt", "leaving"}
    BY <1>2, StepsFlow DEF Flow, Over
  <2>3. net' \in [Network -> Address] /\ sent' \in 0 .. Len(NetOrder)
    <3>1. CASE WriteNet
      <4>1. sent < Len(NetOrder) /\ sent \in 0 .. Len(NetOrder) /\ sent' = sent + 1
        BY <3>1 DEF WriteNet, TypeOK
      <4>2. NetOrder[sent + 1] \in Network
        BY <4>1, Nets
      <4>3. Packed(argv[NetOrder[sent + 1]]) \in Address
        BY <4>2, LineTyped, PackedAddress
      <4> QED
        BY <3>1, <4>1, <4>3, Nets DEF WriteNet, TypeOK
    <3> QED
      BY <1>2, <3>1, FewTouchNet DEF TypeOK
  <2>4. /\ base' \in [Devices -> {"null", "failed", "mapped"}]
        /\ base'["packet_time_enforcer"] = "null"
        /\ tried' \in 0 .. Len(MapOrder)
    <3>1. CASE Map
      <4>1. tried < Len(MapOrder) /\ tried \in 0 .. Len(MapOrder) /\ tried' = tried + 1
        BY <3>1 DEF Map, TypeOK
      <4>2. MapOrder[tried + 1] # "packet_time_enforcer"
        BY <4>1, Maps
      <4> QED
        BY <3>1, <4>1, <4>2, Maps DEF Map, TypeOK, Devices
    <3>2. CASE ui_exit
      BY <3>2 DEF ui_exit, TypeOK, Devices
    <3> QED
      BY <1>2, <3>1, <3>2, FewTouchBase DEF TypeOK, Steps
  <2>5. (at' = "faulted") = (fault' # NoFault)
    <3>1. NoFault.by \notin {"argv", "stream"} \cup EnforcerSetters \cup EnforcerGetters
      BY DEF NoFault, EnforcerSetters, EnforcerGetters
    <3>2. NoFault.on = {}
      BY DEF NoFault
    <3>3. at # "faulted"
      BY <1>2, StepsFlow DEF Flow, Over
    <3>4. fault = NoFault
      BY <3>3 DEF TypeOK
    <3> QED
      BY <1>2, <3>1, <3>2, <3>4, FaultsHow
  <2> QED
    BY <2>1, <2>2, <2>3, <2>4, <2>5 DEF TypeOK
<1> QED
  BY <1>1, <1>2 DEF Next, Steps

-----------------------------------------------------------------------------
(***************************************************************************)
(* The theorems.                                                           *)
(***************************************************************************)
\* The invariant: what holds at each stage of ui_init.
THEOREM Invariance == Spec => []IInv
<1>1. Init => IInv
  <2> SUFFICES ASSUME Init PROVE IInv
    OBVIOUS
  <2>1. at = "off" /\ argv = ZeroAddress
    BY DEF Init
  <2> QED
    BY <2>1, TypeStart DEF IInv, Started, Opened, Addressed, Equipped, FaultsKnown, Wiring, Serving
<1>2. IInv /\ [Next]_vars => IInv'
  <2>1. IInv /\ Next => IInv'
    BY TypeStep, StartedStep, OpenedStep, AddressedStep, EquippedStep, FaultsStep DEF IInv
  <2>2. IInv /\ UNCHANGED vars => IInv'
    BY DEF vars, memory, IInv, TypeOK, Started, Opened, Addressed, Equipped, FaultsKnown, Packed
  <2> QED
    BY <2>1, <2>2
<1> QED
  BY <1>1, <1>2, PTL DEF Spec

\* The state keeps its types; the packet time enforcer is never mapped.
THEOREM TypeCorrect == Spec => []TypeOK
<1>1. IInv => TypeOK
  BY DEF IInv
<1> QED
  BY <1>1, Invariance, PTL

\* Wherever the process faults, for every command line and whatever opens and
\* does not map, it is for one of the known reasons (ui_init and the commands).
THEOREM FaultsAreKnown == Spec => []FaultsKnown
<1>1. IInv => FaultsKnown
  BY DEF IInv
<1> QED
  BY <1>1, Invariance, PTL

\* At the prompt of a program that calls ui_init everything is set up, and each
\* network register holds its own address of this command line, as
\* (a << 8) | b packs it, on either kind of char.
PromptPacked ==
  at = "prompt" /\ callsInit =>
    /\ \A d \in Mapped : base[d] # "null"
    /\ codec /\ gpios
    /\ \A p \in Network : net[p] = Packed(argv[p])

\* This holds on every machine (ui_init).
THEOREM PromptIsPacked == Spec => []PromptPacked
<1>1. IInv => PromptPacked
  BY Maps, Nets DEF IInv, PromptPacked, Opened, Addressed, Equipped, Serving
<1> QED
  BY <1>1, Invariance, PTL

\* Where char is unsigned, as it is on the board's ARM, the registers hold the
\* addresses bit for bit (ui_init).
THEOREM PromptIsWhole ==
  ASSUME CharSigned = FALSE
  PROVE  Spec => []PromptWhole
<1>1. IInv => PromptWhole
  <2> SUFFICES ASSUME IInv, at = "prompt", callsInit PROVE net = argv
    BY Maps DEF IInv, PromptWhole, Opened, Equipped, Serving
  <2>1. argv \in [Network -> Address] /\ net \in [Network -> Address]
    BY LineTyped DEF IInv, TypeOK
  <2>2. \A p \in Network : net[p] = Packed(argv[p])
    BY Nets DEF IInv, Addressed, Serving
  <2>3. \A p \in Network : net[p] = argv[p]
    BY <2>1, <2>2, PackedAddress
  <2> QED
    BY <2>1, <2>3
<1> QED
  BY <1>1, Invariance, PTL
=============================================================================
