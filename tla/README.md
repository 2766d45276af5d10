# Verification of the Songpark platform

This directory holds TLA+ models of the program in `src/`, the TLC instances
that check them and the proofs TLAPS checks. `PROJECT.json` lists every
component, run, property, mutant, hazard, theorem, and for every definition the
lines of source it stands for.

## The system

The repository has two programs that talk over MQTT through libraries.

**CS7** (`mqtt/cs7`, C) runs on a teleporter, a board with an FPGA that sends
and receives audio. One thread reads commands from the terminal and writes
memory-mapped registers of FPGA cores. The registers outlive the process. (The
message-queue threads in `ui_control.c` are never created: `ui_run` has the
calls commented out.)

**The platform** (`platform`, Clojure) is an HTTP server and MQTT client. It
keeps the teleporters that register, hears their heartbeats and tells an app
who is online and who plays with whom. Everything it knows is in memory.

| component | state | operations | talks to | what is hard |
|---|---|---|---|---|
| stream control registers (`ui_control.c`, `stream_control.c`) | ten control registers of five FPGA cores, a local copy of one register, the position in a command | about 55 commands, each a fixed sequence of read-modify-writes, writes and pulses with a sleep in the middle | FPGA | copies written back after a sleep, one register shared by a dozen commands, kills inside a pulse, registers that survive the process |
| stream parameters (same files) | about thirty registers holding numbers, the local `tmp` | setters of one or several registers, getters, measurements | FPGA | several writes per setter, aliased registers, two enumerations for one thing, an uninitialised and shared local, products that leave the word |
| codec driver (`adau1761_controller.c`) | the serial controller's registers, the codec's registers, the PLL | `init_codec`: reset, PLL, wait for lock, 26 registers | serial controller, codec | unbounded busy-waits, kills inside a transfer, initialising a codec that already runs |
| mixer (`volume_control.c`, `filter_control.c`, `ui_control.c`) | volumes, filter bits, LEDs, menu settings | `vgg` to `nfld`, the mute of `exit` | FPGA, GPIO | up to five copies of one setting, unsigned products, LEDs and filters that outlive the process |
| process life (`app_main.c`, `ui_init`, `reg_io.c`, `udpclient.c`) | base addresses, command line, exported pins | `main`, `ui_init`, `ui_run`, `exit` | all of the above | early returns half-way, devices that open and do not map, addresses nobody maps |
| teleporter registry (`api/teleporter.clj`, `tpstatus.clj`, `api/app.clj`, `db/store.clj`) | records, heartbeat times in another store, subscriptions | `PUT`/`POST /api/teleporter`, heartbeat, `GET /api/app` | MQTT library, jam database | handlers in parallel, reads that are not one snapshot, restarts |
| jam API and manager (`api/jam.clj`, `scheduler.clj`) | jams and the waiting set | ask, obviate, stop, left, timeouts | `songpark.jam` library, not in this repository | external |
| life cycle (`init.clj`, `core.clj`, `config.clj`, `dev/dev.clj`) | the running system, its parts, the configuration of the JVM | `init`, `stop`, start and stop of seven parts | component library | parts that throw half-way, what a forgotten system leaves running, a configuration shared by all systems |
| scheduler and version refresher (`scheduler.clj`, `versionrefresher.clj`) | schedules, jobs in flight | check for timeouts, fetch and store a version | `chime`, jam manager, database | jobs in flight when a schedule is closed |
| HTTP server (`http/server.clj`, `http/middleware.clj`) | its port, what it injects into handlers | start, stop, dispatch | all handlers | handlers in flight across a restart |
| the rest (routes, authorisation, what is drawn on the OLED, example scripts, deployment) | little or none | | | |

What makes each of them correct: no FPGA unit is forgotten in reset; a command
changes what its name says and nothing else, also when it is cut short or when
it starts on what a killed process left; what was set stays set and reads back;
the codec is configured completely or known not to be; an acknowledged
teleporter is listened to; what an app is told was true; whoever sees a prompt
or an answer has a whole machine or a whole system behind it, also after
another one was cut short.

## Modules

| module | models | checked by |
|---|---|---|
| `StreamControl` | the control registers, every function of `stream_control.c` that writes one, every command that calls them, start, exit and kill | `MCStreamPanel`; `MCStreamControl` with `MCStreamMac`, `MCStreamResync`, `MCStreamSyncOff` |
| `StreamPanel` | the abstract specification: a panel of switches, one command at a time | as a property of `MCStreamPanel` |
| `StreamControlProofs` | theorems about `StreamControl`, among them that it implements `StreamPanel` | TLAPS |
| `StreamParams` | the numbers and addresses, their setters and getters | `MCStreamParams` with `MCParamsHold`, `MCParamsGateway` |
| `StreamParamsProofs` | theorems about `StreamParams` | TLAPS |
| `Codec` | `init_codec` by bus access, the serial controller and the codec | `MCCodec` |
| `CodecProofs` | theorems about `Codec` | TLAPS |
| `Mixer` | volumes, filters, LEDs, menu settings, command by command and write by write | `Mixer` with `MCMixer` |
| `MixerProofs` | theorems about `Mixer` | TLAPS |
| `WriteLemmas` | lemmas on sequences of writes and on unsigned arithmetic, for `MixerProofs` and `StreamParamsProofs` | TLAPS |
| `Process` | the command line, the mapping of devices, `ui_init` step by step, which commands fault, how the process ends | `MCProcess` |
| `ProcessProofs` | theorems about `Process` | TLAPS |
| `TeleporterRegistry` | the platform's stores, handlers, app request, time, restarts | `MCTeleporterRegistry` |
| `TeleporterRegistryProofs` | theorems about `TeleporterRegistry` | TLAPS |
| `PlatformLife` | `init` and `stop` part by part, the jobs of the scheduler and the version refresher, the end of the JVM | with `Platform` |
| `PlatformProofs` | theorems about `PlatformLife` and `Platform`, among them that the latter implements `TeleporterRegistry` | TLAPS |
| `Platform` | the systems of `PlatformLife` composed with the requests that reach their servers, each system with its database | `MCPlatform` |

`Platform` is shown to implement `TeleporterRegistry`: what serves behaves as
one registry whatever systems come and go. The four CS7 modules on registers
and `Process` model the same program side by side: `Process` says when commands
can run at all, the others what they do.

### StreamControl

A register is the set of its bits that are one, so `d|mask` is `d \cup bits`.
A command is a sequence of operations (`rmw`, `write`, `pulse`, `load`,
`store`), built by operators that carry the names of the C functions, and an
action executes one operation. A pulse takes two steps: raise, and write back
the value that was read before the sleep. Between any two steps `Kill` may end
the process; it leaves the registers as they are, and `cut` remembers which
reset it cut short. `Launch` runs what `ui_init` writes to these registers.
Reading REG0 of `eth_to_audio` shows the FIFO flags in bits 2 to 5 whatever was
written there (`FifoStatus`), as `include/reg_io.h` documents.

`Panel == INSTANCE StreamPanel WITH on <- SwitchesOn, busy <- command` is the
refinement mapping: the switches are single register bits. Bits 4 and 5 of
`eth_to_audio` are left out, because a read does not return what was written.

### StreamParams

`write_eth_param`, `ETH_PARAM_ID` and `read_eth_param` are the three tables the
code spreads over two enumerations and two if-chains. A setter is the sequence
of its register writes, one action each; `given` is what the operator saw
complete. `tmp` is the local of `ui_input_reader`, an `unsigned long` that
nothing initialises. The module is the program on the board (`Dockerfile-arm`),
where a long is a word and `scanf` replaces all of it; only `setcrwin`, which
reads no number, writes what is left there. On a 64-bit machine `scanf` would
leave the upper half of `tmp` alone, but the program that is built for one
calls no `ui_init`, and each of these setters faults at its first register.

### Codec

One action per bus access of `write_adau1761`, `read_adau1761` and
`reset_adau1761`; `Program` is the sequence of their calls in `init_codec`. The
serial controller and the PLL are external and modelled from how the driver
uses them: a rising start bit begins a transfer, the reset bit aborts it.

### Mixer

A command is the sequence of writes it makes, to the process's variables
(`memory`) or to registers and LEDs (`device`), computed from the memory it
starts with; `Step` makes the next one and `Kill` may come before any of them.
`set_volume` is a stub in this tree (`volume_control.c:27` returns 0), although
its comment says that it sets the gain of the volume control IP: no volume
command reaches the hardware, and the model keeps the gain `set_volume` was last
asked for. Two facts show as exceptions in the properties. `ui_init` asks for
30 while it records a global volume of 4 and channel volumes of 30, so the
first command for one channel makes it four times as loud as the rest. And
after a restart every filter is displayed as off, whatever its register says,
since neither `exit` nor `ui_init` clears the filters.

### Process

`Map` is one call of `map_device` with the check that follows it: a device that
does not open ends `ui_init`, one that opens and does not map has the address
`MAP_FAILED`, passes the check and faults when it is first accessed. The steps
after it follow `ui_init` line by line as far as it can end there: the codec,
the GPIO export, `argv`, the network parameters, the socket, the coefficients,
the synchronisation switch. A command is the set of devices it accesses;
`Access` faults if one of their addresses is bad. Most calls that draw on the
OLED display are commented out in the command loop, but six commands still make
them once they have set their register (`strtestm1`, `strtestm2`, `strxtestm1`,
`strport`, `plcoff`, `plcon`), so the display is among the devices they access:
where it opened and did not map, they end the process. `set_coefficients` and
`set_filter_type` look for NULL (`Guarded`), `set_volume` accesses nothing, the
packet time enforcer is never mapped. The variable `callsInit` tells the two
programs apart: in this tree `app_main.c:30` has the call of `ui_init`
commented out, for the container simulation `mqtt/README.md` describes; with
it, the program is the board's. Addresses are pairs of bytes, so that what
`(a<<24)|(b<<16)|...` does to `char`s is visible (`Packed`).

### TeleporterRegistry

Each handler takes one action per access of a store, so requests interleave; the
jam library's moves are external actions. A time stamp is represented by its
age, up to `OfflineTimeout`, and every copy of it ages with the clock. A
heartbeat's handler reads the clock before it writes, so `Heartbeat` writes a
stamp of any age that is not older than the one it replaces (the client calls
its handlers one after the other). `teleporter-online?` reads the stamp
(`AppReadStamp`), then the clock (`AppReadClock`), and heartbeats and ticks fall
between the two.

`witness` records, for the duration of an app request, the jam statuses each
teleporter had and who was fresh at some moment, and `app` the stamps there were
when it began (`first`), so that a property can compare the answer with them.
What `OnlineWasHeard` says of an answer is all that can be said: online means
that the teleporter was heard in time at some moment of the request, offline
only that the heartbeat that was its last at the beginning has run out. A
teleporter that sends a new heartbeat between the two reads, while the stamp
that was read runs out, is shown offline although it was fresh throughout.

`Restart` is a new JVM; `Reload` is
`stop` and `init` in the same one, which makes a new database and keeps the
atom of `platform.db.store`; `Stray` is a handler of an earlier system that
subscribes after its system is gone.

### PlatformLife and Platform

A JVM makes several systems one after the other (`dev/restart`). `call` is the
call of `init` or `stop` that runs: `Start(p)` and `Stop(p)` are its steps, in
every order that `Before` (what `system-map` starts itself, then
`component/using`) and `Using` allow. `StartFails` ends `init` with what was
started still running and no system recorded; `StopFails` ends `stop`, which
catches the exception, with what was not stopped still running and the system
forgotten. The configuration is one variable of the JVM, loaded and unloaded by
every system. `CheckBegins` to `FetchInterrupted` are the jobs of a system,
which may outlive its schedule. `JvmDies` may come at any step.

`Platform` adds a database and handlers to each system: `PUT` writes the record
and then subscribes, `POST` reads, merges and writes. A handler keeps the
database and the client of the system that took its request. `alone` and
`expected` are history: what the requests about a record make of it one after
the other, as long as none came between the read and the write of an update.

`Registry` maps this onto `TeleporterRegistry`: the records are those of the
system whose server takes requests, the subscriptions those of the broker's
session, a handler of another system is idle for the registry and shows as
`Stray`. A start is `Reload`, or `Restart` after the JVM died.

## Runs

Every cfg but `MCMixer`'s checks deadlock as well; there the process may end by
`exit` and the bounds end the run. Kills are possible everywhere in
`StreamControl`, `StreamParams`, `Codec`, `Mixer` and `Process`, restarts in
`TeleporterRegistry`, `PlatformLife` and `Platform`.

| run | instance | shows |
|---|---|---|
| `MCStreamPanel` | all commands, in five groups: each unit's and, last, the resets of the whole chain; FIFO flags none, empty or full; an odd MAC address | `TypeOK`, `ResetReleased`, `ChannelsTogether`, `SyncTxNeedsUnit`, `MacKept`; `CommandReturns` under fairness; the refinement `PanelSpec` |
| `MCParamsHold` | nine setters and getters, one of each kind; 4-bit words, two typed values | `SettingsHold`, `ReadBack` |
| `MCCodec` | no parameters | `QuietWhileBusy`, `CoreClockNeedsLock`, `ConfiguredOnReturn`; `InitReturns` under fairness |
| `MCMixer` | all commands, at most four of them and two starts; typed gains 8 and 127 with words of 7 bits, so that 127 becomes -1 and products wrap | `VolumesFollow`, `LedsShowGlobal`, `FiltersShown`, `ExitSilent` |
| `MCTeleporterRegistry` | two teleporters, two workers, timeout of two ticks, symmetry; in one behaviour jams move, in another heartbeats and time | `AckedIsServed`, `ListsRegistered`, `OnlineWasHeard`, `StatusWasSeen` |
| `MCProcess` | both programs, five to eight words on the command line, two command lines, any device absent and up to two that do not map | `PromptWhole`, `FaultsKnown` |
| `MCPlatform` | two systems in a JVM, a client that does not start, a server that does not start or stop; one teleporter, two workers, three requests; or the jobs of both systems | `NeedsRun`, `RunningIsWhole`, `NothingLeft`, `RecordIsSequential`; the refinement `ServesAsRegistry`; `CallsReturn` and `WatchedJobsRun` under fairness |
| `MCStreamMac` | an odd address and commands that stop synchronisation | finding: they clear bit 0 of the MAC address |
| `MCStreamSyncOff` | `setsyncon`, `tgsync`, `setsyncoff` | finding: `setsyncoff` leaves the frames on |
| `MCStreamResync` | the transmitter and `rxrsync` | finding: `rxrsync` stops the transmitter |
| `MCParamsGateway` | gateway, mask, destination | finding: `getgip` prints the mask |

**Bounds.** Register values need no bound: a register is a finite set of bits.
Commands of different cores do not touch each other's registers, so splitting
them over groups loses only combinations of independent registers; a group is chosen
once per behaviour, and the theorems cover all commands at once. Words of four bits with a unit of 4 and 6
let the products and the difference leave the word. Four mixer commands let
every ordered pair of commands come both before and after a kill. Two teleporters are enough
for a jam and for two registrations that race; a third would only wait. A
timeout of two ticks has stamps that are fresh, about to run out and stale, so
that one can run out between two reads; the jams have no effect on heartbeats
or the clock, nor these on the jams, so `MCTeleporterRegistry` moves one of them
in a behaviour (the theorems have both at once).
Two unusable devices let one fault be masked by an earlier one. Two systems are
what a restart needs, a third would repeat the second. Jobs and requests share
nothing but the parts that run, so `MCPlatform` watches either the jobs of
both systems, those of the old one still in flight while the new one's run, with
parts in every order, or the requests, with parts in the order the
component library takes (those nobody uses come last and go first: `Ordered`).
Three requests are a registration and two updates that overlap.

**Fairness.** `StreamControl!FairSpec` has weak fairness of the register
operations and of the return to the prompt: the one thread that runs a command
always goes on, its sleeps end. Typing, starting and killing are not fair.
`Codec!FairSpec` adds that a transfer ends and that the PLL locks; the driver
waits for both without a timeout, so `InitReturns` holds only under them.
`CallFairness` of `PlatformLife` says that a call of `init` or `stop` goes on
until it returns or throws: one thread runs it, and no part waits for another.
`JobFairness` says that `chime` keeps its schedule and that a check and a fetch
end (`apt` answers). Nobody is obliged to call `init` or `stop` or to send a
request.

## What is proved

Every theorem holds for all values of the constants that satisfy the
assumption of its module; further hypotheses are named below. In each module
`IInv` (or the name given) is the inductive invariant: the initial states
satisfy it, every step preserves it, and it implies the properties. In general
the properties are not inductive themselves, because a command or a request
that is half done says nothing of what it will do next; the strengthening says
just that.

### StreamControlProofs

For every `Commands`, `FifoStatus` and `MacWords`:

| theorem | property |
|---|---|
| `TypeCorrect` | `TypeOK` |
| `ResetsAreReleased` | `ResetReleased` |
| `ChannelsStayTogether` | `ChannelsTogether` |
| `ActsAsPanel` | the refinement `PanelSpec` |
| `PacketsNeedTheUnit` | the action property `SyncTxNeedsUnit` |
| `AddressKept` | the action property `MacKept` |
| `CommandsGetShorter` | the safety half of `CommandReturns` |

For the first three, `IInv` adds that every operation still to do is
*disciplined* (only a pulse raises the reset bits of its register, all of them,
and every write-back clears them all), that a sleeping command is inside a
pulse, and that the reset bits of each register are all set or all clear
(`Whole`). The proof first shows that the script of every command is
disciplined, one lemma per table of the model, then that one register write
keeps `IInv` (`WrittenIInv`), and then goes through the actions. The assumption
on the FIFO flags is needed: they must not overlap the reset bits.

For the next two, `PInv` looks at one bit of one register at a time. An
operation `Keeps` a bit or `Makes` it on or off; a script `Spares` a bit or
`Ends` with it on or off. `PanelDue`: what is left of a command spares the
switches that are not its own, and will leave its own where its name says.
`CopiesFresh`: a copy that is yet to be written back, after a sleep or by
`strstop`, was loaded from its register or will be, with nothing between that
touches the register. `UnitDue`: before an operation that switches the packets
on, the unit is enabled and released from reset, or it is so already. The tables
are gone through once more (`...Well`), `StepPInv` is about one register
operation, and `PanelStep` maps each action to a step of the panel or none.

`AddressKept` delimits a finding: `MCStreamMac` shows that commands other than
`strmac` change the MAC address, and the theorem that only those do whose
script names REG0 of the UDP stack (`MacOwners`); nothing left of another
command is on that register (`MacLeft`). `ActsAsPanel` does the same for the
other two findings: in `StreamPanel` `rxrsync` switches the transmitter off and
moves nothing else, `setsyncoff` the synchroniser's unit.

`CommandsGetShorter` proves what can be proved of `CommandReturns`: a command
that runs has an operation to perform or nothing left, and every operation
lowers `Left`, a natural number; that the operations are performed is the
fairness of `FairSpec`.

### StreamParamsProofs

For every word size, both units, all typed values and command lines:

| theorem | states | if |
|---|---|---|
| `TypeCorrect` | `TypeOK` | |
| `SettingsAlwaysHold` | `SettingsHold` | of `sethdrlen` and `setdlim`, and of `setpoutdly` and `setbdlm`, one at most is used (`NoTwoSetters`) |
| `SettingsReadBack` | `ReadBack` | the same, and `getgip`, `getmask` and `getport` are not used |

Where a hypothesis fails the property does: the setters of a pair write one
register, and `MCParamsGateway` shows a getter whose table names another
register. `IInv`: `GivenStands`, what was
given stands in all of its registers and no write to come is to one of them;
`SettingWill`, while a setter runs, each of its registers will hold what was
typed when the writes are done; `ShownIsGiven`, what a getter printed is what was given.
The two tables of codes are compared entry by entry.

### CodecProofs

`Codec` has no constants, so `MCCodec` already sees every state; the proof says
why its properties hold, from facts about the calls rather than from the
states. `TypeCorrect` (`TypeOK`), `CoreClockLocked` (`CoreClockNeedsLock`),
`Configured` (`ConfiguredOnReturn`) and the action property `BusIsQuiet`
(`QuietWhileBusy`).

About `Program` the proof uses only this (`ProgramFacts`, `ClockWrites`,
`WrittenOnce`): the reset is its first call; the registers of `Config` are
written once each; the core is switched off before the PLL is set up, and on
after the poll. The entries of `Config` are not told apart. `IInv` adds to
`TypeOK` and `CoreClockNeedsLock`:

* `Fits`: the access that comes next is one the running call makes.
* `Loaded`: the data registers and the control word are the call's own once it
  has written them. Before that they may hold what a killed process left, which
  is what makes `ConfiguredOnReturn` worth proving.
* `OneTransfer`: a transfer in progress is the running call's, or one a killed
  process left behind, and then the running process has not yet reset the
  controller. Without it a write could join a stranger's transfer.
* `InFlight`: a transfer to the codec carries one whole value, switches the core
  clock on only with the PLL locked, and never sets up the PLL with the core
  clock on. This outlives the process that began the transfer: it may end when
  its process is gone.
* `Settled`: what the running process has written stands; the first write of the
  clock register, which switches it off, until the second begins.
* `LockSeen`: the poll is left only with the PLL locked.

### MixerProofs

For every word size above 60, every set of typed numbers and any bounds:
`TypeCorrect` (`TypeOK`), `VolumesAlwaysFollow` (`VolumesFollow`),
`LedsAreRight` (`LedsShowGlobal`), `FiltersAreShown` (`FiltersShown`) and
`ExitIsSilent` (`ExitSilent`). The word must be above 60 because the
volume 30 of `ui_init` is an `int`. `IInv` is about `Will(c, v)`: cell `c` will
hold `v` once the writes still to make are made. `VolumesWill`,
`LedsWill`, `FiltersWill` and `ExitWill` state each property of these values for
any moment of a command, and no write of the command changes what will be. TLC
was used to find them on `MCMixer`'s instance. The proof found that `Step` chose
the mode after the last write by a `CASE` whose guards overlapped; it is
an `IF` now.

### ProcessProofs

For every set of command lines and any number of unusable devices:
`TypeCorrect` (`TypeOK`), `FaultsAreKnown` (`FaultsKnown`), `PromptIsPacked`
(at the prompt the network registers hold what the shifts make of the typed
bytes, whichever the kind of `char`) and, if `CharSigned = FALSE`,
`PromptIsWhole` (`PromptWhole`). `IInv`: only a program that calls `ui_init`
and has read six words maps anything (`Started`); every device the start has
tried opened (`Opened`); every network register it has written holds this
command line's address, as packed (`Addressed`); codec and pins are set up once
the start has passed them (`Equipped`).

### TeleporterRegistryProofs

For every set of teleporters and workers and every timeout: `TypeCorrect`
(`TypeOK`), `WhoIsAckedIsServed` (`AckedIsServed`), `EveryoneIsListed`
(`ListsRegistered`), `OnlineIsTrue` (`OnlineWasHeard`) and `StatusIsTrue`
(`StatusWasSeen`). `IInv`: a handler has written the record before it
subscribes, and both before it answers (`Served`); nobody waits and plays (`Apart`); who
was acknowledged when the app asked is in what the request has read or will read
(`Listed`); the witness contains what holds now (`Watching`); what the request
has read is in the witness (`ReadsSeen`), and so is what it has answered
(`AnswerSeen`). `Stamps` is about the clock: while a request runs, the stamp of a
teleporter is no older than the copy the request has read, and that no older
than the one there was when the app asked. So a copy that is fresh when the
clock is read tells that the teleporter is fresh then, and one that has run out
that the first has.

### PlatformProofs

Of `PlatformLife`, for every number of systems and every choice of parts that
throw: `LifeTypes` (`LifeTypeOK`), `NobodyServesAlone` (`NeedsRun`),
`SystemIsWhole` (`RunningIsWhole`) and `LeavesNothing` (`NothingLeft`), the last
if the scheduler and the version refresher do not throw when they start: the
library may start these two after the HTTP server, and a start that throws
there leaves the server with its port. `LifeInv` is inductive: every part that
runs has the parts it uses (`Supported`); while a call of `init` runs, all parts
that started have the ones before them, and the configuration is loaded once its
part is up (`CallWhole`); before anything throws only the current system and the
one a call is about have parts that run (`Alone`). `PortFree` is kept besides.

Of `Platform`, for any number of workers, teleporters, settings and requests:

* `LivesOn`: `Spec => LifeSpec`, so that all this holds of the platform with
  its requests.
* `RecordsAreSequential`: `RecordIsSequential`. `StoresInv` says what the
  history `alone` means: one worker at most is to update the record, and what it
  has read is what is there.
* `PlatformTypes`: `TypeOK`, for settings over the keys a record has and a
  finite `MaxRequests`.
* `ActsAsRegistry`: the refinement `ServesAsRegistry`, if every map of settings
  has a key. A `POST` without settings for a teleporter nobody registered writes
  an empty record, which `Platform` does not tell from none. `RegistryInv` says
  that every handler has a system and a teleporter, and that nobody has asked a
  system for anything before its server ran (`Untouched`), so that a start shows
  as an empty registry.

### Only model-checked

* Liveness: `CommandReturns`, `InitReturns`, `CallsReturn`, `WatchedJobsRun`.
  The proof system has no rules for fairness. For
  `CommandReturns` the variant is proved (`CommandsGetShorter`); the driver's
  busy-waits have none, they end when the controller or the PLL does.
* The properties of the four runs that expect a violation are false.

`StreamControl` has the masks of the test modes in a table (`ModeMasks`, as the
`switch` of `set_test_mode` has them), because the provers do not compute with
bits.

## Assumptions and limits

* In the modules on registers `ui_init` has run and every device is mapped:
  the program on the board. `Process` has both programs and says what is left
  of the commands where it has not: volumes, filters and `exit`.
* `MCProcess` is the ARM build, where `char` is unsigned. With `CharSigned`
  `PromptWhole` fails as soon as a byte of an address is 128 or more; no board
  runs such a build with `ui_init`.
* `ui_init` passes `argv[1]` and `argv[2]`, the MAC address and the local IP
  address, to `udp_client_setup` as server address and port
  (`ui_control.c:2466`); the socket is never used, so nothing follows from it.
  It clears the synchronisation bit only, not the transmitter's, so a stream
  that a killed process left on is on at the prompt; nothing says otherwise.
* The FPGA's registers start at zero, and keep what is written except for the
  flags. Of the MAC address only the lowest bit of its first word is modelled.
* The buffer `char c[8]` of the command loop is taken to be large enough.
* `strnsp` compares `tmp` whole, so its model too is that of the board.
* Setters that share a register (`sethdrlen`/`setdlim`, `setbslk`/
  `sethdrstrip`, `setbdlm`/`setpoutdly`) overwrite each other in the model as
  in the code; no document says what should win, and `MCParamsHold` types one
  of each pair.
* In `TeleporterRegistry` only the presence of a record is modelled, its
  contents in `Platform`. Subscriptions are kept while the platform runs; what
  a reconnecting MQTT client renews is outside the repository. All clients have
  the id `platform`, so the broker keeps one session, or none, for them; a
  client that was stopped subscribes to nothing.
* Heartbeats are handled one after the other. A handler of an earlier system
  that read the clock before a reload and writes after the new system's first
  heartbeat could put an older stamp in its place; `Heartbeat` leaves that out.
* One thread calls `init` and `stop`. Every `init` adds one more shutdown hook
  (`init.clj:72`), so a JVM that started several systems and ends by a signal
  calls `stop` from several threads at once; in the model it ends at any step
  instead (`JvmDies`), and what two calls of `stop` do to each other is not
  modelled.
* Which parts may throw is a constant of `PlatformLife`. A server does not
  start while another holds the port.

Not modelled: what the packet time enforcer's commands would do with a mapped
device (none maps it), the message-queue threads (never started), what is
drawn on the OLED, the texts of the menu and the parsing of
addresses, the jam library, routing, coercion and authorisation (no state), the
example scripts and deployment.

## Plan

1. *Done*: `StreamControl`, `StreamPanel`, `StreamParams`, `Codec`, `Mixer`,
   `TeleporterRegistry`; the first theorems.
2. *Done*: `Process`; `PlatformLife` and `Platform` with the refinement of
   `TeleporterRegistry`; all stream commands in one run; the theorems about
   the life cycle and the records of the platform.
3. *Done*: theorems for every property of a passing run but liveness; the two
   refinements; the finding about the MAC address delimited from both sides.
4. Left: a shorter proof of the panel's command tables; the jam library, should
   its source be added to this repository.
