# iG4U thruster-unit application: TLA+ models, model checks and proofs

This directory is the verification project of the cFS application in `src/ig4u`
(the on-board computer's side of the iG4U propulsion unit). It holds TLA+ modules
translated from the C source, TLC configurations that check them on small
instances, and TLAPS proofs of the properties that matter most, for every value
of the constants.

The RS-422 driver (`CFE_SRL`), cFE itself (software bus, scheduler, time) and the
thruster unit are not in the repository; they appear only as the code uses them.

## 1. Inventory

| component (source) | state it keeps | operations | properties that make it correct |
|---|---|---|---|
| Application: start-up, main loop (`ig4u_task.c`, `.h`) | `IG4U_Data`: run status, link, `CurrentState`, counters, ARMED timer, persistent HK packet | `IG4U_Init`, `IG4U_Main` | nothing is handled before start-up is complete; one handler at a time |
| Dispatch (`ig4u_dispatch.c`) | none | length check, function-code switch, message-id switch | every message has exactly one effect |
| Handlers (`ig4u_cmds.c`) | all of `IG4U_Data` | 16 ground commands, one wakeup | firing only from ARMED and once per arming; SAFE and FAULT not left by the application itself; ARMED limited in time; state checked before a blocking call still true after it |
| Wire commands (`ig4u_commands.c`) | none of its own; the driver's receive buffer and the fault-log payload of the caller | 14 calls: send a telecommand, wait for a reply of a given id, MAIN_FIRE for a second one, aborts for none | one telecommand for a call; no acknowledgement or refusal is taken for data; the fault log stays in its array |
| Protocol (`ig4u_protocol.c`) | none (pure) | `CalcCRC16`, `EncodeTC`, `DecodeTM`, `FindSyncHeader` | decode inverts encode; nothing outside the buffer is read |
| HAL (`ig4u_hal.c`) | `s_initialized`, the handle, the driver's buffer | `Init`, `Deinit`, `Send`, `Recv`, `FlushRx`, `IsReady` | reads stay in the buffer; the result is an aligned frame; every call returns |
| Byte order (`ig4u_endian.h`) | none | 16/32-bit swaps, on a big-endian host | low byte first on the line |
| Configuration, message layouts (`config/`) | none | none | limits consistent with each other |
| Event ids | none | none | log text only; not modelled |
| `comm_test.c` | none | a hardware test sequence, not in `CMakeLists.txt` | read as a statement of intent; not modelled |

**How they interact.** cFE puts ground commands and the scheduler's wakeups into
one pipe of depth 8. `IG4U_Main` takes one message, calls the dispatcher, which
calls a handler, which calls a wire command, which calls the protocol's encoder
and the HAL; everything returns before the next message is taken. The only
concurrency is therefore between a handler that is blocked in a wire call and the
world outside: time, the unit, arriving messages, a restart of the processor.

**What is hard.** A handler acts on what it checked before a call that may
block for seconds. The ARMED watchdog runs inside the wakeup handler, behind
other conditions, and its wakeups queue in the pipe behind blocking handlers, as aborts do. The unit's mode is copied into the application's state at any
time. Replies are matched by id only and the receive buffer is not emptied before
a command, so late answers meet later commands; ids are shared between acknowledgement and
result. A firing goes on in the unit whatever its call returned. The receiver reassembles frames
from reads that split them anywhere. A restart forgets what the unit is doing.
`PROJECT.json` lists these hazards at their lines, with the properties that
watch them.

## 2. Modules

| module | models | state and actions |
|---|---|---|
| `IG4U_Interlock` | the promise about firing: abstract, three phases | `Grant`, `Revoke`, `Fire`, `Settle` |
| `IG4U_App` | `ig4u_task.c`, `ig4u_dispatch.c`, `ig4u_cmds.c` | see below |
| `IG4U_App_proofs` | theorems about `IG4U_App` | |
| `IG4U_Protocol` | `EncodeTC`, `DecodeTM`, `FindSyncHeader`, frame layout | operators only |
| `IG4U_Crc` | `CalcCRC16`, bit by bit, and the polynomial division it stands for | operators only |
| `IG4U_Crc_proofs` | theorems about the checksum | |
| `IG4U_Codec` | a payload written byte by byte, framed and taken apart again | `WriteByte` |
| `IG4U_Codec_proofs` | theorems about frames: round trip, checksum, damage | |
| `IG4U_Hal` | `HAL_Init`, `HAL_Deinit`, `HAL_Recv`, `HAL_FlushRx` and the serial line | one step per blocking read |
| `IG4U_Hal_proofs` | theorems about `IG4U_Hal` | |
| `IG4U_Calls` | the calls of `ig4u_commands.h`, their return codes | constant operators, shared by the next three |
| `IG4U_Exchange` | what the wire commands promise their caller: abstract | `Send`, `Answer`, `Return`, `BurnEnds`, `Restart` |
| `IG4U_Wire` | `ig4u_commands.c` with a unit and a line around it | `Command`, `RecvTimeout`, `RecvParseError`, `RecvReply`, `Return`; `BurnEnds`, `UnitEvent`, `Arrive` |
| `IG4U_Wire_proofs` | theorems about `IG4U_Wire` | |
| `IG4U_Licence` | the promise about burns of the unit: abstract, one licence for an arming | `Arm`, `Lapse`, `Claim`, `Use`, `Spend`, `Stop` |
| `IG4U_System` | the application, its message pipe, the calls of `IG4U_Exchange` | `Accept`, `Take`, `StartCall`, `Answered`, `FinishCall`, ... |
| `IG4U_System_proofs` | theorems about `IG4U_System` | |
| `MC_App`, `MC_Codec`, `MC_Hal`, `MC_Wire`, `MC_System` | small instances for TLC | constants only |

The modules form two stacks. On the implementation side: `IG4U_Wire` implements `IG4U_Exchange`;
`IG4U_Hal` and `IG4U_Codec` say, byte by byte, what `IG4U_Wire` takes of the receiver and the
decoder. On the composition side: `IG4U_System` joins `IG4U_App` and `IG4U_Exchange`, is shown to be
the one, and takes its wire steps from the other; together they implement `IG4U_Licence`, which neither states alone, as `IG4U_App` implements `IG4U_Interlock`.

### IG4U_App

The variables are the fields of `IG4U_Data` under their own names, plus

* `ArmedElapsed` for `CFE_TIME_GetTime() - ArmedEntryTime` in whole seconds (the
  only use the code makes of the two). It saturates at the timeout, since
  `elapsed >= IG4U_ARMED_TIMEOUT_SEC` is the only test made of it. The spacecraft
  clock is assumed not to be set while the application runs.
* `Running`, the handler blocked in a wire call, and `Sent`, the telemetry the last
  step put on the bus.

A handler without a wire call is one action. A handler with one is two: the code
up to the call (guards, counted refusals, state changes made in advance:
`UnguardedCmd`, `ArmPropulsionCmd`, `FireCmd`, `WakeupHandler`) and the code after it
(`PingReturns`, `FireReturns`, `WakeupReturns`, ...). The handlers use nothing of
the return code but whether it is `IG4U_CMD_OK`; both outcomes are always
possible here, a report brings any mode and any fault word. The wakeup handler's
second wire call, the SET_MODE(STANDBY) sent on a timeout, has a step of its own
whose outcome the code ignores.

| code | action |
|---|---|
| `IG4U_Init` | `AppInit(ok)`; `Restart` is the clearing of `IG4U_Data` after a reset at any moment |
| `IG4U_Main` receive error | `PipeReadError` |
| `IG4U_VerifyCmdLength` false, unknown function code, refused commands | `VerifyCmdLengthFails`, `InvalidCC`, `Refuse` |
| unknown message id, skipped wakeup | `InvalidMID`, `Ignore` |
| `IG4U_NoopCmd`, `IG4U_ResetCounterCmd` | `NoopCmd`, `ResetCounterCmd` |
| the other ground commands, before the call | `UnguardedCmd(op)`, `ArmPropulsionCmd`, `FireCmd(op)` |
| the other ground commands, after the call | `<Name>Returns` |
| `IG4U_WakeupHandler` | `WakeupHandler`, `WakeupReturns`, `TimeoutStandbyReturns` |

### IG4U_Protocol and IG4U_Hal

A buffer is a sequence of bytes; the layout, the two length checks and the order of
`DecodeTM`'s answers are the code's. The checksum is a parameter, because only its
width matters to the receiver and to the round trip; `MC_Codec` gives it the code's own loop
(`CRC16`), the receiver's runs a sum of bytes. In `IG4U_Crc` a 16-bit word is the set of the positions
of its ones: `^` is the symmetric difference, `<< 1` adds one to every position (after bit 15 is dropped), and
`Register` is the value after each of the 8 shifts per byte. `FindSyncHeader`'s loop is stated as what it finds, the
first offset of the two sync bytes (`SyncAt`) or none (`NoSync`).

`HAL_Recv` blocks in up to three reads and in any number of flush reads; `pc` names the
read it is in. A read of n bytes returns n bytes when they are there, and otherwise
times out with what has come, with or without an error status (the driver's
interface, as the code uses it, allows both), or fails with nothing. The line
delivers any number of bytes between two reads, so every way of splitting the
traffic over the reads is explored. `taken` is a history variable for one property.

### IG4U_Wire

A call is one `Command` (EncodeTC, HAL_Send and what the unit makes of it) and one step per
`HAL_Recv`; `stage` says which reply it waits for. `answer` is a history variable: the last frame
`RecvTMRaw` took apart for the call. The receiver is seen at the level of frames: how many bytes of which frame a
read takes. Because it waits for two bytes more than a frame has, a frame is only taken when
another one is behind it, and that other one loses its sync word. So an exchange ends more easily with an earlier call's reply than with
its own; this is the behaviour of `IG4U_Hal`, and the reason why the model keeps headless rests.

The unit is external and does what the message definitions say: it answers with the id of the
telecommand, refuses when it likes, reports a firing when it ends, sends events unasked. The line delays, loses, beheads or damages a
frame. A failed write may have reached the unit. What a payload holds is abstracted to the kind of the frame and its length, because the
code decides by id and length; the fault log's count and entries are kept, since the code loops over them.

| code | action |
|---|---|
| `IG4U_Cmd_*` up to `SendTC` | `Command(op)` |
| `RecvTMRaw` returning ERR_TIMEOUT | `RecvTimeout` |
| `RecvTMRaw` or the caller's length test returning ERR_PARSE | `RecvParseError` |
| a reply accepted, MAIN_FIRE's first one included; the fault-log parser | `RecvReply`, `Parsed` |
| the call returning | `Return` |

### IG4U_Exchange and IG4U_System

`IG4U_Exchange` is what is left of a call for its caller: one telecommand, which the unit may or may not
carry out, and a code at the end that says nothing about it. `IG4U_System` puts it behind the handlers of
`IG4U_App`: `StartCall` sends the telecommand of the handler that is blocked (`Running`),
`FinishCall` hands the code to the handler's second half. In front of them is the pipe: `Accept` queues a message if
there is room, `Take` runs the handler of the oldest. `burning` is the unit's firing; a restart clears the application and the pipe and
leaves it burning. `unreported` is a history variable: a firing goes on after its call failed.

`IG4U_Licence` speaks of the unit: an arming licenses one burn. The licence lapses with ARMED, is claimed by a fire handler that passed its
interlock and used by the telecommand it sends; it never comes back without another arming. The mapping (`Licence`) reads it off `Running`, `call`
and `CurrentState`. The interlock alone does not say this: it knows of handlers and not of telecommands, of which a call might send two.

## 3. Runs

All are in `PROJECT.json`. The passing ones:

* **app_safety** explores every order of commands, wakeups, call outcomes, seconds,
  failures and restarts. `AdmittedStateHolds`: what a handler checked before its
  call still holds when the call returns. `NoAutomaticRecovery`: SAFE and FAULT are left by
  the ground or a restart only, although the ARMED timer may be active in SAFE (a
  cold-gas firing does not stop it). `OwnArmingIsTimed`: an ARMED the
  application enters by itself starts a full window; only a status report brings an
  untimed one. `RefinesInterlock`: the handlers implement `IG4U_Interlock`, so two
  firings always have an arming between them. `ArmedWindowCloses`: a supervised ARMED ends, even if every
  poll fails, as long as the link is not declared down and the ground does not keep re-arming.
* **codec**, with the code's checksum, for a frame and what `HAL_Recv` read behind it (two bytes more than a frame has, `ig4u_hal.c:238`): `RoundTrips`, over all payloads up to one byte above the limit;
  `DamageIsDetected`, when one byte of a frame or two neighbours are damaged, the length included, `DecodeTM` refuses it, with
  the two exceptions below; `ChecksumIsRemainder`, the shifts and exclusive-ors compute the CRC-16/CCITT remainder. It stops
  when the payload is full, so deadlock is not checked.
* **hal_safety**: no read goes beyond the buffer whatever a header announces; a successful
  receive passes `DecodeTM` up to the checksum; the buffer starts at the first sync word with no
  byte lost or moved; once the line is silent every receive returns (`RecvReturns`).
* **wire_safety**: `RefusalIsNotData`: reports, results and acknowledgements share ids, and any of them may be left from an earlier
  call; the length tests alone keep a refusal from being read as a result. `ImplementsExchange`: every exchange, however its
  replies are lost, late, damaged or interrupted, sends its telecommand once and ends with a code. The type
  invariant holds the fault log to its array, whatever count the unit announces.
* **system**: `UnreportedBurnStaysSafe`: a burn that outlives its failed call finds the application in SAFE until
  the ground acts, the burn ends or the processor restarts. `BurnsAreLicensed`: the system implements `IG4U_Licence`, so the unit burns once at most for an
  arming, whatever is lost, refused, reported or restarted on the way. `AbortIsServed`: an abort that found room in the pipe is carried out, behind however many blocking handlers.
  `ArmedWindowCloses` once more: in `IG4U_App` it rests on the assumption that wakeups are handled again and again; here
  that follows from the pipe, its order and the returning calls, with wakeups lost when the pipe is full.

The runs that end in a violation each show a statement of the repository's comments
that the code does not keep; `findings` quotes them.

* `app_untimed_armed`: a status report can leave ARMED with no timer.
* `app_link_down`: a failed PING suspends the ARMED watchdog.
* `hal_lone_frame`: a whole frame alone on the line ends in a time-out, because the two
  CRC bytes are counted twice. (For the same reason frames with payloads of 255 and 256 bytes are
  refused as too large for the buffer.)
* `wire_nack`: a refused ARM returns OK; nobody looks at the ACK/NACK byte.
* `wire_burst`: a burst turns away its own result, because it waits for the pulse's id.
* `wire_fault_log`: the fault log counts entries that came with an earlier reply, or, when a refusal is taken for a log, with none.
* `system_standby`: a firing until abort (duration 0) returns at once, and the application enters STANDBY under it.

What the frame format cannot notice, and `DamageIsDetected` therefore leaves out (both follow from the layout, no comment promises otherwise):

* A length field that now names other bytes that were read, so that the checksum is looked for there: a smaller value names bytes of the payload, one larger by one or two the bytes
  `HAL_Recv` read behind the frame. Only those 16 bits decide then. (A value beyond all that was read is refused, and is not an exception.) The header `AA 55 10 00 01 00 00` has the CRC 0xC770; a 3-byte payload that begins with
  `70 C7` in a frame of message 1 is taken for an empty one if its length 3 becomes 0. (`DecodeTM` does not ask for the announced
  length to be that of the buffer: `ig4u_protocol.c:189` refuses only what is too short.)
* Damage to the last byte under the checksum together with the first byte of the checksum. CRC-16 covers bursts of 16 bits
  when the high byte is sent first; `ig4u_protocol.c:130` sends the low byte first. The last byte xor 0x89 with the next one xor 0xA1 passes.

Divergences that were met and need no run, since reading shows them:

* `ig4u_cmds.c:558` promises that HK is still polled in FAULT; `WakeupPolls`, the guard below it, polls nothing there.
* SAFE is left by aborts, DISARM and SET MODE to ARMED (`ig4u_cmds.c` 135, 206, 365, 483), which `ig4u_internal_cfg.h:42-44` does not list.
* `ArmTimeout_Remain` (`ig4u_cmds.c:624`) is never cleared, so HK goes on announcing remaining ARMED time outside ARMED.
* Nine bytes of noise ahead of a packet make `HAL_Recv` flush the packet as well (`ig4u_hal.c:186`; the comment at 182 promises a realignment).
* A mode byte outside the enumeration becomes `CurrentState` (`ig4u_cmds.c:278`; `OUT_OF_RANGE` in the model). No poll and no timeout leads out of it; RESET MODULE, SET MODE, DISARM, an abort,
  CLEAR FAULT or a later report does.
* A restart during a burn puts the application into STANDBY (`ig4u_task.c:146`) without asking the unit; `system_standby` shows a shorter way to a burn under STANDBY.
* A line that never falls silent for 10 ms keeps `HAL_FlushRx` (`ig4u_hal.c:282`), and with it the caller, for ever; `RecvReturns` therefore assumes silence.

**Bounds, and why they are enough.** In `MC_App` the window is 2 s, so that it can be fresh,
half over and expired; counters wrap at 2 (at 1 in the runs that do not look at
them), since the code only adds to them and resets them; two fault words, since the
code only copies and clears them. In `MC_Hal` the largest payload is 3 bytes and the buffer
12, which keeps the proportion of the code (256 and 265: the buffer is exactly overhead plus
payload); the traffic consists of the pieces that take different branches: a bare
reply, one whose payload is half a sync word, one of the largest size and its header alone, a header announcing
too much, and garbage with a sync word and half of another. `LINE_LIMIT` bounds the bytes under way;
12 lets one frame follow the end of another. In `MC_Codec` the limit is 3 bytes and payloads
have up to 4, over bytes that include both sync bytes; nothing, a sync word or two zeros were read behind them; the damage adds 0, 1, 3, 16, 128, 254 or 255 to a byte, which changes the lowest bit, the highest, one or many, and with 0 leaves it alone.

In `MC_Wire`, `UNREAD_LIMIT` = 3 unread frames: a reply is taken only with another frame behind it, and MAIN_FIRE takes two in a row, the second
after the first has beheaded what followed, so fewer than three never bring it to its result. The calls are one of each kind that parses differently: two
replies, one data reply, a log, none. The log has one entry and the unit announces two, so that the clamp and the end of the payload both matter; the
fault-log run has two entries of which a payload holds one, the code's 32 and 31 in small, and two marks to tell an old log from a new one.
In `MC_System` the pipe holds two messages, so that it can be empty, half full and full, with an abort behind another message; the traffic is that of a
firing and what can go wrong around it: wakeups, arming, both kinds of firing, the abort, the status report that overwrites the state, and PING, whose failure suspends the watchdog. The window is 1 s. The other commands, SET MODE to ARMED among them (with it the run takes too long),
meet the same pipe and calls, and app_safety has all of them. cFE may queue messages as soon as the application has subscribed, `Accept` only when it runs: those that arrive before are handled after start-up, as if they had arrived then.

The proofs remove these bounds for every safety property; liveness stays bounded.

**Fairness.** `IG4U_App!FairSpec`: a wire call returns (each UART read has a timeout; the flush
is the exception), the clock advances, and the scheduler's
wakeups are taken again and again as long as the loop keeps coming back to the pipe: strong fairness,
because the handler is disabled while another blocks. `IG4U_Hal!FairSpec`: a read returns at the latest on its timeout; nothing is assumed of
the line. `IG4U_System!SystemFairSpec` replaces the App's assumption by weaker ones: the task takes a message when there is one, calls are
started and return (the HAL's `RecvReturns`), the clock advances, all weakly fair; and the scheduler goes on sending wakeups of which not every one meets a full pipe
(strong fairness of `Accept("WAKEUP")`, since others may take the room). There is nowhere fairness on the ground's commands, on outcomes, on the unit or
on restarts.

## 4. Proofs

`tlapm` checks, for every value of the constants that meets the assumptions in the modules:

| theorem | states |
|---|---|
| `IG4U_App_proofs!TypeCorrect` | `TypeOK` |
| `!AdmissionIsStable` | `AdmittedStateHolds` |
| `!SafeIsKept` | `NoAutomaticRecovery` |
| `!OwnArmingIsSupervised` | `OwnArmingIsTimed` |
| `!HandlersImplementInterlock` | `RefinesInterlock` |
| `IG4U_Crc_proofs!LoopsDivide` | for data of every length the register is the dividend less a multiple of the generator, and below x^16 |
| `!RemainderIsUnique` | there is one such remainder |
| `!DamageChangesTheChecksum` | byte sequences of one length that differ in one byte or two neighbours have different `CRC16` |
| `IG4U_Codec_proofs!FramesRoundTrip` | `RoundTrips`, if `ChecksumIs16Bit` |
| `!ChecksumDivides` | `ChecksumIsRemainder` |
| `!DamageIsFound` | `DamageIsDetected`, if `ChecksumIsCRC16` |
| `IG4U_Hal_proofs!ReceiverTypes` | `TypeOK` |
| `!NoOverrun` | `ReadsStayInBuffer` |
| `!ReceivedIsDecodable` | `SuccessIsDecodable` |
| `!BufferIsAligned` | `AlignedOnFirstSync` |
| `IG4U_Wire_proofs!WireTypes` | `TypeOK` |
| `!NoRefusalAsData` | `RefusalIsNotData` |
| `!WireImplementsExchange` | `ImplementsExchange` |
| `IG4U_System_proofs!SystemIsApplication` | `SystemSpec => Spec`, the application's |
| `!SystemKeepsInterlock` | `SystemSpec` implies `RefinesInterlock`, `NoAutomaticRecovery`, `AdmittedStateHolds`, `OwnArmingIsTimed` |
| `!SystemTypes` | `SystemTypeOK` |
| `!SystemImplementsLicence` | `BurnsAreLicensed` |
| `!LostBurnIsSafe` | `UnreportedBurnStaysSafe` |

Assumptions. `ConfigAssumption`: the timeout and the wrap points are positive, and the
word without faults is a fault word. `FormatAssumption`: the sync bytes are bytes and the
payload limit fits the 16-bit length field. `HalAssumption`: sizes are naturals, the flush
reads at least one byte at a time, traffic consists of bytes. `CodecAssumption`: ids, payloads, what damage adds and what is read behind a frame are bytes. `WireAssumption`: a payload
holds no more log entries than the array, counts and marks are numbers. `SystemAssumption`: the pipe has room for a message. The round-trip theorem
assumes that the checksum has 16 bits (`ChecksumIs16Bit`, the code's `uint16_t`) and nothing else of it, the damage theorem that it is the code's
(`ChecksumIsCRC16`, which `MC_Codec` meets; `CRC16In` shows that it implies the other); nothing is assumed of
the sizes of buffer and payload relative to each other, or of what is on the line.

Argument for the application. `IInv` is `TypeOK /\ AdmittedStateHolds`, and it is inductive. `TypeOK` alone is
inductive; the other properties need the second part, because the step after a wire call
changes the state without looking at it: that a firing ends in a closed interlock rather
than in ARMED, and that a timeout leaves ARMED and not SAFE, is only true because
nothing between the two halves of a handler moved the state. The proofs have one lemma per
group of actions (start and clock, handlers up to the call, handlers after it), and the refinement
maps `Phase` from `Running` and `CurrentState`; every step is shown to be a step of the interlock or a stutter.

Argument for the receiver. `IInv` is `TypeOK /\ Framed`. `Framed` says what is in the buffer at each
read: before the realignment between two and eight bytes that begin at the first sync
word, before the payload at least nine whose length field is within both limits, and after
a success exactly the announced bytes. The three safety properties are consequences of
it. None of them is inductive alone: that a success is decodable depends on the length check made
two steps earlier, and alignment across the second read depends on the first.
A few lemmas on `SubSeq` and concatenation carry the byte-level facts.

The round trip's argument is a lemma on the bytes of a frame: where the length, the payload and the checksum
lie after three concatenations, that what stands behind a frame moves none of it (`AheadOK`), and that two bytes carry a 16-bit number.

Argument for the checksum. The invariant of the two loops (in `LoopsDivide`) says that after t shifts the register, moved up to the bits
not read yet, and the dividend differ by the generator times the ones shifted out so far; `LoadingAdds` and `ShiftDivides` are its two steps, a byte
taken in and a bit shifted out. The prover cannot take an induction theorem with a predicate as parameter, so `Induction` is stated on the set of the
numbers that have the property, and derived from the library's fact that the order of the naturals is well founded. From the division follows the rest: two
messages with one checksum differ by a multiple of the generator (`LoopsDivide` for both), a multiple other than zero reaches over at least 17 positions
(`MultiplesAreLong`: its highest and its lowest term come from the ends of the generator and nothing cancels them), and damage to two neighbouring bytes reaches over 16.
In `DamageIsFound` what `DecodeTM` accepts cannot announce more than was read, and the property's first exception is that it announces another length within it, so the checksum is looked for where it was put. Damage
to the covered bytes alone is then a matter of `DamageChangesTheChecksum`, damage to the checksum alone one of the comparison, and the pair across
their border is the second exception of section 3. Small instances can mislead here: with payloads this short, no damage to the length happens to pass.

Argument for the exchanges. `TypeOK` is inductive; it contains the agreement of `stage`, `call` and `ret`, without which the others are not. `NoRefusalAsData`
needs that an answer is only kept with its length test: the lemma `DefaultIsShort` says that what passes the test of a data call is longer than a default
response, and that MAIN_FIRE's first reply, which has no test, does not end the call. The refinement to `IG4U_Exchange` is the identity on `call`, `ret` and `burning`:
a telecommand that is carried out, refused or lost is a `Send`, and the first reply of MAIN_FIRE a stutter.

Argument for the system. Each step projects to a step of the application or a stutter (`SystemStepIsAppStep`), so the theorems of `IG4U_App_proofs`, the inductive
invariant among them, hold in it. The proof of `LostBurnIsSafe` uses that invariant: a failed firing ends in SAFE only because nothing moved the state while
it was awaited, and only a handler that is the ground's doing can move it after that.

`SystemImplementsLicence` goes over the steps once more. It needs that a call under way belongs to the handler that is blocked (`SystemTypeOK`), else a telecommand might go out
under a licence that was not claimed; of the application it needs that nothing runs before start-up, so that a start drops no claimed licence.
Its lemmas say who may do what: only a fire handler changes what fires (`OnlyFireHandlersFire`), only out of ARMED (`OnlyArmedFires`), and its end spends the licence (`ReturnsSpend`).

Only model-checked: the liveness properties `ArmedWindowCloses` (in the application and in the system), `RecvReturns` and `AbortIsServed`, because fairness and
`ENABLED` are outside what the prover handles, and the violations. Every invariant and action property of a passing run is proved.

## 5. Not modelled

* Payload values: pressures, temperatures, durations and result codes are copied, never decided on (the pressure test of `ig4u_cmds.c:583` only sends an event). With them go the
  16- and 32-bit conversions of `ig4u_endian.h` other than those of the length and checksum fields.
* The unit's own states. Its firing is modelled, because handlers and telecommands start and stop it; whether the unit is armed is not, since nothing in the code
  asks for it but the status report, whose mode byte may already be anything.
* Telecommands echoed on the line: RS-422 is full duplex, and frames come from the unit only. (`DecodeTM` would not tell one from a reply.)
* A sync word that occurs inside a payload, and damage to a length field, in `IG4U_Wire`: `IG4U_Hal` and `IG4U_Codec` have them.
* The byte-level composition of `IG4U_Wire` with `IG4U_Hal`: its state space is far beyond TLC's reach; the frame-level receiver is a translation of the same code.
* Event text, performance markers, message layout, build files, and `comm_test.c`, which is not built.
