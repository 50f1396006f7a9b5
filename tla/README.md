# A TLA+ model of stcbsl

`stcbsl` flashes STC89 microcontrollers over a serial line. The chip runs its
boot loader only after a cold power-on, answers each request with one frame,
changes its baud rate in the middle of the conversation, and cannot be read
back. So everything the tool may claim about a flash rests on the order of its
requests, on what it accepts as an answer and on what it says when something
goes wrong. This directory models those parts in TLA+, checks them with TLC and
proves with TLAPS, for all values of the constants, every safety property that
the passing runs check: of the frame codec and the receiver, the planner, the
handshake, the session state machine, the driver that walks it against a chip,
the HEX reader and the command line.

Line numbers refer to the sources under `src/`.

## 1. Inventory

| Component | State it keeps | Operations | What makes it correct |
|---|---|---|---|
| Frame codec (`frame.rs` 30-185) | none | `encode`, `decode`, `checksum`, `is_echo_of` | decode inverts encode and accepts nothing else; one damaged byte is an error |
| Receiver (`frame.rs` 238-341) | buffer, discarded bytes | `feed`, `next_frame` (with `hunt`), `take_discarded`, `pending` | finds exactly the frames a left-to-right scan finds, whatever the chunking; each byte is delivered or reported once; terminates |
| STC89 family (`protocol/stc89.rs`, `protocol/mod.rs`) | none | `is_status_frame`, `parse_status`, `timer_reload`, `plan`, the frame builders | a plan fills just what it erases, retunes as the chip does, echoes only the option byte it read, ends with the run step |
| Session (`session.rs`) | steps, cursor, `awaiting`, `writes_started`, `writes_finished` | `next_action`, `on_reply`, `flash_is_indeterminate`, `is_finished` | stop and wait; an answer counts only if it passes its step's test; "indeterminate" is exact |
| Driver, run (`driver.rs` 229-333) | receiver, deadline, place in the loop | `run`, `wrap` | returns; its report agrees with the flash; no request is cut or sent at the wrong rate |
| Driver, handshake (`driver.rs` 151-227) | receiver, pulse and byte timers, noise count | `handshake` | pulses keep their cadence and stay out of a packet under way; the first status packet decides; it returns in time |
| Serial transport (`transport.rs`) | the port; the adapter's two queues and its rate | `read`, `write_all`, `flush`, `set_baud`, `drain` | `drain` returns when the wire is empty; a retune keeps what has arrived |
| Intel HEX reader (`ihex.rs`) | base, memory with gaps, lowest address | `parse` | the image is what the sound records say, or the file is refused |
| Command line (`bin/stcbsl.rs`) | the arguments, then the command's place | `parse_args`, `run`, `load_image`, `cmd_session`, `cmd_explain` | the job run is the one asked for; the exit status tells what became of it |
| The chip's boot loader and the line (external) | rate, committed or not, flash; bytes under way | hears a request, answers it | what the code takes it to be (comments of `session.rs` 78-88, `driver.rs` 262-280, `stc89.rs` 87-110) |
| rxprobe, `lib.rs`, tests | none | | not modelled (section 6) |

How they interact. Everything is calls in one thread. The command line reads the
image (`ihex`), opens the port (`transport`), and calls `handshake`, `plan` and
`run` one after another. `handshake` and `run` each own a `Receiver` that they
feed with what the port reads. `run` asks the `Session` what to do next, does it
on the port and passes the reply back. The only concurrency is outside: between
any two calls the line moves bytes, the chip carries out requests and time
passes.

What is hard in it:

* Host and chip change their rate separately, each on evidence that may be lost.
* A frame arrives in pieces, between noise, and behind headers that are none.
* Nothing says which request a reply belongs to; stop and wait has to.
* An error reported by the host does not stop a request already on its way.
* The deadline and a late answer race; so do the pulses and the status packet.
* A block gone wrong shows in one byte of its acknowledgement and nowhere else.

`PROJECT.json` lists each hazard at its line with the properties about it.

## 2. Modules

| Module | Models | Remarks |
|---|---|---|
| `Frame` | the codec | pure operators |
| `Receiver` | `Receiver` of `frame.rs` | bytes, any chunking |
| `Steps`, `Stc89` | command bytes and the shape of a step; the family's arithmetic, frames, status packet and `plan` | pure operators, sizes as parameters |
| `Planner` | from the status packet to the plan | the properties say what a plan must be |
| `Handshake` | `handshake`, over `Receiver` | in ticks; time passes in the two calls that block |
| `Session` | session | any caller, any order |
| `Bsl` | the queues, the line and the chip | external |
| `Driver` | `run` and `wrap`, over `Session` and `Bsl` | one action per call |
| `PlanShape`, `DriverPlans` | what the plans of `Stc89::plan` are like; `Driver` with plans like that | assumed in the one, stated in the other |
| `FlashPromise` | what a user is promised about the flash | abstract; `Driver` refines it |
| `Ihex` | `parse` of the HEX reader | one action per kind of record |
| `Flasher` | `parse_args`, the commands and the exit status | its run is a `FlashPromise` |
| `FrameProofs`, `SessionProofs`, `PlannerProofs`, `HandshakeProofs`, `IhexProofs`, `DriverProofs`, `FlashProofs`, `FlasherProofs` | - | theorems; `FrameProofs` is about `FrameLine` and `Receiver`, `FlashProofs` about `Driver` with the plans of `DriverPlans` |
| `MCFrame`, `MCReceiver`, `MCFrameLayer`, `MCPlanner`, `MCHandshake`, `MCSession`, `MCDriver`, `MCDriverPlans`, `MCIhex`, `MCFlasher` | - | instances for TLC |

How state and actions correspond to the code:

**Receiver.** `buf` and `discarded` are its fields; `stream` and `fed` are the
line. `Feed`, `NextFrame` and `TakeDiscarded` are the three methods. The loops of
`hunt` and `next_frame` drop one byte at a time and look again, so together they
stop at the first byte that may not be dropped (`HuntOffset`).

**Planner.** `Identify` is `is_status_frame` and `parse_status`, `MakePlan` is
`plan` with all its refusals. Sizes are parameters, which must keep the ratios
the code relies on (`SizesAssumption`). The status packets are any frames, the
jobs and rates any of their types, but a handshake at rate 0
(`StatusesAssumption`, `JobsAssumption`, `OptionsAssumption`).

**Handshake.** `now` counts ticks since the call. Only the write of a pulse and
the read of the port take time; each takes at most `PulseTime` and
`ReadPoll + Lateness`, so `since`, the moment the call in progress was made, is
part of the state. The line carries chunks of bytes (`Scripts`). A chunk that
`flows` continues the one before it and comes within `MaxGap`, which is shorter
than `PartialStall`: that is what a frame on its way is. The receiver is module
`Receiver` itself, down to the bytes; `is_status_frame` and `parse_status` come
in as parameters, since the driver is generic in its family, and `MCHandshake`
gives them those of `Stc89`.

**Session.** The fields are those of the struct. `NextAction` and `OnReply` are
its two calls, each a disjunct per outcome; `Verdict` makes the tests of
`on_reply` in their order. `sent` and `heard` are history.

**Driver.** `pc` is where `run` stands between two calls on the wire. The
receiver is reduced to items: a frame, noise, a bad run, a fluke header that
claims what follows (`Held`, `IsReply`, `IsBad`); `Receiver` shows that this is
what it does with bytes. `Expire` is the deadline, which is looked at only when
there is no frame (`LookFindsNothing`). `IoFails` and `FlushFails` are the `?` of
every call on the wire; `flush` can fail after the frame was handed over. A
retune with bytes still in the output queue cuts the frame (`cut`), here and on
the line: what part of a frame went out the chip cannot read.

Assumptions name what `run` takes for granted. Only the last step goes unanswered
(`RunPlansAssumption`). No step takes a frame left in the queue by the handshake
for its reply, since that is a status packet, and the queue has room for what is
left (`LeftoversAssumption`). The frames
the chip answers with are among `Replies`, the domain of `on_reply` in `Session`
(`AnswersAssumption`). `DriverPlans` adds what the plans of `Stc89::plan` are like,
in the terms of `PlanShape`: the rates change around the two baud steps and
nowhere else (`SetsRates`), the link tests come right before the erase
(`ProvesLineFirst`), and each write step has a block of its own, erased before
and not after (`FillsOwnBlocks`).

**Ihex.** A line is blank, malformed, or the bytes its digits stand for; what the
digits look like is left out. `LineFault` is why `parse` refuses a line, test by
test in the order of the code. What a file *says* is defined without the reader:
`BaseOf(i)` is the base set by the last base record before line `i`, and `Says`
the byte of the last record that covers an address.

**Flasher.** A command line is a sequence of words. Which of them are numbers,
which begin with a dash and which name a sound HEX file are parameters; what each
option accepts of them is `Takes`. Command lines are strings, the options begin
with a dash, and the mark for "no value" is no number (`FlasherAssumption`).
`ExplainShowsTheWrites` compares what `explain` printed with the write steps of
`FlashPlan`, the plan a flash of the same image would run. `RunPlan` is a step of `FlashPromise`, the
promise that `Driver` keeps, and the handshake is its outcome. `Aftermath` is a
request on the wire that the chip carries out after the process is gone.
`PrintFails` is the panic of `println!` when standard output is closed; it can
strike wherever the code prints.

**The abstract specification.** `FlashPromise` knows only whether there is an
image to write, what the flash holds of it (`blank`, `partial`, `complete`) and
what the user was told. "ok" is said only over a complete image, a plain error
never over part of one, and no block goes in after either. "indeterminate" is owed
in the window of `session.rs` 314-325, from the first write block to the last
acknowledgement; a plain error over a complete image is allowed, since that is what
`run` reports of a failure after that window (finding `driver_abort`). `KeepsThePromise`
says that `Driver` implements it, with `content` computed from the flash and
`told` from the report. A chip that is still programming after run() returned
makes `ProgramSome` steps then, too; the promise allows them only after
"indeterminate". `RunImplementsSession` is a second refinement: with its own
variables hidden, `run` is a caller that `Session` allows.

## 3. Runs

| Run | Shows | Instance |
|---|---|---|
| `frame_layer` | decode inverts encode and one damaged byte is always caught; what the receiver hands out is what a left-to-right reading of the bytes finds, under every chunking | the line and the receiver share no variable, so a behaviour exercises one of them: payloads of up to 2 bytes over 4 values, up to 2 bytes altered, lost or repeated; or two of 16 kinds of segment in any order and a good acknowledgement, `MaxLenField` = 14 |
| `receiver_stranded` | finding | one byte, one segment, one acknowledgement |
| `planner` | what every plan must be, and that every job that fits is planned | 16 bytes of flash; 7 measured words on both sides of the band, a known and an unknown chip, broken packets; images of 0 to 17 bytes, 1016 and 1017; 7 rates |
| `handshake` | cadence, pulses out of a packet, outcome, and that the call returns | 60-byte status packets in three chunks behind 11 kinds of junk, spoilt packets, flukes, no packet; period 2, stall 5, poll 1, pulse 1, lateness 1, gap 4, wait 12 ticks |
| `session` | session called in any order | 5 jobs on 8 bytes of flash and their plans without the run step; all the right replies and the near misses |
| `session_erase_reply` | finding | as `session` |
| `driver` | the whole, safety and termination | 4 blocks of 1 byte, 2 link tests, a stale status packet or none, 2 faults, disturbances up to a queue of 2, I/O failures everywhere |
| `driver_abort` | finding | as `driver`, on a line and a chip without faults; only the deadline may pass early |
| `driver_noise` | completion under noise | no faults; 4 link tests; noise and bad frames up to a queue of 3 |
| `ihex` | the image against what the records say | files of up to 3 lines, and of 3 lines and an end record, of 20 kinds: overlaps, gaps, moved bases, empty records, both sides of the limit, every fault; limit 40 |
| `flasher` | job, exit status, `explain`; every command line ends | all command lines of up to 3 words out of 15, with and without a port before them, longer ones that give options their values; images that fit and do not; three status packets; standard output may close |
| `flasher_pipe` | finding | as `flasher` |

Why the bounds are enough. What the receiver does depends on its first five
bytes and, after a complete header, on one run of bytes; two segments before the
final ack put every kind of junk in front of, behind and inside every other, and
`MaxLenField` = 14 leaves room for a frame inside a frame and for a fluke that
swallows the next one. The
planner's sizes keep the ratios (two write blocks to an erase block, two erase
blocks to a granule), its images cover each remainder, and 1016/1017 bytes are
the two sides of the one-byte count. In the driver two faults allow one to hide
another (an answer lost and power lost, two blocks bad), four blocks are two
granules, and `MaxQueue` = 2 allows junk on both sides of a frame; only
disturbances are limited by it, and noise may go on for ever. The
handshake's ticks keep the order of the real times (poll and pulse below the
period, the period below the stall, gap below stall, several stalls in the wait),
and `HandshakeProofs` covers all other times. A gap needs one data record and
its correction a second; an address limit of 40 can be met exactly and passed by
one. Two plain words, an option and its value are the most that one decision of
`parse_args` looks at.

`CHECK_DEADLOCK FALSE` is said where the modelled thing really stops: the line
of `frame_layer` after its last fault, a plan once made, a handshake, a parse or `run` once
returned, a process once it has exited.

Fairness. `FairRunSpec` is weak fairness of the host's thread (one thread of a
running process, whose calls return), of the deadline passing (a clock), and of
the line shifting out what was written. Nothing is assumed of the chip, and
`RunReturns` holds over a dead one. `IoFails` and the disturbances are never
forced. `LiveChipSpec` adds that the chip answers what it heard, and
`driver_noise` assumes in addition what its constants say: deadlines generous
enough not to pass while an answer is on its way, the echo of a baud frame after
the host has switched (the ~940 ms trial against a 100 ms settle), no lost
bytes, and no fluke headers. The last one is needed: a fluke header can hold
back an answer until the step times out.
`FairHsSpec` is the same for the handshake: its thread runs and its calls return
(`Host`), and the clock goes on (`Tick \/ Arrive`, since an overdue chunk holds
time until it has come). `FairCliSpec` assumes that the process runs, and that
`run` returns, which is `RunReturns` of `driver`.

## 4. Findings

Four places where a comment says more than the code does, each a run:

* `frame.rs` 336: a header with a plausible length is trusted until that much has
  arrived, so `next_frame` returns `None` over a complete frame (245-247, 279).
* `stc89.rs` 403: the erase reply's chip id is not compared (87-90).
* `driver.rs` 328: an abort is called indeterminate only up to the last write
  acknowledgement. One in the options or the run step after it is reported as a
  plain error, while `driver.rs` 13-14, 103 and the README, 144-146, speak of any
  abort after the first write block. The flash is complete then (`KeepsThePromise`),
  and `session.rs` 314-325 describes just this window.
* `stcbsl.rs` 397: progress is printed with `println!`, which panics when the
  reader of a pipe has gone. The process then ends between two write blocks and
  nothing calls the flash indeterminate (`driver.rs` 13-14). With `--quiet` it
  cannot happen in the middle (`ExitTellsTheTruth`).

## 5. Proofs

`SessionProofs` proves, for every non-empty set of plans whose steps have a
known phase and expectation and whose write steps want a reply
(`PlansAssumption`), and every set of frames as replies (`RepliesAssumption`):

* `TypeCorrect`: `[]TypeOK`
* `StopsAndWaits`: `[]StopAndWait`
* `IndeterminateIsExact`: `[]IndeterminateExact`
* `TakesNothingBack`: `NothingIsTakenBack`, an action property
* `FinishedIsVerified`: `[]FinishedMeansVerified`

The two flags do not say which steps were handed out and answered, so none of
these is inductive. `CursorInv` ties flags and histories to the cursor: the
steps sent are the first `at`, or `at + 1` while a reply is awaited; the steps
answered are those behind the cursor that want a reply; `writes_started` means a
write step was sent, `writes_finished` that the last one is behind the cursor.
`InitInv` and `NextInv` show `TypeOK /\ CursorInv` inductive, one step per
action. `IndeterminateExact` then needs that a plan with a write step has a last
one (`LastWriteExists`, by well-foundedness of `<` on the distance from the
end). `FinishedIsVerified` adds `RepliesPassed`: what is kept in `heard` passed
its step's `Verdict`.

`FrameProofs` is about the codec and the receiver, for all frames, all byte
streams, all chunkings and every length limit that fits a `u16` and admits a
frame (`MaxLenFieldAssumption`):

* `RoundTrip`, `OnlyEncodings`: `decode` undoes `encode`, and what it accepts are
  encodings; payloads so long that `LEN` wraps included
* `DetectsOneFault` (`[]OneFaultIsDetected`), `AcceptsEncodings`
  (`[]AcceptsOnlyEncodings`)
* `KeepsTheOrder` (`[]NothingReordered`), `HoldsLittle`
  (`[]HoldsOnlyAnUnfinishedFrame`), `CallsAdvance` (`EveryCallAdvances`)
* `DeliversFrames` (`[]DeliversWhatWasSent`), `AccountsForNoise`
  (`[]AccountsForEveryByte`)

`Checksum` and `Reading` are recursive functions, and the induction theorems of
the library are out of reach, since they take an operator. But a recursive
function is the `CHOOSE` of a function that satisfies its equation. So
`ChecksumUnfolds` and `ScanExists` first show that there is one, by induction over
how far it is defined, and then everything else is induction over sets of numbers
(`AllNaturals`, from the well-foundedness of `<`). For the checksum that gives
`InsertedSum`: a byte put in anywhere adds itself to the sum. A lost byte is the
same read backwards, a repeated one is put in beside itself and an altered one is
one out and one in, so each fault changes the sum, the length, or the frame of
magic and terminator around them (`AlteredIsUnsound` and its neighbours).

`ReceiverInv` says that the buffer is the unread end of what was fed, that once
`next_frame` asked for more nothing can be made of it (`Settled`), and that
frames and noise so far are those of the reading of the used-up bytes
(`Told`). The reading looks ahead over the whole run, the receiver only over
what has arrived. What relates them is that a reading may stop wherever no frame
found so far reaches beyond (`PrefixReads`), and it can then be continued
(`ToldNoise`, `ToldFrame`). `HuntStops` and `NextFrameLeaves` say what a call leaves
in the buffer, `NextFrameReads` what it tells of the bytes it uses up.

`PlannerProofs` proves every property of the `planner` run for all frames as
status packets, all images, rates and jobs, and all sizes that keep the ratios of
`SizesAssumption`: `WritesFill`, `ErasesEnoughAndNoMore`, `OptionsEchoed`,
`EndsWithRun`, `NearestReload`, `PlansWhatFits`, `RatesFollow`. `PlannerInv` says
that the plan in hand is `Plan` of what the status packet says; the rest is about
`Plan`. It puts a plan together from six sequences, so `Layout`, `Roles` and
`Phased` first settle which step stands where. The arithmetic is in `Granules`
(the erase rounds the image up by less than a granule, and its count fits a
byte), `NearestTicks` and `OutOfReach` (the reload is the nearest, and is refused
only beyond the timer's range). `SuitTheDriver` adds that every plan has the
shape `DriverPlans` and `RunPlansAssumption` take for granted, the blocks for
erased regions that fit the flash and two bytes of address: a write carries four
of them, and the chip of `Driver` reads two.

`HandshakeProofs` holds for all times with `MaxGap < PartialStall`, every line
whose flowing chunks do go on with something (`ScriptsAssumption`) and every
protocol family.

* `CadenceKept` (`[]KeepsTheCadence`), `ReturnsOnTime` (`[]ReturnsInTime`): they
  bound the clock by timers that were set in another turn of the loop, so neither
  is inductive. `TimeInv` adds how old the call in progress may be, and that it
  was begun while the last pulse or the last byte still allowed it. That a due pulse
  is passed over only for an unfinished frame needs what the receiver was left with
  (`HeldInv`, and `ReceiverInv` by the refinement below).
* `HsImplementsReceiver`: `HsSpec => Spec` of `Receiver`, so `ReceiverInv` holds
  of the handshake.
* `FirstPacketDecides` (`[]FirstStatusPacketDecides`): `OutcomeInv` follows the
  loop's counters, and that no frame it took is a status packet but the last one;
  `ReceiverInv` turns that into a statement about the bytes.
* `PacketsAreLeftAlone` (`NoPulseIntoAPacket`): `HoldInv` says that the receiver
  has never used up the first byte of what is under way, so its buffer is not
  empty; `LineInv` says by when the next chunk is due, and with `TimeInv` that is
  before the stall time is over. Both together are `MidFrame`.

`IhexProofs` holds for all files and every address limit, for the whole parse:
`IhexTypeCorrect`, `ImageIsRight` (`[]ImageIsWhatTheRecordsSay`) and `OnlySound`
(`[]OnlySoundRecordsCount`). While it reads, the reader knows a base and a
memory, and the properties speak of all records so far. `ReadInv` ties them:
`base = BaseOf(at + 1)`, each byte of the memory is what the records up to `at`
say (`MemInv`), size and lowest address are attained (`ExtentInv`).
`NextBase` and `DataStep` show what one more line does to the meaning of the
records before it.

`DriverProofs` and `FlashProofs` hold for every set of plans,
replies and leftovers under the assumptions of `Driver`, any number of faults
and disturbances, any flash and either drain mode; `FlashProofs` also uses those
of `DriverPlans`. TLC evaluates them over the plans of the `driver` and the
`driver_noise` run. `DriverProofs` has

* `TalksInTurn`: `[]NeverTalksOver`
* `AnsweredIsCarriedOut`: `[]AnsweredMeansCarriedOut`
* `RunImplementsSession`: `RunSpec => Spec` of `Session`
* `RunFinishesVerified`: `[]FinishedMeansVerified`, by that refinement

The heart of `RunInv` is one sentence: of all the items in the chip, in the input
queue and in the receiver, at most one is a frame that some step could take for
its reply (`NoneToCome`, and its negation only while a reply is awaited), and it
is there only once the chip has carried out the step that is waiting
(`HistoryInv`). `QueuesInv` says that the queues are sequences of items, `TxInv`
what is in the output queue, `PlaceInv` what holds at each place of `run`. A
stale status packet is harmless since no step takes it (`Foreign`).

The first part of `FlashProofs` is about the rates: `ErasesOverAProvenLine`
(`[]NeverErasesOnAnUnprovenLine`) and `NothingMisheard` (`[]NothingIsMisheard`,
if `drain` waits for the wire or the settle time covers the frame; otherwise it
is false, which is what the mutant of `DrainAndSettle` shows). Host and chip each
switch on their own, so `LineInv` says how far the chip is by the requests it
has carried out, and `RateInv` at which rate the host stands at each place of
`run`: at the chip's whenever a frame is on its way.

The second is about the flash: `DoneIsProgrammed` (`[]DoneMeansProgrammed`)
and `KeepsPromise`, `run` refining `FlashPromise`. The host never reads the flash,
so `FlashInv` (what each carried out write step left in its block, and that an
answered one is good) is not inductive either: a stale or spoilt frame might
carry the right sum. `TruthInv` follows the frames: all of them, in the chip,
the input queue and the receiver, are `Honest`, that is, none passes for the
answer to the step carried out last unless its block holds its data. It holds
because nothing is on its way to the host while a request is on its way to the
chip. `ReportInv` ties the report to the session's flags, which
`IndeterminateExact` turns into a statement about steps; `ContentFacts` and
`ToldFacts` then give each step of `run` its counterpart in `FlashPromise`: a
block can go wrong after a plain error only if a write step is handed out and
unanswered, and then the error was not plain.

The third is about what `run` keeps: `RunTypeCorrect` (`[]RunTypeOK`). Its bound
on the receiver is two bounds in one. `RoomInv` has the queue one item above
`MaxQueue` at most, and only when nothing more is owed (`MoreToCome`): disturbances
stop at `MaxQueue`, the chip owes one answer at a time, and nothing else comes.
And `run` goes back to reading only when all the receiver has left is what a fluke
header claims. `HostInv` is what the rates and the cursor need.

`FlasherProofs` holds for all command lines, whatever their words stand for, all
images and all status packets, and for a standard output that may close or not.

* `JobIsAskedFor` (`[]TheJobIsTheOneAskedFor`): the property reads the command
  line by itself: a word is a value if an option that takes one stands before it
  and is no value itself, and what counts is the last mention (`SettingSaid`,
  `OptionsSaid`, `PlainAt`). Parser and reading agree after each word (`ParseInv`):
  the next word is no value, and settings and plain words are those of the words so far.
  `IsValue` is a recursive function; `MarksExist` shows that it has its values by
  looking at the shortest beginning of a command line without them, since it would
  get its own from the one before.
* `ExitIsTrue` (`[]ExitTellsTheTruth`): `StageInv` says what each place of the
  command has behind it, `OutcomeInv` how exit status, flash and report go
  together; the run itself is a step of `FlashPromise`, which `Driver` refines.
* `ExplainIsTrue` (`[]ExplainShowsTheWrites`): what is printed comes from the
  image alone (`ShownInv`), the write steps from a plan of six parts. `WritesStand`
  says that they stand together behind the first parts, so that the rank of each
  among the write steps is its place in `WriteSteps` (`WritesOfThePlan`).

Only model-checked: the liveness properties (`RunReturns`, `NoiseAloneDoesNotAbort`,
`HandshakeReturns`, `ProcessExits`), which are beyond the prover, and the four
violations, which are runs of small instances by nature.

## 6. Not modelled

rxprobe, `lib.rs`: a loop that prints what a port receives, and declarations.
`ports`, the banners, formatting and logging: output only, apart from where it
can fail (`Prints`). The macOS baud ioctl, opening and configuring the port,
parity and the drain margin's value: system calls without protocol state; of
`transport.rs` the models keep what its calls do to the queues and to time. The
standalone `SetBaud` action: `next_action` never produces it. The meaning of the
option bits and of the opaque part of the status packet: the code does not look
at them. What closing the port does to bytes still queued (`driver.rs` 281) is
the operating system's; the model leaves the frame on the wire.

## 7. Plan

Done, in this order: `Frame`, `Receiver`, `Steps`, `Stc89`, `Planner`,
`Session` and its proofs, `Bsl`, `FlashPromise`, `Driver`, `Handshake`, `Ihex`,
`Flasher`; then the proofs of `Handshake`, `Ihex` and `Driver`, with those about
the rates, the flash and the room in the queues on top, of `Planner`, of `Frame`
and `Receiver`, of what the handshake makes of the bytes, and of `Flasher`.

Left: the receiver of `Driver` is one of items, and that it does what `Receiver`
does with bytes is argued in section 2 and not yet a theorem.
