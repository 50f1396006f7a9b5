------------------------------ MODULE Handshake ------------------------------
(***************************************************************************)
(* driver::handshake of src/driver.rs: pulse the sync byte on a fixed      *)
(* cadence, read whatever comes into a Receiver, hold the pulses while a   *)
(* frame seems to be arriving, and stop at the first status packet or at   *)
(* the deadline.                                                           *)
(*                                                                         *)
(* Time is the variable now, in ticks since the call started.  It passes   *)
(* only inside the two calls that take any: writing a pulse and reading.   *)
(* The line carries stream in chunks, each up to an offset; a chunk that   *)
(* `flows` goes on with a frame under way and follows within MaxGap of the *)
(* one before it: it must arrive by flow_by.  came and seen count the      *)
(* chunks arrived and read; buf, discarded are the Receiver's.             *)
(***************************************************************************)
EXTENDS Receiver

CONSTANTS
  FamilyIsStatusFrame(_),   \* ProtocolFamily::is_status_frame
  FamilyParseStatus(_),     \* ProtocolFamily::parse_status: a record with a field ok
  PulseEvery,         \* PULSE_EVERY, 30 ms
  PartialStall,       \* PARTIAL_STALL, 400 ms
  ReadPoll,           \* READ_POLL, how long a read blocks when nothing comes
  PulseTime,          \* the most write_all and flush of one byte take
  Lateness,           \* the most a read overruns its timeout or delays its data
  MaxGap,             \* the longest pause inside a frame
  Wait,               \* the wait argument
  Scripts,            \* what the line may carry: bytes, and the chunks they come in
  IoMayFail

ASSUME TimesAssumption ==
  /\ {PulseEvery, PartialStall, ReadPoll} \subseteq Nat \ {0}
  /\ {PulseTime, Lateness, MaxGap, Wait} \subseteq Nat
  /\ MaxGap < PartialStall
  /\ IoMayFail \in BOOLEAN

\* Of the first c bytes of s those from offset a on begin a frame, or what looks
\* like one, that is not complete; no frame before it reaches into it.
Begun(s, a, c) ==
  LET b == SubSeq(s, a + 1, c)
  IN  /\ ~Droppable(b) /\ ~Complete(b)
      /\ \A p \in 1..a : \A n \in FrameSizes(s, p) : p + n <= a + 1

UnderWay(s, c) == \E a \in 0..(c - 1) : Begun(s, a, c)

ASSUME ScriptsAssumption ==
  \A script \in Scripts :
    /\ script.bytes \in Streams
    /\ script.chunks \in Seq([upto : 1..Len(script.bytes), flows : BOOLEAN])
    /\ \A k \in 2..Len(script.chunks) :
         script.chunks[k].flows => UnderWay(script.bytes, script.chunks[k - 1].upto)

VARIABLES
  pc, now, last_pulse, last_byte, noise, outcome,
  since,              \* when the call in progress was made
  chunks, came, flow_by, seen,
  pulsed_at           \* history: when the last pulse was out
host_vars == <<pc, now, last_pulse, last_byte, noise, outcome, since, pulsed_at>>
line_vars == <<chunks, came, flow_by>>
hs_vars   == <<vars, host_vars, line_vars, seen>>

NoOutcome    == [kind |-> "none"]
NoBootloader(n) == [kind |-> "NoBootloader", noise_bytes |-> n]
Parsed(r)    == [kind |-> "parsed", result |-> r]
IoError      == [kind |-> "Io"]

Returned == pc = "returned"
Return(o) == pc' = "returned" /\ outcome' = o

\* What has arrived and was not read (a serial port's input queue).
Waiting == came > seen

-----------------------------------------------------------------------------
HsInit ==
  /\ Init
  /\ \E script \in Scripts : stream = script.bytes /\ chunks = script.chunks
  /\ pc = "tune"
  /\ now = 0
  /\ last_pulse = 0 - PulseEvery
  /\ pulsed_at = 0 - PulseEvery
  /\ last_byte = 0
  /\ since = 0
  /\ noise = 0
  /\ outcome = NoOutcome
  /\ came = 0
  /\ flow_by = 0
  /\ seen = 0

Tune ==
  /\ pc = "tune"
  /\ pc' = "top"
  /\ UNCHANGED <<vars, now, last_pulse, last_byte, noise, outcome, since, pulsed_at, line_vars, seen>>

\* Mutants: the pulses are held for as long as anything is pending; or after any
\* byte, as the driver once did (driver.rs 176-179).
MidFrameForever  == buf # <<>>
MidFrameAnyByte  == seen > 0 /\ now - last_byte < PartialStall
MidFrame == buf # <<>> /\ now - last_byte < PartialStall

Due == now - last_pulse >= PulseEvery

Call(p) == pc' = p /\ since' = now

TopPulses ==
  /\ pc = "top"
  /\ now < Wait
  /\ ~MidFrame /\ Due
  /\ Call("pulse")
  /\ UNCHANGED <<vars, now, last_pulse, last_byte, noise, outcome, pulsed_at, line_vars, seen>>

TopReads ==
  /\ pc = "top"
  /\ now < Wait
  /\ MidFrame \/ ~Due
  /\ Call("read")
  /\ UNCHANGED <<vars, now, last_pulse, last_byte, noise, outcome, pulsed_at, line_vars, seen>>

\* Mutant: the deadline only counts between two frames.
TopGivesUpBetweenFrames ==
  /\ pc = "top"
  /\ now >= Wait
  /\ IF MidFrame THEN Call("read") /\ UNCHANGED outcome
     ELSE Return(NoBootloader(noise)) /\ UNCHANGED since
  /\ UNCHANGED <<vars, now, last_pulse, last_byte, noise, pulsed_at, line_vars, seen>>

TopGivesUp ==
  /\ pc = "top"
  /\ now >= Wait
  /\ Return(NoBootloader(noise))
  /\ UNCHANGED <<vars, now, last_pulse, last_byte, noise, since, pulsed_at, line_vars, seen>>

PulseIsOut ==
  /\ pc = "pulse"
  /\ last_pulse' = now
  /\ pulsed_at' = now
  /\ Call("read")
  /\ UNCHANGED <<vars, now, last_byte, noise, outcome, line_vars, seen>>

\* Receiver::feed of everything that arrived (never more than the 256 bytes of
\* buf in these scripts).
ReadAll ==
  /\ seen' = came
  /\ fed' = chunks[came].upto
  /\ Feed

\* Mutant: last_byte stays where it was.
ReadSomeUntimed ==
  /\ pc = "read"
  /\ Waiting
  /\ ReadAll
  /\ pc' = "drain"
  /\ UNCHANGED <<now, last_pulse, last_byte, noise, outcome, since, pulsed_at, line_vars>>

\* A read returns what is there.
ReadSome ==
  /\ pc = "read"
  /\ Waiting
  /\ ReadAll
  /\ last_byte' = now
  /\ pc' = "drain"
  /\ UNCHANGED <<now, last_pulse, noise, outcome, since, pulsed_at, line_vars>>

\* Mutant: the port is opened without a read timeout.
ReadNothingBlocks == FALSE /\ UNCHANGED hs_vars

\* The timeout of a read is Ok(0).
ReadNothing ==
  /\ pc = "read"
  /\ ~Waiting
  /\ now - since >= ReadPoll
  /\ pc' = "drain"
  /\ UNCHANGED <<vars, now, last_pulse, last_byte, noise, outcome, since, pulsed_at, line_vars, seen>>

Drain ==
  /\ pc = "drain"
  /\ NextFrame
  /\ pc' = "collect"
  /\ UNCHANGED <<now, last_pulse, last_byte, noise, outcome, since, pulsed_at, line_vars, seen>>

IsStatus   == ret = SomeOk /\ FamilyIsStatusFrame(Last(got))
PassedOver == ret.kind = "Err" \/ (ret = SomeOk /\ ~FamilyIsStatusFrame(Last(got)))

\* Mutant: noise is only counted when a frame or an error was found.
CollectOnFramesOnly ==
  /\ pc = "collect"
  /\ TakeDiscarded
  /\ noise' = IF ret = NeedMore THEN noise ELSE noise + Len(discarded)
  /\ \/ /\ ret = NeedMore /\ pc' = "top" /\ UNCHANGED outcome
     \/ /\ PassedOver /\ pc' = "drain" /\ UNCHANGED outcome
     \/ /\ IsStatus /\ Return(Parsed(FamilyParseStatus(Last(got))))
  /\ UNCHANGED <<now, last_pulse, last_byte, since, pulsed_at, line_vars, seen>>

\* take_discarded after every next_frame; then a status packet ends the call,
\* with what parse_status makes of it; anything else is passed over.
Collect ==
  /\ pc = "collect"
  /\ TakeDiscarded
  /\ noise' = noise + Len(discarded)
  /\ \/ /\ ret = NeedMore
        /\ pc' = "top"
        /\ UNCHANGED outcome
     \/ /\ PassedOver
        /\ pc' = "drain"
        /\ UNCHANGED outcome
     \/ /\ IsStatus
        /\ Return(Parsed(FamilyParseStatus(Last(got))))
  /\ UNCHANGED <<now, last_pulse, last_byte, since, pulsed_at, line_vars, seen>>

IoFails ==
  /\ IoMayFail
  /\ pc \in {"tune", "pulse", "read"}
  /\ Return(IoError)
  /\ UNCHANGED <<vars, now, last_pulse, last_byte, noise, since, pulsed_at, line_vars, seen>>

Host == \/ Tune \/ TopPulses \/ TopReads \/ TopGivesUp \/ PulseIsOut
        \/ ReadSome \/ ReadNothing \/ Drain \/ Collect

-----------------------------------------------------------------------------
Flows(k) == k \in 1..Len(chunks) /\ chunks[k].flows

\* Only where time passes: the host does not look at the queue anywhere else.
Arrive ==
  /\ pc \in {"pulse", "read"}
  /\ came < Len(chunks)
  /\ came' = came + 1
  /\ flow_by' = IF Flows(came + 2) THEN now + MaxGap ELSE 0
  /\ UNCHANGED <<vars, host_vars, chunks, seen>>

Tick ==
  /\ \/ pc = "pulse" /\ now - since < PulseTime
     \/ pc = "read" /\ now - since < ReadPoll + Lateness
  /\ Flows(came + 1) => now < flow_by
  /\ now' = now + 1
  /\ UNCHANGED <<vars, pc, last_pulse, last_byte, noise, outcome, since, pulsed_at, line_vars, seen>>

HsNext == Host \/ IoFails \/ Arrive \/ Tick

HsSpec == HsInit /\ [][HsNext]_hs_vars

\* The host's thread runs and its calls return; the clock does not stop.
FairHsSpec == HsSpec /\ WF_hs_vars(Host) /\ WF_hs_vars(Tick \/ Arrive)

-----------------------------------------------------------------------------
ReadMost == ReadPoll + Lateness

\* The beginning of a frame, as far as bytes can tell, and not all of it: an empty
\* buffer is none, and neither is a header whose claim has been met.
Unfinished(b) == b # <<>> /\ ~Droppable(b) /\ ~Complete(b)

\* The cadence (driver.rs 170-185).  No pulse starts sooner than PulseEvery after
\* the last one was out: a barrage is read as a fresh sync.  And a boot loader
\* that wakes at any moment hears one: unless bytes arrived within the stall
\* time, a pulse is never later than its period and one turn of the loop.  Nor do
\* bytes as such put it off, however they trickle in: a pulse that is due is passed
\* over only for what begins a frame, and only until the bytes its header claims
\* are there.
KeepsTheCadence ==
  /\ pc = "pulse" => since - pulsed_at >= PulseEvery
  /\ ~Returned =>
       \/ now <= pulsed_at + PulseEvery + ReadMost + PulseTime
       \/ now <= last_byte + PartialStall + ReadMost + PulseTime
  /\ pc = "read" /\ since - pulsed_at >= PulseEvery => Unfinished(buf)

\* The call overruns its wait by at most one pulse and one read.
ReturnsInTime == now <= Wait + PulseTime + ReadMost

\* A frame whose first chunk was read and whose rest is on its way is not
\* pulsed into, whatever noise, broken frames or fluke headers came before it
\* (driver.rs 172-183).
NoPulseIntoAPacket ==
  [][TopPulses => ~(seen > 0 /\ Flows(seen + 1))]_hs_vars

StatusesAt(frames) == {k \in DOMAIN frames : FamilyIsStatusFrame(frames[k])}

\* The outcome is decided by the first status packet among the bytes used, the
\* last frame taken, and it is what parse_status makes of it: a packet that looks like one and does not
\* parse ends the call (driver.rs 208-216).  Without one the call goes on to its
\* deadline, and the noise it then reports is every byte that was not part of a
\* frame, once (driver.rs 199-203, 219-226).
FirstStatusPacketDecides ==
  outcome.kind \in {"parsed", "NoBootloader"} =>
    LET r == Reading(Consumed)
        s == StatusesAt(r.frames)
    IN  /\ outcome.kind = "parsed" =>
             s = {Len(r.frames)} /\ outcome = Parsed(FamilyParseStatus(Last(r.frames)))
        /\ outcome.kind = "NoBootloader" => s = {} /\ outcome.noise_bytes = Len(r.noise)

\* The call returns, on a line that stays silent or never stops.
HandshakeReturns == <>Returned
=============================================================================
