--------------------------------- MODULE Bsl ---------------------------------
(***************************************************************************)
(* The other end and what lies between: the adapter's output and input     *)
(* queues, the serial line and the chip's boot loader.  None of it is code *)
(* of the repository; it is what the repository's code takes the chip and  *)
(* the line to be (the comments of src/session.rs 78-88, src/driver.rs     *)
(* 262-280, src/protocol/stc89.rs 87-110 and src/transport.rs 134-170).    *)
(*                                                                         *)
(* The line carries whole items: a frame, a stretch of noise, a run that   *)
(* looks like a frame and fails its checks ("bad"), or a fluke header that *)
(* claims the next FlukeSpan items ("fluke"); module Receiver is about the *)
(* bytes they are made of.                                                 *)
(***************************************************************************)
EXTENDS Steps, FiniteSets

CONSTANTS
  HandshakeBaud, TransferBaud,
  LinksWanted,        \* link tests that prove the new rate
  EraseUnit,          \* write blocks per unit of the erase count
  FlashBlocks,        \* write blocks of code flash
  BytesPerBlock,
  Disturbances,       \* what may arrive that no one sent
  MaxQueue,           \* a disturbance only joins an input queue shorter than this
  MaxFaults,          \* lost or garbled answers, bad programming, loss of power
  FlukeSpan,
  EchoWaitsForHost    \* the chip's rate trial (~940 ms) outlasts the host's settle time

ASSUME BslAssumption ==
  /\ HandshakeBaud # TransferBaud
  /\ LinksWanted \in Nat /\ EraseUnit \in Nat \ {0} /\ FlashBlocks \in Nat \ {0} /\ BytesPerBlock \in Nat \ {0}
  /\ Disturbances \subseteq {"noise", "bad", "fluke"}
  /\ MaxQueue \in Nat /\ MaxFaults \in Nat /\ FlukeSpan \in Nat
  /\ EchoWaitsForHost \in BOOLEAN

VARIABLES
  line_baud,   \* the rate the host's port is set to
  tx,          \* written by the host, not yet off the wire
  inq,         \* arrived, not yet read by the host
  mode,        \* of the chip: in its boot loader, in the application, without power
  chip_baud, committed, answer, links, flash, programmed,
  faults,
  executed,    \* history: the steps whose frames the chip carried out, in order
  misheard,    \* history: a frame reached the boot loader unreadable
  hasty        \* history: an erase was carried out before the line was proved

line_vars == <<line_baud, tx, inq>>
chip_vars == <<mode, chip_baud, committed, answer, links, flash, programmed>>
bsl_vars  == <<line_vars, chip_vars, faults, executed, misheard, hasty>>

FrameItem(f) == [kind |-> "frame", frame |-> f]
Junk(kind)   == [kind |-> kind]

NoAnswer == <<>>
Old      == <<>>                                  \* whatever was there before
Erased   == [j \in 1..BytesPerBlock |-> 255]
Garbage  == [j \in 1..(BytesPerBlock + 1) |-> 0] \* no write leaves this

EchoOf(f) == McuFrame(f.cmd, f.payload)
EraseReply == McuFrame(ReplyAck, <<240, 2, 196, 43, 1, 131, 116>>)

BlockOf(f) == AddrOf(f) \div BytesPerBlock

BslInit ==
  /\ line_baud = HandshakeBaud
  /\ tx = <<>>
  /\ mode = "bsl"
  /\ chip_baud = HandshakeBaud
  /\ committed = FALSE
  /\ answer = NoAnswer
  /\ links = 0
  /\ flash = [b \in 0..(FlashBlocks - 1) |-> Old]
  /\ programmed = {}
  /\ faults = 0
  /\ executed = <<>>
  /\ misheard = FALSE
  /\ hasty = FALSE

-----------------------------------------------------------------------------
(* The chip carries out one request and prepares its answer.               *)

BaudRequest(f) ==
  /\ f.cmd \in {CmdBaudProbe, CmdBaudCommit}
  /\ chip_baud' = TransferBaud
  /\ committed' = (f.cmd = CmdBaudCommit)
  /\ answer' = <<EchoOf(f)>>
  /\ UNCHANGED <<mode, links, flash, programmed, hasty, faults>>

LinkTest(f) ==
  /\ f.cmd = CmdLinkTest
  /\ links' = IF committed THEN links + 1 ELSE links
  /\ answer' = <<McuFrame(ReplyAck, <<>>)>>
  /\ UNCHANGED <<mode, chip_baud, committed, flash, programmed, hasty, faults>>

Erase(f) ==
  /\ f.cmd = CmdErase
  /\ flash' = [b \in DOMAIN flash |-> IF b < f.payload[1] * EraseUnit THEN Erased ELSE flash[b]]
  /\ programmed' = {}
  /\ hasty' = (hasty \/ links < LinksWanted)
  /\ answer' = <<EraseReply>>
  /\ UNCHANGED <<mode, chip_baud, committed, links, faults>>

\* Flash that was not erased takes no clean data; a block may also go wrong.
Program(f) ==
  /\ f.cmd = CmdWrite
  /\ \/ /\ flash' = [flash EXCEPT ![BlockOf(f)] = IF @ = Erased THEN DataOf(f) ELSE Garbage]
        /\ answer' = <<McuFrame(ReplyAck, <<Checksum(DataOf(f))>>)>>
        /\ faults' = faults
     \/ /\ faults < MaxFaults
        /\ faults' = faults + 1
        /\ flash' = [flash EXCEPT ![BlockOf(f)] = Garbage]
        /\ answer' = <<McuFrame(ReplyAck, <<(Checksum(DataOf(f)) + 1) % 256>>)>>
  /\ programmed' = programmed \cup {BlockOf(f)}
  /\ UNCHANGED <<mode, chip_baud, committed, links, hasty>>

SetOptions(f) ==
  /\ f.cmd = CmdOptions
  /\ answer' = <<EchoOf(f)>>
  /\ UNCHANGED <<mode, chip_baud, committed, links, flash, programmed, hasty, faults>>

RunApplication(f) ==
  /\ f.cmd = CmdRun
  /\ mode' = "app"
  /\ UNCHANGED <<chip_baud, committed, answer, links, flash, programmed, hasty, faults>>

\* The next frame leaves the wire; the chip carries it out if it can read it.
Hear ==
  /\ tx # <<>>
  /\ tx' = Tail(tx)
  /\ LET t == Head(tx)
         readable == mode = "bsl" /\ answer = NoAnswer /\ t.baud = chip_baud /\ ~t.cut
     IN  \/ /\ readable
            /\ \/ BaudRequest(t.frame)
               \/ LinkTest(t.frame)
               \/ Erase(t.frame)
               \/ Program(t.frame)
               \/ SetOptions(t.frame)
               \/ RunApplication(t.frame)
            /\ executed' = Append(executed, t.step)
            /\ UNCHANGED misheard
         \/ /\ ~readable
            /\ misheard' = (misheard \/ mode = "bsl")
            /\ UNCHANGED <<chip_vars, faults, executed, hasty>>
  /\ UNCHANGED <<line_baud, inq>>

\* Whatever becomes of the answer, an uncommitted chip falls back to the rate it
\* was woken at.
AnswerLeaves ==
  /\ answer # NoAnswer
  /\ answer' = NoAnswer
  /\ chip_baud' = IF committed THEN chip_baud ELSE HandshakeBaud
  /\ UNCHANGED <<line_baud, tx, mode, committed, links, flash, programmed, executed, misheard, hasty>>

Answer ==
  /\ AnswerLeaves
  /\ EchoWaitsForHost => line_baud = chip_baud
  /\ inq' = Append(inq, IF line_baud = chip_baud THEN FrameItem(answer[1]) ELSE Junk("noise"))
  /\ UNCHANGED faults

AnswerSpoilt ==
  /\ AnswerLeaves
  /\ faults < MaxFaults
  /\ faults' = faults + 1
  /\ \/ inq' = inq
     \/ inq' = Append(inq, Junk("bad"))

PowerLoss ==
  /\ faults < MaxFaults
  /\ mode # "off"
  /\ mode' = "off"
  /\ answer' = NoAnswer
  /\ faults' = faults + 1
  /\ UNCHANGED <<line_vars, chip_baud, committed, links, flash, programmed, executed, misheard, hasty>>

Disturb ==
  /\ Len(inq) < MaxQueue
  /\ \E kind \in Disturbances : inq' = Append(inq, Junk(kind))
  /\ UNCHANGED <<line_baud, tx, chip_vars, faults, executed, misheard, hasty>>

BslNext == Hear \/ Answer \/ AnswerSpoilt \/ PowerLoss \/ Disturb
=============================================================================
