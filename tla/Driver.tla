------------------------------- MODULE Driver -------------------------------
(***************************************************************************)
(* driver::run of src/driver.rs: it walks a planned Session over a wire to *)
(* the chip of module Bsl.  One thread; between any two of its calls the   *)
(* line and the chip may move, the deadline may pass, and every call on    *)
(* the wire may fail.                                                      *)
(*                                                                         *)
(* pc is where run() stands: about to ask the session ("next"), about to   *)
(* drop to the send rate ("drop"), to write ("write"), to drain and settle *)
(* ("drain"), to switch ("switch"), to ask the receiver ("look"), to read  *)
(* ("read"), or returned ("done", "failed").  rx is the Receiver, holding  *)
(* the items fed and not yet used.                                         *)
(***************************************************************************)
EXTENDS Session, Bsl, SequencesExt

CONSTANTS
  DrainMode,        \* "TcDrain" or "ComputeWireTime"
  MarginCovers,     \* the settle time is at least the frame's time on the wire
  Generous,         \* a deadline only passes when no answer is on its way
  Leftovers,        \* what the input queue may hold when run() starts
  IoMayFail

ASSUME DriverAssumption ==
  /\ DrainMode \in {"TcDrain", "ComputeWireTime"}
  /\ {MarginCovers, Generous, IoMayFail} \subseteq BOOLEAN

\* Only the last step of a plan, the run step, goes unanswered (stc89.rs 460-473).
ASSUME RunPlansAssumption ==
  \A plan \in Plans : \A i \in 1..Len(plan) : ExpectsReply(plan[i]) \/ i = Len(plan)

\* What is left in the queue are items of the line, no more of them than the queue
\* is bounded by, and no step takes a frame among them for its reply: it is a status
\* packet, which nothing expects.
Foreign(frame) == \A plan \in Plans : \A i \in 1..Len(plan) : Verdict(plan[i], frame) # "Ok"
ASSUME LeftoversAssumption ==
  \A items \in Leftovers :
    /\ Len(items) \in Nat /\ Len(items) <= MaxQueue
    /\ items = [k \in 1..Len(items) |-> items[k]]
    /\ \A k \in 1..Len(items) :
         /\ items[k].kind \in {"noise", "frame", "bad", "fluke"}
         /\ items[k].kind = "frame" => items[k].frame \in Replies /\ Foreign(items[k].frame)

\* Replies holds what this chip answers.
ASSUME AnswersAssumption ==
  /\ {EraseReply, McuFrame(ReplyAck, <<>>)} \subseteq Replies
  /\ \A plan \in Plans : \A i \in 1..Len(plan) :
       LET f == plan[i].frame
       IN  /\ EchoOf(f) \in Replies
           /\ McuFrame(ReplyAck, <<Checksum(DataOf(f))>>) \in Replies
           /\ McuFrame(ReplyAck, <<(Checksum(DataOf(f)) + 1) % 256>>) \in Replies

VARIABLES pc, cur, rx, expired, report
driver_vars == <<pc, cur, rx, expired, report>>
all_vars    == <<vars, driver_vars, bsl_vars>>

NoReport == [kind |-> "none"]
Success  == [kind |-> "ok"]
\* Mutant: only what the session refuses is wrapped.
FailureOfTheSessionOnly(cause) ==
  [kind |-> IF FlashIsIndeterminate /\ cause \in SessionErrors THEN "indeterminate" ELSE "plain",
   cause |-> cause]
\* wrap(): IndeterminateFlash around the error, or the error itself (327-333).
Failure(cause) == [kind |-> IF FlashIsIndeterminate THEN "indeterminate" ELSE "plain",
                   cause |-> cause]

StepInHand == steps[cur]

\* The receiver between two looks: noise is discarded; a fluke header holds back
\* what it claims until that much has arrived, then it is found bad and only its
\* first byte goes (frame.rs 284-341, module Receiver).
Held(items)     == LET n == Cardinality({k \in 1..Len(items) :
                                           \A j \in 1..k : items[j].kind = "noise"})
                   IN  SubSeq(items, n + 1, Len(items))
IsReply(items)  == items # <<>> /\ items[1].kind = "frame"
\* Mutant: the length of a header is trusted.
IsBadTrustingHeader(items) == items # <<>> /\ items[1].kind = "bad"
IsBad(items)    == items # <<>> /\ \/ items[1].kind = "bad"
                                   \/ items[1].kind = "fluke" /\ Len(items) > FlukeSpan

AnswerOnItsWay ==
  \/ tx # <<>>
  \/ answer # NoAnswer
  \/ \E k \in 1..Len(inq) : inq[k].kind = "frame"
  \/ \E k \in 1..Len(rx) : rx[k].kind = "frame"

-----------------------------------------------------------------------------
RunInit ==
  /\ Init
  /\ BslInit
  /\ inq \in Leftovers
  /\ pc = "next"
  /\ cur = 0
  /\ rx = <<>>
  /\ expired = FALSE
  /\ report = NoReport

Return(p, r) == pc' = p /\ report' = r /\ UNCHANGED <<cur, rx, expired>>

Finished ==
  /\ pc = "next"
  /\ Finish
  /\ Return("done", Success)
  /\ UNCHANGED bsl_vars

Begin ==
  /\ pc = "next"
  /\ Send
  /\ cur' = at + 1
  /\ pc' = IF Step.retune_before_send # 0 THEN "drop" ELSE "write"
  /\ UNCHANGED <<rx, expired, report, bsl_vars>>

\* set_baud: bytes still on their way out are finished at the new rate; what is
\* in the input queue stays there.  The receiver is made anew.
SetBaud(baud) ==
  /\ line_baud' = baud
  /\ tx' = [k \in 1..Len(tx) |-> [tx[k] EXCEPT !.cut = TRUE]]
  /\ rx' = <<>>
  /\ UNCHANGED <<inq, chip_vars, faults, executed, misheard, hasty>>

RetuneBefore ==
  /\ pc = "drop"
  /\ SetBaud(StepInHand.retune_before_send)
  /\ pc' = "write"
  /\ UNCHANGED <<vars, cur, expired, report>>

AfterWrite ==
  IF StepInHand.retune_after_send # 0 THEN "drain"
  ELSE IF ExpectsReply(StepInHand) THEN "look" ELSE "next"

Put == /\ tx' = Append(tx, [frame |-> StepInHand.frame, step |-> cur,
                            baud |-> line_baud, cut |-> FALSE])
       /\ UNCHANGED <<line_baud, inq, chip_vars, faults, executed, misheard, hasty>>

\* write_all and flush; a deadline only starts once both, and any retune, are over.
Write ==
  /\ pc = "write"
  /\ Put
  /\ pc' = AfterWrite
  /\ expired' = FALSE
  /\ UNCHANGED <<vars, cur, rx, report>>

FlushFails ==
  /\ IoMayFail
  /\ pc = "write"
  /\ Put
  /\ pc' = "failed"
  /\ report' = Failure("Io")
  /\ UNCHANGED <<vars, cur, rx, expired>>

\* Mutant: the port is switched as soon as the frame was handed to it.
SettleOnly ==
  /\ pc = "drain"
  /\ pc' = "switch"
  /\ UNCHANGED <<vars, cur, rx, expired, report, bsl_vars>>

\* drain() returns when the frame has left the wire; the settle time alone is
\* only as good as its length.
DrainAndSettle ==
  /\ pc = "drain"
  /\ DrainMode = "TcDrain" \/ MarginCovers => tx = <<>>
  /\ pc' = "switch"
  /\ UNCHANGED <<vars, cur, rx, expired, report, bsl_vars>>

RetuneAfter ==
  /\ pc = "switch"
  /\ SetBaud(StepInHand.retune_after_send)
  /\ pc' = IF ExpectsReply(StepInHand) THEN "look" ELSE "next"
  /\ expired' = FALSE
  /\ UNCHANGED <<vars, cur, report>>

\* Any call on the wire fails: write_all, set_baud, drain, read.
IoFails ==
  /\ IoMayFail
  /\ pc \in {"drop", "write", "drain", "switch", "read"}
  /\ Return("failed", Failure("Io"))
  /\ UNCHANGED <<vars, bsl_vars>>

\* next_frame() gave a frame: it is the reply, right or wrong.
LookFindsReply ==
  /\ pc = "look"
  /\ IsReply(Held(rx))
  /\ rx' = Tail(Held(rx))
  /\ LET reply == Held(rx)[1].frame
     IN  \/ /\ Accepted(reply)
            /\ pc' = "next"
            /\ report' = report
         \/ /\ Rejected(reply)
            /\ pc' = "failed"
            /\ report' = Failure(result')
  /\ UNCHANGED <<cur, expired, bsl_vars>>

\* Mutant: a frame that fails its checks ends the session.
LookFindsBadFrameAborts ==
  /\ pc = "look"
  /\ IsBad(Held(rx))
  /\ rx' = Tail(Held(rx))
  /\ pc' = "failed"
  /\ report' = Failure("Frame")
  /\ UNCHANGED <<vars, cur, expired, bsl_vars>>

\* next_frame() gave an error: re-hunt rather than abort.
LookFindsBadFrame ==
  /\ pc = "look"
  /\ IsBad(Held(rx))
  /\ rx' = Tail(Held(rx))
  /\ UNCHANGED <<vars, pc, cur, expired, report, bsl_vars>>

\* Mutants: a timeout sends the frame again; the deadline counts only while
\* nothing at all arrives.
LookFindsNothingResends ==
  /\ pc = "look"
  /\ ~IsReply(Held(rx)) /\ ~IsBad(Held(rx))
  /\ rx' = Held(rx)
  /\ pc' = IF expired THEN "write" ELSE "read"
  /\ UNCHANGED <<vars, cur, expired, report, bsl_vars>>
LookFindsNothingPatient ==
  /\ pc = "look"
  /\ ~IsReply(Held(rx)) /\ ~IsBad(Held(rx))
  /\ rx' = Held(rx)
  /\ \/ /\ expired /\ rx = <<>>
        /\ pc' = "failed"
        /\ report' = Failure("Timeout")
     \/ /\ ~(expired /\ rx = <<>>)
        /\ pc' = "read"
        /\ report' = report
  /\ UNCHANGED <<vars, cur, expired, bsl_vars>>

\* next_frame() gave nothing: only then is the deadline looked at.
LookFindsNothing ==
  /\ pc = "look"
  /\ ~IsReply(Held(rx)) /\ ~IsBad(Held(rx))
  /\ rx' = Held(rx)
  /\ \/ /\ expired
        /\ pc' = "failed"
        /\ report' = Failure("Timeout")
     \/ /\ ~expired
        /\ pc' = "read"
        /\ report' = report
  /\ UNCHANGED <<vars, cur, expired, bsl_vars>>

\* read() hands over some of what has arrived, or nothing within its poll time.
Read ==
  /\ pc = "read"
  /\ \E n \in 0..Len(inq) :
       /\ rx' = rx \o SubSeq(inq, 1, n)
       /\ inq' = SubSeq(inq, n + 1, Len(inq))
       /\ n = 0 => inq = <<>>
  /\ pc' = "look"
  /\ UNCHANGED <<vars, cur, expired, report, line_baud, tx, chip_vars,
                 faults, executed, misheard, hasty>>

Expire ==
  /\ pc \in {"look", "read"}
  /\ ~expired
  /\ Generous => ~AnswerOnItsWay
  /\ expired' = TRUE
  /\ UNCHANGED <<vars, pc, cur, rx, report, bsl_vars>>

RunStep ==
  \/ Finished \/ Begin \/ RetuneBefore \/ Write \/ DrainAndSettle \/ RetuneAfter
  \/ LookFindsReply \/ LookFindsBadFrame \/ LookFindsNothing \/ Read

Environment == BslNext /\ UNCHANGED <<vars, driver_vars>>

Returned == pc \in {"done", "failed"}

RunNext == RunStep \/ IoFails \/ FlushFails \/ Expire \/ Environment

RunSpec == RunInit /\ [][RunNext]_all_vars

\* The host's thread is scheduled, its deadline passes, and the wire shifts out
\* what was written; of the chip nothing is promised.
FairRunSpec == /\ RunSpec
               /\ WF_all_vars(RunStep)
               /\ WF_all_vars(Expire)
               /\ WF_all_vars(Hear /\ UNCHANGED <<vars, driver_vars>>)

\* A chip that also answers.
LiveChipSpec == FairRunSpec /\ WF_all_vars(Answer /\ UNCHANGED <<vars, driver_vars>>)

-----------------------------------------------------------------------------
Writes      == {i \in 1..Len(steps) : IsWrite(i)}
InFlash(i)  == flash[BlockOf(steps[i].frame)] = DataOf(steps[i].frame)

RunTypeOK ==
  /\ TypeOK
  /\ pc \in {"next", "drop", "write", "drain", "switch", "look", "read", "done", "failed"}
  /\ cur \in 0..Len(steps)
  /\ expired \in BOOLEAN
  /\ report.kind \in {"none", "ok", "plain", "indeterminate"}
  /\ line_baud \in {HandshakeBaud, TransferBaud}
  /\ Len(rx) <= FlukeSpan + MaxQueue + 1

\* End to end: the chip carries out the requests of the plan in order, each at
\* most once, and the session counts none of them as answered that the chip has
\* not carried out - whatever noise, stale frame, late answer or failure came in
\* between.
AnsweredMeansCarriedOut ==
  /\ \A k \in 1..Len(executed) : executed[k] = k
  /\ \A i \in 1..Len(steps) : Answered(i) => i <= Len(executed)

\* run() returns Ok only over a flash that holds every block of the plan, each in
\* its place, in flash erased by this session (driver.rs 240, stcbsl.rs 344-349).
DoneMeansProgrammed ==
  pc = "done" => \A i \in Writes : InFlash(i)

\* No frame reaches the boot loader at a rate it is not listening at, or cut by a
\* retune: the drop before 0x8E and the drain and settle before each switch are
\* all needed (session.rs 78-88, driver.rs 262-280).
NothingIsMisheard == ~misheard

\* The chip erases nothing before it has answered every link test at the rate of
\* the transfer (stc89.rs 79-80).
NeverErasesOnAnUnprovenLine == ~hasty

\* The host never talks over the chip: while it is about to write, the line is
\* silent in its direction and the chip owes it no answer.
NeverTalksOver ==
  pc \in {"drop", "write"} => tx = <<>> /\ answer = NoAnswer

\* run() returns, even if the chip is dead, loses power or never stops sending
\* noise, frames that fail their checks or headers that claim what follows
\* (driver.rs 284-313).
RunReturns == <>Returned

\* With a chip that answers in time and a line that loses nothing, noise alone -
\* any amount of it, at any moment - never keeps a session from completing: the
\* stray 0x00 that ended 03-flash-blink-run2 would not (driver.rs 294-297).
NoiseAloneDoesNotAbort == <>(pc = "done")

\* driver.rs 13-14: "on any abort after the first write block it reports the flash
\* as indeterminate (§6)".
AbortAfterAWriteIsIndeterminate ==
  pc = "failed" /\ (\E i \in Writes : HandedOut(i)) => report.kind = "indeterminate"

\* The flash as module FlashPromise sees it.
content ==
  LET blocks == {BlockOf(steps[i].frame) : i \in Writes}
  IN  IF blocks \cap programmed = {} THEN "blank"
      ELSE IF blocks \subseteq programmed /\ \A i \in Writes : InFlash(i) THEN "complete"
      ELSE "partial"

Promise == INSTANCE FlashPromise WITH wants <- Writes # {}, content <- content, told <- report.kind

\* run() implements FlashPromise: whatever fails, and whatever the chip still carries
\* out after run() returned, no plain error is over a part of the image (the window
\* of session.rs 314-325) and no Ok over less than all of it.
KeepsThePromise == Promise!PromiseSpec
=============================================================================
