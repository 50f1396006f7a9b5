------------------------------- MODULE Session -------------------------------
(***************************************************************************)
(* The session state machine of src/session.rs: a planned sequence of      *)
(* steps and a cursor.  Its caller may call next_action and on_reply in    *)
(* any order, with any frame, and may go on after an error: an error       *)
(* leaves the session where it was.                                        *)
(*                                                                         *)
(* A step is a record of at least phase, frame (the request) and expect    *)
(* (what the reply must be).  steps ... writes_finished are the fields of  *)
(* the struct, result is what the last call returned.  sent and heard are  *)
(* history: the steps handed out as Send, in order, and the reply that was *)
(* accepted for each step.                                                 *)
(***************************************************************************)
EXTENDS Steps

CONSTANTS
  Plans,     \* the step sequences a session may be made from
  Replies    \* the frames a caller may pass to on_reply

\* Every step a plan asks to write is one whose reply it checks; only the run
\* step goes unanswered (stc89.rs 418-436, 460-473).
ASSUME PlansAssumption ==
  /\ Plans # {}
  /\ \A plan \in Plans :
       /\ Len(plan) \in Nat
       /\ DOMAIN plan = 1..Len(plan)
       /\ \A i \in 1..Len(plan) :
            /\ plan[i].phase \in Phases
            /\ plan[i].expect.kind \in ExpectKinds
            /\ plan[i].phase = "Write" => ExpectsReply(plan[i])

ASSUME RepliesAssumption == Replies \subseteq FrameType

VARIABLES steps, at, awaiting, writes_started, writes_finished, result, sent, heard
fields == <<steps, at, awaiting, writes_started, writes_finished>>
vars   == <<fields, result, sent, heard>>

Step        == steps[at + 1]
IsWrite(i)  == steps[i].phase = "Write"
LastWrite(i) == IsWrite(i) /\ \A j \in (i + 1)..Len(steps) : ~IsWrite(j)

-----------------------------------------------------------------------------
(* What on_reply says of a reply to a step (237-312), test by test.        *)

\* Mutant: the block ack's sum is not compared.
VerdictAnySum(step, reply) ==
  LET e == step.expect
  IN  IF reply.dir # "McuToHost" THEN "WrongDirection"
      ELSE CASE e.kind = "Nothing" -> "NotAwaiting"
             [] e.kind = "Echo" ->
                  IF IsEchoOf(reply, step.frame) THEN "Ok" ELSE "NotAnEcho"
             [] e.kind = "Ack" ->
                  IF reply.cmd # e.cmd THEN "WrongCommand"
                  ELSE IF reply.payload # e.payload THEN "WrongPayload" ELSE "Ok"
             [] e.kind = "AckLen" ->
                  IF reply.cmd # e.cmd THEN "WrongCommand"
                  ELSE IF Len(reply.payload) # e.payload_len THEN "WrongPayloadLen" ELSE "Ok"
             [] e.kind = "BlockAck" ->
                  IF reply.cmd # ReplyAck THEN "WrongCommand"
                  ELSE IF Len(reply.payload) # 1 THEN "WrongPayloadLen" ELSE "Ok"

Verdict(step, reply) ==
  LET e == step.expect
  IN  IF reply.dir # "McuToHost" THEN "WrongDirection"
      ELSE CASE e.kind = "Nothing" -> "NotAwaiting"
             [] e.kind = "Echo" ->
                  IF IsEchoOf(reply, step.frame) THEN "Ok" ELSE "NotAnEcho"
             [] e.kind = "Ack" ->
                  IF reply.cmd # e.cmd THEN "WrongCommand"
                  ELSE IF reply.payload # e.payload THEN "WrongPayload" ELSE "Ok"
             [] e.kind = "AckLen" ->
                  IF reply.cmd # e.cmd THEN "WrongCommand"
                  ELSE IF Len(reply.payload) # e.payload_len THEN "WrongPayloadLen" ELSE "Ok"
             [] e.kind = "BlockAck" ->
                  IF reply.cmd # ReplyAck THEN "WrongCommand"
                  ELSE IF Len(reply.payload) # 1 THEN "WrongPayloadLen"
                  ELSE IF reply.payload[1] # e.sum THEN "BlockAckMismatch" ELSE "Ok"

SessionErrors == {"NotAwaiting", "WrongDirection", "NotAnEcho", "WrongCommand",
                  "WrongPayload", "WrongPayloadLen", "BlockAckMismatch"}
Results == SessionErrors \cup {"None", "AwaitingReply", "Finished", "Send", "Ok"}

-----------------------------------------------------------------------------
Init ==
  /\ steps \in Plans
  /\ at = 0
  /\ awaiting = FALSE
  /\ writes_started = FALSE
  /\ writes_finished = FALSE
  /\ result = "None"
  /\ sent = <<>>
  /\ heard = [i \in 1..Len(steps) |-> <<>>]

\* Mutants: the cursor moves twice, or on to the next phase; the first write step
\* ends the writes.
AdvanceToNextPhase ==
  /\ writes_finished' = (writes_finished \/ LastWrite(at + 1))
  /\ \E n \in (at + 1)..Len(steps) :
       /\ \A k \in (at + 1)..n : steps[k].phase = Step.phase
       /\ n < Len(steps) => steps[n + 1].phase # Step.phase
       /\ at' = n
  /\ awaiting' = FALSE
AdvanceTwice ==
  /\ writes_finished' = (writes_finished \/ LastWrite(at + 1))
  /\ at' = at + 2
  /\ awaiting' = FALSE
AdvanceAnyWrite ==
  /\ writes_finished' = (writes_finished \/ IsWrite(at + 1))
  /\ at' = at + 1
  /\ awaiting' = FALSE

\* advance(): past the last write step, the writes are finished.
Advance ==
  /\ writes_finished' = (writes_finished \/ LastWrite(at + 1))
  /\ at' = at + 1
  /\ awaiting' = FALSE

StillAwaiting ==
  /\ awaiting
  /\ result' = "AwaitingReply"
  /\ UNCHANGED <<fields, sent, heard>>

Finish ==
  /\ ~awaiting
  /\ at >= Len(steps)
  /\ result' = "Finished"
  /\ UNCHANGED <<fields, sent, heard>>

\* Mutant: the outstanding reply is forgotten.
SendNotAwaiting ==
  /\ ~awaiting
  /\ at < Len(steps)
  /\ writes_started' = (writes_started \/ IsWrite(at + 1))
  /\ IF ExpectsReply(Step) THEN UNCHANGED <<at, awaiting, writes_finished>> ELSE Advance
  /\ result' = "Send"
  /\ sent' = Append(sent, at + 1)
  /\ UNCHANGED <<steps, heard>>

\* The step is counted as started here, before its caller writes a byte.
Send ==
  /\ ~awaiting
  /\ at < Len(steps)
  /\ writes_started' = (writes_started \/ IsWrite(at + 1))
  /\ \/ /\ ExpectsReply(Step)
        /\ awaiting' = TRUE
        /\ UNCHANGED <<at, writes_finished>>
     \/ /\ ~ExpectsReply(Step)
        /\ Advance
  /\ result' = "Send"
  /\ sent' = Append(sent, at + 1)
  /\ UNCHANGED <<steps, heard>>

NextAction == StillAwaiting \/ Finish \/ Send

Unasked(reply) ==
  /\ ~awaiting
  /\ result' = "NotAwaiting"
  /\ UNCHANGED <<fields, sent, heard>>

\* Mutant: a reply that does not match ends the wait.
RejectedGivesUp(reply) ==
  /\ awaiting
  /\ Verdict(Step, reply) # "Ok"
  /\ result' = Verdict(Step, reply)
  /\ awaiting' = FALSE
  /\ UNCHANGED <<steps, at, writes_started, writes_finished, sent, heard>>

Rejected(reply) ==
  /\ awaiting
  /\ Verdict(Step, reply) # "Ok"
  /\ result' = Verdict(Step, reply)
  /\ UNCHANGED <<fields, sent, heard>>

Accepted(reply) ==
  /\ awaiting
  /\ Verdict(Step, reply) = "Ok"
  /\ Advance
  /\ result' = "Ok"
  /\ heard' = [heard EXCEPT ![at + 1] = Append(@, reply)]
  /\ UNCHANGED <<steps, writes_started, sent>>

OnReply(reply) == Unasked(reply) \/ Rejected(reply) \/ Accepted(reply)

Next == NextAction \/ \E reply \in Replies : OnReply(reply)

Spec == Init /\ [][Next]_vars

FlashIsIndeterminate == writes_started /\ ~writes_finished
IsFinished == at >= Len(steps) /\ ~awaiting

-----------------------------------------------------------------------------
TypeOK ==
  /\ steps \in Plans
  /\ at \in 0..Len(steps)
  /\ awaiting \in BOOLEAN
  /\ writes_started \in BOOLEAN
  /\ writes_finished \in BOOLEAN
  /\ result \in Results
  /\ sent \in Seq(1..Len(steps))
  /\ heard \in [1..Len(steps) -> Seq(Replies)]

HandedOut(i) == \E k \in 1..Len(sent) : sent[k] = i
Answered(i)  == heard[i] # <<>>

\* "True once at least one write block has gone out and the last one has not
\* been acknowledged" (session.rs 315-325), said of the steps rather than of
\* the two flags: some write step was handed out and some write step has not
\* been answered.  In every order of calls, and after any number of errors.
IndeterminateExact ==
  FlashIsIndeterminate <=>
    /\ \E i \in 1..Len(steps) : IsWrite(i) /\ HandedOut(i)
    /\ \E i \in 1..Len(steps) : IsWrite(i) /\ ~Answered(i)

\* Stop and wait: the steps are handed out in the order of the plan, each once,
\* and never one while an earlier one that wants a reply is unanswered; a step
\* is never answered before it was handed out, and never twice.
StopAndWait ==
  /\ \A k \in 1..Len(sent) : sent[k] = k
  /\ \A k \in 1..Len(sent) : k < Len(sent) /\ ExpectsReply(steps[k]) => Answered(k)
  /\ \A i \in 1..Len(steps) : Answered(i) => i <= Len(sent)
  /\ \A i \in 1..Len(steps) : Len(heard[i]) <= 1

\* A finished session has handed out every step and had, for every write step,
\* a reply that carries the sum of that very block; for every echoed step, its
\* own request back.
FinishedMeansVerified ==
  IsFinished =>
    /\ Len(sent) = Len(steps)
    /\ \A i \in 1..Len(steps) :
         CASE steps[i].expect.kind = "BlockAck" -> heard[i] = <<McuFrame(ReplyAck, <<steps[i].expect.sum>>)>>
           [] steps[i].expect.kind = "Echo" ->
                heard[i] = <<McuFrame(steps[i].frame.cmd, steps[i].frame.payload)>>
           [] steps[i].expect.kind = "Nothing" -> heard[i] = <<>>
           [] OTHER -> Answered(i)

\* Progress is never taken back: the cursor moves one step at a time, the two
\* write flags are never cleared, and a rejected reply changes nothing, so a
\* caller may still pass the right one (session.rs 221-235, 237-312).
NothingIsTakenBack ==
  [][ /\ at' \in {at, at + 1}
      /\ writes_started => writes_started'
      /\ writes_finished => writes_finished'
      /\ awaiting /\ ~awaiting' => result' = "Ok" /\ at' = at + 1 ]_vars

\* stc89.rs 87-90 says of the erase reply: "`F0 02` is the chip id; [...] we
\* assert the length and the chip id, not the tail".  The chip id of the plan is
\* the one its link tests carry.
EraseReplyNamesTheChip ==
  \A i, t \in 1..Len(steps) :
    steps[i].phase = "Erase" /\ steps[t].phase = "LinkTest" =>
      \A k \in DOMAIN heard[i] : SubSeq(heard[i][k].payload, 1, 2) = SubSeq(steps[t].frame.payload, 5, 6)
=============================================================================
