--------------------------- MODULE SessionProofs ---------------------------
(***************************************************************************)
(* Session is type correct, stops and waits, and reports the flash as      *)
(* indeterminate exactly when it is: for every set of plans and of replies *)
(* and every order of calls.                                               *)
(*                                                                         *)
(* The two flags writes_started and writes_finished do not determine which *)
(* steps were handed out and answered, so neither property is inductive.   *)
(* CursorInv ties both, and the history, to the cursor; from there the     *)
(* only fact missing is that a finite plan with a write step has a last.   *)
(***************************************************************************)
EXTENDS Session, TLAPS, SequenceTheorems, WellFoundedInduction

CursorInv ==
  /\ Len(sent) = IF awaiting THEN at + 1 ELSE at
  /\ \A k \in 1..Len(sent) : sent[k] = k
  /\ awaiting => at < Len(steps) /\ ExpectsReply(steps[at + 1])
  /\ \A i \in 1..Len(steps) : Answered(i) <=> i <= at /\ ExpectsReply(steps[i])
  /\ \A i \in 1..Len(steps) : Len(heard[i]) <= 1
  /\ writes_started <=> \E i \in 1..Len(sent) : IsWrite(i)
  /\ writes_finished <=> \E i \in 1..at : LastWrite(i)

Inv == TypeOK /\ CursorInv

\* A plan with a write step has a last write step (the rposition of advance()).
LEMMA LastWriteExists ==
  ASSUME steps \in Plans, NEW w \in 1..Len(steps), IsWrite(w)
  PROVE  \E i \in 1..Len(steps) : LastWrite(i)
<1> DEFINE T == {n \in Nat : \E i \in 1..Len(steps) : IsWrite(i) /\ n = Len(steps) - i}
<1>1. Len(steps) \in Nat
  BY PlansAssumption
<1>2. T \subseteq Nat /\ T # {}
  <2>1. Len(steps) - w \in Nat
    BY <1>1
  <2>2. Len(steps) - w \in T
    BY <2>1
  <2> QED BY <2>2
<1>3. PICK m \in T : \A n \in T : ~(<<n, m>> \in OpToRel(<, Nat))
  BY <1>2, NatLessThanWellFounded, WFMin
<1>4. PICK i \in 1..Len(steps) : IsWrite(i) /\ m = Len(steps) - i
  BY <1>3
<1>5. ASSUME NEW j \in (i + 1)..Len(steps), IsWrite(j)  PROVE FALSE
  <2>1. Len(steps) - j \in T
    BY <1>1, <1>5
  <2>2. <<Len(steps) - j, m>> \in OpToRel(<, Nat)
    BY <1>1, <1>2, <1>4, <2>1 DEF OpToRel
  <2> QED BY <1>3, <2>1, <2>2
<1> QED BY <1>4, <1>5 DEF LastWrite

\* Moving the cursor past step at + 1 adds just that step to those behind it.
LEMMA LastWriteStep ==
  ASSUME at \in Nat, steps' = steps, at' = at + 1,
         writes_finished <=> \E i \in 1..at : LastWrite(i),
         writes_finished' = (writes_finished \/ LastWrite(at + 1))
  PROVE  writes_finished' <=> \E i \in 1..at' : LastWrite(i)'
<1>1. \A i \in 1..at' : LastWrite(i)' <=> LastWrite(i)
  BY DEF LastWrite, IsWrite
<1>2. \A i : i \in 1..at' <=> i \in 1..at \/ i = at + 1
  OBVIOUS
<1> HIDE DEF LastWrite
<1> QED BY <1>1, <1>2

\* A verdict is "Ok" or an error.
LEMMA VerdictType ==
  ASSUME steps \in Plans, at \in 0..Len(steps), at < Len(steps), NEW reply
  PROVE  Verdict(Step, reply) \in SessionErrors \cup {"Ok"}
<1>1. Step.expect.kind \in ExpectKinds
  BY PlansAssumption DEF Step
<1> QED BY <1>1 DEF Verdict, SessionErrors, ExpectKinds

\* Session::new establishes the invariant.
LEMMA InitInv == Init => Inv
<1> SUFFICES ASSUME Init  PROVE Inv
  OBVIOUS
<1>1. Len(steps) \in Nat
  BY PlansAssumption DEF Init
<1>2. TypeOK
  <2>1. sent \in Seq(1..Len(steps)) /\ heard \in [1..Len(steps) -> Seq(Replies)]
    BY EmptySeq DEF Init
  <2>2. at \in 0..Len(steps)
    BY <1>1 DEF Init
  <2>3. result \in Results
    BY DEF Init, Results
  <2> QED BY <2>1, <2>2, <2>3 DEF Init, TypeOK
<1>3. CursorInv
  BY <1>1 DEF Init, CursorInv, Answered
<1> QED BY <1>2, <1>3 DEF Inv

\* Every call of next_action and on_reply, in any order, keeps the invariant.
LEMMA NextInv == Inv /\ [Next]_vars => Inv'
<1> SUFFICES ASSUME TypeOK, CursorInv, [Next]_vars  PROVE TypeOK' /\ CursorInv'
  BY DEF Inv
<1>1. Len(steps) \in Nat /\ sent \in Seq(1..Len(steps)) /\ Len(sent) \in Nat /\ at \in Nat
  BY PlansAssumption DEF TypeOK
<1>2. ASSUME UNCHANGED <<fields, sent, heard>>, result' \in Results
      PROVE  TypeOK' /\ CursorInv'
  BY <1>2 DEF fields, TypeOK, CursorInv, Answered, IsWrite, LastWrite
<1>3. CASE StillAwaiting \/ Finish
  BY <1>2, <1>3 DEF StillAwaiting, Finish, Results
<1>4. CASE Send
  <2>1. /\ at + 1 \in 1..Len(steps) /\ Len(sent) = at
        /\ steps' = steps /\ heard' = heard /\ result' = "Send"
        /\ writes_started' = (writes_started \/ IsWrite(at + 1))
    BY <1>1, <1>4 DEF Send, TypeOK, CursorInv
  <2>2. /\ sent' \in Seq(1..Len(steps)) /\ Len(sent') = at + 1
        /\ \A k \in 1..Len(sent') : sent'[k] = k
    BY <1>1, <1>4, <2>1 DEF Send, CursorInv
  <2>3. writes_started' \in BOOLEAN /\ (writes_started' <=> \E i \in 1..Len(sent') : IsWrite(i)')
    <3>1. \A i : IsWrite(i)' <=> IsWrite(i)
      BY <2>1 DEF IsWrite
    <3>2. \A i : i \in 1..Len(sent') <=> i \in 1..Len(sent) \/ i = at + 1
      BY <1>1, <2>1, <2>2
    <3>3. writes_started' \in BOOLEAN
      BY <2>1
    <3> QED BY <2>1, <3>1, <3>2, <3>3 DEF CursorInv
  <2>4. CASE ExpectsReply(Step)
    <3>1. at' = at /\ awaiting' = TRUE /\ writes_finished' = writes_finished
      BY <1>4, <2>4 DEF Send
    <3>2. TypeOK'
      BY <2>1, <2>2, <2>3, <3>1 DEF TypeOK, Results
    <3>3. writes_finished' <=> \E i \in 1..at' : LastWrite(i)'
      BY <2>1, <3>1 DEF CursorInv, LastWrite, IsWrite
    <3> QED BY <1>1, <2>1, <2>2, <2>3, <2>4, <3>1, <3>2, <3>3 DEF CursorInv, Answered, Step
  <2>5. CASE ~ExpectsReply(Step)
    <3>1. at' = at + 1 /\ awaiting' = FALSE /\ writes_finished' = (writes_finished \/ LastWrite(at + 1))
      BY <1>4, <2>5 DEF Send, Advance
    <3>2. TypeOK'
      <4>1. writes_finished' \in BOOLEAN
        BY <3>1
      <4>2. at' \in 0..Len(steps')
        BY <1>1, <2>1, <3>1
      <4> QED BY <2>1, <2>2, <2>3, <3>1, <4>1, <4>2 DEF TypeOK, Results
    <3>3. writes_finished' <=> \E i \in 1..at' : LastWrite(i)'
      BY <1>1, <2>1, <3>1, LastWriteStep DEF CursorInv
    <3>4. \A i \in 1..Len(steps') : Answered(i)' <=> i <= at' /\ ExpectsReply(steps'[i])
      BY <1>1, <2>1, <2>5, <3>1 DEF CursorInv, Answered, Step
    <3> QED BY <1>1, <2>1, <2>2, <2>3, <3>1, <3>2, <3>3, <3>4 DEF CursorInv
  <2> QED BY <2>4, <2>5
<1>5. ASSUME NEW reply \in Replies, Unasked(reply)  PROVE TypeOK' /\ CursorInv'
  BY <1>2, <1>5 DEF Unasked, Results, SessionErrors
<1>6. ASSUME NEW reply \in Replies, Rejected(reply)  PROVE TypeOK' /\ CursorInv'
  <2>1. Verdict(Step, reply) \in SessionErrors \cup {"Ok"}
    BY <1>6, VerdictType DEF Rejected, TypeOK, CursorInv
  <2> QED BY <1>2, <1>6, <2>1 DEF Rejected, Results
<1>7. ASSUME NEW reply \in Replies, Accepted(reply)  PROVE TypeOK' /\ CursorInv'
  <2>1. /\ at + 1 \in 1..Len(steps) /\ ExpectsReply(steps[at + 1]) /\ Len(sent) = at + 1
        /\ steps' = steps /\ sent' = sent /\ at' = at + 1 /\ awaiting' = FALSE /\ result' = "Ok"
        /\ writes_started' = writes_started
        /\ writes_finished' = (writes_finished \/ LastWrite(at + 1))
    BY <1>1, <1>7 DEF Accepted, Advance, TypeOK, CursorInv
  <2>2. heard[at + 1] = <<>>
    BY <1>1, <2>1 DEF CursorInv, Answered
  <2>3. /\ heard' \in [1..Len(steps) -> Seq(Replies)]
        /\ \A i \in 1..Len(steps) : heard'[i] = IF i = at + 1 THEN <<reply>> ELSE heard[i]
    BY <1>7, <2>1, <2>2 DEF Accepted, TypeOK
  <2>4. TypeOK'
    <3>1. at + 1 \in 0..Len(steps)
      BY <1>1, <2>1
    <3>2. awaiting' \in BOOLEAN /\ writes_finished' \in BOOLEAN
      BY <2>1
    <3>3. result' \in Results
      BY <2>1 DEF Results
    <3> QED BY <2>1, <2>3, <3>1, <3>2, <3>3 DEF TypeOK
  <2>5. \A i \in 1..Len(steps') : Answered(i)' <=> i <= at' /\ ExpectsReply(steps'[i])
    <3>1. ASSUME NEW i \in 1..Len(steps)
          PROVE  heard'[i] # <<>> <=> i = at + 1 \/ heard[i] # <<>>
      <4>1. <<reply>> # <<>>
        OBVIOUS
      <4>2. heard'[i] = IF i = at + 1 THEN <<reply>> ELSE heard[i]
        BY <2>3
      <4> QED BY <4>1, <4>2, <2>2
    <3>2. ASSUME NEW i \in 1..Len(steps)
          PROVE  heard[i] # <<>> <=> i <= at /\ ExpectsReply(steps[i])
      BY DEF CursorInv, Answered
    <3> QED BY <1>1, <2>1, <3>1, <3>2 DEF Answered
  <2>6. \A i \in 1..Len(steps') : Len(heard'[i]) <= 1
    <3>1. Len(<<reply>>) = 1
      OBVIOUS
    <3>2. ASSUME NEW i \in 1..Len(steps)  PROVE Len(heard'[i]) <= 1
      <4>1. CASE i = at + 1
        <5>1. heard'[i] = <<reply>>
          BY <2>3, <4>1
        <5>2. Len(heard'[i]) = 1
          BY <3>1, <5>1, Zenon
        <5> QED BY <5>2
      <4>2. CASE i # at + 1
        BY <2>3, <4>2 DEF CursorInv
      <4> QED BY <4>1, <4>2
    <3> QED BY <2>1, <3>2
  <2>7. writes_finished' <=> \E i \in 1..at' : LastWrite(i)'
    BY <1>1, <2>1, LastWriteStep DEF CursorInv
  <2>8. /\ Len(sent') = (IF awaiting' THEN at' + 1 ELSE at')
        /\ \A k \in 1..Len(sent') : sent'[k] = k
        /\ awaiting' => at' < Len(steps') /\ ExpectsReply(steps'[at' + 1])
    BY <1>1, <2>1 DEF CursorInv
  <2>9. writes_started' <=> \E i \in 1..Len(sent') : IsWrite(i)'
    BY <2>1 DEF CursorInv, IsWrite
  <2> QED BY <2>4, <2>5, <2>6, <2>7, <2>8, <2>9 DEF CursorInv
<1>8. CASE UNCHANGED vars
  BY <1>2, <1>8 DEF vars, TypeOK
<1> QED BY <1>3, <1>4, <1>5, <1>6, <1>7, <1>8 DEF Next, NextAction, OnReply

\* The inductive invariant holds of every session.
THEOREM Invariant == Spec => []Inv
BY InitInv, NextInv, PTL DEF Spec

\* Every field keeps its type, and the cursor stays within the plan.
THEOREM TypeCorrect == Spec => []TypeOK
BY Invariant, PTL DEF Inv

\* Steps are handed out in plan order, each once, and never past an unanswered
\* one; a step is answered at most once and only after it was handed out.
THEOREM StopsAndWaits == Spec => []StopAndWait
<1>1. Inv => StopAndWait
  <2> SUFFICES ASSUME TypeOK, CursorInv  PROVE StopAndWait
    BY DEF Inv
  <2>1. Len(steps) \in Nat /\ Len(sent) \in Nat /\ at \in 0..Len(steps) /\ Len(sent) <= Len(steps)
    BY PlansAssumption DEF TypeOK, CursorInv
  <2> QED BY <2>1 DEF StopAndWait, CursorInv
<1> QED BY <1>1, Invariant, PTL

\* What the two flags say is what the history says.
LEMMA FlagsAreExact == Inv => IndeterminateExact
<1> SUFFICES ASSUME TypeOK, CursorInv  PROVE IndeterminateExact
  BY DEF Inv
<1>1. Len(steps) \in Nat /\ Len(sent) \in Nat /\ at \in 0..Len(steps) /\ Len(sent) <= Len(steps)
  BY PlansAssumption DEF TypeOK, CursorInv
<1>2. writes_started <=> \E i \in 1..Len(steps) : IsWrite(i) /\ HandedOut(i)
  BY <1>1 DEF CursorInv, HandedOut
<1>3. \A i \in 1..Len(steps) : IsWrite(i) => ExpectsReply(steps[i])
  BY PlansAssumption DEF TypeOK, IsWrite
<1>4. ASSUME writes_finished  PROVE \A i \in 1..Len(steps) : IsWrite(i) => Answered(i)
  BY <1>1, <1>3, <1>4 DEF CursorInv, LastWrite
<1>5. ASSUME writes_started, \A i \in 1..Len(steps) : IsWrite(i) => Answered(i)
      PROVE  writes_finished
  <2>1. PICK w \in 1..Len(steps) : IsWrite(w)
    BY <1>2, <1>5
  <2>2. PICK i \in 1..Len(steps) : LastWrite(i)
    BY <2>1, LastWriteExists DEF TypeOK
  <2>3. i <= at
    BY <1>5, <2>2 DEF LastWrite, CursorInv
  <2> QED BY <1>1, <2>2, <2>3 DEF CursorInv
<1> QED BY <1>2, <1>4, <1>5 DEF IndeterminateExact, FlashIsIndeterminate

\* flash_is_indeterminate() is true exactly while some write step has been handed
\* out and some write step is unanswered.
THEOREM IndeterminateIsExact == Spec => []IndeterminateExact
BY FlagsAreExact, Invariant, PTL

\* No call ever takes progress back: the cursor moves forward by at most one, the
\* write flags stay set, and only an accepted reply ends a wait.
THEOREM TakesNothingBack == Spec => NothingIsTakenBack
<1> DEFINE NoStepBack == /\ at' \in {at, at + 1}
                         /\ writes_started => writes_started'
                         /\ writes_finished => writes_finished'
                         /\ awaiting /\ ~awaiting' => result' = "Ok" /\ at' = at + 1
<1>1. Inv /\ [Next]_vars => [NoStepBack]_vars
  <2> SUFFICES ASSUME TypeOK, Next  PROVE NoStepBack
    BY DEF Inv
  <2>1. CASE StillAwaiting \/ Finish
    BY <2>1 DEF StillAwaiting, Finish, fields
  <2>2. CASE Send
    <3>1. writes_started => writes_started'
      BY <2>2, Zenon DEF Send
    <3>2. writes_finished' = writes_finished \/ Advance
      BY <2>2 DEF Send
    <3>3. writes_finished => writes_finished'
      BY <3>2, Zenon DEF Advance
    <3>4. ~awaiting /\ at' \in {at, at + 1}
      BY <2>2 DEF Send, Advance
    <3> QED BY <3>1, <3>3, <3>4
  <2>3. ASSUME NEW reply \in Replies, OnReply(reply)  PROVE NoStepBack
    <3>1. CASE Unasked(reply) \/ Rejected(reply)
      BY <3>1 DEF Unasked, Rejected, fields
    <3>2. CASE Accepted(reply)
      <4>1. at' = at + 1 /\ result' = "Ok" /\ writes_started' = writes_started
        BY <3>2 DEF Accepted, Advance
      <4>2. writes_finished => writes_finished'
        BY <3>2, Zenon DEF Accepted, Advance
      <4> QED BY <4>1, <4>2
    <3> QED BY <2>3, <3>1, <3>2 DEF OnReply
  <2> QED BY <2>1, <2>2, <2>3 DEF Next, NextAction
<1> QED BY <1>1, Invariant, PTL DEF Spec, NothingIsTakenBack

\* Each reply that was accepted passed every test its step makes.
RepliesPassed ==
  \A i \in 1..Len(steps) : Answered(i) =>
    \E reply \in Replies : heard[i] = <<reply>> /\ Verdict(steps[i], reply) = "Ok"

\* on_reply keeps nothing it has not tested.
LEMMA NextPassed == Inv /\ RepliesPassed /\ [Next]_vars => RepliesPassed'
<1> SUFFICES ASSUME TypeOK, CursorInv, RepliesPassed, [Next]_vars  PROVE RepliesPassed'
  BY DEF Inv
<1>1. CASE UNCHANGED <<steps, heard>>
  BY <1>1 DEF RepliesPassed, Answered
<1>2. ASSUME NEW reply \in Replies, Accepted(reply)  PROVE RepliesPassed'
  <2>1. /\ at + 1 \in 1..Len(steps) /\ Verdict(steps[at + 1], reply) = "Ok"
        /\ steps' = steps
    BY <1>2, PlansAssumption DEF Accepted, Step, TypeOK, CursorInv
  <2>2. heard[at + 1] = <<>>
    BY <2>1 DEF CursorInv, Answered, TypeOK
  <2>3. \A i \in 1..Len(steps) : heard'[i] = IF i = at + 1 THEN <<reply>> ELSE heard[i]
    BY <1>2, <2>1, <2>2 DEF Accepted, TypeOK
  <2>4. ASSUME NEW i \in 1..Len(steps), heard'[i] # <<>>
        PROVE  \E r \in Replies : heard'[i] = <<r>> /\ Verdict(steps[i], r) = "Ok"
    <3>1. CASE i = at + 1
      BY <2>1, <2>3, <3>1
    <3>2. CASE i # at + 1
      BY <2>3, <2>4, <3>2 DEF RepliesPassed, Answered
    <3> QED BY <3>1, <3>2
  <2> QED BY <2>1, <2>4 DEF RepliesPassed, Answered
<1>3. UNCHANGED <<steps, heard>> \/ \E reply \in Replies : Accepted(reply)
  BY DEF Next, NextAction, StillAwaiting, Finish, Send, OnReply, Unasked, Rejected, vars, fields
<1> QED BY <1>1, <1>2, <1>3

\* A finished session has the very sum of every block and the very request of
\* every echoed step in its replies.
THEOREM FinishedIsVerified == Spec => []FinishedMeansVerified
<1>1. Init => RepliesPassed
  BY PlansAssumption DEF Init, RepliesPassed, Answered
<1>2. Inv /\ RepliesPassed => FinishedMeansVerified
  <2> SUFFICES ASSUME TypeOK, CursorInv, RepliesPassed, IsFinished
               PROVE  FinishedMeansVerified
    BY DEF Inv, FinishedMeansVerified
  <2>1. Len(steps) \in Nat /\ at = Len(steps) /\ Len(sent) = Len(steps)
    BY PlansAssumption DEF TypeOK, CursorInv, IsFinished
  <2> DEFINE Kind(i) == steps[i].expect.kind
             Heard(i) == CASE Kind(i) = "BlockAck" ->
                                heard[i] = <<McuFrame(ReplyAck, <<steps[i].expect.sum>>)>>
                           [] Kind(i) = "Echo" ->
                                heard[i] = <<McuFrame(steps[i].frame.cmd, steps[i].frame.payload)>>
                           [] Kind(i) = "Nothing" -> heard[i] = <<>>
                           [] OTHER -> Answered(i)
  <2>2. ASSUME NEW i \in 1..Len(steps), Kind(i) # "Nothing"  PROVE Answered(i)
    BY <2>1, <2>2 DEF CursorInv, ExpectsReply
  <2>3. ASSUME NEW i \in 1..Len(steps), Kind(i) = "Nothing"  PROVE heard[i] = <<>>
    BY <2>3 DEF CursorInv, ExpectsReply, Answered
  <2>4. ASSUME NEW i \in 1..Len(steps), Kind(i) \in {"BlockAck", "Echo"}  PROVE Heard(i)
    <3>1. PICK reply \in Replies : heard[i] = <<reply>> /\ Verdict(steps[i], reply) = "Ok"
      BY <2>2, <2>4 DEF RepliesPassed
    <3>2. reply = [dir |-> reply.dir, cmd |-> reply.cmd, payload |-> reply.payload]
      BY RepliesAssumption DEF FrameType
    <3>3. reply.dir = "McuToHost"
      BY <3>1 DEF Verdict
    <3>4. CASE Kind(i) = "Echo"
      <4>1. reply.cmd = steps[i].frame.cmd /\ reply.payload = steps[i].frame.payload
        BY <3>1, <3>3, <3>4 DEF Verdict, IsEchoOf
      <4> QED BY <3>1, <3>2, <3>3, <3>4, <4>1 DEF McuFrame
    <3>5. CASE Kind(i) = "BlockAck"
      <4>1. reply.cmd = ReplyAck /\ Len(reply.payload) = 1
            /\ reply.payload[1] = steps[i].expect.sum
        BY <3>1, <3>3, <3>5 DEF Verdict
      <4>2. reply.payload = <<steps[i].expect.sum>>
        BY <4>1, RepliesAssumption DEF FrameType
      <4> QED BY <3>1, <3>2, <3>3, <3>5, <4>1, <4>2 DEF McuFrame
    <3> QED BY <2>4, <3>4, <3>5
  <2>5. \A i \in 1..Len(steps) : Heard(i)
    BY <2>2, <2>3, <2>4
  <2> QED BY <2>1, <2>5 DEF FinishedMeansVerified
<1>3. Spec => []RepliesPassed
  BY <1>1, NextPassed, Invariant, PTL DEF Spec
<1> QED BY <1>2, <1>3, Invariant, PTL
=============================================================================
