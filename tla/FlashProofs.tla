------------------------------ MODULE FlashProofs ------------------------------
(***************************************************************************)
(* What the line and the chip make of what run() does: no frame reaches    *)
(* the chip at a rate it is not listening at, none erases before the line  *)
(* is proved, "done" is said only over a complete image, and run() keeps   *)
(* the promise of module FlashPromise, whatever fails - for every set of   *)
(* plans that keeps the assumptions of Driver and DriverPlans.             *)
(***************************************************************************)
EXTENDS DriverProofs, DriverPlans

-----------------------------------------------------------------------------
(* The two ends of the line change their rates by different rules: the     *)
(* host at the places a plan names, the chip when it is asked to and again *)
(* when its answer to a trial has left.  Neither sees the other's rate.    *)
(* What ties them is how far the plan has been carried out.                *)

\* Each link test is worth something only if the chip had committed by then.
ProvedBy(m) ==
  /\ m <= Len(executed)
  /\ \A k \in (Len(executed) - m + 1)..Len(executed) :
       Asks(steps, k, CmdLinkTest) /\ CommittedBefore(steps, k)

LineInv ==
  /\ committed <=> CommittedBefore(steps, Len(executed) + 1)
  /\ links \in Nat
  /\ \A m \in 0..LinksWanted : ProvedBy(m) => links >= m
  /\ ~hasty

RateBefore(i) == IF TrialBefore(steps, i) THEN TransferBaud ELSE HandshakeBaud
SendRate(i)   == IF CommittedBefore(steps, i) THEN TransferBaud ELSE HandshakeBaud

ChipRate ==
  /\ committed => chip_baud = TransferBaud
  /\ answer = NoAnswer /\ mode # "off" /\ ~committed => chip_baud = HandshakeBaud

HostRate ==
  /\ pc = "next" /\ at < Len(steps) => line_baud = RateBefore(at + 1)
  /\ pc = "drop" => steps[cur].retune_before_send # NoBaud
  /\ pc = "write" => line_baud = SendRate(cur)
  /\ pc \in {"drain", "switch"} => steps[cur].retune_after_send # NoBaud
  /\ pc \in {"look", "read"} => line_baud = RateBefore(cur + 1)

TxRate ==
  /\ tx # <<>> => /\ answer = NoAnswer
                  /\ ~tx[1].cut
                  /\ mode # "off" => tx[1].baud = chip_baud
  /\ pc = "switch" => tx = <<>>

RateInv == ChipRate /\ HostRate /\ TxRate /\ ~misheard

-----------------------------------------------------------------------------
(* How far the plan has been carried out, one step at a time.              *)

LEMMA BeforeNext ==
  ASSUME NEW plan, NEW i \in Nat \ {0}
  PROVE  /\ TrialBefore(plan, i + 1) <=> TrialBefore(plan, i) \/ Trial(plan, i)
         /\ CommittedBefore(plan, i + 1) <=> CommittedBefore(plan, i) \/ Asks(plan, i, CmdBaudCommit)
<1>1. \A k : k \in 1..((i + 1) - 1) <=> k \in 1..(i - 1) \/ k = i
  OBVIOUS
<1> QED
  BY <1>1 DEF TrialBefore, CommittedBefore

LEMMA NoneBefore ==
  ASSUME NEW plan
  PROVE  ~TrialBefore(plan, 1) /\ ~CommittedBefore(plan, 1)
BY DEF TrialBefore, CommittedBefore

\* A step either tries a rate, and is then sent at the first and answered at the
\* second, or is sent and answered at the rate it finds.
LEMMA StepRates ==
  ASSUME NEW plan \in Plans, NEW i \in 1..Len(plan)
  PROVE  /\ \/ /\ Trial(plan, i)
               /\ ~CommittedBefore(plan, i)
               /\ \/ plan[i].retune_before_send = HandshakeBaud
                  \/ plan[i].retune_before_send = NoBaud /\ ~TrialBefore(plan, i)
               /\ plan[i].retune_after_send = TransferBaud
            \/ /\ ~Trial(plan, i)
               /\ TrialBefore(plan, i) => CommittedBefore(plan, i)
               /\ plan[i].retune_before_send = NoBaud /\ plan[i].retune_after_send = NoBaud
         /\ NoBaud # HandshakeBaud /\ NoBaud # TransferBaud
BY RatesAssumption DEF SetsRates

LEMMA CommitIsATrial == \A plan, i : CommittedBefore(plan, i) => TrialBefore(plan, i)
BY DEF CommittedBefore, TrialBefore, Trial

\* What the chip carries out is the next step of the plan.
Carries(f) ==
  BaudRequest(f) \/ LinkTest(f) \/ Erase(f) \/ Program(f) \/ SetOptions(f) \/ RunApplication(f)

Readable == mode = "bsl" /\ answer = NoAnswer /\ tx[1].baud = chip_baud /\ ~tx[1].cut

LEMMA HearFacts ==
  ASSUME RunInv, Hear
  PROVE  LET n == Len(executed) + 1
         IN  /\ n \in 1..Len(steps) /\ n \in Nat \ {0} /\ Len(executed) = n - 1
             /\ tx # <<>> /\ tx' = <<>> /\ tx[1].step = n
             /\ UNCHANGED <<line_baud, inq>>
             /\ \/ /\ Readable
                   /\ Carries(steps[n].frame)
                   /\ Len(executed') = n
                   /\ misheard' = misheard
                \/ /\ ~Readable
                   /\ misheard' = (misheard \/ mode = "bsl")
                   /\ UNCHANGED <<mode, chip_baud, committed, answer, links, flash, programmed, executed, hasty>>
<1> DEFINE n == Len(executed) + 1
<1>1. /\ tx # <<>> /\ tx' = Tail(tx) /\ UNCHANGED <<line_baud, inq>>
      /\ IsSeq(tx) /\ Len(tx) <= 1 /\ executed \in Seq(Nat) /\ Len(executed) \in Nat
  BY DEF Hear, RunInv, TxInv, HistoryInv
<1>2. Len(tx) = 1 /\ tx' = <<>>
  <2>1. Len(tx) = 1
    BY <1>1, NoItems DEF IsSeq
  <2>2. Suffix(tx', tx, 1)
    BY <1>1, TailSeq
  <2>3. IsSeq(tx') /\ Len(tx') = 0
    BY <2>1, <2>2 DEF Suffix
  <2> QED
    BY <2>1, <2>3, NoItems
<1>3. tx[1].step = n /\ n \in 1..Len(steps) /\ tx[1].frame = steps[n].frame /\ Head(tx) = tx[1]
  BY <1>1, <1>2 DEF RunInv, TxInv
<1>4. n \in Nat \ {0} /\ Len(executed) = n - 1
  BY <1>1
<1>5. \/ Readable /\ Carries(steps[n].frame) /\ executed' = Append(executed, n) /\ misheard' = misheard
      \/ /\ ~Readable
         /\ misheard' = (misheard \/ mode = "bsl")
         /\ UNCHANGED <<mode, chip_baud, committed, answer, links, flash, programmed, executed, hasty>>
  <2> HIDE DEF n
  <2> QED
    BY <1>3 DEF Hear, Readable, Carries, chip_vars
<1>6. executed' = Append(executed, n) => Len(executed') = n
  BY <1>1, <1>4
<1> HIDE DEF n
<1> QED
  BY <1>1, <1>2, <1>3, <1>4, <1>5, <1>6 DEF n

\* What else the line and the chip may do leaves the rest of them alone.
LEMMA EnvironmentFacts ==
  ASSUME Environment
  PROVE  /\ UNCHANGED <<steps, at, awaiting, writes_started, writes_finished, sent, heard,
                        pc, cur, rx, report>>
         /\ \/ Hear
            \/ /\ UNCHANGED <<line_baud, tx, committed, links, flash, programmed, executed, misheard, hasty>>
               /\ \/ Answer \/ AnswerSpoilt
                  \/ PowerLoss
                  \/ Disturb
BY DEF Environment, BslNext, vars, fields, driver_vars, Answer, AnswerSpoilt, AnswerLeaves,
       PowerLoss, Disturb, line_vars, chip_vars

\* Nothing the host does reaches past the adapter.
LEMMA HostFacts ==
  ASSUME RunStep \/ IoFails \/ FlushFails \/ Expire
  PROVE  UNCHANGED <<mode, chip_baud, committed, answer, links, flash, programmed,
                     executed, misheard, hasty, steps>>
<1>1. CASE Finished \/ Begin \/ IoFails \/ DrainAndSettle \/ LookFindsReply \/ LookFindsBadFrame \/ LookFindsNothing
  <2>1. UNCHANGED bsl_vars
    BY <1>1 DEF Finished, Begin, IoFails, DrainAndSettle, LookFindsReply, LookFindsBadFrame, LookFindsNothing
  <2>2. UNCHANGED steps
    BY <1>1 DEF Finished, Finish, Begin, Send, IoFails, DrainAndSettle, LookFindsReply, Accepted, Rejected,
                LookFindsBadFrame, LookFindsNothing, vars, fields
  <2> QED
    BY <2>1, <2>2 DEF bsl_vars, chip_vars
<1>2. CASE RetuneBefore \/ RetuneAfter
  BY <1>2 DEF RetuneBefore, RetuneAfter, SetBaud, chip_vars, vars, fields
<1>3. CASE Write \/ FlushFails
  BY <1>3 DEF Write, FlushFails, Put, chip_vars, vars, fields
<1>4. CASE Read \/ Expire
  BY <1>4 DEF Read, Expire, bsl_vars, chip_vars, vars, fields
<1> QED
  BY <1>1, <1>2, <1>3, <1>4 DEF RunStep

-----------------------------------------------------------------------------
(* The chip erases only over a line that was proved.                       *)

LEMMA LineInitInv == RunInit => LineInv
<1> SUFFICES ASSUME RunInit  PROVE LineInv
  OBVIOUS
<1>1. ~committed /\ links = 0 /\ executed = <<>> /\ ~hasty
  BY DEF RunInit, BslInit
<1>2. Len(executed) = 0
  BY <1>1, EmptyIsSeq
<1>3. ~CommittedBefore(steps, Len(executed) + 1)
  BY <1>2, NoneBefore
<1>4. \A m \in 0..LinksWanted : ProvedBy(m) => links >= m
  BY <1>1, <1>2, BslAssumption DEF ProvedBy
<1> QED
  BY <1>1, <1>3, <1>4 DEF LineInv

LEMMA LineHear == RunInv /\ LineInv /\ Hear /\ UNCHANGED steps => LineInv'
<1> SUFFICES ASSUME RunInv, LineInv, Hear, UNCHANGED steps  PROVE LineInv'
  OBVIOUS
<1> DEFINE n == Len(executed) + 1
<1>1. /\ n \in 1..Len(steps) /\ n \in Nat \ {0} /\ Len(executed) = n - 1
      /\ \/ Carries(steps[n].frame) /\ Len(executed') = n
         \/ UNCHANGED <<committed, links, executed, hasty>>
  BY HearFacts
<1>2. /\ committed <=> CommittedBefore(steps, n)
      /\ links \in Nat /\ ~hasty
      /\ \A m \in 0..LinksWanted : ProvedBy(m) => links >= m
  BY DEF LineInv
<1>3. steps \in Plans /\ LinksWanted \in Nat
  BY PlanFacts, BslAssumption DEF RunInv
<1> HIDE DEF n
<1>4. CASE UNCHANGED <<committed, links, executed, hasty>>
  BY <1>4 DEF LineInv, ProvedBy
<1>5. CASE Carries(steps[n].frame) /\ Len(executed') = n
  <2>1. CommittedBefore(steps, Len(executed') + 1) <=>
          CommittedBefore(steps, n) \/ Asks(steps, n, CmdBaudCommit)
    BY <1>1, <1>5, BeforeNext
  <2>2. committed' <=> CommittedBefore(steps', Len(executed') + 1)
    <3>1. CASE BaudRequest(steps[n].frame)
      <4>1. Trial(steps, n) /\ (committed' <=> Asks(steps, n, CmdBaudCommit))
        BY <3>1 DEF BaudRequest, Trial, Asks
      <4> QED
        BY <1>1, <1>3, <2>1, <4>1, StepRates
    <3>2. CASE ~BaudRequest(steps[n].frame)
      <4>1. committed' = committed /\ ~Asks(steps, n, CmdBaudCommit)
        BY <1>5, <3>2 DEF Carries, LinkTest, Erase, Program, SetOptions, RunApplication, Asks,
                          CmdBaudCommit, CmdLinkTest, CmdErase, CmdWrite, CmdOptions, CmdRun
      <4> QED
        BY <1>2, <2>1, <4>1
    <3> QED
      BY <3>1, <3>2
\* The last m steps carried out now are the last m - 1 from before and this one.
  <2>3. ASSUME NEW m \in 1..LinksWanted, ProvedBy(m)'
        PROVE  /\ Asks(steps, n, CmdLinkTest) /\ CommittedBefore(steps, n)
               /\ ProvedBy(m - 1) /\ m - 1 \in 0..LinksWanted /\ m \in Nat
    <3>1. /\ m \in Nat /\ m - 1 \in 0..LinksWanted /\ m <= n /\ n \in (n - m + 1)..n
          /\ (Len(executed) - (m - 1) + 1)..Len(executed) \subseteq (n - m + 1)..n
      BY <1>1, <1>3, <1>5, <2>3 DEF ProvedBy
    <3>2. \A k \in (n - m + 1)..n : Asks(steps, k, CmdLinkTest) /\ CommittedBefore(steps, k)
      BY <1>5, <2>3 DEF ProvedBy
    <3>3. m - 1 <= Len(executed)
      BY <1>1, <3>1
    <3> QED
      BY <3>1, <3>2, <3>3 DEF ProvedBy
  <2>4. links' \in Nat /\ \A m \in 0..LinksWanted : ProvedBy(m)' => links' >= m
    <3>1. CASE LinkTest(steps[n].frame)
      <4>1. links' = IF committed THEN links + 1 ELSE links
        BY <3>1 DEF LinkTest
      <4>2. ASSUME NEW m \in 1..LinksWanted, ProvedBy(m)'  PROVE links' >= m
        <5>1. links >= m - 1 /\ committed /\ m \in Nat
          BY <1>2, <2>3, <4>2
        <5> QED
          BY <1>2, <4>1, <5>1
      <4> QED
        BY <1>2, <1>3, <4>1, <4>2
    <3>2. CASE ~LinkTest(steps[n].frame)
      <4>1. links' = links /\ ~Asks(steps, n, CmdLinkTest)
        BY <1>5, <3>2 DEF Carries, BaudRequest, Erase, Program, SetOptions, RunApplication, Asks,
                          CmdBaudProbe, CmdBaudCommit, CmdLinkTest, CmdErase, CmdWrite, CmdOptions, CmdRun
      <4>2. \A m \in 1..LinksWanted : ~ProvedBy(m)'
        BY <2>3, <4>1
      <4> QED
        BY <1>2, <1>3, <4>1, <4>2
    <3> QED
      BY <3>1, <3>2
  <2>5. ~hasty'
    <3>1. CASE Erase(steps[n].frame)
      <4>1. Asks(steps, n, CmdErase) /\ hasty' = (hasty \/ links < LinksWanted)
        BY <3>1 DEF Erase, Asks
      <4>2. /\ n > LinksWanted
            /\ \A k \in (n - LinksWanted)..(n - 1) :
                 Asks(steps, k, CmdLinkTest) /\ CommittedBefore(steps, k)
        BY <1>1, <1>3, <4>1, ErasesAssumption DEF ProvesLineFirst
      <4>3. Len(executed) - LinksWanted + 1 = n - LinksWanted /\ LinksWanted <= Len(executed)
        BY <1>1, <1>3, <4>2
      <4>4. ProvedBy(LinksWanted)
        BY <1>1, <4>2, <4>3 DEF ProvedBy
      <4>5. links \in Nat /\ links >= LinksWanted
        BY <1>2, <1>3, <4>4
      <4>6. ~(links < LinksWanted)
        BY <1>3, <4>5
      <4> QED
        BY <1>2, <4>1, <4>6
    <3>2. CASE ~Erase(steps[n].frame)
      <4>1. hasty' = hasty
        BY <1>5, <3>2 DEF Carries, BaudRequest, LinkTest, Program, SetOptions, RunApplication
      <4> QED
        BY <1>2, <4>1
    <3> QED
      BY <3>1, <3>2
  <2> QED
    BY <2>2, <2>4, <2>5 DEF LineInv
<1> QED
  BY <1>1, <1>4, <1>5

LEMMA LineNextInv == RunInv /\ LineInv /\ [RunNext]_all_vars => LineInv'
<1> SUFFICES ASSUME RunInv, LineInv, [RunNext]_all_vars  PROVE LineInv'
  OBVIOUS
<1>1. ASSUME UNCHANGED <<steps, committed, links, executed, hasty>>  PROVE LineInv'
  BY <1>1 DEF LineInv, ProvedBy
<1>2. CASE RunStep \/ IoFails \/ FlushFails \/ Expire
  BY <1>1, <1>2, HostFacts
<1>3. CASE Environment
  BY <1>1, <1>3, EnvironmentFacts, LineHear
<1>4. CASE UNCHANGED all_vars
  BY <1>1, <1>4 DEF all_vars, vars, fields, bsl_vars, chip_vars
<1> QED
  BY <1>2, <1>3, <1>4 DEF RunNext

\* The chip is never asked to erase before it has answered every link test at the
\* rate of the transfer (stc89.rs 79-80, 351-408), whatever was lost, cut or
\* misheard before.
THEOREM ErasesOverAProvenLine == RunSpec => []NeverErasesOnAnUnprovenLine
<1>1. LineInv => NeverErasesOnAnUnprovenLine
  BY DEF LineInv, NeverErasesOnAnUnprovenLine
<1> QED
  BY <1>1, LineInitInv, LineNextInv, RunInvariant, PTL DEF RunSpec

-----------------------------------------------------------------------------
(* Both ends are at the same rate whenever a frame is on its way.          *)

LEMMA RateInitInv == RunInit => RateInv
<1> SUFFICES ASSUME RunInit  PROVE RateInv
  OBVIOUS
<1>1. /\ ~committed /\ chip_baud = HandshakeBaud /\ line_baud = HandshakeBaud
      /\ tx = <<>> /\ ~misheard /\ pc = "next" /\ at = 0
  BY DEF RunInit, Init, BslInit
<1>2. RateBefore(at + 1) = HandshakeBaud
  BY <1>1, NoneBefore DEF RateBefore
<1> QED
  BY <1>1, <1>2 DEF RateInv, ChipRate, HostRate, TxRate

LEMMA RateHear == RunInv /\ LineInv /\ RateInv /\ Hear /\ UNCHANGED <<steps, at, pc, cur>> => RateInv'
<1> SUFFICES ASSUME RunInv, LineInv, RateInv, Hear, UNCHANGED <<steps, at, pc, cur>>  PROVE RateInv'
  OBVIOUS
<1> DEFINE n == Len(executed) + 1
<1>1. /\ n \in 1..Len(steps) /\ tx # <<>> /\ tx' = <<>> /\ UNCHANGED line_baud
      /\ \/ Readable /\ Carries(steps[n].frame) /\ misheard' = misheard
         \/ /\ ~Readable
            /\ misheard' = (misheard \/ mode = "bsl")
            /\ UNCHANGED <<mode, chip_baud, committed, answer>>
  BY HearFacts
<1> HIDE DEF n
<1>2. ChipRate /\ HostRate /\ TxRate /\ ~misheard
  BY DEF RateInv
<1>3. HostRate' /\ TxRate'
  BY <1>1, <1>2 DEF HostRate, TxRate, RateBefore, SendRate
<1>4. ~misheard'
  BY <1>1, <1>2 DEF TxRate, Readable
<1>5. ChipRate'
  <2>1. CASE UNCHANGED <<mode, chip_baud, committed, answer>>
    BY <1>2, <2>1 DEF ChipRate
  <2>2. CASE BaudRequest(steps[n].frame)
    BY <2>2 DEF BaudRequest, ChipRate, NoAnswer
  <2>3. CASE Readable /\ Carries(steps[n].frame) /\ ~BaudRequest(steps[n].frame)
    <3>1. UNCHANGED <<chip_baud, committed>>
      BY <2>3 DEF Carries, LinkTest, Erase, Program, SetOptions, RunApplication
    <3>2. answer' # NoAnswer \/ RunApplication(steps[n].frame)
      BY <2>3 DEF Carries, LinkTest, Erase, Program, SetOptions, NoAnswer
    <3>3. RunApplication(steps[n].frame) => answer' = answer
      BY DEF RunApplication
    <3>4. mode # "off" /\ answer = NoAnswer
      BY <2>3 DEF Readable
    <3> QED
      BY <1>2, <2>3, <3>1, <3>2, <3>3, <3>4 DEF ChipRate
  <2> QED
    BY <1>1, <2>1, <2>2, <2>3
<1> QED
  BY <1>3, <1>4, <1>5 DEF RateInv

LEMMA RateEnvironment == RunInv /\ LineInv /\ RateInv /\ Environment => RateInv'
<1> SUFFICES ASSUME RunInv, LineInv, RateInv, Environment  PROVE RateInv'
  OBVIOUS
<1>1. UNCHANGED <<steps, at, pc, cur>>
  BY EnvironmentFacts
<1>2. CASE Hear
  BY <1>1, <1>2, RateHear
<1>3. CASE ~Hear
  <2>1. UNCHANGED <<line_baud, tx, committed, executed, misheard>>
    BY <1>3, EnvironmentFacts
  <2>2. ChipRate /\ HostRate /\ TxRate /\ ~misheard
    BY DEF RateInv
  <2>3. HostRate'
    BY <1>1, <2>1, <2>2 DEF HostRate, RateBefore, SendRate
  <2>4. CASE Answer \/ AnswerSpoilt
    <3>1. /\ answer # NoAnswer /\ answer' = NoAnswer /\ mode' = mode
          /\ chip_baud' = IF committed THEN chip_baud ELSE HandshakeBaud
      BY <2>4 DEF Answer, AnswerSpoilt, AnswerLeaves
    <3>2. ChipRate' /\ TxRate'
      BY <1>1, <2>1, <2>2, <3>1 DEF ChipRate, TxRate
    <3> QED
      BY <2>1, <2>2, <2>3, <3>2 DEF RateInv
  <2>5. CASE PowerLoss
    <3>1. mode' = "off" /\ answer' = NoAnswer /\ chip_baud' = chip_baud
      BY <2>5 DEF PowerLoss
    <3>2. ChipRate' /\ TxRate'
      BY <1>1, <2>1, <2>2, <3>1 DEF ChipRate, TxRate
    <3> QED
      BY <2>1, <2>2, <2>3, <3>2 DEF RateInv
  <2>6. CASE Disturb
    <3>1. UNCHANGED <<mode, answer, chip_baud>>
      BY <2>6 DEF Disturb, chip_vars
    <3>2. ChipRate' /\ TxRate'
      BY <1>1, <2>1, <2>2, <3>1 DEF ChipRate, TxRate
    <3> QED
      BY <2>1, <2>2, <2>3, <3>2 DEF RateInv
  <2> QED
    BY <1>3, <2>4, <2>5, <2>6, EnvironmentFacts
<1> QED
  BY <1>2, <1>3

\* The step in hand, if nothing answers it, is the last.
LEMMA UnansweredIsLast ==
  ASSUME RunInv, pc \in {"drop", "write", "drain", "switch"}, ~ExpectsReply(steps[cur])
  PROVE  at = Len(steps)
<1>1. Inv /\ PlaceInv
  BY DEF RunInv
<1>2. cur = Len(sent) /\ cur \in 1..Len(steps) /\ ~awaiting
  BY <1>1 DEF PlaceInv
<1> QED
  BY <1>1, <1>2, PlanFacts

\* What set_baud does to the line's side: it is used only while nothing is on its
\* way out.
LEMMA RetuneFacts ==
  ASSUME RunInv, tx = <<>>, NEW baud, SetBaud(baud), UNCHANGED steps
  PROVE  line_baud' = baud /\ tx' = <<>>
BY SetBaudFacts DEF SetBaud, RunInv

LEMMA RateNextInv ==
  ASSUME DrainMode = "TcDrain" \/ MarginCovers
  PROVE  RunInv /\ LineInv /\ RateInv /\ [RunNext]_all_vars => RateInv'
<1> SUFFICES ASSUME RunInv, LineInv, RateInv, [RunNext]_all_vars  PROVE RateInv'
  OBVIOUS
<1>1. ChipRate /\ HostRate /\ TxRate /\ ~misheard /\ Inv /\ PlaceInv /\ HistoryInv
  BY DEF RateInv, RunInv
<1>2. steps \in Plans /\ Len(steps) \in Nat /\ at \in Nat /\ Len(sent) = IF awaiting THEN at + 1 ELSE at
  BY <1>1, PlanFacts
<1>3. ASSUME UNCHANGED <<mode, chip_baud, committed, answer, misheard>>, HostRate', TxRate'  PROVE RateInv'
  BY <1>1, <1>3 DEF RateInv, ChipRate
<1>4. ASSUME UNCHANGED <<mode, chip_baud, committed, answer, misheard, tx>>, HostRate', pc' # "switch" \/ pc = "switch"
      PROVE  RateInv'
  BY <1>1, <1>3, <1>4 DEF TxRate
\* The rates around the step in hand.
<1>5. ASSUME NEW i \in 1..Len(steps)
      PROVE  /\ steps[i].retune_before_send # NoBaud => SendRate(i) = steps[i].retune_before_send
             /\ steps[i].retune_before_send = NoBaud => RateBefore(i) = SendRate(i)
             /\ steps[i].retune_after_send # NoBaud => RateBefore(i + 1) = steps[i].retune_after_send
             /\ steps[i].retune_after_send = NoBaud => RateBefore(i + 1) = SendRate(i)
  <2>1. i \in Nat \ {0}
    BY <1>2
  <2>2. TrialBefore(steps, i + 1) <=> TrialBefore(steps, i) \/ Trial(steps, i)
    BY <2>1, BeforeNext
  <2>3. CommittedBefore(steps, i) => TrialBefore(steps, i)
    BY CommitIsATrial
  <2> QED
    BY <1>2, <2>2, <2>3, StepRates DEF RateBefore, SendRate
<1>6. CASE Finished
  <2>1. pc' = "done" /\ UNCHANGED tx
    BY <1>6 DEF Finished, Return, bsl_vars, line_vars
  <2>2. HostRate'
    BY <2>1 DEF HostRate
  <2> QED
    BY <1>4, <1>6, <2>1, <2>2, HostFacts DEF RunStep
<1>7. CASE Begin
  <2>1. /\ pc = "next" /\ at < Len(steps) /\ cur' = at + 1 /\ UNCHANGED <<steps, tx, line_baud>>
        /\ pc' = IF steps[at + 1].retune_before_send # NoBaud THEN "drop" ELSE "write"
    BY <1>7 DEF Begin, Send, Step, bsl_vars, line_vars, NoBaud
  <2>2. at + 1 \in 1..Len(steps)
    BY <1>2, <2>1
  <2>3. line_baud = RateBefore(at + 1)
    BY <1>1, <2>1 DEF HostRate
  <2>4. HostRate'
    BY <1>5, <2>1, <2>2, <2>3 DEF HostRate, SendRate
  <2> QED
    BY <1>4, <1>7, <2>1, <2>4, HostFacts DEF RunStep
<1>8. CASE RetuneBefore
  <2>1. /\ pc = "drop" /\ pc' = "write" /\ UNCHANGED <<steps, at, cur>>
        /\ SetBaud(steps[cur].retune_before_send)
    BY <1>8 DEF RetuneBefore, vars, fields, StepInHand
  <2>2. tx = <<>> /\ cur \in 1..Len(steps) /\ steps[cur].retune_before_send # NoBaud
    BY <1>1, <2>1 DEF PlaceInv, Quiet, HostRate
  <2>3. line_baud' = steps[cur].retune_before_send /\ tx' = <<>>
    BY <2>1, <2>2, RetuneFacts
  <2>4. HostRate' /\ TxRate'
    BY <1>5, <2>1, <2>2, <2>3 DEF HostRate, TxRate, SendRate
  <2> QED
    BY <1>3, <1>8, <2>4, HostFacts DEF RunStep
<1>9. CASE Write \/ FlushFails
  <2>1. /\ pc = "write" /\ Put /\ UNCHANGED <<steps, at, cur, rx, line_baud>>
        /\ pc' \in {"failed", AfterWrite}
    BY <1>9 DEF Write, FlushFails, vars, fields, Put
  <2>2. tx'[1] = [frame |-> steps[cur].frame, step |-> cur, baud |-> line_baud, cut |-> FALSE]
    BY <2>1, PutFacts
  <2>3. UNCHANGED <<mode, chip_baud, committed, answer, misheard>>
    BY <1>9, HostFacts DEF RunStep
  <2>4. answer = NoAnswer /\ cur = Len(executed) + 1 /\ cur \in 1..Len(steps)
    BY <1>1, <2>1 DEF PlaceInv, Quiet, NoneToCome, HistoryInv
  <2>5. mode # "off" => chip_baud = SendRate(cur)
    BY <1>1, <2>4 DEF LineInv, ChipRate, SendRate
  <2>6. line_baud = SendRate(cur)
    BY <1>1, <2>1 DEF HostRate
  <2>7. pc' # "switch"
    BY <2>1 DEF AfterWrite
  <2>8. TxRate'
    BY <2>1, <2>2, <2>3, <2>4, <2>5, <2>6, <2>7 DEF TxRate
  <2>9. \/ pc' = "failed"
        \/ pc' = "drain" /\ steps[cur].retune_after_send # NoBaud
        \/ pc' = "look" /\ steps[cur].retune_after_send = NoBaud
        \/ pc' = "next" /\ ~ExpectsReply(steps[cur])
    BY <2>1 DEF AfterWrite, StepInHand, NoBaud
  <2>10. pc' = "next" => at = Len(steps)
    BY <2>1, <2>9, UnansweredIsLast
  <2>11. HostRate'
    BY <1>2, <1>5, <2>1, <2>4, <2>6, <2>9, <2>10 DEF HostRate, RateBefore
  <2> QED
    BY <1>3, <2>3, <2>8, <2>11
<1>10. CASE DrainAndSettle
  <2>1. pc = "drain" /\ pc' = "switch" /\ tx = <<>> /\ UNCHANGED <<steps, cur, tx>>
    BY <1>10 DEF DrainAndSettle, vars, fields, bsl_vars, line_vars
  <2>2. HostRate' /\ TxRate'
    BY <1>1, <2>1 DEF HostRate, TxRate
  <2> QED
    BY <1>3, <1>10, <2>2, HostFacts DEF RunStep
<1>11. CASE RetuneAfter
  <2>1. /\ pc = "switch" /\ UNCHANGED <<steps, at, cur>>
        /\ SetBaud(steps[cur].retune_after_send)
        /\ \/ pc' = "look"
           \/ pc' = "next" /\ ~ExpectsReply(steps[cur])
    BY <1>11 DEF RetuneAfter, vars, fields, StepInHand
  <2>2. tx = <<>> /\ cur \in 1..Len(steps) /\ steps[cur].retune_after_send # NoBaud
    BY <1>1, <2>1 DEF PlaceInv, TxRate, HostRate
  <2>3. line_baud' = steps[cur].retune_after_send /\ tx' = <<>>
    BY <2>1, <2>2, RetuneFacts
  <2>4. pc' = "next" => at = Len(steps)
    BY <2>1, UnansweredIsLast
  <2>5. HostRate' /\ TxRate'
    BY <1>2, <1>5, <2>1, <2>2, <2>3, <2>4 DEF HostRate, TxRate, RateBefore
  <2> QED
    BY <1>3, <1>11, <2>5, HostFacts DEF RunStep
<1>12. CASE IoFails
  <2>1. pc' = "failed" /\ UNCHANGED tx
    BY <1>12 DEF IoFails, Return, bsl_vars, line_vars
  <2>2. HostRate'
    BY <2>1 DEF HostRate
  <2> QED
    BY <1>4, <1>12, <2>1, <2>2, HostFacts
<1>13. CASE LookFindsReply
  <2>1. /\ pc = "look" /\ UNCHANGED <<steps, tx, line_baud>>
        /\ \/ pc' = "next" /\ at' = at + 1 /\ awaiting
           \/ pc' = "failed"
    BY <1>13 DEF LookFindsReply, Accepted, Rejected, Advance, fields, bsl_vars, line_vars
  <2>2. awaiting => cur = at + 1
    BY <1>1, <1>2, <2>1 DEF PlaceInv
  <2>3. HostRate'
    BY <1>1, <2>1, <2>2 DEF HostRate, RateBefore
  <2> QED
    BY <1>4, <1>13, <2>1, <2>3, HostFacts DEF RunStep
<1>14. CASE LookFindsBadFrame \/ LookFindsNothing \/ Read \/ Expire
  <2>1. /\ pc \in {"look", "read"} /\ pc' \in {"look", "read", "failed"}
        /\ UNCHANGED <<steps, cur, tx, line_baud>>
    BY <1>14 DEF LookFindsBadFrame, LookFindsNothing, Read, Expire, vars, fields, bsl_vars, line_vars
  <2>2. HostRate'
    BY <1>1, <2>1 DEF HostRate, RateBefore
  <2> QED
    BY <1>4, <1>14, <2>1, <2>2, HostFacts DEF RunStep
<1>15. CASE Environment
  BY <1>15, RateEnvironment
<1>16. CASE UNCHANGED all_vars
  <2>1. UNCHANGED <<mode, chip_baud, committed, answer, misheard, tx, line_baud, pc, cur, at, steps>>
    BY <1>16 DEF all_vars, vars, fields, driver_vars, bsl_vars, chip_vars, line_vars
  <2>2. HostRate'
    BY <1>1, <2>1 DEF HostRate, RateBefore, SendRate
  <2> QED
    BY <1>4, <2>1, <2>2
<1> QED
  BY <1>6, <1>7, <1>8, <1>9, <1>10, <1>11, <1>12, <1>13, <1>14, <1>15, <1>16 DEF RunNext, RunStep

\* No frame reaches the boot loader cut by a retune, while it answers, or at a rate
\* it is not listening at, if drain() waits for the wire or the settle time is at
\* least a frame's time on it (session.rs 78-88, driver.rs 262-280).
THEOREM NothingMisheard ==
  ASSUME DrainMode = "TcDrain" \/ MarginCovers
  PROVE  RunSpec => []NothingIsMisheard
<1>1. LineInv /\ RateInv /\ RunInv /\ [RunNext]_all_vars /\ RunInv' => LineInv' /\ RateInv'
  BY LineNextInv, RateNextInv
<1>2. RunInit => LineInv /\ RateInv
  BY LineInitInv, RateInitInv
<1>3. RateInv => NothingIsMisheard
  BY DEF RateInv, NothingIsMisheard
<1> QED
  BY <1>1, <1>2, <1>3, RunInvariant, PTL DEF RunSpec

-----------------------------------------------------------------------------
(* What becomes of the flash.  The host never reads it: it knows a block   *)
(* is good because a frame it received carried the block's sum.  So the    *)
(* invariant has to follow every frame on its way: Honest are the frames   *)
(* which, taken for the answer to the step carried out last, do not claim  *)
(* too much.                                                               *)

Block(i) == BlockOf(steps[i].frame)

\* An erase that was carried out covered the block of write step i.
WasErased(i) == \E e \in 1..Len(executed) :
                  Asks(steps, e, CmdErase) /\ Block(i) < steps[e].frame.payload[1] * EraseUnit

FlashInv ==
  /\ flash = [b \in 0..(FlashBlocks - 1) |-> flash[b]]
  /\ programmed = {Block(i) : i \in {k \in Writes : k <= Len(executed)}}
  /\ \A i \in Writes : i > Len(executed) /\ WasErased(i) => flash[Block(i)] = Erased
  /\ \A i \in Writes : Answered(i) => InFlash(i)

Claims(f) == Len(executed) \in Writes /\ Verdict(steps[Len(executed)], f) = "Ok"
Honest    == {f \in Replies : Claims(f) => InFlash(Len(executed))}

FramesIn(items, R) == \A k \in 1..Len(items) : items[k].kind = "frame" => items[k].frame \in R

TruthInv ==
  /\ FramesIn(rx, Honest) /\ FramesIn(inq, Honest)
  /\ answer # NoAnswer => answer[1] \in Honest
  /\ tx # <<>> => NoneToCome

ReportInv ==
  /\ tx # <<>> => Len(executed) < Len(sent)
  /\ Len(executed) <= Len(sent)
  /\ pc = "done" => report.kind = "ok" /\ IsFinished
  /\ pc = "failed" => report.kind = IF FlashIsIndeterminate THEN "indeterminate" ELSE "plain"
  /\ pc \notin {"done", "failed"} => report = NoReport

-----------------------------------------------------------------------------
(* Frames that move, or are dropped, stay what they are.                   *)

LEMMA SuffixFrames ==
  ASSUME NEW R, NEW s, NEW t, NEW m, IsSeq(s), Suffix(t, s, m), FramesIn(s, R)
  PROVE  FramesIn(t, R)
<1>1. \A k \in 1..Len(t) : k + m \in 1..Len(s) /\ t[k] = s[k + m]
  BY DEF IsSeq, Suffix
<1> QED
  BY <1>1 DEF FramesIn

LEMMA AppendFrames ==
  ASSUME NEW R, NEW s, NEW e, IsSeq(s), FramesIn(s, R), e.kind = "frame" => e.frame \in R
  PROVE  FramesIn(Append(s, e), R)
<1>1. /\ Len(s) \in Nat /\ Len(Append(s, e)) = Len(s) + 1
      /\ \A k \in 1..(Len(s) + 1) : Append(s, e)[k] = IF k = Len(s) + 1 THEN e ELSE s[k]
  BY AppendSeq DEF IsSeq
<1>2. \A k \in 1..(Len(s) + 1) : k = Len(s) + 1 \/ k \in 1..Len(s)
  BY <1>1
<1> QED
  BY <1>1, <1>2 DEF FramesIn

LEMMA ReadFrames ==
  ASSUME NEW R, NEW s, NEW q, IsSeq(s), IsSeq(q), FramesIn(s, R), FramesIn(q, R), NEW n \in 0..Len(q)
  PROVE  FramesIn(s \o SubSeq(q, 1, n), R) /\ FramesIn(SubSeq(q, n + 1, Len(q)), R)
<1> DEFINE p == SubSeq(q, 1, n)
<1>1. Len(s) \in Nat /\ Len(q) \in Nat /\ n \in Nat /\ n <= Len(q)
  BY DEF IsSeq
<1>2. IsSeq(p) /\ Len(p) = n /\ \A k \in 1..n : p[k] = q[k]
  BY PrefixSeq
<1>3. Suffix(SubSeq(q, n + 1, Len(q)), q, n)
  BY SuffixSeq
<1>4. FramesIn(SubSeq(q, n + 1, Len(q)), R)
  BY <1>3, SuffixFrames
<1> HIDE DEF p
<1>5. Len(s \o p) = Len(s) + n
      /\ \A k \in 1..(Len(s) + n) : (s \o p)[k] = IF k <= Len(s) THEN s[k] ELSE p[k - Len(s)]
  BY <1>2, ConcatSeq
<1>6. \A k \in 1..(Len(s) + n) : \/ k \in 1..Len(s) /\ (s \o p)[k] = s[k]
                                 \/ k - Len(s) \in 1..Len(q) /\ (s \o p)[k] = q[k - Len(s)]
  BY <1>1, <1>2, <1>5
<1>7. FramesIn(s \o p, R)
  BY <1>5, <1>6 DEF FramesIn
<1> QED
  BY <1>4, <1>7 DEF p

LEMMA RestFrames ==
  ASSUME NEW R, NEW rest, IsSeq(rx), FramesIn(rx, R),
         rest = Held(rx) \/ (Held(rx) # <<>> /\ rest = Tail(Held(rx)))
  PROVE  FramesIn(rest, R)
<1> DEFINE h == Held(rx)
<1>1. PICK m \in 0..Len(rx) : Suffix(h, rx, m)
  BY HeldIsSuffix
<1>2. rest = h \/ (h # <<>> /\ rest = Tail(h))
  OBVIOUS
<1> HIDE DEF h
<1>3. FramesIn(h, R) /\ IsSeq(h)
  BY <1>1, SuffixFrames DEF Suffix
<1>4. CASE h # <<>> /\ rest = Tail(h)
  <2>1. Suffix(rest, h, 1)
    BY <1>3, <1>4, TailSeq
  <2> QED
    BY <1>3, <2>1, SuffixFrames
<1> QED
  BY <1>2, <1>3, <1>4

LEMMA ReplyFrame ==
  ASSUME NEW R, IsSeq(rx), FramesIn(rx, R), IsReply(Held(rx))
  PROVE  Held(rx)[1].frame \in R
<1> DEFINE h == Held(rx)
<1>1. h # <<>> /\ h[1].kind = "frame"
  BY DEF IsReply
<1>2. PICK m \in 0..Len(rx) : Suffix(h, rx, m)
  BY HeldIsSuffix
<1> HIDE DEF h
<1>3. FramesIn(h, R) /\ IsSeq(h)
  BY <1>2, SuffixFrames DEF Suffix
<1>4. 1 \in 1..Len(h)
  BY <1>1, <1>3, NoItems DEF IsSeq
<1> QED
  BY <1>1, <1>3, <1>4 DEF FramesIn, h

-----------------------------------------------------------------------------
(* What the plan says of its write steps.                                  *)

LEMMA WriteFacts ==
  ASSUME Inv, NEW i \in Writes
  PROVE  /\ i \in 1..Len(steps) /\ i \in Nat
         /\ Asks(steps, i, CmdWrite)
         /\ Block(i) \in 0..(FlashBlocks - 1)
         /\ steps[i].expect = ExpectBlockAck(Checksum(DataOf(steps[i].frame)))
         /\ \E e \in 1..(i - 1) :
              Asks(steps, e, CmdErase) /\ Block(i) < steps[e].frame.payload[1] * EraseUnit
         /\ \A k \in 1..Len(steps) : Asks(steps, k, CmdErase) => k < i
         /\ \A k \in Writes : k # i => Block(k) # Block(i)
<1>1. steps \in Plans /\ i \in 1..Len(steps) /\ steps[i].phase = "Write" /\ Len(steps) \in Nat
  BY PlanFacts DEF Writes, IsWrite
<1> QED
  BY <1>1, BlocksAssumption DEF FillsOwnBlocks, Writes, IsWrite, Block, BlockOf

LEMMA WritesAsk ==
  ASSUME Inv, NEW i \in 1..Len(steps)
  PROVE  i \in Writes <=> Asks(steps, i, CmdWrite)
BY PlanFacts, BlocksAssumption DEF FillsOwnBlocks, Writes, IsWrite

\* The sum that would be sent for a block gone wrong is not the block's.
LEMMA WrongSum ==
  ASSUME Inv, NEW i \in 1..Len(steps)
  PROVE  LET sum == Checksum(DataOf(steps[i].frame)) IN (sum + 1) % 256 # sum
<1> DEFINE sum == Checksum(DataOf(steps[i].frame))
<1>1. McuFrame(ReplyAck, <<sum>>) \in FrameType
  BY PlanFacts, AnswersAssumption, RepliesAssumption
<1> HIDE DEF sum
<1>2. <<sum>> \in Seq(Byte)
  BY <1>1 DEF McuFrame, FrameType
<1>3. sum \in Byte
  BY <1>2
<1>4. sum \in Nat /\ sum < 256
  BY <1>3 DEF Byte
<1>5. \A x \in Nat : x < 256 => (x + 1) % 256 # x
  <2>1. ASSUME NEW x \in Nat, x < 255  PROVE (x + 1) % 256 = x + 1
    BY <2>1
  <2>2. (255 + 1) % 256 = 0
    OBVIOUS
  <2> QED
    BY <2>1, <2>2
<1> QED
  BY <1>4, <1>5 DEF sum

-----------------------------------------------------------------------------
LEMMA FlashInitInv == RunInit => FlashInv /\ TruthInv /\ ReportInv
<1> SUFFICES ASSUME RunInit  PROVE FlashInv /\ TruthInv /\ ReportInv
  OBVIOUS
<1>1. RunInv /\ Inv /\ QueuesInv /\ PlaceInv
  BY RunInitInv DEF RunInv
<1>2. /\ tx = <<>> /\ answer = NoAnswer /\ rx = <<>> /\ executed = <<>> /\ pc = "next" /\ programmed = {}
      /\ flash = [b \in 0..(FlashBlocks - 1) |-> Old] /\ report = NoReport
      /\ \A i \in 1..Len(steps) : heard[i] = <<>>
  BY DEF RunInit, Init, BslInit
<1>3. Len(executed) = 0
  BY <1>2, EmptyIsSeq
<1>4. \A i \in Writes : ~(i <= Len(executed)) /\ ~WasErased(i) /\ ~Answered(i)
  <2>1. \A i \in Writes : i \in 1..Len(steps) /\ i \in Nat /\ i > 0
    BY <1>1, WriteFacts
  <2> QED
    BY <1>2, <1>3, <2>1 DEF WasErased, Answered
<1>5. FlashInv
  BY <1>2, <1>4 DEF FlashInv
<1>6. TruthInv
  <2>1. ~(Len(executed) \in Writes)
    BY <1>3 DEF Writes
  <2>2. Honest = Replies
    BY <2>1 DEF Honest, Claims
  <2> QED
    BY <1>1, <1>2, <2>2 DEF TruthInv, FramesIn, QueuesInv, KnownFrames
<1>7. ReportInv
  <2>1. Len(sent) = 0
    BY <1>1, PlanFacts DEF PlaceInv, RunInit, Init
  <2> QED
    BY <1>2, <1>3, <2>1 DEF ReportInv
<1> QED
  BY <1>5, <1>6, <1>7

\* The chip carries out one more step, or none.
LEMMA FlashHear == RunInv /\ FlashInv /\ Hear /\ UNCHANGED <<steps, heard>> => FlashInv'
<1> SUFFICES ASSUME RunInv, FlashInv, Hear, UNCHANGED <<steps, heard>>  PROVE FlashInv'
  OBVIOUS
<1> DEFINE n == Len(executed) + 1
           f == steps[n].frame
<1>1. /\ n \in 1..Len(steps) /\ n \in Nat \ {0} /\ Len(executed) = n - 1
      /\ \/ Carries(f) /\ Len(executed') = n
         \/ UNCHANGED <<flash, programmed, executed>>
  BY HearFacts
<1>2. /\ flash = [b \in 0..(FlashBlocks - 1) |-> flash[b]]
      /\ programmed = {Block(i) : i \in {k \in Writes : k <= n - 1}}
      /\ \A i \in Writes : i > n - 1 /\ WasErased(i) => flash[Block(i)] = Erased
      /\ \A i \in Writes : Answered(i) => InFlash(i)
  BY <1>1 DEF FlashInv
<1>3. /\ Inv
      /\ \A i \in Writes : Answered(i) => i <= n - 1
  BY <1>1 DEF RunInv, HistoryInv, Writes
<1> HIDE DEF n
<1>4. /\ Writes' = Writes
      /\ \A i : Block(i)' = Block(i)
      /\ \A i : Answered(i)' <=> Answered(i)
  BY DEF Writes, IsWrite, Block, Answered
<1>5. \A i \in Writes : i \in 1..Len(steps) /\ i \in Nat /\ Block(i) \in 0..(FlashBlocks - 1)
  BY <1>3, WriteFacts
<1>6. CASE UNCHANGED <<flash, programmed, executed>>
  <2>1. \A i : (InFlash(i)' <=> InFlash(i)) /\ (WasErased(i)' <=> WasErased(i))
    BY <1>4, <1>6 DEF InFlash, WasErased, Block
  <2> QED
    BY <1>2, <1>4, <1>6, <2>1 DEF FlashInv
<1>7. CASE Carries(f) /\ Len(executed') = n
  <2>1. \A i : WasErased(i)' <=>
          \/ WasErased(i)
          \/ Asks(steps, n, CmdErase) /\ Block(i) < f.payload[1] * EraseUnit
    <3>1. \A e : e \in 1..n <=> e \in 1..(n - 1) \/ e = n
      BY <1>1
    <3> QED
      BY <1>1, <1>4, <1>7, <3>1 DEF WasErased
  <2> SUFFICES /\ flash' = [b \in 0..(FlashBlocks - 1) |-> flash'[b]]
               /\ programmed' = {Block(i) : i \in {k \in Writes : k <= n}}
               /\ \A i \in Writes : i > n /\ WasErased(i)' => flash'[Block(i)] = Erased
               /\ \A i \in Writes : Answered(i) => flash'[Block(i)] = flash[Block(i)]
    BY <1>2, <1>4, <1>7 DEF FlashInv, InFlash, Block
  <2>2. CASE Erase(f)
    <3>1. /\ flash' = [b \in 0..(FlashBlocks - 1) |->
                         IF b < f.payload[1] * EraseUnit THEN Erased ELSE flash[b]]
          /\ programmed' = {} /\ Asks(steps, n, CmdErase)
      BY <1>2, <2>2 DEF Erase, Asks
    <3>2. \A i \in Writes : n < i
      BY <1>1, <1>3, <3>1, WriteFacts
    <3>3. \A i \in Writes : ~(i <= n) /\ ~Answered(i)
      BY <1>1, <1>3, <1>5, <3>2
    <3>4. ASSUME NEW i \in Writes, i > n, WasErased(i)'  PROVE flash'[Block(i)] = Erased
      <4>1. i > n - 1 /\ Block(i) \in 0..(FlashBlocks - 1)
        BY <1>1, <1>5, <3>4
      <4>2. flash'[Block(i)] = IF Block(i) < f.payload[1] * EraseUnit THEN Erased ELSE flash[Block(i)]
        BY <3>1, <4>1
      <4>3. WasErased(i) \/ Block(i) < f.payload[1] * EraseUnit
        BY <2>1, <3>4
      <4> QED
        BY <1>2, <4>1, <4>2, <4>3
    <3> QED
      BY <3>1, <3>3, <3>4
  <2>3. CASE Program(f)
    <3>1. Asks(steps, n, CmdWrite) /\ ~Asks(steps, n, CmdErase)
      BY <2>3 DEF Program, Asks, CmdWrite, CmdErase
    <3>2. n \in Writes
      BY <1>1, <1>3, <3>1, WritesAsk
    <3>3. /\ \E v : flash' = [flash EXCEPT ![Block(n)] = v]
          /\ programmed' = programmed \cup {Block(n)}
      BY <2>3 DEF Program, Block
    <3>4. /\ flash' = [b \in 0..(FlashBlocks - 1) |-> flash'[b]]
          /\ \A i \in Writes : i # n => flash'[Block(i)] = flash[Block(i)]
      <4>1. \A i \in Writes : i # n => Block(i) # Block(n)
        BY <1>3, <3>2, WriteFacts
      <4> QED
        BY <1>2, <1>5, <3>3, <4>1
    <3>5. programmed' = {Block(i) : i \in {k \in Writes : k <= n}}
      <4>1. \A k \in Writes : k <= n <=> k <= n - 1 \/ k = n
        BY <1>1, <1>5
      <4> QED
        BY <1>2, <3>2, <3>3, <4>1
    <3>6. ASSUME NEW i \in Writes, i > n, WasErased(i)'  PROVE flash'[Block(i)] = Erased
      <4>1. i > n - 1 /\ i # n
        BY <1>1, <1>5, <3>6
      <4> QED
        BY <1>2, <2>1, <3>1, <3>4, <3>6, <4>1
    <3>7. \A i \in Writes : Answered(i) => flash'[Block(i)] = flash[Block(i)]
      <4>1. \A i \in Writes : Answered(i) => i # n
        BY <1>1, <1>3, <1>5
      <4> QED
        BY <3>4, <4>1
    <3> QED
      BY <3>4, <3>5, <3>6, <3>7
  <2>4. CASE BaudRequest(f) \/ LinkTest(f) \/ SetOptions(f) \/ RunApplication(f)
    <3>1. UNCHANGED <<flash, programmed>>
      BY <2>4 DEF BaudRequest, LinkTest, SetOptions, RunApplication
    <3>2. ~Asks(steps, n, CmdWrite) /\ ~Asks(steps, n, CmdErase)
      BY <2>4 DEF BaudRequest, LinkTest, SetOptions, RunApplication, Asks, CmdBaudProbe, CmdBaudCommit,
                  CmdLinkTest, CmdErase, CmdWrite, CmdOptions, CmdRun
    <3>3. n \notin Writes
      BY <1>1, <1>3, <3>2, WritesAsk
    <3>4. \A i \in Writes : (i <= n <=> i <= n - 1) /\ (i > n => i > n - 1)
      BY <1>1, <1>5, <3>3
    <3> QED
      BY <1>2, <2>1, <3>1, <3>2, <3>4
  <2> QED
    BY <1>7, <2>2, <2>3, <2>4 DEF Carries
<1> QED
  BY <1>1, <1>6, <1>7

\* The chip's answer to the step it has just carried out is honest; frames that
\* were there before it could not be taken for one.
LEMMA TruthHear ==
  RunInv /\ RunInv' /\ FlashInv /\ TruthInv /\ Hear /\ UNCHANGED <<steps, rx>> => TruthInv'
<1> SUFFICES ASSUME RunInv, RunInv', FlashInv, TruthInv, Hear, UNCHANGED <<steps, rx>>  PROVE TruthInv'
  OBVIOUS
<1> DEFINE n == Len(executed) + 1
           f == steps[n].frame
<1>1. /\ n \in 1..Len(steps) /\ n \in Nat \ {0} /\ Len(executed) = n - 1
      /\ tx # <<>> /\ tx' = <<>> /\ UNCHANGED inq
      /\ \/ Carries(f) /\ Len(executed') = n
         \/ UNCHANGED <<answer, flash, executed>>
  BY HearFacts
<1>2. NoneToCome /\ FramesIn(rx, Honest) /\ FramesIn(inq, Honest)
  BY <1>1 DEF TruthInv
<1>3. Inv /\ QueuesInv /\ QueuesInv' /\ steps \in Plans
  BY PlanFacts DEF RunInv
<1> HIDE DEF n
<1>4. Writes' = Writes /\ \A i : Block(i)' = Block(i)
  BY DEF Writes, IsWrite, Block
<1>5. CASE UNCHANGED <<answer, flash, executed>>
  <2>1. Honest' = Honest
    BY <1>4, <1>5 DEF Honest, Claims, InFlash
  <2> QED
    BY <1>1, <1>2, <1>5, <2>1 DEF TruthInv, FramesIn, NoneToCome
<1>6. CASE Carries(f) /\ Len(executed') = n
  <2>1. \A g \in Replies : Foreign(g) => g \in Honest'
    BY <1>1, <1>3, <1>6 DEF Honest, Claims, Foreign
  <2>2. FramesIn(rx', Honest') /\ FramesIn(inq', Honest')
    BY <1>1, <1>2, <1>3, <2>1 DEF FramesIn, NoneToCome, AnswerIn, CouldAnswer, QueuesInv, KnownFrames
  <2>3. ASSUME n \in Writes, Verdict(steps[n], answer'[1]) = "Ok"  PROVE flash'[Block(n)] = DataOf(f)
    <3> DEFINE sum == Checksum(DataOf(f))
    <3>1. /\ Asks(steps, n, CmdWrite) /\ Block(n) \in 0..(FlashBlocks - 1)
          /\ steps[n].expect = ExpectBlockAck(sum)
          /\ \E e \in 1..(n - 1) : Asks(steps, e, CmdErase) /\ Block(n) < steps[e].frame.payload[1] * EraseUnit
      BY <1>3, <2>3, WriteFacts
    <3>2. (sum + 1) % 256 # sum
      BY <1>1, <1>3, WrongSum
    <3>3. Program(f)
      BY <1>6, <3>1 DEF Carries, BaudRequest, LinkTest, Erase, SetOptions, RunApplication, Asks,
                        CmdBaudProbe, CmdBaudCommit, CmdLinkTest, CmdErase, CmdWrite, CmdOptions, CmdRun
    <3> HIDE DEF sum
    <3>4. \/ /\ flash' = [flash EXCEPT ![Block(n)] = IF @ = Erased THEN DataOf(f) ELSE Garbage]
             /\ answer' = <<McuFrame(ReplyAck, <<sum>>)>>
          \/ answer' = <<McuFrame(ReplyAck, <<(sum + 1) % 256>>)>>
      BY <3>3 DEF Program, Block, sum
    <3>5. answer' # <<McuFrame(ReplyAck, <<(sum + 1) % 256>>)>>
      <4>1. ASSUME answer' = <<McuFrame(ReplyAck, <<(sum + 1) % 256>>)>>
            PROVE  Verdict(steps[n], answer'[1]) = "BlockAckMismatch"
        <5>1. answer'[1] = McuFrame(ReplyAck, <<(sum + 1) % 256>>)
          BY <4>1
        <5>2. /\ answer'[1].dir = "McuToHost" /\ answer'[1].cmd = ReplyAck
              /\ Len(answer'[1].payload) = 1 /\ answer'[1].payload[1] = (sum + 1) % 256
          BY <5>1 DEF McuFrame
        <5>3. steps[n].expect.kind = "BlockAck" /\ steps[n].expect.sum = sum
          BY <3>1 DEF ExpectBlockAck
        <5> QED
          BY <3>2, <5>2, <5>3 DEF Verdict
      <4> QED
        BY <2>3, <4>1
    <3>6. flash[Block(n)] = Erased
      <4>1. WasErased(n) /\ n > Len(executed)
        BY <1>1, <3>1 DEF WasErased
      <4> QED
        BY <2>3, <4>1 DEF FlashInv
    <3>7. flash = [b \in 0..(FlashBlocks - 1) |-> flash[b]]
      BY DEF FlashInv
    <3> QED
      BY <3>1, <3>4, <3>5, <3>6, <3>7
  <2>4. answer' # NoAnswer => answer'[1] \in Honest'
    <3>1. answer' # NoAnswer => answer'[1] \in Replies
      BY <1>3 DEF QueuesInv
    <3> QED
      BY <1>4, <1>6, <2>3, <3>1 DEF Honest, Claims, InFlash, Block
  <2> QED
    BY <1>1, <2>2, <2>4 DEF TruthInv
<1> QED
  BY <1>1, <1>5, <1>6

\* Whatever else the line does keeps both.
LEMMA FlashEnvironment ==
  RunInv /\ RunInv' /\ FlashInv /\ TruthInv /\ Environment => FlashInv' /\ TruthInv'
<1> SUFFICES ASSUME RunInv, RunInv', FlashInv, TruthInv, Environment  PROVE FlashInv' /\ TruthInv'
  OBVIOUS
<1>1. UNCHANGED <<steps, heard, rx>>
  BY EnvironmentFacts
<1>2. CASE Hear
  BY <1>1, <1>2, FlashHear, TruthHear
<1>3. CASE ~Hear
  <2>1. /\ UNCHANGED <<tx, flash, programmed, executed>>
        /\ Answer \/ AnswerSpoilt \/ PowerLoss \/ Disturb
    BY <1>3, EnvironmentFacts
  <2>2. Honest' = Honest /\ FlashInv'
    BY <1>1, <2>1 DEF FlashInv, Honest, Claims, InFlash, Writes, IsWrite, Block, Answered, WasErased
  <2>3. /\ FramesIn(rx, Honest) /\ FramesIn(inq, Honest) /\ IsSeq(inq)
        /\ answer # NoAnswer => answer[1] \in Honest
        /\ tx # <<>> => NoneToCome
    BY DEF TruthInv, RunInv, QueuesInv
  <2>4. CASE Answer \/ AnswerSpoilt
    <3>1. /\ answer # NoAnswer /\ answer' = NoAnswer
          /\ \/ inq' = inq
             \/ inq' = Append(inq, FrameItem(answer[1]))
             \/ \E kind \in {"noise", "bad"} : inq' = Append(inq, Junk(kind))
      BY <2>4 DEF Answer, AnswerSpoilt, AnswerLeaves
    <3>2. ASSUME NEW e, inq' = Append(inq, e), e.kind = "frame" => e.frame \in Honest
          PROVE  FramesIn(inq', Honest)
      BY <2>3, <3>2, AppendFrames
    <3>3. FramesIn(inq', Honest)
      BY <2>3, <3>1, <3>2 DEF FrameItem, Junk
    <3>4. tx = <<>>
      BY <2>3, <3>1 DEF NoneToCome
    <3> QED
      BY <1>1, <2>1, <2>2, <2>3, <3>1, <3>3, <3>4 DEF TruthInv
  <2>5. CASE PowerLoss
    <3>1. answer' = NoAnswer /\ inq' = inq
      BY <2>5 DEF PowerLoss, line_vars
    <3> QED
      BY <1>1, <2>1, <2>2, <2>3, <3>1 DEF TruthInv, NoneToCome
  <2>6. CASE Disturb
    <3>1. answer' = answer
      BY <2>6 DEF Disturb, chip_vars
    <3>2. PICK kind \in {"noise", "bad", "fluke"} : inq' = Append(inq, Junk(kind))
      BY <2>6, BslAssumption DEF Disturb
    <3>3. Junk(kind).kind # "frame"
      BY <3>2 DEF Junk
    <3>4. FramesIn(inq', Honest)
      BY <2>3, <3>2, <3>3, AppendFrames
    <3>5. AnswerIn(inq') => AnswerIn(inq)
      BY <2>3, <3>2, <3>3, AppendKeeps
    <3> QED
      BY <1>1, <2>1, <2>2, <2>3, <3>1, <3>4, <3>5 DEF TruthInv, NoneToCome
  <2> QED
    BY <2>1, <2>4, <2>5, <2>6
<1> QED
  BY <1>2, <1>3

\* The host moves frames from the line to the session, and drops some.
LEMMA TruthHost ==
  RunInv /\ TruthInv /\ (RunStep \/ IoFails \/ FlushFails \/ Expire) => TruthInv'
<1> SUFFICES ASSUME RunInv, TruthInv, RunStep \/ IoFails \/ FlushFails \/ Expire  PROVE TruthInv'
  OBVIOUS
<1>1. UNCHANGED <<answer, flash, executed, steps>>
  BY HostFacts
<1>2. Honest' = Honest
  BY <1>1 DEF Honest, Claims, InFlash, Writes, IsWrite
<1>3. /\ FramesIn(rx, Honest) /\ FramesIn(inq, Honest)
      /\ answer # NoAnswer => answer[1] \in Honest
      /\ tx # <<>> => NoneToCome
  BY DEF TruthInv
<1>4. QueuesInv /\ TxInv /\ IsSeq(rx) /\ IsSeq(inq)
  BY DEF RunInv, QueuesInv
<1>5. ASSUME FramesIn(rx', Honest), FramesIn(inq', Honest), tx' # <<>> => NoneToCome'  PROVE TruthInv'
  BY <1>1, <1>2, <1>3, <1>5 DEF TruthInv
<1>6. CASE Finished \/ Begin \/ DrainAndSettle \/ IoFails \/ Expire
  <2>1. UNCHANGED <<rx, inq, tx>>
    BY <1>6 DEF Finished, Begin, DrainAndSettle, IoFails, Expire, Return, bsl_vars, line_vars
  <2> QED
    BY <1>1, <1>3, <1>5, <2>1 DEF NoneToCome
<1>7. ASSUME NEW baud, SetBaud(baud)  PROVE TruthInv'
  <2>1. rx' = <<>> /\ UNCHANGED inq
    BY <1>7 DEF SetBaud
  <2>2. FramesIn(rx', Honest)
    BY <2>1, EmptyIsSeq DEF FramesIn
  <2>3. tx' # <<>> => NoneToCome'
    BY <1>1, <1>3, <1>4, <1>7, SetBaudFacts
  <2> QED
    BY <1>3, <1>5, <2>1, <2>2, <2>3
<1>8. CASE RetuneBefore \/ RetuneAfter
  BY <1>7, <1>8 DEF RetuneBefore, RetuneAfter
<1>9. CASE Write \/ FlushFails
  <2>1. pc = "write" /\ Put /\ UNCHANGED <<steps, rx>>
    BY <1>9 DEF Write, FlushFails, vars, fields
  <2>2. NoneToCome' /\ UNCHANGED inq
    BY <2>1, PutFacts
  <2> QED
    BY <1>3, <1>5, <2>1, <2>2
<1>10. CASE LookFindsReply \/ LookFindsBadFrame \/ LookFindsNothing
  <2>1. /\ rx' = Held(rx) \/ (Held(rx) # <<>> /\ rx' = Tail(Held(rx)))
        /\ UNCHANGED <<inq, tx>>
    BY <1>10 DEF LookFindsReply, LookFindsBadFrame, LookFindsNothing, IsReply, IsBad, bsl_vars, line_vars
  <2>2. FramesIn(rx', Honest)
    BY <1>3, <1>4, <2>1, RestFrames
  <2>3. AnswerIn(rx') => AnswerIn(rx)
    BY <1>4, <2>1, RestFacts
  <2> QED
    BY <1>1, <1>3, <1>5, <2>1, <2>2, <2>3 DEF NoneToCome
<1>11. CASE Read
  <2>1. PICK n \in 0..Len(inq) : rx' = rx \o SubSeq(inq, 1, n) /\ inq' = SubSeq(inq, n + 1, Len(inq))
    BY <1>11 DEF Read
  <2>2. FramesIn(rx', Honest) /\ FramesIn(inq', Honest)
    BY <1>3, <1>4, <2>1, ReadFrames
  <2>3. (AnswerIn(rx') => AnswerIn(rx) \/ AnswerIn(inq)) /\ (AnswerIn(inq') => AnswerIn(inq))
    BY <1>4, <2>1, ReadKeeps
  <2>4. UNCHANGED tx
    BY <1>11 DEF Read
  <2> QED
    BY <1>1, <1>3, <1>5, <2>2, <2>3, <2>4 DEF NoneToCome
<1> QED
  BY <1>6, <1>8, <1>9, <1>10, <1>11 DEF RunStep

\* A reply is accepted only if the chip has just carried its step out; if that
\* step writes a block, the block is in the flash.
LEMMA AcceptedIsInFlash ==
  ASSUME RunInv, TruthInv, LookFindsReply, Accepted(Held(rx)[1].frame), IsWrite(at + 1)
  PROVE  InFlash(at + 1)
<1> DEFINE reply == Held(rx)[1].frame
<1>1. pc = "look" /\ IsReply(Held(rx))
  BY DEF LookFindsReply
<1>2. /\ ~Foreign(reply) => AnswerIn(rx)
      /\ reply \in Honest
  BY <1>1, ReplyFacts, ReplyFrame DEF RunInv, QueuesInv, TruthInv
<1> HIDE DEF reply
<1>3. awaiting /\ Verdict(steps[at + 1], reply) = "Ok"
  BY DEF Accepted, Step, reply
<1>4. Inv /\ PlaceInv
  BY DEF RunInv
<1>5. at + 1 \in 1..Len(steps) /\ cur = at + 1 /\ steps \in Plans
  BY <1>1, <1>3, <1>4, PlanFacts DEF PlaceInv
<1>6. ~Foreign(reply)
  BY <1>3, <1>5 DEF Foreign
<1>7. Len(executed) = at + 1
  BY <1>1, <1>2, <1>3, <1>4, <1>5, <1>6 DEF PlaceInv, Exchange, NoneToCome
<1>8. at + 1 \in Writes
  BY <1>5 DEF Writes
<1> QED
  BY <1>2, <1>3, <1>7, <1>8 DEF Honest, Claims

LEMMA FlashHost ==
  RunInv /\ FlashInv /\ TruthInv /\ (RunStep \/ IoFails \/ FlushFails \/ Expire) => FlashInv'
<1> SUFFICES ASSUME RunInv, FlashInv, TruthInv, RunStep \/ IoFails \/ FlushFails \/ Expire  PROVE FlashInv'
  OBVIOUS
<1>1. UNCHANGED <<flash, programmed, executed, steps>>
  BY HostFacts
<1>2. Writes' = Writes /\ \A i : Block(i)' = Block(i) /\ (InFlash(i)' <=> InFlash(i)) /\ (WasErased(i)' <=> WasErased(i))
  BY <1>1 DEF Writes, IsWrite, Block, InFlash, WasErased
<1>3. ASSUME \A i \in Writes : heard'[i] # <<>> => heard[i] # <<>> \/ InFlash(i)  PROVE FlashInv'
  BY <1>1, <1>2, <1>3 DEF FlashInv, Answered
<1>4. CASE LookFindsReply /\ Accepted(Held(rx)[1].frame)
  <2>1. heard \in [1..Len(steps) -> Seq(Replies)] /\ Writes \subseteq 1..Len(steps)
    BY DEF RunInv, Inv, TypeOK, Writes
  <2>2. \E r : heard' = [heard EXCEPT ![at + 1] = r]
    BY <1>4 DEF Accepted
  <2>3. ASSUME NEW i \in Writes, i = at + 1  PROVE InFlash(i)
    BY <1>4, <2>3, AcceptedIsInFlash DEF Writes
  <2> QED
    BY <1>3, <2>1, <2>2, <2>3
<1>5. CASE ~(LookFindsReply /\ Accepted(Held(rx)[1].frame))
  <2>1. UNCHANGED heard
    BY <1>5 DEF RunStep, Finished, Finish, Begin, Send, RetuneBefore, Write, DrainAndSettle, RetuneAfter,
       LookFindsReply, Rejected, LookFindsBadFrame, LookFindsNothing, Read, IoFails, FlushFails, Expire, vars
  <2> QED
    BY <1>3, <2>1
<1> QED
  BY <1>4, <1>5

\* run() reports once, as it returns, and what the session says then is final.
LEMMA ReportNext == RunInv /\ ReportInv /\ [RunNext]_all_vars => ReportInv'
<1> SUFFICES ASSUME RunInv, ReportInv, [RunNext]_all_vars  PROVE ReportInv'
  OBVIOUS
<1> DEFINE n == Len(executed)
<1>1. Inv /\ PlaceInv /\ n \in Nat /\ at \in Nat /\ Len(sent) = IF awaiting THEN at + 1 ELSE at
  BY PlanFacts DEF RunInv, HistoryInv
<1>2. /\ tx # <<>> => n < Len(sent)
      /\ n <= Len(sent)
      /\ pc = "done" => report.kind = "ok" /\ IsFinished
      /\ pc = "failed" => report.kind = IF FlashIsIndeterminate THEN "indeterminate" ELSE "plain"
      /\ pc \notin {"done", "failed"} => report = NoReport
  BY DEF ReportInv
<1>3. ASSUME pc \notin {"done", "failed"}, UNCHANGED <<sent, executed>>, tx' # <<>> => n < Len(sent),
             \/ pc' \notin {"done", "failed"} /\ report' = report
             \/ pc' = "done" /\ report' = Success /\ IsFinished'
             \/ /\ pc' = "failed" /\ UNCHANGED <<writes_started, writes_finished>>
                /\ \E cause : report' = Failure(cause)
      PROVE  ReportInv'
  BY <1>2, <1>3 DEF ReportInv, Success, Failure, FlashIsIndeterminate
<1>4. CASE Finished
  <2>1. /\ pc = "next" /\ pc' = "done" /\ report' = Success /\ UNCHANGED <<sent, executed, tx>>
        /\ at' >= Len(steps') /\ ~awaiting'
    BY <1>4 DEF Finished, Finish, Return, bsl_vars, line_vars, fields
  <2> QED
    BY <1>2, <1>3, <2>1 DEF IsFinished
<1>5. CASE Begin
  <2>1. /\ pc = "next" /\ pc' \in {"drop", "write"} /\ UNCHANGED <<report, executed, tx>>
        /\ sent' = Append(sent, at + 1)
    BY <1>5 DEF Begin, Send, bsl_vars, line_vars
  <2>2. Len(sent') = Len(sent) + 1
    BY <1>1, <2>1 DEF Inv, TypeOK
  <2>3. Len(sent) \in Nat
    BY <1>1
  <2> QED
    BY <1>1, <1>2, <2>1, <2>2, <2>3 DEF ReportInv
<1>6. CASE RetuneBefore \/ RetuneAfter
  <2>1. /\ pc \in {"drop", "switch"} /\ pc' \in {"write", "look", "next"}
        /\ UNCHANGED <<report, executed, sent, steps>>
        /\ \E baud : SetBaud(baud)
    BY <1>6, HostFacts DEF RetuneBefore, RetuneAfter, vars, RunStep
  <2>2. tx = <<>> => tx' = <<>>
    BY <2>1, SetBaudFacts DEF RunInv
  <2> QED
    BY <1>2, <1>3, <2>1, <2>2
<1>7. CASE Write \/ FlushFails
  <2>1. /\ pc = "write" /\ UNCHANGED <<executed, sent, writes_started, writes_finished>>
        /\ \/ pc' \in {"drain", "look", "next"} /\ report' = report
           \/ pc' = "failed" /\ report' = Failure("Io")
    BY <1>7, HostFacts DEF Write, FlushFails, AfterWrite, vars, fields, RunStep
  <2>2. n < Len(sent)
    BY <1>1, <2>1 DEF PlaceInv
  <2> QED
    BY <1>3, <2>1, <2>2
<1>8. CASE DrainAndSettle
  <2>1. pc = "drain" /\ pc' = "switch" /\ UNCHANGED <<report, executed, sent, tx>>
    BY <1>8 DEF DrainAndSettle, vars, bsl_vars, line_vars
  <2> QED
    BY <1>2, <1>3, <2>1
<1>9. CASE IoFails
  <2>1. /\ pc \in {"drop", "write", "drain", "switch", "read"} /\ pc' = "failed" /\ report' = Failure("Io")
        /\ UNCHANGED <<executed, sent, tx, writes_started, writes_finished>>
    BY <1>9 DEF IoFails, Return, vars, fields, bsl_vars, line_vars
  <2> QED
    BY <1>2, <1>3, <2>1
<1>10. CASE LookFindsReply
  <2>1. /\ pc = "look" /\ UNCHANGED <<executed, sent, tx>>
        /\ \/ pc' = "next" /\ report' = report
           \/ /\ pc' = "failed" /\ report' = Failure(result')
              /\ UNCHANGED <<writes_started, writes_finished>>
    BY <1>10 DEF LookFindsReply, Accepted, Rejected, fields, bsl_vars, line_vars
  <2> QED
    BY <1>2, <1>3, <2>1
<1>11. CASE LookFindsBadFrame \/ LookFindsNothing \/ Read \/ Expire
  <2>1. /\ pc \in {"look", "read"} /\ UNCHANGED <<executed, sent, tx, writes_started, writes_finished>>
        /\ \/ pc' \in {"look", "read"} /\ report' = report
           \/ pc' = "failed" /\ report' = Failure("Timeout")
    BY <1>11 DEF LookFindsBadFrame, LookFindsNothing, Read, Expire, vars, fields, bsl_vars, line_vars
  <2> QED
    BY <1>2, <1>3, <2>1
<1>12. ASSUME UNCHANGED <<steps, at, awaiting, writes_started, writes_finished, sent, pc, report>>,
              Len(executed') <= Len(sent), tx' # <<>> => Len(executed') < Len(sent)
       PROVE  ReportInv'
  BY <1>2, <1>12 DEF ReportInv, IsFinished, FlashIsIndeterminate
<1>13. CASE Environment
  <2>1. CASE Hear
    <3>1. tx # <<>> /\ tx' = <<>> /\ Len(executed') \in {n, n + 1}
      BY <2>1, HearFacts DEF RunInv
    <3>2. Len(executed') <= Len(sent)
      BY <1>1, <1>2, <3>1
    <3> QED
      BY <1>12, <1>13, <3>1, <3>2, EnvironmentFacts
  <2>2. CASE ~Hear
    BY <1>2, <1>12, <1>13, <2>2, EnvironmentFacts
  <2> QED
    BY <2>1, <2>2
<1>14. CASE UNCHANGED all_vars
  BY <1>2, <1>12, <1>14 DEF all_vars, vars, fields, driver_vars, bsl_vars, line_vars
<1> QED
  BY <1>4, <1>5, <1>6, <1>7, <1>8, <1>9, <1>10, <1>11, <1>13, <1>14 DEF RunNext, RunStep

OutcomeInv == RunInv /\ FlashInv /\ TruthInv /\ ReportInv

LEMMA OutcomeNext == OutcomeInv /\ [RunNext]_all_vars => OutcomeInv'
<1> SUFFICES ASSUME RunInv, FlashInv, TruthInv, ReportInv, [RunNext]_all_vars
             PROVE  RunInv' /\ FlashInv' /\ TruthInv' /\ ReportInv'
  BY DEF OutcomeInv
<1>1. RunInv' /\ ReportInv'
  BY RunNextInv, ReportNext
<1>2. CASE RunStep \/ IoFails \/ FlushFails \/ Expire
  BY <1>1, <1>2, FlashHost, TruthHost
<1>3. CASE Environment
  BY <1>1, <1>3, FlashEnvironment
<1>4. CASE UNCHANGED all_vars
  <2>1. UNCHANGED <<steps, heard, rx, inq, answer, tx, flash, programmed, executed>>
    BY <1>4 DEF all_vars, vars, fields, driver_vars, bsl_vars, chip_vars, line_vars
  <2>2. FlashInv' /\ TruthInv'
    BY <2>1 DEF FlashInv, TruthInv, Honest, Claims, InFlash, Writes, IsWrite, Block, Answered, WasErased,
                FramesIn, NoneToCome
  <2> QED
    BY <1>1, <2>2
<1> QED
  BY <1>1, <1>2, <1>3, <1>4 DEF RunNext

THEOREM OutcomeInvariant == RunSpec => []OutcomeInv
<1>1. RunInit => OutcomeInv
  BY RunInitInv, FlashInitInv DEF OutcomeInv
<1> QED
  BY <1>1, OutcomeNext, PTL DEF RunSpec

\* In a session that ran to its end every write step was answered.
LEMMA FinishedAnswered ==
  ASSUME Inv, IsFinished
  PROVE  \A i \in Writes : Answered(i)
<1>1. steps \in Plans /\ at = Len(steps) /\ Len(steps) \in Nat
  BY PlanFacts DEF IsFinished
<1>2. ASSUME NEW i \in Writes  PROVE i \in 1..Len(steps) /\ i <= at /\ ExpectsReply(steps[i])
  BY <1>1, PlansAssumption DEF Writes, IsWrite
<1> QED
  BY <1>2 DEF Inv, CursorInv

\* run() returns Ok only over a flash that holds every block of the plan, each in
\* its place, whatever was lost, garbled or came late on the way (driver.rs 240,
\* 284-325).
THEOREM DoneIsProgrammed == RunSpec => []DoneMeansProgrammed
<1>1. OutcomeInv => DoneMeansProgrammed
  BY FinishedAnswered DEF OutcomeInv, RunInv, FlashInv, ReportInv, DoneMeansProgrammed
<1> QED
  BY <1>1, OutcomeInvariant, PTL

-----------------------------------------------------------------------------
(* What run() keeps is bounded: the queue takes one answer above what      *)
(* disturbs it, because the chip owes at most one; and the receiver goes   *)
(* back to read only when all it has left is what a fluke header claims.   *)

OnlyItems(items) == \A k \in 1..Len(items) : items[k].kind \in {"noise", "frame", "bad", "fluke"}

\* Another answer can still come, or the host may still ask for one.
MoreToCome ==
  \/ tx # <<>>
  \/ answer # NoAnswer
  \/ pc = "look" /\ AnswerIn(rx)
  \/ pc \in {"drop", "write"}
  \/ pc = "next" /\ at < Len(steps)

RoomInv ==
  /\ OnlyItems(rx) /\ OnlyItems(inq)
  /\ Len(inq) <= MaxQueue + 1
  /\ MoreToCome => Len(inq) <= MaxQueue
  /\ Len(rx) <= FlukeSpan + MaxQueue + 1
  /\ pc = "read" => Len(rx) <= FlukeSpan

HostInv ==
  /\ cur \in 0..Len(steps)
  /\ expired \in BOOLEAN
  /\ line_baud \in {HandshakeBaud, TransferBaud}
  /\ pc = "drop" => steps[cur].retune_before_send # NoBaud
  /\ pc \in {"drain", "switch"} => steps[cur].retune_after_send # NoBaud

LEMMA OnlySuffix ==
  ASSUME NEW s, NEW t, NEW m, IsSeq(s), Suffix(t, s, m), OnlyItems(s)
  PROVE  OnlyItems(t) /\ Len(t) <= Len(s)
<1>1. /\ Len(s) \in Nat /\ Len(t) \in Nat /\ m \in Nat /\ Len(t) = Len(s) - m
      /\ \A k \in 1..Len(t) : k + m \in 1..Len(s) /\ t[k] = s[k + m]
  BY DEF IsSeq, Suffix
<1> QED
  BY <1>1 DEF OnlyItems

LEMMA OnlyAppend ==
  ASSUME NEW s, NEW e, IsSeq(s), OnlyItems(s), e.kind \in {"noise", "frame", "bad", "fluke"}
  PROVE  OnlyItems(Append(s, e)) /\ Len(Append(s, e)) = Len(s) + 1
<1>1. /\ Len(s) \in Nat /\ Len(Append(s, e)) = Len(s) + 1
      /\ \A k \in 1..(Len(s) + 1) : Append(s, e)[k] = IF k = Len(s) + 1 THEN e ELSE s[k]
  BY AppendSeq DEF IsSeq
<1>2. \A k \in 1..(Len(s) + 1) : k = Len(s) + 1 \/ k \in 1..Len(s)
  BY <1>1
<1> QED
  BY <1>1, <1>2 DEF OnlyItems

LEMMA OnlyRead ==
  ASSUME NEW s, NEW q, IsSeq(s), IsSeq(q), OnlyItems(s), OnlyItems(q), NEW n \in 0..Len(q)
  PROVE  LET t == s \o SubSeq(q, 1, n)
             u == SubSeq(q, n + 1, Len(q))
         IN  OnlyItems(t) /\ OnlyItems(u) /\ Len(t) = Len(s) + n /\ Len(u) = Len(q) - n
<1> DEFINE p == SubSeq(q, 1, n)
<1>1. Len(s) \in Nat /\ Len(q) \in Nat /\ n \in Nat /\ n <= Len(q)
  BY DEF IsSeq
<1>2. IsSeq(p) /\ Len(p) = n /\ \A k \in 1..n : p[k] = q[k]
  BY PrefixSeq
<1>3. Suffix(SubSeq(q, n + 1, Len(q)), q, n)
  BY SuffixSeq
<1>4. OnlyItems(SubSeq(q, n + 1, Len(q))) /\ Len(SubSeq(q, n + 1, Len(q))) = Len(q) - n
  BY <1>3, OnlySuffix DEF Suffix
<1> HIDE DEF p
<1>5. Len(s \o p) = Len(s) + n
      /\ \A k \in 1..(Len(s) + n) : (s \o p)[k] = IF k <= Len(s) THEN s[k] ELSE p[k - Len(s)]
  BY <1>2, ConcatSeq
<1>6. \A k \in 1..(Len(s) + n) : \/ k \in 1..Len(s) /\ (s \o p)[k] = s[k]
                                 \/ k - Len(s) \in 1..Len(q) /\ (s \o p)[k] = q[k - Len(s)]
  BY <1>1, <1>2, <1>5
<1>7. OnlyItems(s \o p)
  BY <1>5, <1>6 DEF OnlyItems
<1> QED
  BY <1>4, <1>5, <1>7 DEF p

\* The receiver holds nothing, or what it holds does not begin with noise.
LEMMA HeldBegins ==
  ASSUME NEW s, IsSeq(s), Held(s) # <<>>
  PROVE  Held(s)[1].kind # "noise"
<1> DEFINE N == {k \in 1..Len(s) : \A j \in 1..k : s[j].kind = "noise"}
           m == Cardinality(N)
<1>1. Len(s) \in Nat
  BY DEF IsSeq
<1>2. \A n \in Nat : IsFiniteSet(1..n) /\ Cardinality(1..n) = n
  <2>1. \A n \in Nat : Cardinality(1..n) = IF 1 > n THEN 0 ELSE n - 1 + 1
    BY FS_Interval
  <2> QED
    BY <2>1, FS_Interval
<1>3. N \subseteq 1..Len(s) /\ \A k \in N : \A j \in 1..k : j \in N /\ s[j].kind = "noise"
  BY <1>1
<1>4. Held(s) = SubSeq(s, m + 1, Len(s))
  BY DEF Held
<1>5. \A k \in 1..Len(s) : k \notin N => \E j \in 1..k : s[j].kind # "noise"
  OBVIOUS
<1> HIDE DEF N
<1>6. IsFiniteSet(N) /\ m \in Nat /\ m <= Len(s)
  <2>1. IsFiniteSet(1..Len(s)) /\ Cardinality(1..Len(s)) = Len(s)
    BY <1>1, <1>2
  <2>2. IsFiniteSet(N) /\ m <= Cardinality(1..Len(s))
    BY <1>3, <2>1, FS_Subset
  <2>3. m \in Nat
    BY <2>2, FS_CardinalityType
  <2> QED
    BY <2>1, <2>2, <2>3
<1>7. ASSUME NEW k \in Nat, 1..k \subseteq N  PROVE k <= m
  BY <1>2, <1>6, <1>7, FS_Subset
<1>8. ASSUME NEW k \in Nat, N \subseteq 1..k  PROVE m <= k
  <2>1. IsFiniteSet(1..k) /\ Cardinality(1..k) = k
    BY <1>2, <1>8
  <2> QED
    BY <1>8, <2>1, FS_Subset
<1> HIDE DEF m
<1>9. Suffix(Held(s), s, m)
  BY <1>1, <1>4, <1>6, SuffixSeq
<1>10. Len(Held(s)) = Len(s) - m /\ Len(Held(s)) # 0 /\ Len(Held(s)) \in Nat
       /\ (1 \in 1..Len(Held(s)) => Held(s)[1] = s[m + 1])
  <2>1. IsSeq(Held(s)) /\ Len(Held(s)) = Len(s) - m
    BY <1>9 DEF Suffix
  <2>2. Len(Held(s)) # 0 /\ Len(Held(s)) \in Nat
    BY <2>1, NoItems DEF IsSeq
  <2>3. 1 \in 1..Len(Held(s)) => Held(s)[1] = s[1 + m]
    BY <1>9 DEF Suffix
  <2> QED
    BY <1>6, <2>1, <2>2, <2>3
<1>11. m + 1 \in 1..Len(s) /\ Held(s)[1] = s[m + 1]
  BY <1>1, <1>6, <1>10
<1>12. m + 1 \notin N
  <2>1. CASE m + 1 \in N
    <3>1. 1..(m + 1) \subseteq N
      BY <1>3, <2>1
    <3> QED
      BY <1>6, <1>7, <3>1
  <2> QED
    BY <2>1
<1>13. \A j \in 1..m : s[j].kind = "noise"
  <2>1. CASE m = 0
    BY <2>1
  <2>2. CASE m # 0 /\ m \notin N
    <3>1. \A k \in N : k < m
      <4>1. ASSUME NEW k \in N, ~(k < m)  PROVE FALSE
        <5>1. m \in 1..k
          BY <1>3, <1>6, <2>2, <4>1
        <5> QED
          BY <1>3, <2>2, <5>1
      <4> QED
        BY <4>1
    <3>2. N \subseteq 1..(m - 1) /\ m - 1 \in Nat
      BY <1>3, <1>6, <2>2, <3>1
    <3> QED
      BY <1>6, <1>8, <3>2
  <2>3. CASE m \in N
    BY <1>3, <2>3
  <2> QED
    BY <2>1, <2>2, <2>3
<1>14. \E j \in 1..(m + 1) : s[j].kind # "noise"
  BY <1>5, <1>11, <1>12
<1> QED
  BY <1>6, <1>11, <1>13, <1>14

\* What looking at the receiver leaves in it.
LEMMA RoomAfterLook ==
  ASSUME QueuesInv, OnlyItems(rx), NEW rest,
         rest = Held(rx) \/ (Held(rx) # <<>> /\ rest = Tail(Held(rx)))
  PROVE  OnlyItems(rest) /\ Len(rest) <= Len(rx) /\ Len(rest) \in Nat
<1> DEFINE h == Held(rx)
<1>1. IsSeq(rx) /\ Len(rx) \in Nat
  BY DEF QueuesInv, IsSeq
<1>2. PICK m \in 0..Len(rx) : Suffix(h, rx, m)
  BY <1>1, HeldIsSuffix
<1>3. rest = h \/ (h # <<>> /\ rest = Tail(h))
  OBVIOUS
<1> HIDE DEF h
<1>4. OnlyItems(h) /\ Len(h) <= Len(rx) /\ IsSeq(h) /\ Len(h) \in Nat
  BY <1>1, <1>2, OnlySuffix DEF Suffix, IsSeq
<1>5. CASE h # <<>> /\ rest = Tail(h)
  <2>1. Suffix(rest, h, 1)
    BY <1>4, <1>5, TailSeq
  <2>2. OnlyItems(rest) /\ Len(rest) <= Len(h) /\ Len(rest) \in Nat
    BY <1>4, <2>1, OnlySuffix DEF Suffix, IsSeq
  <2> QED
    BY <1>1, <1>4, <2>2
<1> QED
  BY <1>3, <1>4, <1>5

\* Only a fluke header, with less behind it than it claims, waits for more.
LEMMA RoomToRead ==
  ASSUME QueuesInv, OnlyItems(rx), ~IsReply(Held(rx)), ~IsBad(Held(rx))
  PROVE  Len(Held(rx)) <= FlukeSpan
<1>1. /\ IsSeq(rx) /\ OnlyItems(Held(rx)) /\ Len(Held(rx)) \in Nat /\ FlukeSpan \in Nat
  BY RoomAfterLook, BslAssumption DEF QueuesInv
<1>2. CASE Held(rx) = <<>>
  <2>1. Len(Held(rx)) = 0
    BY <1>2, EmptyIsSeq
  <2> QED
    BY <1>1, <2>1
<1>3. CASE Held(rx) # <<>>
  <2>1. IsSeq(Held(rx))
    BY <1>1, RestFacts
  <2>2. 1 \in 1..Len(Held(rx))
    BY <1>1, <1>3, <2>1, NoItems
  <2>3. Held(rx)[1].kind \in {"noise", "frame", "bad", "fluke"} /\ Held(rx)[1].kind # "noise"
    BY <1>1, <1>3, <2>2, HeldBegins DEF OnlyItems
  <2>4. Held(rx)[1].kind = "fluke" /\ ~(Len(Held(rx)) > FlukeSpan)
    BY <1>3, <2>3 DEF IsReply, IsBad
  <2> QED
    BY <1>1, <2>4
<1> QED
  BY <1>2, <1>3

LEMMA RoomInit == RunInit => RoomInv /\ HostInv
<1> SUFFICES ASSUME RunInit  PROVE RoomInv /\ HostInv
  OBVIOUS
<1>1. /\ inq \in Leftovers /\ rx = <<>> /\ pc = "next" /\ cur = 0 /\ expired = FALSE
      /\ line_baud = HandshakeBaud
  BY DEF RunInit, BslInit
<1>2. MaxQueue \in Nat /\ FlukeSpan \in Nat /\ Len(rx) = 0 /\ Len(steps) \in Nat
  BY <1>1, BslAssumption, EmptyIsSeq, RunInitInv, PlanFacts DEF RunInv
<1>3. Len(inq) \in Nat /\ Len(inq) <= MaxQueue /\ OnlyItems(inq)
  BY <1>1, LeftoversAssumption DEF OnlyItems
<1>4. RoomInv
  BY <1>1, <1>2, <1>3 DEF RoomInv, OnlyItems
<1>5. HostInv
  <2>1. cur \in 0..Len(steps)
    BY <1>1, <1>2
  <2>2. expired \in BOOLEAN
    BY <1>1
  <2> QED
    BY <1>1, <2>1, <2>2 DEF HostInv
<1> QED
  BY <1>4, <1>5

\* While the chip's answer is still to leave, nothing else is owed.
LEMMA OwedOnce ==
  ASSUME OutcomeInv, answer # NoAnswer
  PROVE  /\ tx = <<>> /\ pc \notin {"drop", "write"}
         /\ ~(pc = "look" /\ AnswerIn(rx)) /\ ~(pc = "next" /\ at < Len(steps))
<1>1. tx = <<>>
  BY DEF OutcomeInv, TruthInv, NoneToCome
<1>2. pc \notin {"drop", "write"} /\ ~(pc = "next" /\ at < Len(steps))
  BY DEF OutcomeInv, RunInv, PlaceInv, Quiet, NoneToCome
<1>3. ASSUME pc = "look"  PROVE ~AnswerIn(rx)
  <2>1. Exchange
    BY <1>3 DEF OutcomeInv, RunInv, PlaceInv
  <2> QED
    BY <2>1 DEF Exchange, NoneToCome, OneToCome
<1> QED
  BY <1>1, <1>2, <1>3

LEMMA RoomEnvironment == OutcomeInv /\ RoomInv /\ Environment => RoomInv'
<1> SUFFICES ASSUME OutcomeInv, RoomInv, Environment  PROVE RoomInv'
  OBVIOUS
<1>1. /\ UNCHANGED <<pc, rx, steps, at>>
      /\ IsSeq(inq) /\ Len(inq) \in Nat /\ MaxQueue \in Nat /\ OnlyItems(inq)
  BY EnvironmentFacts, BslAssumption DEF OutcomeInv, RunInv, QueuesInv, IsSeq, RoomInv
<1>2. /\ OnlyItems(rx) /\ Len(inq) <= MaxQueue + 1
      /\ MoreToCome => Len(inq) <= MaxQueue
      /\ Len(rx) <= FlukeSpan + MaxQueue + 1
      /\ pc = "read" => Len(rx) <= FlukeSpan
  BY DEF RoomInv
<1>3. UNCHANGED AnswerIn(rx)
  BY <1>1 DEF AnswerIn
<1>4. ASSUME UNCHANGED inq, MoreToCome' => MoreToCome  PROVE RoomInv'
  BY <1>1, <1>2, <1>4 DEF RoomInv, OnlyItems
<1>5. ASSUME NEW e, e.kind \in {"noise", "frame", "bad", "fluke"}, inq' = Append(inq, e),
             Len(inq) <= MaxQueue, MoreToCome' => Len(inq) < MaxQueue
      PROVE  RoomInv'
  <2>1. OnlyItems(inq') /\ Len(inq') = Len(inq) + 1
    BY <1>1, <1>5, OnlyAppend
  <2> QED
    BY <1>1, <1>2, <1>5, <2>1 DEF RoomInv, OnlyItems
<1>6. CASE Hear
  <2>1. tx # <<>> /\ UNCHANGED inq
    BY <1>6, HearFacts DEF OutcomeInv
  <2>2. MoreToCome
    BY <2>1 DEF MoreToCome
  <2> QED
    BY <1>4, <2>1, <2>2
<1>7. CASE Answer \/ AnswerSpoilt
  <2>1. answer # NoAnswer /\ answer' = NoAnswer /\ UNCHANGED tx
    BY <1>7 DEF Answer, AnswerSpoilt, AnswerLeaves
  <2>2. ~MoreToCome' /\ MoreToCome
    BY <1>1, <1>3, <2>1, OwedOnce DEF MoreToCome
  <2>3. \/ inq' = inq
        \/ \E e : e.kind \in {"noise", "frame", "bad", "fluke"} /\ inq' = Append(inq, e)
    <3>1. \A f : FrameItem(f).kind = "frame"
      BY DEF FrameItem
    <3>2. Junk("noise").kind = "noise" /\ Junk("bad").kind = "bad"
      BY DEF Junk
    <3> QED
      BY <1>7, <3>1, <3>2 DEF Answer, AnswerSpoilt
  <2> QED
    BY <1>2, <1>4, <1>5, <2>2, <2>3
<1>8. CASE PowerLoss
  <2>1. answer' = NoAnswer /\ UNCHANGED <<inq, tx>>
    BY <1>8 DEF PowerLoss, line_vars
  <2>2. MoreToCome' => MoreToCome
    BY <1>1, <1>3, <2>1 DEF MoreToCome
  <2> QED
    BY <1>4, <2>1, <2>2
<1>9. CASE Disturb
  <2>1. Len(inq) < MaxQueue /\ \E kind \in Disturbances : inq' = Append(inq, Junk(kind))
    BY <1>9 DEF Disturb
  <2>2. \A kind \in Disturbances : Junk(kind).kind \in {"noise", "frame", "bad", "fluke"}
    BY BslAssumption DEF Junk
  <2> QED
    BY <1>1, <1>5, <2>1, <2>2
<1> QED
  BY <1>6, <1>7, <1>8, <1>9 DEF Environment, BslNext

LEMMA RoomHost ==
  RunInv /\ RunInv' /\ RoomInv /\ (RunStep \/ IoFails \/ FlushFails \/ Expire) => RoomInv'
<1> SUFFICES ASSUME RunInv, RunInv', RoomInv, RunStep \/ IoFails \/ FlushFails \/ Expire  PROVE RoomInv'
  OBVIOUS
<1>1. /\ UNCHANGED <<answer, steps>> /\ QueuesInv /\ IsSeq(rx) /\ IsSeq(inq)
      /\ Len(inq) \in Nat /\ Len(rx) \in Nat /\ MaxQueue \in Nat /\ FlukeSpan \in Nat
  BY HostFacts, BslAssumption DEF RunInv, QueuesInv, IsSeq
<1>2. /\ OnlyItems(rx) /\ OnlyItems(inq) /\ Len(inq) <= MaxQueue + 1
      /\ MoreToCome => Len(inq) <= MaxQueue
      /\ Len(rx) <= FlukeSpan + MaxQueue + 1
      /\ pc = "read" => Len(rx) <= FlukeSpan
  BY DEF RoomInv
\* All but Read leave the queue alone; all but Read add nothing to the receiver.
<1>3. ASSUME UNCHANGED inq, MoreToCome' => MoreToCome, OnlyItems(rx'), Len(rx') <= Len(rx), Len(rx') \in Nat,
             pc' = "read" => Len(rx') <= FlukeSpan
      PROVE  RoomInv'
  <2>1. Len(rx') <= FlukeSpan + MaxQueue + 1
    BY <1>1, <1>2, <1>3
  <2> QED
    BY <1>2, <1>3, <2>1 DEF RoomInv, OnlyItems
<1>4. ASSUME UNCHANGED <<inq, rx>>, MoreToCome' => MoreToCome, pc' = "read" => pc = "read"
      PROVE  RoomInv'
  BY <1>1, <1>2, <1>3, <1>4 DEF OnlyItems
<1>5. CASE Finished \/ IoFails \/ DrainAndSettle
  <2>1. /\ UNCHANGED <<inq, rx, tx>> /\ pc' \in {"done", "failed", "switch"}
    BY <1>5 DEF Finished, IoFails, DrainAndSettle, Return, bsl_vars, line_vars
  <2>2. MoreToCome' => MoreToCome
    BY <1>1, <2>1 DEF MoreToCome
  <2> QED
    BY <1>4, <2>1, <2>2
<1>6. CASE Begin
  <2>1. /\ UNCHANGED <<inq, rx, tx>> /\ pc = "next" /\ at < Len(steps) /\ pc' \in {"drop", "write"}
    BY <1>6 DEF Begin, Send, bsl_vars, line_vars
  <2>2. MoreToCome
    BY <2>1 DEF MoreToCome
  <2> QED
    BY <1>4, <2>1, <2>2
<1>7. CASE Write \/ FlushFails
  <2>1. UNCHANGED <<inq, rx>> /\ pc = "write" /\ pc' \in {"drain", "look", "next", "failed"}
    BY <1>7 DEF Write, FlushFails, Put, AfterWrite
  <2>2. MoreToCome
    BY <2>1 DEF MoreToCome
  <2> QED
    BY <1>4, <2>1, <2>2
<1>8. CASE RetuneBefore \/ RetuneAfter
  <2>1. /\ UNCHANGED inq /\ rx' = <<>> /\ pc' \in {"write", "look", "next"}
        /\ \E baud : SetBaud(baud)
    BY <1>8 DEF RetuneBefore, RetuneAfter, SetBaud
  <2>2. Len(rx') = 0 /\ OnlyItems(rx') /\ ~AnswerIn(rx')
    BY <2>1, EmptyIsSeq DEF OnlyItems, AnswerIn
  <2>3. tx = <<>> => tx' = <<>>
    BY <1>1, <2>1, SetBaudFacts DEF RunInv
  <2>4. pc' = "write" => pc = "drop"
    BY <1>8 DEF RetuneBefore, RetuneAfter
  <2>5. ~(pc' = "next" /\ at' < Len(steps'))
    <3>1. CASE RetuneBefore
      BY <3>1 DEF RetuneBefore
    <3>2. CASE RetuneAfter
      <4>1. /\ pc = "switch" /\ UNCHANGED at
            /\ \/ pc' = "look"
               \/ pc' = "next" /\ ~ExpectsReply(steps[cur])
        BY <3>2 DEF RetuneAfter, vars, fields, StepInHand
      <4>2. cur = Len(sent) /\ cur \in 1..Len(steps) /\ (awaiting <=> ExpectsReply(steps[cur]))
        BY <4>1 DEF RunInv, PlaceInv
      <4>3. ~awaiting => Len(sent) = at
        BY PlanFacts DEF RunInv
      <4>4. ~ExpectsReply(steps[cur]) => cur = Len(steps)
        BY <4>2, PlanFacts DEF RunInv
      <4>5. ~ExpectsReply(steps[cur]) => ~(at < Len(steps)) /\ Len(steps) \in Nat
        BY <4>2, <4>3, <4>4, PlanFacts DEF RunInv
      <4> QED
        BY <1>1, <4>1, <4>5
    <3> QED
      BY <1>8, <3>1, <3>2
  <2>6. MoreToCome' => MoreToCome
    BY <1>1, <2>1, <2>2, <2>3, <2>4, <2>5 DEF MoreToCome
  <2> QED
    BY <1>1, <1>3, <2>1, <2>2, <2>6
<1>9. CASE LookFindsReply
  <2> DEFINE reply == Held(rx)[1].frame
  <2>1. /\ pc = "look" /\ IsReply(Held(rx)) /\ rx' = Tail(Held(rx)) /\ UNCHANGED <<inq, tx>>
        /\ \/ Accepted(reply) /\ pc' = "next"
           \/ Rejected(reply) /\ pc' = "failed"
    BY <1>9 DEF LookFindsReply, bsl_vars, line_vars
  <2>2. OnlyItems(rx') /\ Len(rx') <= Len(rx) /\ Len(rx') \in Nat
    <3>1. Held(rx) # <<>>
      BY <2>1 DEF IsReply
    <3> QED
      BY <1>1, <1>2, <2>1, <3>1, RoomAfterLook
  <2>3. ~Foreign(reply) => AnswerIn(rx)
    BY <1>1, <2>1, ReplyFacts
  <2> HIDE DEF reply
  <2>4. ASSUME Accepted(reply)  PROVE AnswerIn(rx)
    <3>1. awaiting /\ Verdict(steps[at + 1], reply) = "Ok"
      BY <2>4 DEF Accepted, Step
    <3>2. at + 1 \in 1..Len(steps) /\ steps \in Plans
      BY <3>1, PlanFacts DEF RunInv
    <3> QED
      BY <2>3, <3>1, <3>2 DEF Foreign
  <2>5. MoreToCome' => MoreToCome
    BY <1>1, <2>1, <2>4 DEF MoreToCome
  <2> QED
    BY <1>3, <2>1, <2>2, <2>5
<1>10. CASE LookFindsBadFrame \/ LookFindsNothing
  <2>1. /\ pc = "look" /\ UNCHANGED <<inq, tx>>
        /\ \/ pc' = "look" /\ Held(rx) # <<>> /\ rx' = Tail(Held(rx))
           \/ pc' \in {"read", "failed"} /\ rx' = Held(rx) /\ ~IsReply(Held(rx)) /\ ~IsBad(Held(rx))
    BY <1>10 DEF LookFindsBadFrame, LookFindsNothing, IsBad, bsl_vars, line_vars
  <2>2. OnlyItems(rx') /\ Len(rx') <= Len(rx) /\ Len(rx') \in Nat /\ (AnswerIn(rx') => AnswerIn(rx))
    BY <1>1, <1>2, <2>1, RoomAfterLook, RestFacts
  <2>3. pc' = "read" => Len(rx') <= FlukeSpan
    BY <1>1, <1>2, <2>1, RoomToRead
  <2>4. MoreToCome' => MoreToCome
    BY <1>1, <2>1, <2>2 DEF MoreToCome
  <2> QED
    BY <1>3, <2>1, <2>2, <2>3, <2>4
<1>11. CASE Read
  <2>1. pc = "read" /\ pc' = "look"
    BY <1>11 DEF Read
  <2>2. PICK n \in 0..Len(inq) :
          /\ rx' = rx \o SubSeq(inq, 1, n) /\ inq' = SubSeq(inq, n + 1, Len(inq))
          /\ n = 0 => inq = <<>>
    BY <1>11 DEF Read
  <2>3. OnlyItems(rx') /\ OnlyItems(inq') /\ Len(rx') = Len(rx) + n /\ Len(inq') = Len(inq) - n
    BY <1>1, <1>2, <2>2, OnlyRead
  <2>4. Len(inq') <= MaxQueue /\ Len(rx') <= FlukeSpan + MaxQueue + 1
    <3>1. n = 0 => Len(inq) = 0
      BY <1>1, <2>2, NoItems
    <3>2. Len(rx) <= FlukeSpan /\ n \in Nat /\ n <= MaxQueue + 1
      BY <1>1, <1>2, <2>1
    <3> QED
      BY <1>1, <1>2, <2>3, <3>1, <3>2
  <2> QED
    BY <1>1, <2>1, <2>3, <2>4 DEF RoomInv, OnlyItems
<1>12. CASE Expire
  <2>1. UNCHANGED <<inq, rx, tx, pc, at, steps>>
    BY <1>12 DEF Expire, vars, fields, bsl_vars, line_vars
  <2>2. MoreToCome' => MoreToCome
    BY <1>1, <2>1 DEF MoreToCome, AnswerIn
  <2> QED
    BY <1>4, <2>1, <2>2
<1> QED
  BY <1>5, <1>6, <1>7, <1>8, <1>9, <1>10, <1>11, <1>12 DEF RunStep

\* The rates the port is set to are the two of the plan, and a place where it is set
\* is only entered for a step that names one.
LEMMA HostNext == RunInv /\ HostInv /\ [RunNext]_all_vars => HostInv'
<1> SUFFICES ASSUME RunInv, HostInv, [RunNext]_all_vars  PROVE HostInv'
  OBVIOUS
<1>1. /\ steps \in Plans /\ Len(steps) \in Nat /\ at \in Nat
  BY PlanFacts DEF RunInv
<1>2. \A i \in 1..Len(steps) :
        /\ steps[i].retune_before_send \in {NoBaud, HandshakeBaud}
        /\ steps[i].retune_after_send \in {NoBaud, TransferBaud}
  BY <1>1, StepRates
<1>3. /\ cur \in 0..Len(steps)
      /\ expired \in BOOLEAN
      /\ line_baud \in {HandshakeBaud, TransferBaud}
      /\ pc = "drop" => steps[cur].retune_before_send # NoBaud
      /\ pc \in {"drain", "switch"} => steps[cur].retune_after_send # NoBaud
  BY DEF HostInv
<1>4. pc \in {"drop", "write", "drain", "switch"} => cur \in 1..Len(steps)
  BY DEF RunInv, PlaceInv
<1>5. ASSUME UNCHANGED <<steps, cur>>, expired' \in BOOLEAN, line_baud' \in {HandshakeBaud, TransferBaud},
             pc' # "drop" \/ pc = "drop",
             pc' \notin {"drain", "switch"} \/ pc \in {"drain", "switch"}
      PROVE  HostInv'
  BY <1>3, <1>5 DEF HostInv
<1>6. UNCHANGED steps
  BY HostFacts, EnvironmentFacts DEF RunNext, all_vars, vars, fields
<1>7. CASE Begin
  <2>1. /\ pc = "next" /\ at < Len(steps) /\ cur' = at + 1 /\ UNCHANGED <<expired, line_baud>>
        /\ pc' = IF steps[at + 1].retune_before_send # 0 THEN "drop" ELSE "write"
    BY <1>7 DEF Begin, Send, Step, bsl_vars, line_vars
  <2>2. cur' \in 0..Len(steps')
    BY <1>1, <1>6, <2>1
  <2> QED
    BY <1>3, <1>6, <2>1, <2>2 DEF HostInv, NoBaud
<1>8. CASE RetuneBefore
  <2>1. /\ pc = "drop" /\ pc' = "write" /\ UNCHANGED <<cur, expired>>
        /\ line_baud' = steps[cur].retune_before_send
    BY <1>8 DEF RetuneBefore, SetBaud, StepInHand
  <2>2. line_baud' = HandshakeBaud
    BY <1>2, <1>3, <1>4, <2>1
  <2> QED
    BY <1>3, <1>5, <1>6, <2>1, <2>2
<1>9. CASE RetuneAfter
  <2>1. /\ pc = "switch" /\ pc' \in {"look", "next"} /\ UNCHANGED cur /\ expired' = FALSE
        /\ line_baud' = steps[cur].retune_after_send
    BY <1>9 DEF RetuneAfter, SetBaud, StepInHand
  <2>2. line_baud' = TransferBaud
    BY <1>2, <1>3, <1>4, <2>1
  <2> QED
    BY <1>5, <1>6, <2>1, <2>2
<1>10. CASE Write
  <2>1. /\ pc = "write" /\ UNCHANGED <<cur, line_baud>> /\ expired' = FALSE
        /\ pc' \in {"drain", "look", "next"}
        /\ pc' = "drain" => steps[cur].retune_after_send # 0
    BY <1>10 DEF Write, Put, AfterWrite, StepInHand
  <2> QED
    BY <1>3, <1>6, <2>1 DEF HostInv, NoBaud
<1>11. CASE \/ Finished \/ DrainAndSettle \/ LookFindsReply \/ LookFindsBadFrame \/ LookFindsNothing
            \/ IoFails \/ FlushFails
  <2>1. /\ UNCHANGED <<cur, expired, line_baud>> /\ pc' # "drop"
        /\ pc' \notin {"drain", "switch"} \/ pc \in {"drain", "switch"}
    BY <1>11 DEF Finished, DrainAndSettle, LookFindsReply, LookFindsBadFrame, LookFindsNothing, IoFails,
                 FlushFails, Put, Return, bsl_vars, line_vars
  <2> QED
    BY <1>3, <1>5, <1>6, <2>1
<1>12. CASE Read \/ Expire
  <2>1. UNCHANGED <<cur, line_baud>> /\ pc' \in {"look", "read"} /\ expired' \in {expired, TRUE}
    BY <1>12 DEF Read, Expire, bsl_vars, line_vars
  <2> QED
    BY <1>3, <1>5, <1>6, <2>1
<1>13. CASE Environment
  <2>1. UNCHANGED <<pc, cur, expired, line_baud>>
    BY <1>13, EnvironmentFacts, HearFacts DEF Environment, driver_vars, RunInv
  <2> QED
    BY <1>3, <1>5, <1>6, <2>1
<1>14. CASE UNCHANGED all_vars
  <2>1. UNCHANGED <<pc, cur, expired, line_baud>>
    BY <1>14 DEF all_vars, driver_vars, bsl_vars, line_vars
  <2> QED
    BY <1>3, <1>5, <1>6, <2>1
<1> QED
  BY <1>7, <1>8, <1>9, <1>10, <1>11, <1>12, <1>13, <1>14 DEF RunNext, RunStep

LEMMA RoomInvariant == RunSpec => [](RoomInv /\ HostInv)
<1>1. OutcomeInv /\ OutcomeInv' /\ RoomInv /\ [RunNext]_all_vars => RoomInv'
  <2> SUFFICES ASSUME OutcomeInv, OutcomeInv', RoomInv, [RunNext]_all_vars  PROVE RoomInv'
    OBVIOUS
  <2>1. CASE RunStep \/ IoFails \/ FlushFails \/ Expire
    BY <2>1, RoomHost DEF OutcomeInv
  <2>2. CASE Environment
    BY <2>2, RoomEnvironment
  <2>3. CASE UNCHANGED all_vars
    BY <2>3 DEF RoomInv, MoreToCome, OnlyItems, AnswerIn, all_vars, vars, fields, driver_vars, bsl_vars,
                line_vars, chip_vars
  <2> QED
    BY <2>1, <2>2, <2>3 DEF RunNext
<1>2. OutcomeInv /\ HostInv /\ [RunNext]_all_vars => HostInv'
  BY HostNext DEF OutcomeInv
<1> QED
  BY <1>1, <1>2, RoomInit, OutcomeInvariant, PTL DEF RunSpec

\* What run() and its receiver keep is bounded whatever arrives, its port is only ever
\* at one of the two rates of the plan, and what it reports is one of the outcomes of
\* driver.rs (213-333).
THEOREM RunTypeCorrect == RunSpec => []RunTypeOK
<1>1. OutcomeInv /\ RoomInv /\ HostInv => RunTypeOK
  <2> SUFFICES ASSUME OutcomeInv, RoomInv, HostInv  PROVE RunTypeOK
    OBVIOUS
  <2>1. TypeOK /\ pc \in Places
    BY DEF OutcomeInv, RunInv, Inv, PlaceInv
  <2>2. report.kind \in {"none", "ok", "plain", "indeterminate"}
    BY DEF OutcomeInv, ReportInv, NoReport
  <2> QED
    BY <2>1, <2>2 DEF RunTypeOK, Places, RoomInv, HostInv
<1> QED
  BY <1>1, RoomInvariant, OutcomeInvariant, PTL

-----------------------------------------------------------------------------
(* run() keeps the promise of module FlashPromise.                         *)

\* What the flash holds of the image, told by how many steps were carried out.
ContentFacts ==
  /\ content \in {"blank", "partial", "complete"}
  /\ (\A i \in Writes : i > Len(executed)) => content = "blank"
  /\ (\E i \in Writes : i <= Len(executed)) => content # "blank"
  /\ (\E i \in Writes : i > Len(executed)) => content # "complete"
  /\ Writes # {} /\ (\A i \in Writes : i <= Len(executed) /\ InFlash(i)) => content = "complete"

LEMMA ContentIs == OutcomeInv => ContentFacts
<1> SUFFICES ASSUME OutcomeInv  PROVE ContentFacts
  OBVIOUS
<1> DEFINE blocks == {BlockOf(steps[i].frame) : i \in Writes}
<1>1. /\ Inv /\ Len(executed) \in Nat
      /\ programmed = {Block(i) : i \in {k \in Writes : k <= Len(executed)}}
  BY DEF OutcomeInv, RunInv, HistoryInv, FlashInv
<1>2. \A i \in Writes : i \in Nat /\ \A k \in Writes : k # i => Block(k) # Block(i)
  BY <1>1, WriteFacts
<1>3. blocks = {Block(i) : i \in Writes}
  BY DEF Block
<1>4. content = IF blocks \cap programmed = {} THEN "blank"
                ELSE IF blocks \subseteq programmed /\ \A i \in Writes : InFlash(i) THEN "complete"
                ELSE "partial"
  BY DEF content
<1> HIDE DEF blocks
<1>5. ASSUME \A i \in Writes : i > Len(executed)  PROVE programmed = {}
  <2>1. \A i \in Writes : ~(i <= Len(executed))
    BY <1>1, <1>2, <1>5
  <2> QED
    BY <1>1, <2>1
<1>6. ASSUME NEW i \in Writes, i <= Len(executed)  PROVE blocks \cap programmed # {}
  BY <1>1, <1>3, <1>6
<1>7. ASSUME NEW i \in Writes, i > Len(executed)  PROVE ~(blocks \subseteq programmed)
  <2>1. \A k \in Writes : k <= Len(executed) => k # i
    BY <1>1, <1>2, <1>7
  <2>2. Block(i) \notin programmed
    BY <1>1, <1>2, <2>1
  <2> QED
    BY <1>3, <2>2
<1>8. ASSUME \A i \in Writes : i <= Len(executed)  PROVE blocks \subseteq programmed
  BY <1>1, <1>3, <1>8
<1> QED
  BY <1>4, <1>5, <1>6, <1>7, <1>8 DEF ContentFacts

\* What run() may have said, told by the same count: nothing of the image is left
\* to come when it said "ok", nor when it failed plainly, unless nothing of it
\* was handed out.
Settled   == \A i \in Writes : i <= Len(executed) /\ InFlash(i)
Untouched == \A i \in Writes : i > Len(sent) /\ i > Len(executed)
ToldFacts ==
  /\ report.kind \in {"none", "ok", "plain", "indeterminate"}
  /\ report.kind = "ok" => Settled
  /\ report.kind = "plain" => Settled \/ Untouched
  /\ report.kind = "indeterminate" => Writes # {}

LEMMA WhatIsTold == OutcomeInv => ToldFacts
<1> SUFFICES ASSUME OutcomeInv  PROVE ToldFacts
  OBVIOUS
<1>1. /\ Inv /\ FlashInv
      /\ pc = "done" => report.kind = "ok" /\ IsFinished
      /\ pc = "failed" => report.kind = IF FlashIsIndeterminate THEN "indeterminate" ELSE "plain"
      /\ pc \notin {"done", "failed"} => report.kind = "none"
  BY DEF OutcomeInv, RunInv, ReportInv, NoReport
<1>2. IndeterminateExact
  BY <1>1, FlagsAreExact
<1>3. (\A i \in Writes : Answered(i)) => Settled
  BY DEF OutcomeInv, RunInv, HistoryInv, FlashInv, Settled, Writes
<1>4. CASE pc = "done"
  BY <1>1, <1>3, <1>4, FinishedAnswered DEF ToldFacts
<1>5. CASE pc = "failed" /\ FlashIsIndeterminate
  BY <1>1, <1>2, <1>5 DEF ToldFacts, IndeterminateExact, Writes
<1>6. CASE pc = "failed" /\ ~FlashIsIndeterminate
  <2>1. (\A i \in Writes : ~HandedOut(i)) \/ (\A i \in Writes : Answered(i))
    BY <1>2, <1>6 DEF IndeterminateExact, Writes
  <2>2. ASSUME NEW i \in Writes, ~HandedOut(i)  PROVE i > Len(sent) /\ i > Len(executed)
    <3>1. i \in Nat /\ i > 0 /\ Len(sent) \in Nat /\ \A k \in 1..Len(sent) : sent[k] = k
      BY <1>1, PlanFacts DEF Inv, CursorInv, Writes
    <3>2. Len(executed) \in Nat /\ Len(executed) <= Len(sent)
      BY DEF OutcomeInv, RunInv, HistoryInv, ReportInv
    <3>3. i > Len(sent)
      BY <2>2, <3>1 DEF HandedOut
    <3> QED
      BY <3>1, <3>2, <3>3
  <2> QED
    BY <1>1, <1>3, <1>6, <2>1, <2>2 DEF ToldFacts, Untouched
<1>7. CASE pc \notin {"done", "failed"}
  BY <1>1, <1>7 DEF ToldFacts
<1> QED
  BY <1>4, <1>5, <1>6, <1>7

LEMMA FactsBeforeAndAfter ==
  OutcomeInv /\ [RunNext]_all_vars =>
    ContentFacts /\ ToldFacts /\ ContentFacts' /\ ToldFacts' /\ OutcomeInv'
<1>1. OutcomeInv => ContentFacts /\ ToldFacts
  BY ContentIs, WhatIsTold
<1>2. OutcomeInv' => (ContentFacts /\ ToldFacts)'
  BY <1>1, PTL
<1> QED
  BY <1>1, <1>2, OutcomeNext

\* A block goes into the flash only while the user was told nothing, or that the
\* flash is indeterminate; no other request touches what is there of the image.
LEMMA HearKeepsPromise ==
  OutcomeInv /\ ContentFacts /\ ToldFacts /\ ContentFacts' /\ Hear /\ UNCHANGED <<steps, report>>
    => Promise!PromiseNext \/ UNCHANGED Promise!promise_vars
<1> SUFFICES ASSUME OutcomeInv, ContentFacts, ToldFacts, ContentFacts', Hear, UNCHANGED <<steps, report>>
             PROVE  Promise!PromiseNext \/ UNCHANGED Promise!promise_vars
  OBVIOUS
<1> DEFINE n == Len(executed) + 1
<1>1. /\ n \in 1..Len(steps) /\ n \in Nat \ {0} /\ Len(executed) = n - 1 /\ tx # <<>>
      /\ \/ Carries(steps[n].frame) /\ Len(executed') = n
         \/ UNCHANGED <<flash, programmed, executed>>
  BY HearFacts DEF OutcomeInv
<1>2. Inv /\ Len(executed) < Len(sent)
  BY <1>1 DEF OutcomeInv, RunInv, ReportInv
<1>3. Len(sent) \in Nat
  BY <1>2, PlanFacts
<1>4. \A i \in Writes : i \in Nat
  BY <1>2, WriteFacts
<1> HIDE DEF n
<1>5. Writes' = Writes
  BY DEF Writes, IsWrite
<1>6. CASE UNCHANGED <<flash, programmed>>
  BY <1>5, <1>6 DEF Promise!promise_vars, content, InFlash
<1>7. CASE n \in Writes /\ Len(executed') = n
  <2>1. ~Settled /\ ~Untouched /\ content # "complete"
    BY <1>1, <1>2, <1>3, <1>4, <1>7 DEF Settled, Untouched, ContentFacts
  <2>2. report.kind \in {"none", "indeterminate"}
    BY <2>1 DEF ToldFacts
  <2>3. content' \in {"partial", "complete"}
    BY <1>1, <1>5, <1>7 DEF ContentFacts
  <2> QED
    BY <1>5, <1>7, <2>1, <2>2, <2>3 DEF Promise!PromiseNext, Promise!ProgramSome
<1>8. CASE Asks(steps, n, CmdErase) /\ Len(executed') = n
  <2>1. \A i \in Writes : n < i
    BY <1>1, <1>2, <1>8, WriteFacts
  <2>2. \A i \in Writes : i > n - 1 /\ i > n
    BY <1>1, <1>4, <2>1
  <2>3. content = "blank" /\ content' = "blank"
    BY <1>1, <1>5, <1>8, <2>2 DEF ContentFacts
  <2> QED
    BY <1>5, <2>3 DEF Promise!promise_vars
<1>9. Carries(steps[n].frame) => \/ UNCHANGED <<flash, programmed>>
                                 \/ n \in Writes
                                 \/ Asks(steps, n, CmdErase)
  <2>1. Asks(steps, n, CmdWrite) => n \in Writes
    BY <1>1, <1>2, WritesAsk
  <2> QED
    BY <2>1 DEF Carries, BaudRequest, LinkTest, Erase, Program, SetOptions, RunApplication, Asks
<1> QED
  BY <1>1, <1>6, <1>7, <1>8, <1>9

LEMMA NextKeepsPromise ==
  OutcomeInv /\ [RunNext]_all_vars => [Promise!PromiseNext]_(Promise!promise_vars)
<1> SUFFICES ASSUME OutcomeInv, [RunNext]_all_vars
             PROVE  Promise!PromiseNext \/ UNCHANGED Promise!promise_vars
  OBVIOUS
<1>1. ContentFacts /\ ToldFacts /\ ContentFacts' /\ ToldFacts'
  BY FactsBeforeAndAfter
<1>2. CASE RunStep \/ IoFails \/ FlushFails \/ Expire
  <2>1. pc \notin {"done", "failed"}
    BY <1>2 DEF RunStep, Finished, Begin, RetuneBefore, Write, DrainAndSettle, RetuneAfter, LookFindsReply,
                LookFindsBadFrame, LookFindsNothing, Read, IoFails, FlushFails, Expire
  <2>2. report.kind = "none"
    BY <2>1 DEF OutcomeInv, ReportInv, NoReport
  <2>3. Writes' = Writes /\ content' = content
    BY <1>2, HostFacts DEF Writes, IsWrite, content, InFlash
  <2>4. CASE report'.kind = "none"
    BY <2>2, <2>3, <2>4 DEF Promise!promise_vars
  <2>5. CASE report'.kind = "ok"
    BY <1>1, <2>2, <2>3, <2>5 DEF ToldFacts, ContentFacts, Settled, Promise!PromiseNext, Promise!Tell
  <2>6. CASE report'.kind = "plain"
    <3>1. content' # "partial"
      BY <1>1, <2>6 DEF ToldFacts, ContentFacts, Settled, Untouched
    <3> QED
      BY <2>2, <2>3, <2>6, <3>1 DEF Promise!PromiseNext, Promise!Tell
  <2>7. CASE report'.kind = "indeterminate"
    BY <1>1, <2>2, <2>3, <2>7 DEF ToldFacts, Promise!PromiseNext, Promise!Tell
  <2> QED
    BY <1>1, <2>4, <2>5, <2>6, <2>7 DEF ToldFacts
<1>3. CASE Environment
  <2>1. CASE Hear
    BY <1>1, <1>3, <2>1, EnvironmentFacts, HearKeepsPromise
  <2>2. CASE ~Hear
    BY <1>3, <2>2, EnvironmentFacts DEF Promise!promise_vars, Writes, IsWrite, content, InFlash
  <2> QED
    BY <2>1, <2>2
<1>4. CASE UNCHANGED all_vars
  BY <1>4 DEF Promise!promise_vars, Writes, IsWrite, content, InFlash,
              all_vars, vars, fields, driver_vars, bsl_vars, chip_vars
<1> QED
  BY <1>2, <1>3, <1>4 DEF RunNext

\* "Done" only over a complete image, a plain error never over part of one, not
\* even by a request carried out after run() returned: run() refines the abstract
\* promise about the flash (README 140-150, driver.rs 13-14 and 327-333).
THEOREM KeepsPromise == RunSpec => KeepsThePromise
<1>1. RunInit => Promise!PromiseInit
  <2> SUFFICES ASSUME RunInit  PROVE Promise!PromiseInit
    OBVIOUS
  <2>1. content = "blank" /\ report.kind = "none"
    BY DEF RunInit, BslInit, content, NoReport
  <2> QED
    BY <2>1 DEF Promise!PromiseInit
<1>2. RunSpec => []OutcomeInv
  BY OutcomeInvariant
<1> QED
  BY <1>1, <1>2, NextKeepsPromise, PTL DEF RunSpec, KeepsThePromise, Promise!PromiseSpec
=============================================================================
