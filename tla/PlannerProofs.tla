----------------------------- MODULE PlannerProofs -----------------------------
(***************************************************************************)
(* Every plan of Stc89!Plan, for every status packet, job, rate and size:  *)
(* what the invariants of Planner say, and what PlanShape says of plans.   *)
(***************************************************************************)
EXTENDS Planner, PlanShape, FiniteSetTheorems, TLAPS

-----------------------------------------------------------------------------
(* Arithmetic.                                                             *)

LEMMA Division ==
  ASSUME NEW a \in Nat, NEW d \in Nat \ {0}
  PROVE  a \div d \in Nat /\ d * (a \div d) <= a /\ a < d * (a \div d) + d
  OBVIOUS

LEMMA DivisionOfProduct ==
  ASSUME NEW n \in Nat, NEW d \in Nat \ {0}
  PROVE  (n * d) \div d = n
  OBVIOUS

LEMMA Multiple ==
  ASSUME NEW a \in Nat, NEW d \in Nat \ {0}, a % d = 0
  PROVE  a = d * (a \div d)
  OBVIOUS

Joins(S, s, t, st) ==
  /\ st \in Seq(S) /\ Len(st) = Len(s) + Len(t)
  /\ \A k \in 1..Len(s) : st[k] = s[k]
  /\ \A k \in 1..Len(t) : st[Len(s) + k] = t[k]

LEMMA ConcatIs ==
  ASSUME NEW S, NEW s \in Seq(S), NEW t \in Seq(S)
  PROVE  Joins(S, s, t, s \o t)
  BY DEF Joins

Strung(all, B, L, E, W, O, R, l, w, n) ==
  /\ Len(all) = 4 + l + w + n /\ DOMAIN all = 1..(4 + l + w + n)
  /\ all[1] = B[1] /\ all[2] = B[2]
  /\ \A k \in 3..(2 + l) : all[k] = L[k - 2]
  /\ all[3 + l] = E[1]
  /\ \A k \in 1..w : all[3 + l + k] = W[k]
  /\ n = 1 => all[3 + l + w + 1] = O[1]
  /\ all[3 + l + w + n + 1] = R[1]

LEMMA Concatenated ==
  ASSUME NEW S, NEW B \in Seq(S), NEW L \in Seq(S), NEW E \in Seq(S),
         NEW W \in Seq(S), NEW O \in Seq(S), NEW R \in Seq(S),
         Len(B) = 2, NEW l \in Nat, Len(L) = l, Len(E) = 1,
         NEW w \in Nat, Len(W) = w, NEW n \in 0..1, Len(O) = n, Len(R) = 1
  PROVE  Strung(B \o L \o E \o (W \o O) \o R, B, L, E, W, O, R, l, w, n)
<1> DEFINE all == B \o L \o E \o (W \o O) \o R
           BL == B \o L   BLE == BL \o E   WO == W \o O   A == BLE \o WO   AR == A \o R
<1> HIDE DEF all
<1>0. BL \in Seq(S) /\ WO \in Seq(S)
  OBVIOUS
<1>1. Joins(S, B, L, BL) /\ Joins(S, W, O, WO)
  BY ConcatIs
<1> HIDE DEF BL, WO
<1>2. Joins(S, BL, E, BLE)
  BY <1>0, ConcatIs
<1> HIDE DEF BLE
<1>2a. BLE \in Seq(S)
  BY <1>2 DEF Joins
<1>3. Joins(S, BLE, WO, A)
  BY <1>0, <1>2a, ConcatIs
<1> HIDE DEF A
<1>3a. A \in Seq(S)
  BY <1>3 DEF Joins
<1>4. Joins(S, A, R, AR)
  BY <1>3a, ConcatIs
<1> HIDE DEF AR
<1>5. /\ Len(BL) = 2 + l /\ Len(WO) = w + n /\ Len(BLE) = 3 + l
      /\ Len(A) = 3 + l + (w + n) /\ Len(AR) = 4 + l + w + n
      /\ AR \in Seq(S)
  BY <1>1, <1>2, <1>3, <1>4 DEF Joins
<1>6. all = AR
  BY DEF all, AR, A, BLE, WO, BL
<1> HIDE DEF AR
<1>7. Len(all) = 4 + l + w + n /\ DOMAIN all = 1..(4 + l + w + n)
  BY <1>5, <1>6
<1>8. \A k \in 1..(3 + l) : all[k] = BLE[k]
  <2> TAKE k \in 1..(3 + l)
  <2>1. k \in 1..Len(BLE) /\ k \in 1..Len(A)
    BY <1>5
  <2>2. A[k] = BLE[k]
    BY <1>3, <2>1 DEF Joins
  <2>3. AR[k] = A[k]
    BY <1>4, <2>1 DEF Joins
  <2> QED  BY <1>6, <2>2, <2>3
<1>9. \A k \in 1..(2 + l) : all[k] = BL[k]
  BY <1>2, <1>5, <1>8 DEF Joins
<1>10. all[1] = B[1] /\ all[2] = B[2]
  BY <1>1, <1>9 DEF Joins
<1>11. \A k \in 3..(2 + l) : all[k] = L[k - 2]
  <2> TAKE k \in 3..(2 + l)
  <2>1. k - 2 \in 1..l /\ 2 + (k - 2) = k
    OBVIOUS
  <2> QED  BY <1>1, <1>9, <2>1 DEF Joins
<1>12. all[3 + l] = E[1]
  BY <1>2, <1>5, <1>8 DEF Joins
<1>13. \A k \in 1..(w + n) : all[3 + l + k] = WO[k]
  BY <1>3, <1>4, <1>5, <1>6 DEF Joins
<1>14. \A k \in 1..w : all[3 + l + k] = W[k]
  <2> TAKE k \in 1..w
  <2>0. k \in 1..(w + n)
    OBVIOUS
  <2>1. all[3 + l + k] = WO[k]
    BY <1>13, <2>0
  <2>2. WO[k] = W[k]
    BY <1>1 DEF Joins
  <2> QED  BY <2>1, <2>2
<1>15. n = 1 => all[3 + l + w + 1] = O[1]
  <2> SUFFICES ASSUME n = 1  PROVE all[3 + l + w + 1] = O[1]
    OBVIOUS
  <2>1. all[3 + l + (w + 1)] = WO[w + 1]
    BY <1>13
  <2>2. WO[w + 1] = O[1]
    BY <1>1 DEF Joins
  <2> QED  BY <2>1, <2>2
<1>16. all[3 + l + w + n + 1] = R[1]
  <2>1. 3 + l + w + n + 1 = Len(A) + 1 /\ 1 \in 1..Len(R)
    BY <1>5
  <2>2. AR[Len(A) + 1] = R[1]
    BY <1>4, <2>1 DEF Joins
  <2> QED  BY <1>6, <2>1, <2>2
<1> QED
  BY <1>7, <1>10, <1>11, <1>12, <1>14, <1>15, <1>16 DEF Strung, all

-----------------------------------------------------------------------------
(* Where the steps of a plan stand.                                        *)

ErasePlace == 3 + LinkTestRepeats

WriteCount(j, count) == IF j.kind = "Flash" THEN (count * EraseBlock) \div WriteBlock ELSE 0
OptionCount(j)       == IF j.kind = "Flash" /\ j.write_options THEN 1 ELSE 0

Laid(steps, reload, count, i, j, o) ==
  LET w == WriteCount(j, count)
      n == OptionCount(j)
  IN  /\ DOMAIN steps = 1..(ErasePlace + w + n + 1) /\ Len(steps) = ErasePlace + w + n + 1
      /\ steps[1] = BaudSteps(reload, o)[1]
      /\ steps[2] = BaudSteps(reload, o)[2]
      /\ \A k \in 3..(ErasePlace - 1) : steps[k] = LinkTestSteps(i, o)[k - 2]
      /\ steps[ErasePlace] = EraseStep(count, o)
      /\ \A k \in 1..w : steps[ErasePlace + k] = WriteSteps(j.image, count, o)[k]
      /\ n = 1 => steps[ErasePlace + w + 1] = OptionsSteps(i, o)[1]
      /\ steps[ErasePlace + w + n + 1] = RunStep(o)

LEMMA Fits ==
  ASSUME NEW count \in Nat
  PROVE  /\ (count * EraseBlock) \div WriteBlock \in Nat
         /\ ((count * EraseBlock) \div WriteBlock) * WriteBlock = count * EraseBlock
<1>1. PICK m \in Nat : EraseBlock = WriteBlock * m
  BY SizesAssumption, Multiple, Division
<1>2. count * EraseBlock = (count * m) * WriteBlock
  BY <1>1, SizesAssumption
<1>3. (count * EraseBlock) \div WriteBlock = count * m
  BY <1>2, SizesAssumption, DivisionOfProduct
<1> QED
  BY <1>2, <1>3

LEMMA Layout ==
  ASSUME NEW i, NEW j \in Jobs, NEW o, j.kind # "Identify", Plan(i, j, o).ok
  PROVE  /\ TimerReload(i.measured_hz, o.transfer_baud).ok
         /\ EraseCount(i, j).ok
         /\ EraseCount(i, j).value \in 1..255
         /\ Laid(Plan(i, j, o).value, TimerReload(i.measured_hz, o.transfer_baud).value,
                 EraseCount(i, j).value, i, j, o)
<1> DEFINE reload == TimerReload(i.measured_hz, o.transfer_baud)
           count  == EraseCount(i, j)
           c      == count.value
           B == BaudSteps(reload.value, o)
           L == LinkTestSteps(i, o)
           E == << EraseStep(c, o) >>
           W == IF j.kind = "Flash" THEN WriteSteps(j.image, c, o) ELSE <<>>
           O == IF j.kind = "Flash" /\ j.write_options THEN OptionsSteps(i, o) ELSE <<>>
           R == << RunStep(o) >>
           w == WriteCount(j, c)
           n == OptionCount(j)
           Links == {L[k] : k \in 1..LinkTestRepeats}
           Writes == {W[k] : k \in 1..w}
           Fixed == {B[1], B[2], E[1], O[1], R[1]}
           S == Fixed \cup Links \cup Writes
<1>1. reload.ok /\ count.ok /\ c \in 1..255
  BY DEF Plan, Ok, Error
<1>1a. Plan(i, j, o).value =
           B \o L \o E \o (IF j.kind = "Flash"
                           THEN WriteSteps(j.image, c, o)
                                \o (IF j.write_options THEN OptionsSteps(i, o) ELSE <<>>)
                           ELSE <<>>) \o R
  BY DEF Plan, Ok, Error
<1>2. c \in Nat /\ w \in Nat /\ n \in 0..1
  <2>1. c \in Nat
    BY <1>1
  <2> HIDE DEF c
  <2>2. (c * EraseBlock) \div WriteBlock \in Nat
    BY <2>1, Fits
  <2> QED  BY <2>1, <2>2 DEF WriteCount, OptionCount
<1>3. B \in Seq(S) /\ Len(B) = 2
  <2> DEFINE b1 == B[1]  b2 == B[2]
  <2>1. B = <<b1, b2>>
    BY DEF BaudSteps
  <2>2. b1 \in S /\ b2 \in S
    OBVIOUS
  <2> HIDE DEF B, S, b1, b2
  <2> QED  BY <2>1, <2>2
<1>4. L \in Seq(S) /\ Len(L) = LinkTestRepeats
  <2>1. L = [k \in 1..LinkTestRepeats |-> L[k]]
    BY DEF LinkTestSteps
  <2>2. \A k \in 1..LinkTestRepeats : L[k] \in S
    OBVIOUS
  <2> HIDE DEF L, S
  <2> QED  BY <2>1, <2>2, SizesAssumption
<1>5. W \in Seq(S) /\ Len(W) = w
  <2>1. W = [k \in 1..w |-> W[k]]
    <3>1. CASE j.kind = "Flash"
      <4>1. W = WriteSteps(j.image, c, o)
        BY <3>1
      <4>2. w = (c * EraseBlock) \div WriteBlock
        BY <3>1 DEF WriteCount
      <4> HIDE DEF W, w, c
      <4> QED  BY <4>1, <4>2 DEF WriteSteps
    <3>2. CASE j.kind # "Flash"
      <4>1. W = <<>> /\ w = 0
        BY <3>2 DEF WriteCount
      <4> HIDE DEF W, w
      <4> QED  BY <4>1
    <3> QED  BY <3>1, <3>2
  <2>2. \A k \in 1..w : W[k] \in S
    OBVIOUS
  <2> HIDE DEF W, S, w
  <2> QED  BY <1>2, <2>1, <2>2
<1>6. E \in Seq(S) /\ Len(E) = 1 /\ R \in Seq(S) /\ Len(R) = 1
  <2>1. E[1] \in S /\ R[1] \in S
    OBVIOUS
  <2> HIDE DEF S
  <2> QED  BY <2>1
<1>7. O \in Seq(S) /\ Len(O) = n
  <2>1. O[1] \in S
    OBVIOUS
  <2> HIDE DEF S
  <2> QED  BY <2>1 DEF OptionsSteps, OptionCount
<1>8. Plan(i, j, o).value = B \o L \o E \o (W \o O) \o R
  <2>1. CASE j.kind = "Flash"
    BY <1>1a, <2>1
  <2>2. CASE j.kind # "Flash"
    BY <1>1a, <2>2
  <2> QED  BY <2>1, <2>2
<1> DEFINE all == Plan(i, j, o).value
<1>9. /\ Len(all) = ErasePlace + w + n + 1 /\ DOMAIN all = 1..(ErasePlace + w + n + 1)
      /\ all[1] = B[1] /\ all[2] = B[2]
      /\ \A k \in 3..(ErasePlace - 1) : all[k] = L[k - 2]
      /\ all[ErasePlace] = E[1]
      /\ \A k \in 1..w : all[ErasePlace + k] = W[k]
      /\ n = 1 => all[ErasePlace + w + 1] = O[1]
      /\ all[ErasePlace + w + n + 1] = R[1]
  <2> HIDE DEF B, L, E, W, O, R, S, w, n, all
  <2>1. all = B \o L \o E \o (W \o O) \o R
    BY <1>8 DEF all
  <2>2. LinkTestRepeats \in Nat /\ 4 + LinkTestRepeats = ErasePlace + 1
        /\ 2 + LinkTestRepeats = ErasePlace - 1 /\ 3 + LinkTestRepeats = ErasePlace
    BY SizesAssumption DEF ErasePlace
  <2> DEFINE l == LinkTestRepeats
  <2> HIDE DEF l
  <2>3. Strung(all, B, L, E, W, O, R, l, w, n)
    <3>1. l \in Nat /\ Len(L) = l
      BY <1>4, <2>2 DEF l
    <3>2. Strung(B \o L \o E \o (W \o O) \o R, B, L, E, W, O, R, l, w, n)
      BY <1>2, <1>3, <1>4, <1>5, <1>6, <1>7, <3>1, Concatenated
    <3> QED  BY <2>1, <3>2
  <2>4. 3 + l + w + 1 = ErasePlace + w + 1 /\ 4 + l + w + n = ErasePlace + w + n + 1
        /\ 3 + l + w + n + 1 = ErasePlace + w + n + 1
        /\ 2 + l = ErasePlace - 1 /\ 3 + l = ErasePlace
    BY <1>2, <2>2 DEF l, ErasePlace
  <2> HIDE DEF ErasePlace
  <2> QED  BY <2>3, <2>4 DEF Strung
<1>10. Laid(Plan(i, j, o).value, reload.value, c, i, j, o)
  <2> HIDE DEF B, L, E, W, O, R, S, w, n, all
  <2>3. ASSUME NEW k \in 1..w  PROVE all[ErasePlace + k] = WriteSteps(j.image, c, o)[k]
    <3>1. j.kind = "Flash"
      BY DEF w, WriteCount
    <3> QED  BY <1>9, <2>3, <3>1 DEF W
  <2>4. ASSUME n = 1  PROVE all[ErasePlace + w + 1] = OptionsSteps(i, o)[1]
    BY <1>9, <2>4 DEF n, OptionCount, O
  <2>5. E[1] = EraseStep(c, o) /\ R[1] = RunStep(o)
    BY DEF E, R
  <2>6. Laid(all, reload.value, c, i, j, o)
    BY <1>9, <2>3, <2>4, <2>5 DEF Laid, B, L, w, n
  <2> QED  BY <2>6 DEF all
<1> QED
  BY <1>1, <1>10

-----------------------------------------------------------------------------
(* What the steps at those places are.                                     *)

Is(step, phase, frame, expect, before, after) ==
  /\ step.phase = phase /\ step.frame = frame /\ step.expect = expect
  /\ step.retune_before_send = before /\ step.retune_after_send = after

PaddedByte(image, a) == IF a < Len(image) THEN image[a + 1] ELSE 255
BlockData(image, k)  == [b \in 1..WriteBlock |-> PaddedByte(image, (k - 1) * WriteBlock + b - 1)]

Cast(steps, reload, count, i, j, o) ==
  LET w == WriteCount(j, count)
      n == OptionCount(j)
  IN  /\ Is(steps[1], "BaudProbe", BaudProbeFrame(reload), ExpectEcho, NoBaud, o.transfer_baud)
      /\ Is(steps[2], "BaudCommit", BaudCommitFrame(reload), ExpectEcho,
            o.handshake_baud, o.transfer_baud)
      /\ \A k \in 3..(ErasePlace - 1) :
           Is(steps[k], "LinkTest", LinkTestFrame(i.chip_id), ExpectAck(ReplyAck, <<>>), NoBaud, NoBaud)
      /\ Is(steps[ErasePlace], "Erase", EraseFrame(count), ExpectAckLen(ReplyAck, EraseReplyLen),
            NoBaud, NoBaud)
      /\ \A k \in 1..w :
           LET data == BlockData(j.image, k)
           IN  /\ Is(steps[ErasePlace + k], "Write", WriteFrame((k - 1) * WriteBlock, data),
                     ExpectBlockAck(Checksum(data)), NoBaud, NoBaud)
               /\ steps[ErasePlace + k].write_addr = (k - 1) * WriteBlock
      /\ n = 1 => Is(steps[ErasePlace + w + 1], "Options", OptionsFrame(i), ExpectEcho, NoBaud, NoBaud)
      /\ Is(steps[ErasePlace + w + n + 1], "Run", RunFrame, ExpectNothing, NoBaud, NoBaud)

LEMMA WriteStepIs ==
  ASSUME NEW image \in Seq(Byte), NEW count \in Nat, NEW o,
         NEW k \in 1..((count * EraseBlock) \div WriteBlock)
  PROVE  LET step == WriteSteps(image, count, o)[k]
             data == BlockData(image, k)
         IN  /\ Is(step, "Write", WriteFrame((k - 1) * WriteBlock, data),
                   ExpectBlockAck(Checksum(data)), NoBaud, NoBaud)
             /\ step.write_addr = (k - 1) * WriteBlock
<1> DEFINE size   == count * EraseBlock
           blocks == size \div WriteBlock
           padded == [a \in 1..size |-> IF a <= Len(image) THEN image[a] ELSE 255]
           from   == (k - 1) * WriteBlock
           chunk  == SubSeq(padded, from + 1, k * WriteBlock)
           data   == BlockData(image, k)
<1>1. /\ size \in Nat /\ blocks \in Nat /\ blocks * WriteBlock = size /\ WriteBlock \in Nat \ {0}
      /\ k \in 1..blocks
  BY Fits, SizesAssumption
<1> HIDE DEF size, blocks
<1>2. from \in Nat /\ k * WriteBlock = from + WriteBlock /\ from + WriteBlock <= size
  <2>1. from \in Nat /\ k * WriteBlock = from + WriteBlock
    BY <1>1
  <2>2. k * WriteBlock <= blocks * WriteBlock
    BY <1>1
  <2> QED  BY <1>1, <2>1, <2>2
<1> HIDE DEF from
<1>3. chunk = data
  <2>1. padded \in Seq({padded[a] : a \in 1..size}) /\ Len(padded) = size
    BY <1>1
  <2>2. chunk = [b \in 1..WriteBlock |-> padded[from + b]]
    BY <1>1, <1>2, <2>1
  <2>3. ASSUME NEW b \in 1..WriteBlock  PROVE padded[from + b] = PaddedByte(image, from + b - 1)
    <3>1. from + b \in 1..size /\ from + b - 1 + 1 = from + b
          /\ (from + b - 1 < Len(image) <=> from + b <= Len(image))
      BY <1>1, <1>2
    <3> QED  BY <3>1 DEF PaddedByte
  <2> HIDE DEF padded, chunk
  <2> QED  BY <2>2, <2>3 DEF BlockData, from
<1>4. WriteSteps(image, count, o)[k]
        = [PlainStep("Write", WriteFrame(from, chunk), ExpectBlockAck(BlockAck(chunk)), o.reply_timeout_ms)
             EXCEPT !.write_addr = from]
  BY <1>1 DEF WriteSteps, size, blocks, from
<1> HIDE DEF chunk, data
<1> QED
  BY <1>3, <1>4 DEF Is, PlainStep, BlockAck, from, data

LEMMA Roles ==
  ASSUME NEW steps, NEW reload, NEW count \in 1..255, NEW i, NEW j \in Jobs, NEW o,
         Laid(steps, reload, count, i, j, o)
  PROVE  Cast(steps, reload, count, i, j, o)
<1> DEFINE w == WriteCount(j, count)
           n == OptionCount(j)
<1>1. Is(steps[1], "BaudProbe", BaudProbeFrame(reload), ExpectEcho, NoBaud, o.transfer_baud)
  BY DEF Laid, BaudSteps, PlainStep, Is
<1>2. Is(steps[2], "BaudCommit", BaudCommitFrame(reload), ExpectEcho, o.handshake_baud, o.transfer_baud)
  BY DEF Laid, BaudSteps, PlainStep, Is
<1>3. ASSUME NEW k \in 3..(ErasePlace - 1)
      PROVE  Is(steps[k], "LinkTest", LinkTestFrame(i.chip_id), ExpectAck(ReplyAck, <<>>), NoBaud, NoBaud)
  <2>1. k - 2 \in 1..LinkTestRepeats
    BY SizesAssumption DEF ErasePlace
  <2> QED  BY <2>1 DEF Laid, LinkTestSteps, PlainStep, Is
<1>4. Is(steps[ErasePlace], "Erase", EraseFrame(count), ExpectAckLen(ReplyAck, EraseReplyLen), NoBaud, NoBaud)
  <2>1. count % 256 = count
    OBVIOUS
  <2> QED  BY <2>1 DEF Laid, EraseStep, PlainStep, Is
<1>5. ASSUME NEW k \in 1..w
      PROVE  LET data == BlockData(j.image, k)
             IN  /\ Is(steps[ErasePlace + k], "Write", WriteFrame((k - 1) * WriteBlock, data),
                       ExpectBlockAck(Checksum(data)), NoBaud, NoBaud)
                 /\ steps[ErasePlace + k].write_addr = (k - 1) * WriteBlock
  <2>1. j.kind = "Flash"
    BY DEF WriteCount
  <2>2. j.image \in Seq(Byte) /\ count \in Nat
    BY <2>1, JobsAssumption
  <2>3. k \in 1..((count * EraseBlock) \div WriteBlock)
    BY <2>1 DEF WriteCount
  <2>4. steps[ErasePlace + k] = WriteSteps(j.image, count, o)[k]
    BY DEF Laid
  <2> QED  BY <2>2, <2>3, <2>4, WriteStepIs
<1>6. ASSUME n = 1
      PROVE  Is(steps[ErasePlace + w + 1], "Options", OptionsFrame(i), ExpectEcho, NoBaud, NoBaud)
  BY <1>6 DEF Laid, OptionsSteps, PlainStep, Is
<1>7. Is(steps[ErasePlace + w + n + 1], "Run", RunFrame, ExpectNothing, NoBaud, NoBaud)
  BY DEF Laid, RunStep, PlainStep, Is
<1> QED
  BY <1>1, <1>2, <1>3, <1>4, <1>5, <1>6, <1>7 DEF Cast

At(steps, phase) == {k \in DOMAIN steps : steps[k].phase = phase}

PhasesStand(steps, count, j) ==
  LET w == WriteCount(j, count)
      n == OptionCount(j)
  IN  /\ w \in Nat /\ n \in 0..1
      /\ At(steps, "BaudProbe") = {1} /\ At(steps, "BaudCommit") = {2}
      /\ At(steps, "LinkTest") = 3..(ErasePlace - 1)
      /\ At(steps, "Erase") = {ErasePlace}
      /\ At(steps, "Write") = (ErasePlace + 1)..(ErasePlace + w)
      /\ At(steps, "Options") = (ErasePlace + w + 1)..(ErasePlace + w + n)
      /\ At(steps, "Run") = {ErasePlace + w + n + 1}

LEMMA Phased ==
  ASSUME NEW steps, NEW reload, NEW count \in 1..255, NEW i, NEW j \in Jobs, NEW o,
         Laid(steps, reload, count, i, j, o)
  PROVE  PhasesStand(steps, count, j)
<1> DEFINE w == WriteCount(j, count)
           n == OptionCount(j)
           last == ErasePlace + w + n + 1
<1>1. w \in Nat /\ n \in 0..1 /\ ErasePlace \in Nat /\ ErasePlace >= 4
  BY Fits, SizesAssumption DEF WriteCount, OptionCount, ErasePlace
<1>2. Cast(steps, reload, count, i, j, o) /\ DOMAIN steps = 1..last
  BY Roles DEF Laid
<1> HIDE DEF w, n
<1>3. /\ steps[1].phase = "BaudProbe" /\ steps[2].phase = "BaudCommit"
      /\ \A k \in 3..(ErasePlace - 1) : steps[k].phase = "LinkTest"
      /\ steps[ErasePlace].phase = "Erase"
      /\ \A k \in 1..w : steps[ErasePlace + k].phase = "Write"
      /\ n = 1 => steps[ErasePlace + w + 1].phase = "Options"
      /\ steps[last].phase = "Run"
  BY <1>2 DEF Cast, Is, w, n
<1>4. \A k \in (ErasePlace + 1)..(ErasePlace + w) : steps[k].phase = "Write"
  <2> TAKE k \in (ErasePlace + 1)..(ErasePlace + w)
  <2>1. k - ErasePlace \in 1..w /\ ErasePlace + (k - ErasePlace) = k
    BY <1>1
  <2> QED  BY <1>3, <2>1
<1>5. \A k \in (ErasePlace + w + 1)..(ErasePlace + w + n) : steps[k].phase = "Options"
  <2> TAKE k \in (ErasePlace + w + 1)..(ErasePlace + w + n)
  <2>1. n = 1 /\ k = ErasePlace + w + 1
    BY <1>1
  <2> QED  BY <1>3, <2>1
<1>6. \A k \in DOMAIN steps :
        \/ k = 1 \/ k = 2 \/ k \in 3..(ErasePlace - 1) \/ k = ErasePlace
        \/ k \in (ErasePlace + 1)..(ErasePlace + w)
        \/ k \in (ErasePlace + w + 1)..(ErasePlace + w + n) \/ k = last
  BY <1>1, <1>2
<1>7. /\ {1, 2, ErasePlace, last} \subseteq DOMAIN steps
      /\ 3..(ErasePlace - 1) \subseteq DOMAIN steps
      /\ (ErasePlace + 1)..(ErasePlace + w) \subseteq DOMAIN steps
      /\ (ErasePlace + w + 1)..(ErasePlace + w + n) \subseteq DOMAIN steps
  BY <1>1, <1>2
<1> HIDE DEF last
<1>8. /\ At(steps, "BaudProbe") = {1} /\ At(steps, "BaudCommit") = {2}
      /\ At(steps, "Erase") = {ErasePlace} /\ At(steps, "Run") = {last}
  BY <1>3, <1>4, <1>5, <1>6, <1>7 DEF At
<1>9. At(steps, "LinkTest") = 3..(ErasePlace - 1)
  BY <1>3, <1>4, <1>5, <1>6, <1>7 DEF At
<1>10. At(steps, "Write") = (ErasePlace + 1)..(ErasePlace + w)
  BY <1>3, <1>4, <1>5, <1>6, <1>7 DEF At
<1>11. At(steps, "Options") = (ErasePlace + w + 1)..(ErasePlace + w + n)
  BY <1>3, <1>4, <1>5, <1>6, <1>7 DEF At
<1> QED
  BY <1>1, <1>8, <1>9, <1>10, <1>11 DEF PhasesStand, w, n, last

Place(steps, reload, count, i, j, o, k) ==
  LET w == WriteCount(j, count)
      n == OptionCount(j)
  IN  \/ k = 1 /\ Is(steps[k], "BaudProbe", BaudProbeFrame(reload), ExpectEcho,
                     NoBaud, o.transfer_baud)
      \/ k = 2 /\ Is(steps[k], "BaudCommit", BaudCommitFrame(reload), ExpectEcho,
                     o.handshake_baud, o.transfer_baud)
      \/ /\ k \in 3..(ErasePlace - 1)
         /\ Is(steps[k], "LinkTest", LinkTestFrame(i.chip_id), ExpectAck(ReplyAck, <<>>),
               NoBaud, NoBaud)
      \/ k = ErasePlace /\ Is(steps[k], "Erase", EraseFrame(count),
                              ExpectAckLen(ReplyAck, EraseReplyLen), NoBaud, NoBaud)
      \/ \E b \in 1..w :
           /\ k = ErasePlace + b
           /\ Is(steps[k], "Write", WriteFrame((b - 1) * WriteBlock, BlockData(j.image, b)),
                 ExpectBlockAck(Checksum(BlockData(j.image, b))), NoBaud, NoBaud)
      \/ /\ n = 1 /\ k = ErasePlace + w + 1
         /\ Is(steps[k], "Options", OptionsFrame(i), ExpectEcho, NoBaud, NoBaud)
      \/ k = ErasePlace + w + n + 1 /\ Is(steps[k], "Run", RunFrame, ExpectNothing, NoBaud, NoBaud)

LEMMA Places ==
  ASSUME NEW steps, NEW reload, NEW count \in 1..255, NEW i, NEW j \in Jobs, NEW o,
         Laid(steps, reload, count, i, j, o), NEW k \in DOMAIN steps
  PROVE  Place(steps, reload, count, i, j, o, k)
<1> DEFINE w == WriteCount(j, count)
           n == OptionCount(j)
           last == ErasePlace + w + n + 1
<1>1. w \in Nat /\ n \in 0..1 /\ ErasePlace \in Nat /\ ErasePlace >= 4
  BY Fits, SizesAssumption DEF WriteCount, OptionCount, ErasePlace
<1>2. Cast(steps, reload, count, i, j, o) /\ DOMAIN steps = 1..last
  BY Roles DEF Laid
<1>3. \/ k = 1 \/ k = 2 \/ k \in 3..(ErasePlace - 1) \/ k = ErasePlace
      \/ (k - ErasePlace \in 1..w /\ k = ErasePlace + (k - ErasePlace))
      \/ (n = 1 /\ k = ErasePlace + w + 1) \/ k = last
  <2> HIDE DEF w, n
  <2> QED  BY <1>1, <1>2
<1>4. CASE k - ErasePlace \in 1..w /\ k = ErasePlace + (k - ErasePlace)
  BY <1>2, <1>4 DEF Cast, Place
<1>5. CASE k = 1 \/ k = 2 \/ k \in 3..(ErasePlace - 1) \/ k = ErasePlace
  BY <1>2, <1>5 DEF Cast, Place
<1>6. CASE (n = 1 /\ k = ErasePlace + w + 1) \/ k = last
  BY <1>2, <1>6 DEF Cast, Place
<1> QED
  BY <1>3, <1>4, <1>5, <1>6 DEF Place

-----------------------------------------------------------------------------
(* What the frames of a plan carry.                                        *)

LEMMA EraseFrameParts ==
  ASSUME NEW count
  PROVE  EraseFrame(count).payload[1] = count /\ EraseFrame(count).cmd = CmdErase
BY DEF EraseFrame, HostFrame, EraseFill

LEMMA BlockDataType ==
  ASSUME NEW image \in Seq(Byte), NEW k \in Nat \ {0}
  PROVE  BlockData(image, k) \in Seq(Byte) /\ Len(BlockData(image, k)) = WriteBlock
<1>1. ASSUME NEW a \in Nat  PROVE PaddedByte(image, a) \in Byte
  <2>1. CASE a < Len(image)
    <3>1. a + 1 \in 1..Len(image)
      BY <2>1
    <3> QED  BY <2>1, <3>1 DEF PaddedByte
  <2>2. CASE ~(a < Len(image))
    BY <2>2 DEF PaddedByte, Byte
  <2> QED  BY <2>1, <2>2
<1>2. ASSUME NEW b \in 1..WriteBlock  PROVE (k - 1) * WriteBlock + b - 1 \in Nat
  <2>1. (k - 1) * WriteBlock \in Nat
    BY SizesAssumption
  <2> QED  BY <2>1, SizesAssumption
<1>3. \A b \in 1..WriteBlock : PaddedByte(image, (k - 1) * WriteBlock + b - 1) \in Byte
  BY <1>1, <1>2
<1> QED
  BY <1>3, SizesAssumption DEF BlockData

LEMMA WriteFrameParts ==
  ASSUME NEW addr \in Nat, NEW data \in Seq(Byte)
  PROVE  LET f == WriteFrame(addr, data)
         IN  /\ f.cmd = CmdWrite
             /\ SubSeq(f.payload, 1, 4) = U32Bytes(addr)
             /\ DataOf(f) = data
             /\ addr < 65536 => AddrOf(f) = addr
<1> DEFINE f == WriteFrame(addr, data)
           u == U32Bytes(addr)
           z == <<Len(data) \div 256, Len(data) % 256>>
           p == u \o z \o data
<1>1. f.cmd = CmdWrite /\ f.payload = p
  BY DEF WriteFrame, HostFrame
<1>2. u \in Seq(Int) /\ Len(u) = 4 /\ z \in Seq(Int) /\ Len(z) = 2 /\ data \in Seq(Int)
  <2>1. data \in Seq(Int)
    <3>1. Len(data) \in Nat /\ DOMAIN data = 1..Len(data) /\ \A k \in 1..Len(data) : data[k] \in Byte
      OBVIOUS
    <3>2. Byte \subseteq Int
      BY DEF Byte
    <3>3. \A k \in 1..Len(data) : data[k] \in Int
      BY <3>1, <3>2
    <3> QED  BY <3>1, <3>3
  <2>2. \A v \in Nat : v % 256 \in Int /\ v \div 256 \in Int
    OBVIOUS
  <2>3. /\ addr \div 16777216 \in Int /\ (addr \div 65536) % 256 \in Int
        /\ (addr \div 256) % 256 \in Int /\ addr % 256 \in Int
    BY SMT
  <2>4. u \in Seq(Int) /\ Len(u) = 4
    BY <2>3, SMT DEF U32Bytes
  <2>5. z \in Seq(Int) /\ Len(z) = 2
    BY <2>2
  <2> QED  BY <2>1, <2>4, <2>5
<1>3. addr < 65536 => BigEndian(u[3], u[4]) = addr
  BY SMT DEF U32Bytes, BigEndian
<1> HIDE DEF u, z
<1> DEFINE uz == u \o z
<1>4. Joins(Int, u, z, uz)
  BY <1>2, ConcatIs
<1>5. uz \in Seq(Int) /\ Len(uz) = 6 /\ \A k \in 1..4 : uz[k] = u[k]
  <2> HIDE DEF uz
  <2> QED  BY <1>2, <1>4 DEF Joins
<1>6. Joins(Int, uz, data, p)
  <2>1. p = uz \o data
    OBVIOUS
  <2> HIDE DEF uz, p
  <2> QED  BY <1>2, <1>5, <2>1, ConcatIs
<1> HIDE DEF p, uz
<1>7. /\ p \in Seq(Int) /\ Len(p) = 6 + Len(data) /\ Len(data) \in Nat
      /\ \A k \in 1..4 : p[k] = u[k]
      /\ \A k \in 1..Len(data) : p[6 + k] = data[k]
  BY <1>5, <1>6 DEF Joins
<1>8. SubSeq(p, 1, 4) = u
  <2>1. SubSeq(p, 1, 4) = [k \in 1..4 |-> p[k]]
    BY <1>7
  <2>2. u = [k \in 1..4 |-> u[k]]
    BY <1>2
  <2> QED  BY <2>1, <2>2, <1>7
<1>9. SubSeq(p, 7, Len(p)) = data
  <2>1. SubSeq(p, 7, Len(p)) = [k \in 1..Len(data) |-> p[6 + k]]
    BY <1>7
  <2>2. data = [k \in 1..Len(data) |-> data[k]]
    OBVIOUS
  <2> QED  BY <2>1, <2>2, <1>7
<1>10. p[3] = u[3] /\ p[4] = u[4]
  BY <1>7
<1> QED
  BY <1>1, <1>3, <1>8, <1>9, <1>10 DEF DataOf, AddrOf, u

-----------------------------------------------------------------------------
(* The shapes that the driver is proved about.                             *)

\* The frames of a plan differ in their commands.
LEMMA Commands ==
  ASSUME NEW reload, NEW i, NEW count, NEW addr \in Nat, NEW data \in Seq(Byte)
  PROVE  /\ BaudProbeFrame(reload).cmd = CmdBaudProbe /\ BaudCommitFrame(reload).cmd = CmdBaudCommit
         /\ LinkTestFrame(i).cmd = CmdLinkTest /\ EraseFrame(count).cmd = CmdErase
         /\ WriteFrame(addr, data).cmd = CmdWrite /\ OptionsFrame(i).cmd = CmdOptions
         /\ RunFrame.cmd = CmdRun
  BY DEF BaudProbeFrame, BaudCommitFrame, LinkTestFrame, EraseFrame, WriteFrame, OptionsFrame,
         RunFrame, HostFrame

\* What the steps of a plan ask for, place by place.
Asked(steps, count, i, j, o) ==
  LET w == WriteCount(j, count)
      last == ErasePlace + w + OptionCount(j) + 1
      quiet(k) == steps[k].retune_before_send = NoBaud /\ steps[k].retune_after_send = NoBaud
  IN  /\ DOMAIN steps = 1..last /\ Len(steps) = last
      /\ Asks(steps, 1, CmdBaudProbe) /\ Asks(steps, 2, CmdBaudCommit)
      /\ steps[1].retune_before_send = NoBaud /\ steps[2].retune_before_send = o.handshake_baud
      /\ \A k \in 1..2 : steps[k].retune_after_send = o.transfer_baud /\ ExpectsReply(steps[k])
      /\ \A k \in 3..(ErasePlace - 1) : Asks(steps, k, CmdLinkTest)
      /\ Asks(steps, ErasePlace, CmdErase) /\ steps[ErasePlace].frame.payload[1] = count
      /\ \A b \in 1..w : Asks(steps, ErasePlace + b, CmdWrite)
      /\ \A k \in 3..last :
           /\ quiet(k)
           /\ k # ErasePlace => ~Asks(steps, k, CmdErase)
           /\ ~Asks(steps, k, CmdBaudProbe) /\ ~Asks(steps, k, CmdBaudCommit)
           /\ k \notin (ErasePlace + 1)..(ErasePlace + w) =>
                ~Asks(steps, k, CmdWrite) /\ steps[k].phase # "Write"
           /\ k # last => ExpectsReply(steps[k])

LEMMA WhatIsAsked ==
  ASSUME NEW steps, NEW reload, NEW count \in 1..255, NEW i, NEW j \in Jobs, NEW o,
         Laid(steps, reload, count, i, j, o)
  PROVE  Asked(steps, count, i, j, o)
<1> DEFINE w == WriteCount(j, count)
           n == OptionCount(j)
           last == ErasePlace + w + n + 1
<1>1. w \in Nat /\ n \in 0..1 /\ ErasePlace \in Nat /\ ErasePlace >= 4
  BY Fits, SizesAssumption DEF WriteCount, OptionCount, ErasePlace
<1>2. Cast(steps, reload, count, i, j, o) /\ DOMAIN steps = 1..last /\ Len(steps) = last
  BY Roles DEF Laid
<1>3. ASSUME NEW b \in 1..w
      PROVE  WriteFrame((b - 1) * WriteBlock, BlockData(j.image, b)).cmd = CmdWrite
  BY DEF WriteFrame, HostFrame
<1>4. /\ Asks(steps, 1, CmdBaudProbe) /\ Asks(steps, 2, CmdBaudCommit)
      /\ steps[1].retune_before_send = NoBaud /\ steps[2].retune_before_send = o.handshake_baud
      /\ \A k \in 1..2 : steps[k].retune_after_send = o.transfer_baud /\ ExpectsReply(steps[k])
  BY <1>2, Commands DEF Cast, Is, Asks, ExpectsReply, ExpectEcho, BaudProbeFrame, BaudCommitFrame, HostFrame
<1>5. /\ \A k \in 3..(ErasePlace - 1) : Asks(steps, k, CmdLinkTest)
      /\ Asks(steps, ErasePlace, CmdErase) /\ steps[ErasePlace].frame.payload[1] = count
  BY <1>2, EraseFrameParts DEF Cast, Is, Asks, LinkTestFrame, HostFrame
<1>6. \A b \in 1..w : Asks(steps, ErasePlace + b, CmdWrite)
  BY <1>2, <1>3 DEF Cast, Is, Asks
<1>7. ASSUME NEW k \in 3..last
      PROVE  /\ steps[k].retune_before_send = NoBaud /\ steps[k].retune_after_send = NoBaud
             /\ k # ErasePlace => ~Asks(steps, k, CmdErase)
             /\ ~Asks(steps, k, CmdBaudProbe) /\ ~Asks(steps, k, CmdBaudCommit)
             /\ k \notin (ErasePlace + 1)..(ErasePlace + w) =>
                  ~Asks(steps, k, CmdWrite) /\ steps[k].phase # "Write"
             /\ k # last => ExpectsReply(steps[k])
  <2> DEFINE Here(phase, cmd, expects) ==
               /\ steps[k].phase = phase /\ steps[k].frame.cmd = cmd
               /\ steps[k].retune_before_send = NoBaud /\ steps[k].retune_after_send = NoBaud
               /\ ExpectsReply(steps[k]) = expects
  <2>1. \/ k \in 3..(ErasePlace - 1) /\ Here("LinkTest", CmdLinkTest, TRUE)
        \/ k = ErasePlace /\ Here("Erase", CmdErase, TRUE)
        \/ k \in (ErasePlace + 1)..(ErasePlace + w) /\ Here("Write", CmdWrite, TRUE)
        \/ n = 1 /\ k = ErasePlace + w + 1 /\ Here("Options", CmdOptions, TRUE)
        \/ k = last /\ Here("Run", CmdRun, FALSE)
    <3>1. k \in DOMAIN steps /\ k # 1 /\ k # 2
      BY <1>1, <1>2
    <3>2. CASE k \in 3..(ErasePlace - 1) /\ Is(steps[k], "LinkTest", LinkTestFrame(i.chip_id),
                                               ExpectAck(ReplyAck, <<>>), NoBaud, NoBaud)
      BY <3>2 DEF Is, LinkTestFrame, HostFrame, ExpectAck, ExpectsReply
    <3>3. CASE k = ErasePlace /\ Is(steps[k], "Erase", EraseFrame(count),
                                    ExpectAckLen(ReplyAck, EraseReplyLen), NoBaud, NoBaud)
      BY <3>3 DEF Is, EraseFrame, HostFrame, ExpectAckLen, ExpectsReply
    <3>4. CASE \E b \in 1..w :
                 /\ k = ErasePlace + b
                 /\ Is(steps[k], "Write", WriteFrame((b - 1) * WriteBlock, BlockData(j.image, b)),
                       ExpectBlockAck(Checksum(BlockData(j.image, b))), NoBaud, NoBaud)
      <4>1. PICK b \in 1..w :
              /\ k = ErasePlace + b
              /\ Is(steps[k], "Write", WriteFrame((b - 1) * WriteBlock, BlockData(j.image, b)),
                    ExpectBlockAck(Checksum(BlockData(j.image, b))), NoBaud, NoBaud)
        BY <3>4
      <4>2. Here("Write", CmdWrite, TRUE)
        BY <4>1, <1>3 DEF Is, ExpectBlockAck, ExpectsReply
      <4>3. k \in (ErasePlace + 1)..(ErasePlace + w)
        BY <4>1, <1>1
      <4> QED  BY <4>2, <4>3
    <3>5. CASE n = 1 /\ k = ErasePlace + w + 1 /\ Is(steps[k], "Options", OptionsFrame(i), ExpectEcho, NoBaud, NoBaud)
      BY <3>5 DEF Is, OptionsFrame, HostFrame, ExpectEcho, ExpectsReply
    <3>6. CASE k = last /\ Is(steps[k], "Run", RunFrame, ExpectNothing, NoBaud, NoBaud)
      BY <3>6 DEF Is, RunFrame, HostFrame, ExpectNothing, ExpectsReply
    <3>7. Place(steps, reload, count, i, j, o, k)
      BY <3>1, Places
    <3> QED  BY <3>1, <3>2, <3>3, <3>4, <3>5, <3>6, <3>7 DEF Place
  <2> HIDE DEF w, n
  <2> QED
    BY <1>1, <2>1
    DEF Asks, CmdLinkTest, CmdErase, CmdWrite, CmdOptions, CmdRun, CmdBaudProbe, CmdBaudCommit
<1> QED
  BY <1>2, <1>4, <1>5, <1>6, <1>7 DEF Asked

LEMMA ShapeOfIdentify ==
  ASSUME NEW o, NEW steps, steps = <<RunStep(o)>>, NEW blocks, NEW unit, NEW size
  PROVE  /\ \A k \in 1..Len(steps) : ExpectsReply(steps[k]) \/ k = Len(steps)
         /\ SetsRates(steps, o.handshake_baud, o.transfer_baud)
         /\ ProvesLineFirst(steps, LinkTestRepeats)
         /\ FillsOwnBlocks(steps, blocks, unit, size)
<1>1. /\ Len(steps) = 1 /\ steps[1].frame.cmd = CmdRun /\ steps[1].phase = "Run"
      /\ steps[1].retune_before_send = NoBaud /\ steps[1].retune_after_send = NoBaud
  BY DEF RunStep, PlainStep, RunFrame, HostFrame
<1>2. \A k \in 1..Len(steps) : k = 1
  BY <1>1
<1>3. SetsRates(steps, o.handshake_baud, o.transfer_baud)
  BY <1>1, <1>2 DEF SetsRates, Trial, TrialBefore, Asks, CmdRun, CmdBaudProbe, CmdBaudCommit
<1>4. ProvesLineFirst(steps, LinkTestRepeats)
  BY <1>1, <1>2 DEF ProvesLineFirst, Asks, CmdRun, CmdErase
<1>5. FillsOwnBlocks(steps, blocks, unit, size)
  BY <1>1, <1>2 DEF FillsOwnBlocks, Asks, CmdRun, CmdWrite
<1> QED
  BY <1>1, <1>2, <1>3, <1>4, <1>5

LEMMA ShapeOfRates ==
  ASSUME NEW steps, NEW count \in 1..255, NEW i, NEW j, NEW o, Asked(steps, count, i, j, o)
  PROVE  SetsRates(steps, o.handshake_baud, o.transfer_baud)
<1>1. ErasePlace \in Nat /\ ErasePlace >= 4 /\ Len(steps) \in Nat /\ Len(steps) >= ErasePlace
  <2>1. WriteCount(j, count) \in Nat /\ OptionCount(j) \in Nat
    BY Fits DEF WriteCount, OptionCount
  <2> QED  BY <2>1, SizesAssumption DEF Asked, ErasePlace
<1>2. /\ Asks(steps, 1, CmdBaudProbe) /\ Asks(steps, 2, CmdBaudCommit)
      /\ ~Asks(steps, 1, CmdBaudCommit)
      /\ steps[1].retune_before_send = NoBaud /\ steps[2].retune_before_send = o.handshake_baud
      /\ steps[1].retune_after_send = o.transfer_baud /\ steps[2].retune_after_send = o.transfer_baud
  BY DEF Asked, Asks, CmdBaudProbe, CmdBaudCommit
<1>3. \A k \in 3..Len(steps) :
        /\ steps[k].retune_before_send = NoBaud /\ steps[k].retune_after_send = NoBaud
        /\ ~Asks(steps, k, CmdBaudProbe) /\ ~Asks(steps, k, CmdBaudCommit)
  BY DEF Asked
<1>4. ~TrialBefore(steps, 1) /\ ~CommittedBefore(steps, 1) /\ ~CommittedBefore(steps, 2)
  BY <1>2 DEF TrialBefore, CommittedBefore
<1>5. ASSUME NEW k \in 3..Len(steps)  PROVE CommittedBefore(steps, k) /\ ~Trial(steps, k)
  <2>1. 2 \in 1..(k - 1)
    BY <1>1
  <2> QED  BY <1>2, <1>3, <2>1 DEF CommittedBefore, Trial
<1>6. \A k \in 1..Len(steps) : k = 1 \/ k = 2 \/ k \in 3..Len(steps)
  BY <1>1
<1>7. Trial(steps, 1) /\ Trial(steps, 2)
  BY <1>2 DEF Trial
<1> QED
  BY <1>2, <1>3, <1>4, <1>5, <1>6, <1>7 DEF SetsRates

LEMMA ShapeOfLine ==
  ASSUME NEW steps, NEW count \in 1..255, NEW i, NEW j, NEW o, Asked(steps, count, i, j, o)
  PROVE  ProvesLineFirst(steps, LinkTestRepeats)
<1>1. /\ ErasePlace = LinkTestRepeats + 3 /\ LinkTestRepeats \in Nat
      /\ Len(steps) \in Nat /\ Len(steps) >= ErasePlace
  <2>1. WriteCount(j, count) \in Nat /\ OptionCount(j) \in Nat
    BY Fits DEF WriteCount, OptionCount
  <2> QED  BY <2>1, SizesAssumption DEF Asked, ErasePlace
<1>2. ASSUME NEW k \in 1..Len(steps), Asks(steps, k, CmdErase)  PROVE k = ErasePlace
  <2>1. k # 1 /\ k # 2
    BY <1>2 DEF Asked, Asks, CmdErase, CmdBaudProbe, CmdBaudCommit
  <2>2. k \in 3..Len(steps)
    BY <2>1, <1>1
  <2> QED  BY <1>2, <2>2 DEF Asked
<1>3. ASSUME NEW k \in (ErasePlace - LinkTestRepeats)..(ErasePlace - 1)
      PROVE  Asks(steps, k, CmdLinkTest) /\ CommittedBefore(steps, k)
  <2>1. k \in 3..(ErasePlace - 1) /\ 2 \in 1..(k - 1)
    BY <1>1
  <2> QED  BY <2>1 DEF Asked, CommittedBefore
<1> QED
  BY <1>1, <1>2, <1>3 DEF ProvesLineFirst

LEMMA UnitsInRegion ==
  ASSUME NEW count \in Nat
  PROVE  count * (EraseBlock \div WriteBlock) = (count * EraseBlock) \div WriteBlock
<1> DEFINE n == (count * EraseBlock) \div WriteBlock
           m == EraseBlock \div WriteBlock
<1>1. n \in Nat /\ n * WriteBlock = count * EraseBlock /\ WriteBlock \in Nat \ {0}
  BY Fits, SizesAssumption
<1>2. m \in Nat /\ EraseBlock = WriteBlock * m
  BY SizesAssumption, Multiple, Division
<1> HIDE DEF n, m
<1>3. (count * m) * WriteBlock = n * WriteBlock
  BY <1>1, <1>2
<1>4. ((count * m) * WriteBlock) \div WriteBlock = count * m
  BY <1>1, <1>2, DivisionOfProduct
<1>5. (n * WriteBlock) \div WriteBlock = n
  BY <1>1, DivisionOfProduct
<1> QED
  BY <1>3, <1>4, <1>5 DEF n, m

\* The address of every block of a region is below the region's end.
LEMMA InRegion ==
  ASSUME NEW count \in Nat, NEW b \in 1..((count * EraseBlock) \div WriteBlock)
  PROVE  /\ (b - 1) * WriteBlock \in Nat
         /\ (b - 1) * WriteBlock < count * EraseBlock
         /\ ((b - 1) * WriteBlock) \div WriteBlock = b - 1
         /\ count * (EraseBlock \div WriteBlock) = (count * EraseBlock) \div WriteBlock
<1> DEFINE n == (count * EraseBlock) \div WriteBlock
<1>1. n \in Nat /\ n * WriteBlock = count * EraseBlock /\ WriteBlock \in Nat \ {0} /\ b \in 1..n
  BY Fits, SizesAssumption
<1> HIDE DEF n
<1>2. (b - 1) \in Nat /\ (b - 1) * WriteBlock \in Nat /\ (b - 1) * WriteBlock < n * WriteBlock
  BY <1>1
<1>3. ((b - 1) * WriteBlock) \div WriteBlock = b - 1
  BY <1>1, <1>2, DivisionOfProduct
<1> QED
  BY <1>1, <1>2, <1>3, UnitsInRegion

BlocksSuit(steps, count, blocks) ==
  count * EraseBlock <= 65536 /\ count * (EraseBlock \div WriteBlock) <= blocks =>
    FillsOwnBlocks(steps, blocks, EraseBlock \div WriteBlock, WriteBlock)

LEMMA ShapeOfBlocks ==
  ASSUME NEW steps, NEW reload, NEW count \in 1..255, NEW i, NEW j \in Jobs, NEW o,
         Laid(steps, reload, count, i, j, o), NEW blocks \in Nat
  PROVE  BlocksSuit(steps, count, blocks)
<1> DEFINE w == WriteCount(j, count)
           last == Len(steps)
           block(k) == AddrOf(steps[k].frame) \div WriteBlock
<1>1. /\ Asked(steps, count, i, j, o) /\ Cast(steps, reload, count, i, j, o)
      /\ At(steps, "Write") = (ErasePlace + 1)..(ErasePlace + w) /\ w \in Nat
      /\ DOMAIN steps = 1..last
  <2>1. Asked(steps, count, i, j, o)
    BY WhatIsAsked
  <2>2. Cast(steps, reload, count, i, j, o)
    BY Roles
  <2>3. At(steps, "Write") = (ErasePlace + 1)..(ErasePlace + w) /\ w \in Nat
    <3>1. PhasesStand(steps, count, j)
      BY Phased
    <3> QED  BY <3>1 DEF PhasesStand
  <2>4. DOMAIN steps = 1..last
    BY DEF Laid
  <2> QED  BY <2>1, <2>2, <2>3, <2>4
<1>0. SUFFICES ASSUME count * EraseBlock <= 65536, count * (EraseBlock \div WriteBlock) <= blocks
               PROVE  FillsOwnBlocks(steps, blocks, EraseBlock \div WriteBlock, WriteBlock)
  BY DEF BlocksSuit
<1>2. ErasePlace \in Nat /\ ErasePlace >= 4 /\ last \in Nat /\ last >= ErasePlace + w
  <2>1. OptionCount(j) \in Nat
    BY DEF OptionCount
  <2> QED  BY <1>1, <2>1, SizesAssumption DEF Asked, ErasePlace
<1>3. ASSUME NEW b \in 1..w
      PROVE  /\ block(ErasePlace + b) = b - 1
             /\ steps[ErasePlace + b].expect = ExpectBlockAck(Checksum(DataOf(steps[ErasePlace + b].frame)))
             /\ b - 1 < count * (EraseBlock \div WriteBlock)
  <2>1. j.kind = "Flash" /\ w = (count * EraseBlock) \div WriteBlock
    BY DEF WriteCount
  <2>2. BlockData(j.image, b) \in Seq(Byte)
    <3>1. j.image \in Seq(Byte)
      BY <2>1, JobsAssumption
    <3> QED  BY <3>1, BlockDataType
  <2>3. /\ (b - 1) * WriteBlock \in Nat /\ (b - 1) * WriteBlock < count * EraseBlock
        /\ ((b - 1) * WriteBlock) \div WriteBlock = b - 1
        /\ w = count * (EraseBlock \div WriteBlock)
    BY <2>1, InRegion
  <2>4. (b - 1) * WriteBlock < 65536
    <3>1. count * EraseBlock \in Nat
      BY SizesAssumption
    <3> QED  BY <1>0, <2>3, <3>1, SMT
  <2>5. /\ steps[ErasePlace + b].frame = WriteFrame((b - 1) * WriteBlock, BlockData(j.image, b))
        /\ steps[ErasePlace + b].expect = ExpectBlockAck(Checksum(BlockData(j.image, b)))
    BY <1>1 DEF Cast, Is
  <2>6. /\ DataOf(steps[ErasePlace + b].frame) = BlockData(j.image, b)
        /\ AddrOf(steps[ErasePlace + b].frame) = (b - 1) * WriteBlock
    BY <2>2, <2>3, <2>4, <2>5, WriteFrameParts
  <2>7. b - 1 < count * (EraseBlock \div WriteBlock)
    <3> HIDE DEF w
    <3> QED  BY <2>3, <1>1
  <2> QED  BY <2>3, <2>5, <2>6, <2>7
<1>4. ASSUME NEW k \in 1..last
      PROVE  /\ steps[k].phase = "Write" <=> k \in (ErasePlace + 1)..(ErasePlace + w)
             /\ steps[k].phase = "Write" <=> Asks(steps, k, CmdWrite)
  <2>1. steps[k].phase = "Write" <=> k \in (ErasePlace + 1)..(ErasePlace + w)
    BY <1>1 DEF At
  <2>2. ASSUME k \in (ErasePlace + 1)..(ErasePlace + w)  PROVE Asks(steps, k, CmdWrite)
    <3>1. k - ErasePlace \in 1..w /\ ErasePlace + (k - ErasePlace) = k
      BY <1>1, <1>2, <2>2
    <3> QED  BY <3>1, <1>1 DEF Asked
  <2>3. ASSUME k \notin (ErasePlace + 1)..(ErasePlace + w)  PROVE ~Asks(steps, k, CmdWrite)
    <3>1. CASE k = 1 \/ k = 2
      BY <3>1, <1>1 DEF Asked, Asks, CmdWrite, CmdBaudProbe, CmdBaudCommit
    <3>2. CASE k \in 3..last
      BY <3>2, <2>3, <1>1 DEF Asked
    <3> QED  BY <3>1, <3>2
  <2> QED  BY <2>1, <2>2, <2>3
<1>5. ASSUME NEW k \in 1..last, Asks(steps, k, CmdErase)  PROVE k = ErasePlace
  <2>1. k # 1 /\ k # 2
    BY <1>1, <1>5 DEF Asked, Asks, CmdErase, CmdBaudProbe, CmdBaudCommit
  <2>2. k \in 3..last
    BY <2>1
  <2> QED  BY <1>1, <1>5, <2>2 DEF Asked
<1>6. ASSUME NEW k \in 1..last, steps[k].phase = "Write"
      PROVE  \E b \in 1..w : k = ErasePlace + b
  <2>1. k - ErasePlace \in 1..w /\ ErasePlace + (k - ErasePlace) = k
    BY <1>1, <1>2, <1>4, <1>6
  <2> QED  BY <2>1
<1>7. Asks(steps, ErasePlace, CmdErase) /\ steps[ErasePlace].frame.payload[1] = count
  BY <1>1 DEF Asked
<1> DEFINE unit == EraseBlock \div WriteBlock
<1>8. unit \in Nat /\ count * unit \in Nat
  BY SizesAssumption, Division
<1> HIDE DEF w, last, block, unit
<1>9. ASSUME NEW k \in 1..last, steps[k].phase = "Write"
      PROVE  /\ block(k) \in 0..(blocks - 1)
             /\ steps[k].expect = ExpectBlockAck(Checksum(DataOf(steps[k].frame)))
             /\ \E e \in 1..(k - 1) : Asks(steps, e, CmdErase) /\ block(k) < steps[e].frame.payload[1] * unit
             /\ \A l \in 1..last :
                  /\ Asks(steps, l, CmdErase) => l < k
                  /\ steps[l].phase = "Write" /\ l # k => block(l) # block(k)
  <2>1. PICK b \in 1..w : k = ErasePlace + b
    BY <1>6, <1>9
  <2>2. /\ block(k) = b - 1 /\ b - 1 < count * unit
        /\ steps[k].expect = ExpectBlockAck(Checksum(DataOf(steps[k].frame)))
    BY <1>3, <2>1 DEF unit
  <2>3. block(k) \in 0..(blocks - 1)
    <3>1. count * unit <= blocks
      BY <1>0 DEF unit
    <3> QED  BY <1>1, <1>8, <2>2, <3>1
  <2>4. ErasePlace \in 1..(k - 1)
    BY <1>1, <1>2, <2>1
  <2>5. ASSUME NEW l \in 1..last, steps[l].phase = "Write", l # k  PROVE block(l) # block(k)
    <3>1. PICK c \in 1..w : l = ErasePlace + c
      BY <1>6, <2>5
    <3>2. block(l) = c - 1
      BY <1>3, <3>1
    <3> QED  BY <1>1, <1>2, <2>1, <2>2, <2>5, <3>1, <3>2
  <2>6. \A l \in 1..last : Asks(steps, l, CmdErase) => l < k
    BY <1>5, <2>4
  <2> QED  BY <1>7, <2>2, <2>3, <2>4, <2>5, <2>6
<1> QED
  BY <1>4, <1>9 DEF FillsOwnBlocks, block, unit, last

-----------------------------------------------------------------------------
(* The arithmetic of a plan: how much is erased, and the timer's reload.   *)

InfoFacts(i) ==
  /\ i.measured_hz \in Nat /\ i.code_flash \in Nat
  /\ i.code_flash # NoCapacity => i.code_flash % EraseGranule = 0

\* A number of granules covers an image with less than a granule to spare, and
\* stays within any whole number of granules that holds the image.
LEMMA Granules ==
  ASSUME NEW len \in Nat, NEW size \in Nat, size % EraseGranule = 0
  PROVE  /\ EraseBlocksFor(len) \in Nat
         /\ len <= EraseBlocksFor(len) * EraseBlock
         /\ EraseBlocksFor(len) * EraseBlock < len + EraseGranule
         /\ len <= size => EraseBlocksFor(len) * EraseBlock <= size
<1> DEFINE g == EraseGranule
           q == (len + g - 1) \div g
           m == size \div g
<1>1. g \in Nat \ {0} /\ g = 2 * EraseBlock /\ EraseBlock \in Nat
  BY SizesAssumption
<1> HIDE DEF g
<1>2. q \in Nat /\ g * q <= len + g - 1 /\ len + g - 1 < g * q + g
  <2>1. len + g - 1 \in Nat
    BY <1>1
  <2> QED  BY <1>1, <2>1, Division
<1>3. m \in Nat /\ size = g * m
  <2>1. size % g = 0
    BY DEF g
  <2> QED  BY <1>1, <2>1, Multiple, Division
<1>4. EraseBlocksFor(len) = 2 * q
  BY DEF EraseBlocksFor, CeilDiv, g
<1> HIDE DEF q, m
<1>5. EraseBlocksFor(len) * EraseBlock = g * q
  BY <1>1, <1>2, <1>4
<1>6. ASSUME len <= size  PROVE g * q <= size
  <2>1. SUFFICES ASSUME q >= m + 1  PROVE FALSE
    BY <1>1, <1>2, <1>3
  <2>2. g * q >= g * (m + 1) /\ g * (m + 1) = g * m + g
    BY <1>1, <1>2, <1>3, <2>1
  <2> QED  BY <1>1, <1>2, <1>3, <1>6, <2>2
<1>7. g * q \in Nat
  BY <1>1, <1>2
<1> QED
  <2>1. EraseBlocksFor(len) \in Nat
    BY <1>2, <1>4
  <2> DEFINE gq == g * q
  <2>2. /\ gq \in Nat /\ gq <= len + g - 1 /\ len + g - 1 < gq + g
        /\ EraseBlocksFor(len) * EraseBlock = gq /\ (len <= size => gq <= size)
    BY <1>2, <1>5, <1>6, <1>7
  <2> HIDE DEF gq
  <2>3. len <= gq /\ gq < len + g
    BY <1>1, <2>2
  <2> QED  BY <2>1, <2>2, <2>3 DEF g

LEMMA WholeChip ==
  ASSUME NEW size \in Nat, size % EraseGranule = 0
  PROVE  (size \div EraseBlock) * EraseBlock = size
<1> DEFINE m == size \div EraseGranule
<1>1. m \in Nat /\ size = EraseGranule * m
  <2>1. EraseGranule \in Nat \ {0}
    BY SizesAssumption
  <2> QED  BY <2>1, Multiple, Division
<1> HIDE DEF m
<1>2. size = (2 * m) * EraseBlock
  BY <1>1, SizesAssumption
<1>3. size \div EraseBlock = 2 * m
  BY <1>1, <1>2, SizesAssumption, DivisionOfProduct
<1> QED
  BY <1>2, <1>3

LEMMA ErasesEnough ==
  ASSUME NEW i, InfoFacts(i), NEW j \in Jobs, EraseCount(i, j).ok
  PROVE  LET erased == EraseCount(i, j).value * EraseBlock
         IN  /\ j.kind = "Flash" =>
                  /\ Len(j.image) <= erased /\ erased < Len(j.image) + EraseGranule
                  /\ i.code_flash # NoCapacity => erased <= i.code_flash
             /\ j.kind = "EraseAll" => erased = i.code_flash
<1>1. ASSUME j.kind = "Flash"
      PROVE  LET erased == EraseCount(i, j).value * EraseBlock
             IN  /\ Len(j.image) <= erased /\ erased < Len(j.image) + EraseGranule
                 /\ i.code_flash # NoCapacity => erased <= i.code_flash
  <2>1. Len(j.image) \in Nat
    BY <1>1, JobsAssumption
  <2>2. /\ EraseCount(i, j).value = EraseBlocksFor(Len(j.image))
        /\ i.code_flash # NoCapacity => ~(Len(j.image) > i.code_flash)
    BY <1>1 DEF EraseCount, Ok, Error
  <2>3. 0 % EraseGranule = 0
    BY SizesAssumption
  <2>4. /\ Len(j.image) <= EraseBlocksFor(Len(j.image)) * EraseBlock
        /\ EraseBlocksFor(Len(j.image)) * EraseBlock < Len(j.image) + EraseGranule
    BY <2>1, <2>3, Granules
  <2>5. ASSUME i.code_flash # NoCapacity
        PROVE  EraseBlocksFor(Len(j.image)) * EraseBlock <= i.code_flash
    <3>1. i.code_flash \in Nat /\ i.code_flash % EraseGranule = 0 /\ Len(j.image) <= i.code_flash
      BY <2>1, <2>2, <2>5 DEF InfoFacts
    <3> QED  BY <2>1, <3>1, Granules
  <2> QED  BY <2>2, <2>4, <2>5
<1>2. ASSUME j.kind = "EraseAll"
      PROVE  EraseCount(i, j).value * EraseBlock = i.code_flash
  <2>1. i.code_flash # NoCapacity /\ EraseCount(i, j).value = i.code_flash \div EraseBlock
    BY <1>2 DEF EraseCount, Ok, Error
  <2> QED  BY <2>1, WholeChip DEF InfoFacts
<1> QED
  BY <1>1, <1>2

\* The reload is 256 less the number of ticks nearest to the rate.
LEMMA NearestTicks ==
  ASSUME NEW hz \in Nat, NEW baud \in Nat, TimerReload(hz, baud).ok
  PROVE  LET ticks  == 256 - TimerReload(hz, baud).value
             denom  == baud * 32
             gap(n) == IF hz > n * denom THEN hz - n * denom ELSE n * denom - hz
         IN  /\ ticks \in 1..255
             /\ gap(ticks) <= gap(ticks - 1) /\ gap(ticks) <= gap(ticks + 1)
<1> DEFINE denom == baud * 32
           n     == (hz + denom \div 2) \div denom
<1>1. baud # 0 /\ 256 - n \in 1..255 /\ TimerReload(hz, baud).value = 256 - n
  BY DEF TimerReload, Ok, Error
<1>2. denom \in Nat \ {0} /\ denom \div 2 = baud * 16 /\ denom = 2 * (baud * 16)
  BY <1>1
<1>3. n \in Nat /\ denom * n <= hz + baud * 16 /\ hz + baud * 16 < denom * n + denom
  <2>1. hz + denom \div 2 \in Nat
    BY <1>2
  <2> QED  BY <1>2, <2>1, Division
<1> HIDE DEF denom, n
<1> DEFINE p == n * denom   h == baud * 16
<1>4. p \in Nat /\ h \in Nat /\ (n - 1) * denom = p - denom /\ (n + 1) * denom = p + denom /\ p = denom * n
  BY <1>2, <1>3
<1>5. p <= hz + h /\ hz + h < p + denom /\ denom = 2 * h
  BY <1>2, <1>3, <1>4
<1> DEFINE gap(k) == IF hz > k * denom THEN hz - k * denom ELSE k * denom - hz
<1>6. /\ gap(n) = (IF hz > p THEN hz - p ELSE p - hz)
      /\ gap(n - 1) = (IF hz > p - denom THEN hz - (p - denom) ELSE p - denom - hz)
      /\ gap(n + 1) = (IF hz > p + denom THEN hz - (p + denom) ELSE (p + denom) - hz)
  <2>1. gap(n) = (IF hz > p THEN hz - p ELSE p - hz)
    OBVIOUS
  <2>2. gap(n - 1) = (IF hz > p - denom THEN hz - (p - denom) ELSE p - denom - hz)
    <3> DEFINE l == (n - 1) * denom
    <3>1. l = p - denom
      BY <1>4
    <3>2. gap(n - 1) = (IF hz > l THEN hz - l ELSE l - hz)
      OBVIOUS
    <3> HIDE DEF p, l, gap
    <3> QED  BY <3>1, <3>2
  <2>3. gap(n + 1) = (IF hz > p + denom THEN hz - (p + denom) ELSE (p + denom) - hz)
    <3> DEFINE r == (n + 1) * denom
    <3>1. r = p + denom
      BY <1>4
    <3>2. gap(n + 1) = (IF hz > r THEN hz - r ELSE r - hz)
      OBVIOUS
    <3> HIDE DEF p, r, gap
    <3> QED  BY <3>1, <3>2
  <2> QED  BY <2>1, <2>2, <2>3
<1> HIDE DEF p, h, gap
<1>7. gap(n) <= gap(n - 1) /\ gap(n) <= gap(n + 1)
  BY <1>2, <1>4, <1>5, <1>6
<1>8. 256 - TimerReload(hz, baud).value = n /\ n \in 1..255
  BY <1>1, <1>3
<1> DEFINE t == 256 - TimerReload(hz, baud).value
<1>9. t \in 1..255 /\ gap(t) <= gap(t - 1) /\ gap(t) <= gap(t + 1)
  <2>1. t = n /\ n \in 1..255
    BY <1>8
  <2> HIDE DEF t
  <2> QED  BY <1>7, <2>1
<1> QED
  BY <1>9 DEF gap, denom

\* A rate that no reload reaches is too slow or too fast for the timer.
LEMMA OutOfReach ==
  ASSUME NEW hz \in Nat, NEW baud \in Nat, ~TimerReload(hz, baud).ok
  PROVE  \/ baud = 0
         \/ 2 * hz < baud * 32
         \/ 2 * hz >= 511 * (baud * 32)
<1> DEFINE denom == baud * 32
           n     == (hz + denom \div 2) \div denom
<1>1. SUFFICES ASSUME baud # 0, 2 * hz >= denom, 2 * hz < 511 * denom  PROVE FALSE
  OBVIOUS
<1>2. 256 - n \notin 1..255
  BY <1>1 DEF TimerReload, Ok, Error
<1>3. denom \in Nat \ {0} /\ denom \div 2 = baud * 16 /\ denom = 2 * (baud * 16)
  BY <1>1
<1>4. n \in Nat /\ denom * n <= hz + baud * 16 /\ hz + baud * 16 < denom * n + denom
  <2>1. hz + denom \div 2 \in Nat
    BY <1>3
  <2> QED  BY <1>3, <2>1, Division
<1> HIDE DEF denom, n
<1>5. n = 0 \/ n >= 256
  BY <1>2, <1>4
<1>6. ASSUME n = 0  PROVE FALSE
  <2>1. denom * n = 0
    BY <1>6, <1>3
  <2> QED  BY <1>1, <1>3, <1>4, <2>1
<1>7. ASSUME n >= 256  PROVE FALSE
  <2>1. denom * n >= 256 * denom
    BY <1>3, <1>4, <1>7
  <2>2. denom * n \in Nat
    BY <1>3, <1>4
  <2> QED  BY <1>1, <1>3, <1>4, <2>1, <2>2
<1> QED
  BY <1>5, <1>6, <1>7

-----------------------------------------------------------------------------
(* The planner.  Between Identify and MakePlan the only thing to remember  *)
(* is where the information came from.                                     *)

FromStatus == InfoFacts(info) /\ info.option_bytes = <<status.payload[OffOption + 1]>>

PlannerInv ==
  /\ job \in Jobs /\ opts \in Options
  /\ pc \in {"waiting", "identified", "planned", "refused"}
  /\ pc = "waiting" => info = NoInfo
  /\ pc = "identified" => FromStatus
  /\ pc = "planned" => FromStatus /\ plan = Plan(info, job, opts) /\ plan.ok
  /\ pc = "refused" => \/ info = NoInfo
                       \/ FromStatus /\ plan = Plan(info, job, opts) /\ ~plan.ok

LEMMA Parsed ==
  ASSUME NEW f, NEW baud, ParseStatus(f, baud).ok
  PROVE  LET i == ParseStatus(f, baud).value
         IN  InfoFacts(i) /\ i.option_bytes = <<f.payload[OffOption + 1]>>
<1> DEFINE p       == f.payload
           hz      == FrequencyHz(FreqWord(p, 1), baud)
           chip_id == SubSeq(p, OffChipId + 1, OffChipId + ChipIdLen)
           flash   == IF chip_id \in DOMAIN KnownChips THEN KnownChips[chip_id] ELSE NoCapacity
<1>1. /\ hz \in FreqMinHz..FreqMaxHz
      /\ ParseStatus(f, baud).value =
           [chip_id |-> chip_id, code_flash |-> flash, measured_hz |-> hz,
            option_bytes |-> <<p[OffOption + 1]>>]
  BY SMT DEF ParseStatus, TargetInfo, Ok, Error
<1>2. hz \in Nat
  <2>1. hz \in FreqMinHz..FreqMaxHz
    BY <1>1
  <2>2. FreqMinHz \in Nat /\ FreqMaxHz \in Nat
    BY SMT DEF FreqMinHz, FreqMaxHz
  <2> HIDE DEF hz
  <2> QED  BY <2>1, <2>2
<1> HIDE DEF hz
<1>3. flash \in Nat /\ (flash # NoCapacity => flash % EraseGranule = 0)
  BY KnownChipsAssumption DEF NoCapacity
<1> HIDE DEF flash, chip_id, p
<1> QED
  BY <1>1, <1>2, <1>3 DEF InfoFacts, p

LEMMA PlannerInvariant == Spec => []PlannerInv
<1>1. Init => PlannerInv
  BY DEF Init, PlannerInv
<1>2. PlannerInv /\ [Next]_vars => PlannerInv'
  <2> SUFFICES ASSUME PlannerInv, [Next]_vars  PROVE PlannerInv'
    OBVIOUS
  <2>1. CASE PassOver
    BY <2>1 DEF PlannerInv, PassOver
  <2>2. CASE Identify
    <3> DEFINE parsed == ParseStatus(status, opts.handshake_baud)
    <3>1. CASE parsed.ok
      <4>1. InfoFacts(parsed.value) /\ parsed.value.option_bytes = <<status.payload[OffOption + 1]>>
        BY <3>1, Parsed
      <4>2. /\ pc = "waiting" /\ pc' = "identified" /\ info' = parsed.value
            /\ UNCHANGED <<status, job, opts>>
        BY <2>2, <3>1 DEF Identify
      <4> HIDE DEF parsed
      <4>3. FromStatus'
        BY <4>1, <4>2 DEF FromStatus, InfoFacts
      <4> QED  BY <4>2, <4>3 DEF PlannerInv
    <3>2. CASE ~parsed.ok
      <4>1. pc = "waiting" /\ pc' = "refused" /\ UNCHANGED <<info, status, job, opts>>
        BY <2>2, <3>2 DEF Identify
      <4> QED  BY <4>1 DEF PlannerInv
    <3> QED  BY <3>1, <3>2
  <2>3. CASE MakePlan
    <3>1. /\ pc = "identified" /\ plan' = Plan(info, job, opts)
          /\ pc' = (IF plan'.ok THEN "planned" ELSE "refused") /\ UNCHANGED <<status, job, opts, info>>
      BY <2>3 DEF MakePlan
    <3>2. Plan(info, job, opts)' = Plan(info, job, opts)
      BY <3>1
    <3>3. FromStatus /\ FromStatus'
      BY <3>1 DEF PlannerInv, FromStatus, InfoFacts
    <3>4. job' \in Jobs /\ opts' \in Options
      BY <3>1 DEF PlannerInv
    <3> QED  BY <3>1, <3>2, <3>3, <3>4 DEF PlannerInv
  <2>4. CASE UNCHANGED vars
    BY <2>4 DEF PlannerInv, vars, FromStatus, InfoFacts
  <2> QED  BY <2>1, <2>2, <2>3, <2>4 DEF Next
<1> QED
  BY <1>1, <1>2, PTL DEF Spec

\* A plan in hand, of a job that talks to the flash.
LEMMA InHand ==
  ASSUME PlannerInv, Planned, job.kind # "Identify"
  PROVE  \E reload, count :
           /\ TimerReload(info.measured_hz, opts.transfer_baud).ok
           /\ TimerReload(info.measured_hz, opts.transfer_baud).value = reload
           /\ EraseCount(info, job).ok /\ EraseCount(info, job).value = count
           /\ count \in 1..255
           /\ Laid(plan.value, reload, count, info, job, opts)
<1>1. job \in Jobs /\ plan = Plan(info, job, opts) /\ Plan(info, job, opts).ok
  BY DEF PlannerInv, Planned
<1> QED
  BY <1>1, Layout

LEMMA IdentifyInHand ==
  ASSUME PlannerInv, Planned, job.kind = "Identify"
  PROVE  plan.value = <<RunStep(opts)>>
  BY DEF PlannerInv, Planned, Plan, Ok

LEMMA IndexIsAt ==
  ASSUME NEW phase
  PROVE  Index(phase) = At(plan.value, phase)
  BY DEF Index, At, Steps

\* Every plan that programs sends the image in order and without a gap, padded to
\* exactly what its erase step erases, each block checked against its own sum: the
\* loop over the write blocks in stc89.rs 410-437, for all sizes and images.
THEOREM WritesFill == Spec => []WritesFillTheErasedRegion
<1>1. PlannerInv => WritesFillTheErasedRegion
  <2> SUFFICES ASSUME PlannerInv, Planned, job.kind = "Flash"
               PROVE  WritesFillTheErasedRegion
    BY DEF WritesFillTheErasedRegion
  <2>1. PICK reload, count :
          count \in 1..255 /\ Laid(plan.value, reload, count, info, job, opts)
    BY InHand
  <2> DEFINE w == (count * EraseBlock) \div WriteBlock
             image == job.image
             byte(a) == IF a < Len(job.image) THEN job.image[a + 1] ELSE 255
  <2>2. job \in Jobs /\ image \in Seq(Byte) /\ WriteCount(job, count) = w
    BY JobsAssumption DEF PlannerInv, WriteCount
  <2>3. Cast(plan.value, reload, count, info, job, opts)
    BY <2>1, <2>2, Roles
  <2>4. PhasesStand(plan.value, count, job)
    BY <2>1, <2>2, Phased
  <2>5. Index("Erase") = {ErasePlace} /\ Index("Write") = (ErasePlace + 1)..(ErasePlace + w)
    BY <2>2, <2>4, IndexIsAt DEF PhasesStand
  <2>6. ErasedBytes(ErasePlace) = count * EraseBlock
    <3>1. plan.value[ErasePlace].frame = EraseFrame(count)
      BY <2>3 DEF Cast, Is
    <3> QED  BY <3>1, EraseFrameParts DEF ErasedBytes, Steps
  <2>7. w \in Nat /\ w * WriteBlock = count * EraseBlock
    BY <2>1, Fits
  <2>8. ASSUME NEW k \in 1..w
        PROVE  LET write == Steps[ErasePlace + k]
                   addr  == (k - 1) * WriteBlock
                   data  == DataOf(write.frame)
               IN  /\ SubSeq(write.frame.payload, 1, 4) = U32Bytes(addr)
                   /\ write.write_addr = addr
                   /\ data = [b \in 1..WriteBlock |-> byte(addr + b - 1)]
                   /\ write.expect = ExpectBlockAck(Checksum(data))
    <3> DEFINE write == Steps[ErasePlace + k]   addr == (k - 1) * WriteBlock
    <3>1. /\ write.frame = WriteFrame(addr, BlockData(image, k)) /\ write.write_addr = addr
          /\ write.expect = ExpectBlockAck(Checksum(BlockData(image, k)))
      BY <2>2, <2>3 DEF Cast, Is, Steps
    <3>2. addr \in Nat
      BY <2>7, SizesAssumption
    <3>3. BlockData(image, k) \in Seq(Byte)
      BY <2>2, <2>7, BlockDataType
    <3>4. BlockData(image, k) = [b \in 1..WriteBlock |-> byte(addr + b - 1)]
      BY DEF BlockData, PaddedByte
    <3> HIDE DEF write, addr, byte
    <3>5. /\ SubSeq(write.frame.payload, 1, 4) = U32Bytes(addr)
          /\ DataOf(write.frame) = BlockData(image, k)
      BY <3>1, <3>2, <3>3, WriteFrameParts
    <3> QED  BY <3>1, <3>4, <3>5 DEF write, addr
  <2> HIDE DEF w, byte
  <2> QED
    BY <2>5, <2>6, <2>7, <2>8 DEF WritesFillTheErasedRegion, w, byte
<1> QED
  BY <1>1, PlannerInvariant, PTL

\* No plan erases less than the image, a granule more, or beyond the chip, and an
\* erase of everything erases just that (stc89.rs 167-170 and 369-403).
THEOREM ErasesEnoughAndNoMore == Spec => []ErasesWhatTheJobNeeds
<1>1. PlannerInv => ErasesWhatTheJobNeeds
  <2> SUFFICES ASSUME PlannerInv, Planned, NEW e \in Index("Erase")
               PROVE  /\ job.kind = "Flash" =>
                           /\ Len(job.image) <= ErasedBytes(e)
                           /\ ErasedBytes(e) < Len(job.image) + EraseGranule
                           /\ info.code_flash # NoCapacity => ErasedBytes(e) <= info.code_flash
                      /\ job.kind = "EraseAll" => ErasedBytes(e) = info.code_flash
    BY DEF ErasesWhatTheJobNeeds
  <2>1. CASE job.kind = "Identify"
    BY <2>1
  <2>2. CASE job.kind # "Identify"
    <3>1. PICK reload, count :
            /\ EraseCount(info, job).ok /\ EraseCount(info, job).value = count
            /\ count \in 1..255 /\ Laid(plan.value, reload, count, info, job, opts)
      BY <2>2, InHand
    <3>2. job \in Jobs /\ InfoFacts(info)
      BY DEF PlannerInv, Planned, FromStatus
    <3>3. e = ErasePlace
      <4>1. PhasesStand(plan.value, count, job)
        BY <3>1, <3>2, Phased
      <4>2. Index("Erase") = {ErasePlace}
        BY <4>1, IndexIsAt DEF PhasesStand
      <4> QED  BY <4>2
    <3>4. ErasedBytes(e) = EraseCount(info, job).value * EraseBlock
      <4>1. Cast(plan.value, reload, count, info, job, opts)
        BY <3>1, <3>2, Roles
      <4>2. plan.value[ErasePlace].frame = EraseFrame(count)
        BY <4>1 DEF Cast, Is
      <4> QED  BY <3>1, <3>3, <4>2, EraseFrameParts DEF ErasedBytes, Steps
    <3> QED  BY <3>1, <3>2, <3>4, ErasesEnough
  <2> QED  BY <2>1, <2>2
<1> QED
  BY <1>1, PlannerInvariant, PTL

\* The option byte of a plan is the one this chip reported, sent after the last
\* block and only if the job asks for it (stc89.rs 439-452).
THEOREM OptionsEchoed == Spec => []OptionsAreOnlyEchoed
<1>1. PlannerInv => OptionsAreOnlyEchoed
  <2> SUFFICES ASSUME PlannerInv, Planned  PROVE OptionsAreOnlyEchoed
    BY DEF OptionsAreOnlyEchoed
  <2>1. CASE job.kind = "Identify"
    <3>1. \A k \in DOMAIN Steps : Steps[k].phase = "Run"
      BY <2>1, IdentifyInHand DEF Steps, RunStep, PlainStep
    <3>2. Index("Options") = {}
      BY <3>1 DEF Index
    <3> QED  BY <2>1, <3>2 DEF OptionsAreOnlyEchoed
  <2>2. CASE job.kind # "Identify"
    <3>1. PICK reload, count : count \in 1..255 /\ Laid(plan.value, reload, count, info, job, opts)
      BY <2>2, InHand
    <3> DEFINE w == WriteCount(job, count)   n == OptionCount(job)
    <3>2. job \in Jobs /\ FromStatus
      BY DEF PlannerInv, Planned
    <3>3. Cast(plan.value, reload, count, info, job, opts) /\ PhasesStand(plan.value, count, job)
      BY <3>1, <3>2, Roles, Phased
    <3>4. /\ Index("Options") = (ErasePlace + w + 1)..(ErasePlace + w + n)
          /\ Index("Write") = (ErasePlace + 1)..(ErasePlace + w) /\ w \in Nat /\ n \in 0..1
      BY <3>3, IndexIsAt DEF PhasesStand
    <3>5. n = 1 <=> job.kind = "Flash" /\ job.write_options
      BY DEF OptionCount
    <3>6. n = 1 => Steps[ErasePlace + w + 1].frame.payload[1] = status.payload[OffOption + 1]
      <4>1. SUFFICES ASSUME n = 1
                     PROVE  Steps[ErasePlace + w + 1].frame.payload[1] = status.payload[OffOption + 1]
        OBVIOUS
      <4>2. Steps[ErasePlace + w + 1].frame = OptionsFrame(info)
        BY <3>3, <4>1 DEF Cast, Is, Steps
      <4>3. OptionsFrame(info).payload = <<status.payload[OffOption + 1]>> \o OptionsTail
        BY <3>2 DEF OptionsFrame, HostFrame, FromStatus
      <4> DEFINE b == status.payload[OffOption + 1]
      <4>4. (<<b>> \o OptionsTail)[1] = b
        <5> HIDE DEF b
        <5> QED  BY DEF OptionsTail
      <4> QED  BY <4>2, <4>3, <4>4
    <3>7. ErasePlace \in Nat
      BY SizesAssumption DEF ErasePlace
    <3> HIDE DEF w, n
    <3>8. ASSUME NEW k \in Index("Options")
          PROVE  n = 1 /\ k = ErasePlace + w + 1 /\ \A l \in Index("Write") : l < k
      BY <3>4, <3>7, <3>8
    <3>9. n = 1 => Index("Options") # {}
      <4>1. n = 1 => ErasePlace + w + 1 \in Index("Options")
        BY <3>4, <3>7
      <4> QED  BY <4>1
    <3> QED  BY <3>5, <3>6, <3>8, <3>9 DEF OptionsAreOnlyEchoed
  <2> QED  BY <2>1, <2>2
<1> QED
  BY <1>1, PlannerInvariant, PTL

\* Every plan ends by releasing the chip, waits for an answer to everything else,
\* and erases once, after all the link tests (session.rs 52-54, stc89.rs 351-408).
THEOREM EndsWithRun == Spec => []EndsWithRunAndErasesLate
<1>1. PlannerInv => EndsWithRunAndErasesLate
  <2> SUFFICES ASSUME PlannerInv, Planned  PROVE EndsWithRunAndErasesLate
    BY DEF EndsWithRunAndErasesLate
  <2>1. CASE job.kind = "Identify"
    <3>1. Len(Steps) = 1 /\ DOMAIN Steps = {1} /\ Steps[1].phase = "Run" /\ Steps[1].expect = ExpectNothing
      BY <2>1, IdentifyInHand DEF Steps, RunStep, PlainStep
    <3>2. Index("Erase") = {} /\ Index("Run") = {1}
      BY <3>1 DEF Index
    <3>3. {k \in DOMAIN Steps : Steps[k].expect = ExpectNothing} = {1}
      BY <3>1
    <3>4. Cardinality({}) = 0
      BY FS_EmptySet
    <3> QED  BY <2>1, <3>1, <3>2, <3>3, <3>4 DEF EndsWithRunAndErasesLate
  <2>2. CASE job.kind # "Identify"
    <3>1. PICK reload, count : count \in 1..255 /\ Laid(plan.value, reload, count, info, job, opts)
      BY <2>2, InHand
    <3> DEFINE w == WriteCount(job, count)   n == OptionCount(job)   last == ErasePlace + w + n + 1
    <3>2. job \in Jobs
      BY DEF PlannerInv
    <3>3. PhasesStand(plan.value, count, job) /\ Asked(plan.value, count, info, job, opts)
          /\ Cast(plan.value, reload, count, info, job, opts)
      BY <3>1, <3>2, Phased, WhatIsAsked, Roles
    <3>4. /\ Index("Run") = {last} /\ Index("Erase") = {ErasePlace}
          /\ Index("LinkTest") = 3..(ErasePlace - 1) /\ w \in Nat /\ n \in 0..1
      BY <3>3, IndexIsAt DEF PhasesStand
    <3>5. /\ DOMAIN Steps = 1..last /\ Len(Steps) = last
          /\ \A k \in 1..2 : ExpectsReply(Steps[k])
          /\ \A k \in 3..last : k # last => ExpectsReply(Steps[k])
          /\ Steps[last].expect = ExpectNothing
      BY <3>3 DEF Asked, Cast, Is, Steps
    <3>6. ErasePlace = 3 + LinkTestRepeats /\ LinkTestRepeats \in Nat
      BY SizesAssumption DEF ErasePlace
    <3> HIDE DEF w, n, last
    <3>7. last \in Nat /\ last >= 4
      BY <3>4, <3>6 DEF last
    <3>8. {k \in DOMAIN Steps : Steps[k].expect = ExpectNothing} = {last}
      <4>1. \A k \in DOMAIN Steps : k # last => Steps[k].expect # ExpectNothing
        BY <3>5, <3>7 DEF ExpectsReply, ExpectNothing
      <4>2. last \in DOMAIN Steps
        BY <3>5, <3>7
      <4> QED  BY <3>5, <4>1, <4>2
    <3>9. Cardinality({k \in Index("LinkTest") : k < ErasePlace}) = LinkTestRepeats
      <4>1. {k \in Index("LinkTest") : k < ErasePlace} = 3..(ErasePlace - 1)
        BY <3>4, <3>6
      <4>2. Cardinality(3..(ErasePlace - 1)) = IF 3 > ErasePlace - 1 THEN 0 ELSE (ErasePlace - 1) - 3 + 1
        BY <3>6, FS_Interval
      <4>3. (IF 3 > ErasePlace - 1 THEN 0 ELSE (ErasePlace - 1) - 3 + 1) = LinkTestRepeats
        BY <3>6
      <4> QED  BY <4>1, <4>2, <4>3
    <3>10. Cardinality({ErasePlace}) = 1
      BY FS_Singleton
    <3> QED  BY <2>2, <3>4, <3>5, <3>8, <3>9, <3>10 DEF EndsWithRunAndErasesLate
  <2> QED  BY <2>1, <2>2
<1> QED
  BY <1>1, PlannerInvariant, PTL

FieldHolds(reload, v) ==
  /\ ReloadField(reload)[1] * 256 + ReloadField(reload)[2] = v
  /\ ReloadField(reload) = <<ReloadField(reload)[1], ReloadField(reload)[2]>>

LEMMA FieldOfReload ==
  ASSUME NEW reload \in 1..255
  PROVE  FieldHolds(reload, 65536 - (256 - reload))
<1> DEFINE v == 65536 - (256 - reload)
<1>1. v \in Nat
  BY SMT
<1>2. ReloadField(reload) = <<v \div 256, v % 256>>
  BY SMT DEF ReloadField
<1> HIDE DEF v
<1>3. (v \div 256) * 256 + (v % 256) = v
  BY <1>1, SMT
<1> DEFINE h == v \div 256   l == v % 256
<1> HIDE DEF h, l
<1>4. ReloadField(reload) = <<h, l>> /\ h * 256 + l = v
  BY <1>2, <1>3 DEF h, l
<1>5. ReloadField(reload)[1] = h /\ ReloadField(reload)[2] = l
  BY <1>4
<1> QED
  BY <1>4, <1>5, SMT DEF v, FieldHolds

\* The reload of every plan is the nearest an 8-bit timer has to the rate, and both
\* baud frames carry it (stc89.rs 145-185).
THEOREM NearestReload == Spec => []ReloadIsTheNearest
<1>1. PlannerInv => ReloadIsTheNearest
  <2> SUFFICES ASSUME PlannerInv, Planned, job.kind # "Identify"
               PROVE  ReloadIsTheNearest
    BY DEF ReloadIsTheNearest
  <2>1. PICK reload, count :
          /\ TimerReload(info.measured_hz, opts.transfer_baud).ok
          /\ TimerReload(info.measured_hz, opts.transfer_baud).value = reload
          /\ count \in 1..255 /\ Laid(plan.value, reload, count, info, job, opts)
    BY InHand
  <2>2. job \in Jobs /\ info.measured_hz \in Nat /\ opts.transfer_baud \in Nat
    BY OptionsAssumption DEF PlannerInv, Planned, FromStatus, InfoFacts
  <2>3. Index("BaudProbe") = {1} /\ Index("BaudCommit") = {2}
    <3>1. PhasesStand(plan.value, count, job)
      BY <2>1, <2>2, Phased
    <3> QED  BY <3>1, IndexIsAt DEF PhasesStand
  <2> DEFINE ticks == 256 - reload
  <2>4. ticks \in 1..255 /\ MissesBy(ticks) <= MissesBy(ticks - 1) /\ MissesBy(ticks) <= MissesBy(ticks + 1)
    <3> DEFINE hz == info.measured_hz   baud == opts.transfer_baud
               t == 256 - TimerReload(hz, baud).value
               gap(n) == IF hz > n * (baud * 32) THEN hz - n * (baud * 32) ELSE n * (baud * 32) - hz
    <3>1. t \in 1..255 /\ gap(t) <= gap(t - 1) /\ gap(t) <= gap(t + 1)
      <4> HIDE DEF hz, baud
      <4>1. hz \in Nat /\ baud \in Nat /\ TimerReload(hz, baud).ok
        BY <2>1, <2>2 DEF hz, baud
      <4> QED  BY <4>1, NearestTicks
    <3>2. \A n : MissesBy(n) = gap(n)
      BY DEF MissesBy
    <3>3. t = ticks
      BY <2>1
    <3> HIDE DEF t, gap, ticks
    <3> QED  BY <3>1, <3>2, <3>3
  <2>5. reload \in 1..255
    <3>1. reload \in Int
      BY <2>1, <2>2 DEF TimerReload, Ok, Error
    <3> QED  BY <2>4, <3>1
  <2>6. /\ ReloadField(reload)[1] * 256 + ReloadField(reload)[2] = 65536 - ticks
        /\ ReloadField(reload) = <<ReloadField(reload)[1], ReloadField(reload)[2]>>
    <3>1. FieldHolds(reload, 65536 - (256 - reload))
      BY <2>5, FieldOfReload
    <3>2. FieldHolds(reload, 65536 - ticks)
      BY <3>1
    <3> HIDE DEF ticks
    <3> QED  BY <3>2 DEF FieldHolds
  <2> HIDE DEF ticks
  <2>7. ASSUME NEW k \in {1, 2}  PROVE CarriedReload(k) = 65536 - ticks
    <3> DEFINE f == ReloadField(reload)   p == plan.value[k].frame.payload
    <3>1. p = f \o BaudConsts \o <<BaudProbeTail>> \/ p = f \o BaudConsts
      <4>1. Cast(plan.value, reload, count, info, job, opts)
        BY <2>1, <2>2, Roles
      <4>2. plan.value[1].frame = BaudProbeFrame(reload) /\ plan.value[2].frame = BaudCommitFrame(reload)
        BY <4>1 DEF Cast, Is
      <4>3. BaudProbeFrame(reload).payload = f \o BaudConsts \o <<BaudProbeTail>>
        BY Zenon DEF BaudProbeFrame, HostFrame
      <4>4. BaudCommitFrame(reload).payload = f \o BaudConsts
        BY Zenon DEF BaudCommitFrame, HostFrame
      <4>5. k = 1 \/ k = 2
        OBVIOUS
      <4> HIDE DEF f
      <4> QED  BY <4>2, <4>3, <4>4, <4>5, Zenon
    <3>2. p[1] = f[1] /\ p[2] = f[2]
      <4> HIDE DEF f, p
      <4>1. f = <<f[1], f[2]>>
        BY <2>6 DEF f
      <4> DEFINE g == f[1]   h == f[2]
      <4> HIDE DEF g, h
      <4>2. f = <<g, h>>
        BY <4>1 DEF g, h
      <4>3. p = <<g, h>> \o BaudConsts \o <<BaudProbeTail>> \/ p = <<g, h>> \o BaudConsts
        BY <3>1, <4>2
      <4>4. p[1] = g /\ p[2] = h
        BY <4>3 DEF BaudConsts
      <4> QED  BY <4>4 DEF g, h
    <3>3. CarriedReload(k) = p[1] * 256 + p[2]
      BY DEF CarriedReload, BigEndian, Steps
    <3> HIDE DEF p
    <3> QED  BY <2>6, <3>2, <3>3
  <2>8. \A n \in {ticks - 1, ticks + 1} : MissesBy(ticks) <= MissesBy(n)
    BY <2>4
  <2>9. \A k \in Index("BaudProbe") \cup Index("BaudCommit") : CarriedReload(k) = 65536 - ticks
    BY <2>3, <2>7
  <2> QED
    BY <2>3, <2>4, <2>8, <2>9 DEF ReloadIsTheNearest
<1> QED
  BY <1>1, PlannerInvariant, PTL

LEMMA MinOfTwo ==
  ASSUME NEW a \in Nat, NEW b \in Nat
  PROVE  Min({a, b}) = IF a <= b THEN a ELSE b
<1> DEFINE m == IF a <= b THEN a ELSE b
<1>1. m \in {a, b} /\ \A y \in {a, b} : m <= y
  OBVIOUS
<1>2. \A x \in {a, b} : (\A y \in {a, b} : x <= y) => x = m
  OBVIOUS
<1> QED
  BY <1>1, <1>2 DEF Min

\* A job that is refused does not fit: the image is empty or larger than the chip or
\* the 254 blocks an even byte can count, or the timer cannot reach the rate.
THEOREM PlansWhatFits == Spec => []PlansEveryJobThatFits
<1>1. PlannerInv => PlansEveryJobThatFits
  <2> DEFINE len == Len(job.image)   size == info.code_flash
             denom == opts.transfer_baud * 32
             limit == IF size = NoCapacity THEN 254 * EraseBlock ELSE Min({size, 254 * EraseBlock})
  <2> SUFFICES ASSUME PlannerInv, pc = "refused", info # NoInfo, job.kind = "Flash",
                      job.image # <<>>, ~(len > limit), opts.transfer_baud # 0,
                      ~(2 * info.measured_hz < denom), ~(2 * info.measured_hz >= 511 * denom)
               PROVE  FALSE
    BY DEF PlansEveryJobThatFits
  <2>1. /\ job \in Jobs /\ InfoFacts(info) /\ ~Plan(info, job, opts).ok
        /\ job.image \in Seq(Byte) /\ opts.transfer_baud \in Nat
    BY JobsAssumption, OptionsAssumption DEF PlannerInv, FromStatus
  <2>2. TimerReload(info.measured_hz, opts.transfer_baud).ok
    BY <2>1, OutOfReach DEF InfoFacts
  <2>3. len \in Nat \ {0} /\ size \in Nat /\ EraseBlock \in Nat \ {0} /\ 254 * EraseBlock \in Nat
    BY <2>1, SizesAssumption DEF InfoFacts
  <2>4. len <= 254 * EraseBlock /\ (size # NoCapacity => len <= size)
    <3>1. CASE size = NoCapacity
      BY <2>3, <3>1
    <3>2. CASE size # NoCapacity
      <4>1. limit = IF size <= 254 * EraseBlock THEN size ELSE 254 * EraseBlock
        BY <2>3, <3>2, MinOfTwo
      <4> HIDE DEF limit
      <4> QED  BY <2>3, <4>1
    <3> QED  BY <3>1, <3>2
  <2>5. EraseCount(info, job) = Ok(EraseBlocksFor(len))
    <3>1. ~(info.code_flash # NoCapacity /\ len > info.code_flash)
      BY <2>3, <2>4
    <3> QED  BY <3>1 DEF EraseCount
  <2>6. EraseBlocksFor(len) \in 1..255
    <3> DEFINE c == EraseBlocksFor(len)
    <3>1. (254 * EraseBlock) % EraseGranule = 0
      <4>1. 254 * EraseBlock = 127 * EraseGranule /\ EraseGranule \in Nat \ {0}
        BY SizesAssumption
      <4> QED  BY <4>1
    <3>2. /\ c \in Nat /\ len <= c * EraseBlock /\ c * EraseBlock <= 254 * EraseBlock
      BY <2>3, <2>4, <3>1, Granules
    <3> HIDE DEF c, len
    <3>3. c # 0
      BY <2>3, <3>2
    <3>4. c <= 254
      BY <2>3, <3>2
    <3>5. c \in 1..255
      BY <3>2, <3>3, <3>4
    <3> QED  BY <3>5 DEF c, len
  <2> QED
    BY <2>1, <2>2, <2>5, <2>6 DEF Plan, Ok
<1> QED
  BY <1>1, PlannerInvariant, PTL

-----------------------------------------------------------------------------
(* The rates.                                                              *)

LEMMA MaxIs ==
  ASSUME NEW S \in SUBSET Nat, NEW m \in S, \A x \in S : x <= m
  PROVE  Max(S) = m
<1>1. m \in Nat /\ \A y \in S : m >= y
  OBVIOUS
<1>2. \A x \in S : (\A y \in S : x >= y) => x = m
  BY <1>1
<1> QED
  BY <1>1, <1>2 DEF Max

\* Only the first two steps of a plan change the host's rate, so it follows the chip
\* step by step (stc89.rs 319-350).
THEOREM RatesFollow == Spec => []RatesFollowTheChip
<1>1. PlannerInv => RatesFollowTheChip
  <2> SUFFICES ASSUME PlannerInv, Planned  PROVE RatesFollowTheChip
    BY DEF RatesFollowTheChip
  <2>1. CASE job.kind = "Identify"
    <3>1. /\ DOMAIN Steps = {1} /\ Steps[1].phase = "Run"
          /\ Steps[1].retune_before_send = NoBaud /\ Steps[1].retune_after_send = NoBaud
      BY <2>1, IdentifyInHand DEF Steps, RunStep, PlainStep
    <3>2. Retunes(0) = {} /\ Retunes(1) = {}
      BY <3>1 DEF Retunes
    <3>3. RateRead(0) = opts.handshake_baud /\ RateRead(1) = opts.handshake_baud
      BY <3>2 DEF RateRead
    <3>4. RateSent(1) = opts.handshake_baud
      BY <3>1, <3>3 DEF RateSent
    <3>5. ~Committed(1)
      BY DEF Committed
    <3> QED  BY <3>1, <3>3, <3>4, <3>5 DEF RatesFollowTheChip
  <2>2. CASE job.kind # "Identify"
    <3>1. PICK reload, count :
            /\ TimerReload(info.measured_hz, opts.transfer_baud).ok
            /\ count \in 1..255 /\ Laid(plan.value, reload, count, info, job, opts)
      BY <2>2, InHand
    <3>2. /\ job \in Jobs /\ opts.handshake_baud # NoBaud
          /\ opts.transfer_baud # NoBaud
      <4>1. opts.transfer_baud # 0
        BY <3>1 DEF TimerReload, Ok, Error
      <4> QED  BY <4>1, OptionsAssumption DEF PlannerInv, NoBaud
    <3>3. /\ Asked(plan.value, count, info, job, opts)
          /\ Cast(plan.value, reload, count, info, job, opts)
          /\ PhasesStand(plan.value, count, job)
      BY <3>1, <3>2, Phased, WhatIsAsked, Roles
    <3> DEFINE last == Len(Steps)
    <3>4. DOMAIN Steps = 1..last /\ last \in Nat /\ last >= 4
      <4>1. WriteCount(job, count) \in Nat /\ OptionCount(job) \in 0..1 /\ ErasePlace >= 4 /\ ErasePlace \in Nat
        BY <3>3, SizesAssumption DEF PhasesStand, ErasePlace
      <4>2. DOMAIN Steps = 1..last /\ last = ErasePlace + WriteCount(job, count) + OptionCount(job) + 1
        BY <3>3 DEF Asked, Steps
      <4> HIDE DEF last
      <4> QED  BY <4>1, <4>2
    <3>5. /\ Steps[1].retune_before_send = NoBaud /\ Steps[1].retune_after_send = opts.transfer_baud
          /\ Steps[2].retune_before_send = opts.handshake_baud
          /\ Steps[2].retune_after_send = opts.transfer_baud
          /\ Steps[1].phase = "BaudProbe" /\ Steps[2].phase = "BaudCommit"
      BY <3>3 DEF Cast, Is, Steps
    <3>6. \A k \in 3..last : /\ Steps[k].retune_before_send = NoBaud
                             /\ Steps[k].retune_after_send = NoBaud
      BY <3>3 DEF Asked, Steps
    <3>7. \A k \in DOMAIN Steps : Steps[k].phase \in {"BaudProbe", "BaudCommit"} <=> k \in {1, 2}
      <4>1. Index("BaudProbe") = {1} /\ Index("BaudCommit") = {2}
        BY <3>3, IndexIsAt DEF PhasesStand
      <4> QED  BY <4>1 DEF Index
    <3> HIDE DEF last
    <3>8. /\ Retunes(0) = {} /\ Retunes(1) = {1}
          /\ \A k \in 2..last : Retunes(k) = {1, 2}
      <4>1. Retunes(0) = {}
        BY DEF Retunes
      <4>2. Retunes(1) = {1}
        BY <3>2, <3>5 DEF Retunes
      <4>3. ASSUME NEW k \in 2..last  PROVE Retunes(k) = {1, 2}
        <5>1. \A l \in 1..k : l = 1 \/ l = 2 \/ l \in 3..last
          BY <3>4
        <5>2. 1 \in 1..k /\ 2 \in 1..k
          OBVIOUS
        <5> QED  BY <3>2, <3>5, <3>6, <5>1, <5>2 DEF Retunes
      <4> QED  BY <4>1, <4>2, <4>3
    <3>9. Max({1}) = 1 /\ Max({1, 2}) = 2
      <4>1. Max({1}) = 1
        BY MaxIs
      <4>2. Max({1, 2}) = 2
        BY MaxIs
      <4> QED  BY <4>1, <4>2
    <3>10. /\ RateRead(0) = opts.handshake_baud /\ RateRead(1) = opts.transfer_baud
           /\ \A k \in 2..last : RateRead(k) = opts.transfer_baud
      BY <3>2, <3>5, <3>8, <3>9 DEF RateRead, RateAfter
    <3>11. /\ ~Committed(1) /\ ~Committed(2)
           /\ \A k \in 3..last : Committed(k)
      <4>1. ~Committed(1) /\ ~Committed(2)
        BY <3>5 DEF Committed
      <4>2. ASSUME NEW k \in 3..last  PROVE Committed(k)
        <5>1. 2 \in 1..(k - 1)
          BY <3>4
        <5> QED  BY <3>5, <5>1 DEF Committed
      <4> QED  BY <4>1, <4>2
    <3>12. /\ RateSent(1) = opts.handshake_baud /\ RateSent(2) = opts.handshake_baud
           /\ \A k \in 3..last : RateSent(k) = opts.transfer_baud
      <4>1. RateSent(1) = opts.handshake_baud /\ RateSent(2) = opts.handshake_baud
        BY <3>2, <3>5, <3>10 DEF RateSent
      <4>2. ASSUME NEW k \in 3..last  PROVE RateSent(k) = opts.transfer_baud
        <5>1. k - 1 \in 2..last
          BY <3>4
        <5> QED  BY <3>6, <3>10, <5>1 DEF RateSent
      <4> QED  BY <4>1, <4>2
    <3>13. \A k \in DOMAIN Steps : k = 1 \/ k = 2 \/ k \in 3..last
      BY <3>4
    <3>14. \A k \in 3..last : k \in 2..last /\ k \notin {1, 2} /\ k \in DOMAIN Steps
      BY <3>4
    <3>15. 2 \in 2..last
      BY <3>4
    <3>16. ASSUME NEW k \in DOMAIN Steps
           PROVE  /\ RateSent(k) = IF Committed(k) THEN opts.transfer_baud ELSE opts.handshake_baud
                  /\ RateRead(k) = IF Committed(k) \/ Steps[k].phase \in {"BaudProbe", "BaudCommit"}
                                   THEN opts.transfer_baud ELSE opts.handshake_baud
      BY <3>7, <3>10, <3>11, <3>12, <3>13, <3>14, <3>15
    <3> QED  BY <3>16 DEF RatesFollowTheChip
  <2> QED  BY <2>1, <2>2
<1> QED
  BY <1>1, PlannerInvariant, PTL

-----------------------------------------------------------------------------
(* What run() may assume of a plan, whatever the sizes, the status packet  *)
(* and the job; DriverPlans assumes it.                                    *)

\* Of every plan only the last step goes unanswered, the rates change around the
\* baud steps and nowhere else, and the link tests come right before the erase.
\* Each write has a block of its own in the region erased before it, if that
\* region fits the flash and two bytes of address (stc89.rs 303-473).
PlansSuitTheDriver ==
  Planned =>
    /\ \A k \in 1..Len(Steps) : ExpectsReply(Steps[k]) \/ k = Len(Steps)
    /\ SetsRates(Steps, opts.handshake_baud, opts.transfer_baud)
    /\ ProvesLineFirst(Steps, LinkTestRepeats)
    /\ \A blocks \in Nat :
         (\A e \in Index("Erase") : /\ ErasedBytes(e) <= blocks * WriteBlock
                                    /\ ErasedBytes(e) <= 65536)
           => FillsOwnBlocks(Steps, blocks, EraseBlock \div WriteBlock, WriteBlock)

\* What the driver's proofs ask of a plan holds of every plan there is.
THEOREM SuitTheDriver == Spec => []PlansSuitTheDriver
<1>1. PlannerInv => PlansSuitTheDriver
  <2> SUFFICES ASSUME PlannerInv, Planned  PROVE PlansSuitTheDriver
    BY DEF PlansSuitTheDriver
  <2>1. CASE job.kind = "Identify"
    <3>1. Steps = <<RunStep(opts)>>
      BY <2>1, IdentifyInHand DEF Steps
    <3>2. /\ \A k \in 1..Len(Steps) : ExpectsReply(Steps[k]) \/ k = Len(Steps)
          /\ SetsRates(Steps, opts.handshake_baud, opts.transfer_baud)
          /\ ProvesLineFirst(Steps, LinkTestRepeats)
      BY <3>1, ShapeOfIdentify
    <3>3. \A blocks \in Nat : FillsOwnBlocks(Steps, blocks, EraseBlock \div WriteBlock, WriteBlock)
      BY <3>1, ShapeOfIdentify
    <3> QED  BY <3>2, <3>3 DEF PlansSuitTheDriver
  <2>2. CASE job.kind # "Identify"
    <3>1. PICK reload, count : count \in 1..255 /\ Laid(plan.value, reload, count, info, job, opts)
      BY <2>2, InHand
    <3>2. job \in Jobs
      BY DEF PlannerInv
    <3>3. Laid(Steps, reload, count, info, job, opts)
      BY <3>1 DEF Steps
    <3>4. /\ Asked(Steps, count, info, job, opts)
          /\ Cast(Steps, reload, count, info, job, opts)
          /\ PhasesStand(Steps, count, job)
      BY <3>1, <3>2, <3>3, Phased, WhatIsAsked, Roles
    <3>5. /\ SetsRates(Steps, opts.handshake_baud, opts.transfer_baud)
          /\ ProvesLineFirst(Steps, LinkTestRepeats)
      BY <3>1, <3>4, ShapeOfRates, ShapeOfLine
    <3>6. \A k \in 1..Len(Steps) : ExpectsReply(Steps[k]) \/ k = Len(Steps)
      BY <3>4 DEF Asked
    <3>7. Index("Erase") = {ErasePlace} /\ ErasedBytes(ErasePlace) = count * EraseBlock
      <4>1. Index("Erase") = {ErasePlace}
        BY <3>4 DEF PhasesStand, Index, At
      <4>2. Steps[ErasePlace].frame.payload[1] = count
        BY <3>4 DEF Asked
      <4> QED  BY <4>1, <4>2 DEF ErasedBytes
    <3>8. ASSUME NEW blocks \in Nat,
                 \A e \in Index("Erase") : ErasedBytes(e) <= blocks * WriteBlock /\ ErasedBytes(e) <= 65536
          PROVE  FillsOwnBlocks(Steps, blocks, EraseBlock \div WriteBlock, WriteBlock)
      <4>1. count * EraseBlock <= blocks * WriteBlock /\ count * EraseBlock <= 65536
        BY <3>7, <3>8
      <4>2. count * (EraseBlock \div WriteBlock) <= blocks
        <5> DEFINE n == (count * EraseBlock) \div WriteBlock
        <5>1. n \in Nat /\ n * WriteBlock = count * EraseBlock
          BY <3>1, Fits
        <5>2. count * (EraseBlock \div WriteBlock) = n
          BY <3>1, UnitsInRegion
        <5> HIDE DEF n
        <5>3. n * WriteBlock <= blocks * WriteBlock
          BY <4>1, <5>1
        <5>4. n <= blocks
          BY <5>1, <5>3, SizesAssumption
        <5> QED  BY <5>2, <5>4
      <4>3. BlocksSuit(Steps, count, blocks)
        BY <3>1, <3>2, <3>3, ShapeOfBlocks
      <4> QED  BY <4>1, <4>2, <4>3 DEF BlocksSuit
    <3> QED  BY <3>5, <3>6, <3>8 DEF PlansSuitTheDriver
  <2> QED  BY <2>1, <2>2
<1> QED
  BY <1>1, PlannerInvariant, PTL
=============================================================================
