--------------------------- MODULE HandshakeProofs ---------------------------
(***************************************************************************)
(* What the handshake promises, for all its times, every line of Scripts   *)
(* and every protocol family: it keeps its cadence and returns in time,    *)
(* the first status packet decides its outcome, and no pulse goes into a   *)
(* packet that is on its way.                                              *)
(*                                                                         *)
(* 1. The timers.  The properties bound now by timers that were set in     *)
(*    other places of the loop, so TimeInv says where the loop stands: how *)
(*    old the call in progress may be (since), and that it was begun no    *)
(*    later than the timers allow.  Heard(t, slack) is that allowance: t   *)
(*    is at most slack past the period of the last pulse or past the stall *)
(*    time of the last byte.                                               *)
(* 2. The receiver.  Every step of the handshake is a step of Receiver or  *)
(*    leaves its variables alone, so ReceiverInv holds of it; HoldInv adds *)
(*    that a frame under way at what was read so far is never taken apart, *)
(*    and HeldInv that a due pulse waits only for an unfinished frame.     *)
(* 3. The outcome.  OutcomeInv carries from the loop's counters to its     *)
(*    result: no frame taken but the last one is a status packet.          *)
(* 4. The line.  LineInv says when the next chunk of a frame is due; with  *)
(*    TimeInv and HoldInv it keeps the pulses out of a packet.             *)
(***************************************************************************)
EXTENDS Handshake, FrameProofs

-----------------------------------------------------------------------------
(* 1. The timers.                                                          *)

Heard(t, slack) ==
  \/ t <= pulsed_at + PulseEvery + slack
  \/ t <= last_byte + PartialStall + slack

Computing == pc \in {"top", "drain", "collect"}

TimeInv ==
  /\ now \in Nat /\ since \in Nat /\ last_byte \in Nat
  /\ pulsed_at \in Int /\ last_pulse = pulsed_at
  /\ last_byte <= now /\ since <= now
  /\ pc = "tune" => now = 0 /\ pulsed_at + PulseEvery = 0
  /\ Computing => Heard(now, ReadMost) /\ now <= Wait + PulseTime + ReadMost
  /\ pc = "pulse" => /\ since - pulsed_at >= PulseEvery
                     /\ since < Wait
                     /\ Heard(since, ReadMost)
                     /\ now <= since + PulseTime
  /\ pc = "read" => /\ Heard(since, 0)
                    /\ since <= Wait + PulseTime
                    /\ now <= since + ReadMost
  /\ pc = "returned" => now <= Wait + PulseTime + ReadMost
  /\ pc \in {"tune", "top", "pulse", "read", "drain", "collect", "returned"}

LEMMA HsInitTime == HsInit => TimeInv
BY TimesAssumption DEF HsInit, TimeInv, Heard, Computing, ReadMost

LEMMA HsNextTime == TimeInv /\ [HsNext]_hs_vars => TimeInv'
<1> SUFFICES ASSUME TimeInv, [HsNext]_hs_vars  PROVE TimeInv'
  OBVIOUS
<1> USE TimesAssumption DEF TimeInv, Heard, Computing, ReadMost
<1>1. CASE Tune
  BY <1>1 DEF Tune
<1>2. CASE TopPulses
  BY <1>2 DEF TopPulses, Call, Due
<1>3. CASE TopReads
  <2>1. /\ pc = "top" /\ pc' = "read" /\ since' = now /\ now < Wait
        /\ UNCHANGED <<now, last_pulse, last_byte, pulsed_at>>
    BY <1>3 DEF TopReads, Call
  <2>2. Heard(since', 0)
    BY <1>3, <2>1 DEF TopReads, Due, MidFrame
  <2> QED  BY <2>1, <2>2
<1>4. CASE TopGivesUp
  BY <1>4 DEF TopGivesUp, Return
<1>5. CASE PulseIsOut
  BY <1>5 DEF PulseIsOut, Call
<1>6. CASE ReadSome
  BY <1>6 DEF ReadSome
<1>7. CASE ReadNothing
  BY <1>7 DEF ReadNothing
<1>8. CASE Drain
  BY <1>8 DEF Drain
<1>9. CASE Collect
  BY <1>9 DEF Collect, Return
<1>10. CASE IoFails
  BY <1>10 DEF IoFails, Return
<1>11. CASE Arrive
  BY <1>11 DEF Arrive, host_vars
<1>12. CASE Tick
  BY <1>12 DEF Tick
<1>13. CASE UNCHANGED hs_vars
  BY <1>13 DEF hs_vars, host_vars
<1> QED
  BY <1>1, <1>2, <1>3, <1>4, <1>5, <1>6, <1>7, <1>8, <1>9, <1>10, <1>11, <1>12, <1>13
  DEF HsNext, Host

\* The loop's timers and the calls in progress stay within their allowances, in
\* every interleaving of the host, the clock and the line (driver.rs 165-227).
THEOREM TimersHold == HsSpec => []TimeInv
<1>1. HsInit => TimeInv
  BY HsInitTime
<1>2. TimeInv /\ [HsNext]_hs_vars => TimeInv'
  BY HsNextTime
<1> QED BY <1>1, <1>2, PTL DEF HsSpec

\* The handshake overruns its wait by at most one pulse and one read, whatever
\* the line carries (driver.rs 188, 223-226).
THEOREM ReturnsOnTime == HsSpec => []ReturnsInTime
<1>1. TimeInv => ReturnsInTime
  BY TimesAssumption DEF TimeInv, Computing, ReadMost, ReturnsInTime
<1> QED BY <1>1, TimersHold, PTL

-----------------------------------------------------------------------------
(* 2. The receiver.                                                        *)

\* A prefix of what could not be decided yet cannot be decided either.
LEMMA HeaderStays ==
  ASSUME NEW b \in Seq(Byte), NEW l \in Seq(Byte), b # <<>>, Len(b) <= Len(l),
         \A i \in 1..Len(b) : b[i] = l[i], Settled(l)
  PROVE  Settled(b)
<1>1. l # <<>> /\ Len(b) \in Nat /\ Len(b) >= 1 /\ Len(l) \in Nat
  OBVIOUS
<1>2. ~Droppable(l) /\ ~Complete(l)
  BY DEF Settled
<1>3. b[1] = Magic[1] /\ (Len(b) >= 2 => b[2] = Magic[2])
  <2>1. l[1] = Magic[1] /\ (Len(l) >= 2 => l[2] = Magic[2])
    BY <1>1, <1>2 DEF Droppable
  <2>2. 1 \in 1..Len(b) /\ (Len(b) >= 2 => 2 \in 1..Len(b) /\ Len(l) >= 2)
    BY <1>1
  <2> QED  BY <2>1, <2>2
<1>4. ASSUME Len(b) >= 5  PROVE Declared(b) = Declared(l) /\ Len(l) >= 5
  <2>1. 4 \in 1..Len(b) /\ 5 \in 1..Len(b) /\ Len(l) >= 5
    BY <1>1, <1>4
  <2> QED  BY <2>1, Zenon DEF Declared
<1>5. Len(b) >= 5 => Plausible(b)
  <2>1. Len(l) >= 5 => Plausible(l)
    BY <1>1, <1>2 DEF Droppable
  <2> QED  BY <1>4, <2>1, Zenon DEF Plausible
<1>6. ~Complete(b)
  <2> SUFFICES ASSUME Complete(b)  PROVE FALSE
    OBVIOUS
  <2>1. Len(b) >= 5 /\ Len(b) >= FrameLen(b)
    BY DEF Complete
  <2>2. FrameLen(l) = FrameLen(b) /\ Len(l) >= 5
    BY <1>4, <2>1, Zenon DEF FrameLen
  <2>3. FrameLen(b) \in Int
    <3>1. b[4] \in Byte /\ b[5] \in Byte
      BY <1>1, <2>1
    <3>2. \A x \in Byte : x \in Int
      BY DEF Byte
    <3>3. b[4] \in Int /\ b[5] \in Int
      BY <3>1, <3>2, Zenon
    <3> QED  BY <3>3 DEF FrameLen, Declared, BigEndian
  <2> QED  BY <1>1, <1>2, <2>1, <2>2, <2>3 DEF Complete
<1>7. ~Droppable(b)
  BY <1>3, <1>5 DEF Droppable
<1> QED
  BY <1>6, <1>7 DEF Settled

\* No byte from where something under way begins on has been used up.
HoldInv == \A a \in 0..(fed - 1) : Begun(stream, a, fed) => fed - Len(buf) <= a

\* feed takes nothing away, and what is under way with more bytes fed either was
\* so before or begins in them.
LEMMA FeedHolds ==
  ASSUME ReceiverInv, HoldInv, Feed
  PROVE  HoldInv'
<1> DEFINE c == fed - Len(buf)
<1>1. PICK n \in 1..(Len(stream) - fed) :
        buf' = buf \o SubSeq(stream, fed + 1, fed + n) /\ fed' = fed + n /\ stream' = stream
  BY DEF Feed
<1>2. /\ buf \in Seq(Byte) /\ stream \in Seq(Byte) /\ fed \in 0..Len(stream) /\ Len(buf) \in Nat
      /\ Len(buf) <= fed /\ fed \in Nat /\ n \in Nat /\ n >= 1 /\ fed + n <= Len(stream)
  BY <1>1 DEF ReceiverInv, Unread
<1>3. fed' - Len(buf') = c
  <2> DEFINE more == SubSeq(stream, fed + 1, fed + n)
  <2>1. more \in Seq(Byte) /\ Len(more) = n /\ buf' = buf \o more
    BY <1>1, <1>2
  <2> HIDE DEF more
  <2>2. Len(buf') = Len(buf) + n
    BY <1>2, <2>1
  <2> QED  BY <1>1, <1>2, <2>2
<1>4. ASSUME NEW a \in 0..(fed' - 1), Begun(stream, a, fed')
      PROVE  c <= a
  <2>1. CASE a >= fed
    BY <1>2, <2>1
  <2>2. CASE ~(a >= fed)
    <3> DEFINE b == SubSeq(stream, a + 1, fed)   l == SubSeq(stream, a + 1, fed + n)
    <3>1. a \in 0..(fed - 1) /\ a \in Nat /\ a + (fed - a) = fed /\ fed - a \in Nat /\ fed - a >= 1
          /\ a + ((fed - a) + n) = fed + n /\ (fed - a) + n \in Nat /\ fed <= Len(stream)
      BY <1>1, <1>2, <2>2
    <3>2. /\ b \in Seq(Byte) /\ Len(b) = fed - a /\ \A i \in 1..(fed - a) : b[i] = stream[a + i]
      <4>1. b = Run(stream, a, fed - a)
        BY <3>1, Zenon DEF Run
      <4>2. a + (fed - a) <= Len(stream)
        BY <3>1
      <4> HIDE DEF b
      <4>3. /\ Run(stream, a, fed - a) \in Seq(Byte) /\ Len(Run(stream, a, fed - a)) = fed - a
            /\ \A i \in 1..(fed - a) : Run(stream, a, fed - a)[i] = stream[a + i]
        BY <1>2, <3>1, <4>2, RunIs, Zenon
      <4> QED  BY <4>1, <4>3, Zenon
    <3>3. /\ l \in Seq(Byte) /\ Len(l) = (fed - a) + n
          /\ \A i \in 1..((fed - a) + n) : l[i] = stream[a + i]
      <4> DEFINE m == (fed - a) + n
      <4>1. l = Run(stream, a, m)
        BY <3>1, Zenon DEF Run
      <4>2. a + m <= Len(stream) /\ m \in Nat
        BY <1>2, <3>1
      <4> HIDE DEF l, m
      <4>3. /\ Run(stream, a, m) \in Seq(Byte) /\ Len(Run(stream, a, m)) = m
            /\ \A i \in 1..m : Run(stream, a, m)[i] = stream[a + i]
        BY <1>2, <3>1, <4>2, RunIs, Zenon
      <4> QED  BY <4>1, <4>3, Zenon DEF m
    <3>4. Settled(l)
      BY <1>1, <1>4 DEF Begun, Settled
    <3> HIDE DEF b, l
    <3>5. b # <<>> /\ Len(b) <= Len(l) /\ \A i \in 1..Len(b) : b[i] = l[i]
      <4>1. Len(b) \in Nat /\ Len(b) >= 1 /\ Len(b) <= Len(l)
        BY <1>2, <3>1, <3>2, <3>3
      <4>2. \A i \in 1..(fed - a) : i \in 1..((fed - a) + n)
        BY <1>2, <3>1
      <4>3. \A i \in 1..Len(b) : b[i] = l[i]
        <5>1. \A i \in 1..(fed - a) : b[i] = l[i]
          BY <3>2, <3>3, <4>2, Zenon
        <5> QED  BY <3>2, <5>1, Zenon
      <4>4. b # <<>>
        BY <4>1
      <4> QED  BY <4>1, <4>3, <4>4
    <3>6. Settled(b)
      BY <3>2, <3>3, <3>4, <3>5, HeaderStays
    <3>7. Begun(stream, a, fed)
      BY <1>4, <3>6 DEF Begun, Settled, b
    <3> QED  BY <3>1, <3>7 DEF HoldInv
  <2> QED  BY <2>1, <2>2
<1> QED
  BY <1>1, <1>3, <1>4 DEF HoldInv

\* One call stops at the first place it cannot decide about.
LEMMA NextFrameHolds ==
  ASSUME ReceiverInv, HoldInv, NextFrame
  PROVE  HoldInv'
<1> DEFINE c == fed - Len(buf)
<1>1. stream' = stream /\ fed' = fed
  BY DEF NextFrame
<1>2. /\ buf \in Seq(Byte) /\ stream \in Seq(Byte) /\ fed \in 0..Len(stream) /\ Len(buf) \in Nat
      /\ Len(buf) <= fed /\ fed \in Nat /\ c \in Nat /\ Unread(buf, fed)
  BY DEF ReceiverInv, Unread
<1>3. PICK k \in 0..Len(buf) : Passes(k)
  BY NextFrameReads
<1>4. ASSUME NEW a \in 0..(fed - 1), Begun(stream, a, fed)
      PROVE  fed - Len(buf') <= a
  <2> DEFINE j == a - c   b == SubSeq(stream, a + 1, fed)
  <2>1. c <= a /\ a \in Nat
    BY <1>4 DEF HoldInv
  <2>2. j \in 0..Len(buf) /\ c + j = a /\ Len(buf) - j = fed - a /\ fed - a \in Nat
    BY <1>2, <2>1
  <2>3. Drop(buf, j) = b
    <3>1. /\ Drop(buf, j) \in Seq(Byte) /\ Len(Drop(buf, j)) = Len(buf) - j
          /\ Unread(Drop(buf, j), fed)
      BY <1>2, <2>2, DropIs, DroppedUnread
    <3>2. /\ b \in Seq(Byte) /\ Len(b) = fed - a /\ \A i \in 1..(fed - a) : b[i] = stream[a + i]
      <4>1. a + (fed - a) = fed /\ a + (fed - a) <= Len(stream)
        BY <1>2, <2>1
      <4>2. b = Run(stream, a, fed - a)
        BY <4>1, Zenon DEF Run
      <4> HIDE DEF b
      <4>3. /\ Run(stream, a, fed - a) \in Seq(Byte) /\ Len(Run(stream, a, fed - a)) = fed - a
            /\ \A i \in 1..(fed - a) : Run(stream, a, fed - a)[i] = stream[a + i]
        BY <1>2, <2>1, <2>2, <4>1, RunIs, Zenon
      <4> QED  BY <4>2, <4>3, Zenon
    <3>3. \A i \in 1..Len(Drop(buf, j)) : Drop(buf, j)[i] = stream[(fed - Len(Drop(buf, j))) + i]
      BY <3>1 DEF Unread
    <3>4. Len(Drop(buf, j)) = fed - a /\ fed - Len(Drop(buf, j)) = a
      BY <1>2, <2>1, <2>2, <3>1
    <3> HIDE DEF b, j
    <3>5. \A i \in 1..(fed - a) : Drop(buf, j)[i] = b[i]
      BY <3>2, <3>3, <3>4, Zenon
    <3> QED  BY <3>1, <3>2, <3>4, <3>5, SeqEqual, Zenon
  <2>4. ~Droppable(Drop(buf, j)) /\ ~Complete(Drop(buf, j))
    BY <1>4, <2>3, Zenon DEF Begun
  <2> HIDE DEF b, j
  <2>5. k <= j
    <3>1. \A i \in 0..(k - 1) : Droppable(Drop(buf, i))
      BY <1>3, Zenon DEF Passes
    <3>2. ~(j \in 0..(k - 1))
      BY <2>4, <3>1, Zenon
    <3> QED  BY <2>2, <3>2
  <2>6. CASE fed - Len(buf') = c + k
    BY <1>2, <2>2, <2>5, <2>6
  <2>7. ASSUME Complete(Drop(buf, k))  PROVE k < j
    <3>1. k # j
      BY <2>4, <2>7, Zenon
    <3> QED  BY <2>2, <2>5, <3>1
  <2>8. CASE Complete(Drop(buf, k)) /\ fed - Len(buf') = (c + k) + 1
    <3>1. k < j
      BY <2>7, <2>8
    <3> QED  BY <1>2, <2>2, <2>8, <3>1
  <2>9. CASE Complete(Drop(buf, k)) /\ \E n : FrameAt(stream, c + k, n) /\ fed - Len(buf') = (c + k) + n
    <3>1. k < j
      BY <2>7, <2>9
    <3>2. PICK n : FrameAt(stream, c + k, n) /\ fed - Len(buf') = (c + k) + n
      BY <2>9
    <3>3. c + k \in Nat /\ (c + k) + 1 \in 1..a
      BY <1>2, <2>2, <3>1
    <3>4. n \in Nat /\ n >= 8 /\ (c + k) + n <= Len(stream)
      BY <1>2, <3>2, <3>3, FrameAtIs
    <3>5. n \in FrameSizes(stream, (c + k) + 1)
      <4>1. IsFrame(stream, (c + k) + 1, n)
        BY <1>2, <3>2, <3>3, <3>4, FrameIff
      <4>2. n \in FrameOverhead..(Len(stream) - ((c + k) + 1) + 1)
        BY <1>2, <3>3, <3>4 DEF FrameOverhead
      <4> QED  BY <4>1, <4>2, Zenon DEF FrameSizes
    <3>6. ((c + k) + 1) + n <= a + 1
      BY <1>4, <3>3, <3>5, Zenon DEF Begun
    <3> QED  BY <1>2, <2>1, <3>2, <3>3, <3>4, <3>6
  <2> QED  BY <1>3, <2>6, <2>8, <2>9, Zenon DEF Passes
<1> QED
  BY <1>1, <1>4 DEF HoldInv

\* next_frame never uses up a byte of what may still become a frame: it has not
\* passed the beginning of anything under way.
LEMMA Holds == Spec => []HoldInv
<1>1. Init => HoldInv
  BY DEF Init, HoldInv
<1>2. ReceiverInv /\ HoldInv /\ [Next]_vars => HoldInv'
  <2> SUFFICES ASSUME ReceiverInv, HoldInv, [Next]_vars  PROVE HoldInv'
    OBVIOUS
  <2>1. CASE Feed
    BY <2>1, FeedHolds
  <2>2. CASE NextFrame
    BY <2>2, NextFrameHolds
  <2>3. CASE TakeDiscarded
    BY <2>3 DEF TakeDiscarded, HoldInv
  <2>4. CASE UNCHANGED vars
    BY <2>4 DEF vars, HoldInv
  <2> QED  BY <2>1, <2>2, <2>3, <2>4 DEF Next
<1> QED
  BY <1>1, <1>2, ReceiverInvariant, PTL DEF Spec

\* For all constants: every step of the handshake is a call of its Receiver or
\* leaves it alone, so all that holds of the Receiver holds of the handshake's
\* (driver.rs 194-203).
THEOREM HsImplementsReceiver == HsSpec => Spec
<1>1. HsInit => Init
  BY DEF HsInit
<1>2. [HsNext]_hs_vars => [Next]_vars
  <2> SUFFICES ASSUME [HsNext]_hs_vars  PROVE [Next]_vars
    OBVIOUS
  <2>1. CASE Host
    <3>1. ReadSome => Feed
      BY DEF ReadSome, ReadAll
    <3>2. Drain => NextFrame
      BY DEF Drain
    <3>3. Collect => TakeDiscarded
      BY DEF Collect
    <3>4. Tune \/ TopPulses \/ TopReads \/ TopGivesUp \/ PulseIsOut \/ ReadNothing => UNCHANGED vars
      BY DEF Tune, TopPulses, TopReads, TopGivesUp, PulseIsOut, ReadNothing
    <3> QED  BY <2>1, <3>1, <3>2, <3>3, <3>4, Zenon DEF Host, Next
  <2>2. CASE IoFails \/ Arrive \/ Tick
    BY <2>2 DEF IoFails, Arrive, Tick
  <2>3. CASE UNCHANGED hs_vars
    BY <2>3 DEF hs_vars
  <2> QED  BY <2>1, <2>2, <2>3 DEF HsNext
<1> QED
  BY <1>1, <1>2, PTL DEF HsSpec, Spec

\* A due pulse is passed over only for what the receiver could make nothing of when
\* it was last asked; Settled says what that is.
HeldInv ==
  /\ pc = "tune" => buf = <<>>
  /\ pc = "top" => buf = <<>> \/ ret = NeedMore
  /\ pc = "read" /\ since - pulsed_at >= PulseEvery => buf # <<>> /\ ret = NeedMore

LEMMA HeldInvNext ==
  ASSUME HeldInv, TimeInv, [HsNext]_hs_vars
  PROVE  HeldInv'
<1>1. CASE Tune
  BY <1>1 DEF Tune, vars, HeldInv
<1>2. CASE TopReads
  <2>1. /\ pc = "top" /\ pc' = "read" /\ since' = now /\ (MidFrame \/ ~Due)
        /\ UNCHANGED <<buf, ret, pulsed_at>>
    BY <1>2 DEF TopReads, Call, vars
  <2>2. ASSUME since' - pulsed_at' >= PulseEvery
        PROVE  buf # <<>>
    <3>1. Due
      BY <2>1, <2>2 DEF TimeInv, Due
    <3> QED  BY <2>1, <3>1 DEF MidFrame
  <2> QED  BY <2>1, <2>2 DEF HeldInv
<1>3. CASE PulseIsOut
  <2>1. pc' = "read" /\ since' = now /\ pulsed_at' = now /\ now \in Nat
    BY <1>3 DEF PulseIsOut, Call, TimeInv
  <2>2. ~(since' - pulsed_at' >= PulseEvery)
    BY <2>1, TimesAssumption
  <2> QED  BY <2>1, <2>2 DEF HeldInv
<1>4. CASE Collect
  <2>1. pc' \in {"top", "drain", "returned"} /\ (pc' = "top" => ret = NeedMore) /\ ret' = ret
    BY <1>4 DEF Collect, TakeDiscarded, Return
  <2> QED  BY <2>1 DEF HeldInv
<1>5. CASE TopPulses \/ TopGivesUp \/ ReadSome \/ ReadNothing \/ Drain \/ IoFails
  <2>1. pc' \notin {"tune", "top", "read"}
    BY <1>5 DEF TopPulses, TopGivesUp, ReadSome, ReadNothing, Drain, IoFails, Call, Return
  <2> QED  BY <2>1 DEF HeldInv
<1>6. CASE Arrive \/ Tick \/ UNCHANGED hs_vars
  <2>1. UNCHANGED <<pc, buf, ret, since, pulsed_at>>
    BY <1>6 DEF Arrive, Tick, hs_vars, host_vars, vars
  <2> QED  BY <2>1 DEF HeldInv
<1> QED
  BY <1>1, <1>2, <1>3, <1>4, <1>5, <1>6 DEF HsNext, Host

\* No pulse sooner than its period; none later than one turn of the loop after
\* it is due, unless bytes came within the stall time; and none passed over but
\* for an unfinished frame, whatever trickles in (driver.rs 170-193).
THEOREM CadenceKept == HsSpec => []KeepsTheCadence
<1>1. HsInit => HeldInv
  BY DEF HsInit, Init, HeldInv
<1>2. HeldInv /\ TimeInv /\ [HsNext]_hs_vars => HeldInv'
  BY HeldInvNext
<1>3. TimeInv /\ HeldInv /\ ReceiverInv => KeepsTheCadence
  <2> SUFFICES ASSUME TimeInv, HeldInv, ReceiverInv  PROVE KeepsTheCadence
    OBVIOUS
  <2>1. /\ pc = "pulse" => since - pulsed_at >= PulseEvery
        /\ ~Returned =>
             \/ now <= pulsed_at + PulseEvery + ReadMost + PulseTime
             \/ now <= last_byte + PartialStall + ReadMost + PulseTime
    BY TimesAssumption DEF TimeInv, Heard, Computing, ReadMost, Returned
  <2>2. pc = "read" /\ since - pulsed_at >= PulseEvery => Unfinished(buf)
    BY DEF HeldInv, ReceiverInv, Settled, Unfinished
  <2> QED  BY <2>1, <2>2 DEF KeepsTheCadence
<1> QED
  BY <1>1, <1>2, <1>3, TimersHold, HsImplementsReceiver, ReceiverInvariant, PTL DEF HsSpec

-----------------------------------------------------------------------------
(* 3. What decides the outcome.                                            *)

\* The frames handed out that are status packets: none, but the last one once it
\* has been handed out.
OnlyTheLast ==
  \A k \in 1..Len(got) : FamilyIsStatusFrame(got[k]) =>
    /\ k = Len(got)
    /\ pc \in {"collect", "returned"}
    /\ pc = "collect" => ret = SomeOk

OutcomeInv ==
  /\ noise = Len(reported)
  /\ pc # "collect" => discarded = <<>>
  /\ pc # "returned" => outcome = NoOutcome
  /\ pc = "collect" /\ ret = SomeOk => got # <<>>
  /\ OnlyTheLast
  /\ outcome.kind = "parsed" =>
       /\ got # <<>> /\ FamilyIsStatusFrame(Last(got))
       /\ outcome = Parsed(FamilyParseStatus(Last(got)))
  /\ outcome.kind = "NoBootloader" =>
       /\ \A k \in 1..Len(got) : ~FamilyIsStatusFrame(got[k])
       /\ outcome = NoBootloader(noise)

LEMMA Kinds ==
  /\ NoOutcome.kind = "none" /\ IoError.kind = "Io"
  /\ \A r : Parsed(r).kind = "parsed"
  /\ \A n : NoBootloader(n).kind = "NoBootloader" /\ NoBootloader(n).noise_bytes = n
BY DEF NoOutcome, IoError, Parsed, NoBootloader

LEMMA OutcomeStays ==
  ASSUME OutcomeInv, UNCHANGED <<noise, reported, discarded, got, outcome>>,
         pc # "collect", pc' \notin {"collect", "returned"}, pc # "returned"
  PROVE  OutcomeInv'
BY Kinds DEF OutcomeInv, OnlyTheLast

LEMMA GotIsFrames ==
  ASSUME ReceiverInv
  PROVE  /\ got \in Seq(FrameType) /\ reported \in Seq(Byte) /\ discarded \in Seq(Byte)
         /\ fed - Len(buf) \in Nat
BY DEF ReceiverInv, Told, Unread

LEMMA LastIs ==
  ASSUME NEW g \in Seq(FrameType)
  PROVE  g # <<>> => Last(g) = g[Len(g)] /\ Len(g) \in 1..Len(g)
BY DEF Last

LEMMA DrainKeeps ==
  ASSUME OutcomeInv, ReceiverInv, Drain
  PROVE  OutcomeInv'
<1>1. /\ pc = "drain" /\ pc' = "collect" /\ NextFrame
      /\ UNCHANGED <<noise, outcome, reported>>
  BY DEF Drain, NextFrame
<1>2. got \in Seq(FrameType)
  BY GotIsFrames
<1>3. \A k \in 1..Len(got) : ~FamilyIsStatusFrame(got[k])
  BY <1>1 DEF OutcomeInv, OnlyTheLast
<1>4. \/ got' = got /\ ret' # SomeOk
      \/ ret' = SomeOk /\ \E f : got' = Append(got, f)
  <2>1. \/ ret' = NeedMore /\ got' = got
        \/ ret' = SomeOk /\ \E f : got' = Append(got, f)
        \/ (\E e : ret' = SomeErr(e)) /\ got' = got
    BY <1>1, Zenon DEF NextFrame
  <2>2. SomeOk # NeedMore /\ \A e : SomeErr(e) # SomeOk
    BY DEF SomeOk, SomeErr, NeedMore
  <2>3. CASE ret' = NeedMore /\ got' = got
    <3>1. ret' # SomeOk
      BY <2>2, <2>3, Zenon
    <3> QED  BY <2>3, <3>1
  <2>4. CASE ret' = SomeOk /\ \E f : got' = Append(got, f)
    BY <2>4
  <2>5. CASE (\E e : ret' = SomeErr(e)) /\ got' = got
    <3>1. PICK e : ret' = SomeErr(e)
      BY <2>5
    <3>2. ret' # SomeOk
      BY <2>2, <3>1, Zenon
    <3> QED  BY <2>5, <3>2
  <2> QED  BY <2>1, <2>3, <2>4, <2>5
<1>5. outcome = NoOutcome
  BY <1>1 DEF OutcomeInv
<1>6. CASE got' = got /\ ret' # SomeOk
  BY <1>1, <1>3, <1>5, <1>6, Kinds DEF OutcomeInv, OnlyTheLast
<1>7. CASE ret' = SomeOk /\ \E f : got' = Append(got, f)
  <2>1. PICK f : got' = Append(got, f)
    BY <1>7
  <2>2. /\ Len(got') = Len(got) + 1 /\ got' # <<>> /\ Len(got) \in Nat
        /\ \A k \in 1..Len(got) : got'[k] = got[k]
    BY <1>2, <2>1
  <2>3. \A k \in 1..Len(got') : k = Len(got') \/ k \in 1..Len(got)
    BY <2>2
  <2>4. OnlyTheLast'
    BY <1>1, <1>3, <1>7, <2>2, <2>3 DEF OnlyTheLast, SomeOk
  <2> QED  BY <1>1, <1>5, <2>2, <2>4, Kinds DEF OutcomeInv
<1> QED
  BY <1>4, <1>6, <1>7

LEMMA CollectKeeps ==
  ASSUME OutcomeInv, ReceiverInv, Collect
  PROVE  OutcomeInv'
<1>1. /\ pc = "collect" /\ discarded' = <<>> /\ reported' = reported \o discarded
      /\ got' = got /\ ret' = ret /\ noise' = noise + Len(discarded)
  BY DEF Collect, TakeDiscarded
<1>2. noise' = Len(reported')
  <2>1. Len(reported \o discarded) = Len(reported) + Len(discarded)
    BY GotIsFrames
  <2> QED  BY <1>1, <2>1 DEF OutcomeInv
<1>3. outcome = NoOutcome
  BY <1>1 DEF OutcomeInv
<1>4. got \in Seq(FrameType)
  BY GotIsFrames
<1>5. \/ ret = NeedMore /\ pc' = "top" /\ outcome' = outcome
      \/ PassedOver /\ pc' = "drain" /\ outcome' = outcome
      \/ /\ IsStatus /\ pc' = "returned"
         /\ outcome' = Parsed(FamilyParseStatus(Last(got)))
  BY DEF Collect, Return
<1>6. CASE \/ ret = NeedMore /\ pc' = "top" /\ outcome' = outcome
           \/ PassedOver /\ pc' = "drain" /\ outcome' = outcome
  <2>1. \A k \in 1..Len(got) : ~FamilyIsStatusFrame(got[k])
    <3> SUFFICES ASSUME NEW k \in 1..Len(got), FamilyIsStatusFrame(got[k])  PROVE FALSE
      OBVIOUS
    <3>1. k = Len(got) /\ ret = SomeOk
      BY <1>1 DEF OutcomeInv, OnlyTheLast
    <3>2. got # <<>> /\ Last(got) = got[k]
      BY <1>1, <1>4, <3>1, LastIs DEF OutcomeInv
    <3>3. SomeOk.kind # "Err" /\ SomeOk # NeedMore
      BY DEF SomeOk, NeedMore
    <3> QED  BY <1>6, <3>1, <3>2, <3>3, Zenon DEF PassedOver
  <2> QED  BY <1>1, <1>2, <1>3, <1>6, <2>1, Kinds DEF OutcomeInv, OnlyTheLast
<1>7. CASE /\ IsStatus /\ pc' = "returned"
           /\ outcome' = Parsed(FamilyParseStatus(Last(got)))
  <2>1. got # <<>> /\ FamilyIsStatusFrame(Last(got))
    BY <1>1, <1>7 DEF OutcomeInv, IsStatus
  <2>2. OnlyTheLast'
    BY <1>1, <1>7 DEF OutcomeInv, OnlyTheLast
  <2>3. outcome'.kind = "parsed"
    BY <1>7, Kinds
  <2> QED  BY <1>1, <1>2, <1>7, <2>1, <2>2, <2>3 DEF OutcomeInv
<1> QED
  BY <1>5, <1>6, <1>7

LEMMA OutcomeNext ==
  ASSUME OutcomeInv, ReceiverInv, [HsNext]_hs_vars
  PROVE  OutcomeInv'
<1>1. CASE Tune \/ TopPulses \/ TopReads \/ PulseIsOut \/ ReadNothing
  <2>1. /\ UNCHANGED <<noise, reported, discarded, got, outcome>>
        /\ pc \in {"tune", "top", "pulse", "read"} /\ pc' \in {"top", "pulse", "read", "drain"}
    BY <1>1 DEF Tune, TopPulses, TopReads, PulseIsOut, ReadNothing, Call, vars
  <2> QED  BY <2>1, OutcomeStays
<1>2. CASE ReadSome
  <2>1. /\ UNCHANGED <<noise, reported, discarded, got, outcome>>
        /\ pc = "read" /\ pc' = "drain"
    BY <1>2 DEF ReadSome, ReadAll, Feed
  <2> QED  BY <2>1, OutcomeStays
<1>3. CASE TopGivesUp
  <2>1. /\ UNCHANGED <<noise, reported, discarded, got, ret>>
        /\ pc = "top" /\ pc' = "returned" /\ outcome' = NoBootloader(noise)
    BY <1>3 DEF TopGivesUp, Return, vars
  <2> QED  BY <2>1, Kinds DEF OutcomeInv, OnlyTheLast
<1>4. CASE IoFails
  <2>1. /\ UNCHANGED <<noise, reported, discarded, got, ret>>
        /\ pc \in {"tune", "pulse", "read"} /\ pc' = "returned" /\ outcome' = IoError
    BY <1>4 DEF IoFails, Return, vars
  <2> QED  BY <2>1, Kinds DEF OutcomeInv, OnlyTheLast
<1>5. CASE Drain
  BY <1>5, DrainKeeps
<1>6. CASE Collect
  BY <1>6, CollectKeeps
<1>7. CASE Arrive \/ Tick \/ UNCHANGED hs_vars
  <2>1. UNCHANGED <<noise, reported, discarded, got, ret, outcome, pc>>
    BY <1>7 DEF Arrive, Tick, hs_vars, host_vars, vars
  <2> QED  BY <2>1 DEF OutcomeInv, OnlyTheLast
<1> QED
  BY <1>1, <1>2, <1>3, <1>4, <1>5, <1>6, <1>7 DEF HsNext, Host

LEMMA OutcomeInvariant == HsSpec => [](OutcomeInv /\ ReceiverInv)
<1>1. HsInit => OutcomeInv
  BY Kinds DEF HsInit, Init, OutcomeInv, OnlyTheLast
<1>2. OutcomeInv /\ ReceiverInv /\ [HsNext]_hs_vars => OutcomeInv'
  BY OutcomeNext
<1> QED
  BY <1>1, <1>2, HsImplementsReceiver, ReceiverInvariant, PTL DEF HsSpec

\* For every line, timing and protocol family: what handshake returns is what
\* the first status packet in the bytes used parses to, or that there was none
\* and how many bytes of noise (driver.rs 197-226).
THEOREM FirstPacketDecides == HsSpec => []FirstStatusPacketDecides
<1>1. OutcomeInv /\ ReceiverInv => FirstStatusPacketDecides
  <2> SUFFICES ASSUME OutcomeInv, ReceiverInv,
                      outcome.kind \in {"parsed", "NoBootloader"}
               PROVE  LET r == Reading(Consumed)
                          s == StatusesAt(r.frames)
                      IN  /\ outcome.kind = "parsed" =>
                               s = {Len(r.frames)} /\ outcome = Parsed(FamilyParseStatus(Last(r.frames)))
                          /\ outcome.kind = "NoBootloader" =>
                               s = {} /\ outcome.noise_bytes = Len(r.noise)
    BY DEF FirstStatusPacketDecides
  <2>1. Reading(Consumed).frames = got /\ Reading(Consumed).noise = reported \o discarded
    BY ConsumedIsRead
  <2>2. got \in Seq(FrameType) /\ DOMAIN got = 1..Len(got) /\ reported \in Seq(Byte)
    BY GotIsFrames
  <2>3. pc = "returned"
    BY Kinds DEF OutcomeInv
  <2>4. ASSUME outcome.kind = "parsed"
        PROVE  StatusesAt(got) = {Len(got)} /\ outcome = Parsed(FamilyParseStatus(Last(got)))
    <3>1. Last(got) = got[Len(got)] /\ Len(got) \in 1..Len(got) /\ FamilyIsStatusFrame(got[Len(got)])
      BY <2>2, <2>4, LastIs DEF OutcomeInv
    <3>2. \A k \in 1..Len(got) : FamilyIsStatusFrame(got[k]) => k = Len(got)
      BY DEF OutcomeInv, OnlyTheLast
    <3>3. StatusesAt(got) = {Len(got)}
      BY <2>2, <3>1, <3>2, Zenon DEF StatusesAt
    <3> QED  BY <2>4, <3>3 DEF OutcomeInv
  <2>5. ASSUME outcome.kind = "NoBootloader"
        PROVE  StatusesAt(got) = {} /\ outcome.noise_bytes = Len(reported \o discarded)
    <3>1. StatusesAt(got) = {}
      BY <2>2, <2>5, Zenon DEF OutcomeInv, StatusesAt
    <3>2. outcome.noise_bytes = Len(reported)
      BY <2>5, Kinds DEF OutcomeInv
    <3>3. reported \o discarded = reported
      BY <2>2, <2>3 DEF OutcomeInv
    <3> QED  BY <3>1, <3>2, <3>3, Zenon
  <2> QED  BY <2>1, <2>4, <2>5, Zenon
<1> QED
  BY <1>1, OutcomeInvariant, PTL

-----------------------------------------------------------------------------
(* 4. No pulse into a packet.                                              *)

\* Except in the two calls that take time everything that arrived was read; what
\* flows is due no later than MaxGap after the bytes before it were read.
LineInv ==
  /\ \E script \in Scripts : stream = script.bytes /\ chunks = script.chunks
  /\ came \in 0..Len(chunks) /\ seen \in 0..came
  /\ pc \notin {"pulse", "read", "returned"} => seen = came
  /\ seen > 0 => seen \in 1..Len(chunks) /\ fed = chunks[seen].upto
  /\ came > 0 /\ Flows(came + 1) =>
       /\ flow_by \in Int
       /\ now <= flow_by
       /\ seen = came => flow_by <= last_byte + MaxGap
       /\ seen # came => flow_by <= now + MaxGap

LEMMA ScriptIs ==
  ASSUME LineInv
  PROVE  /\ Len(chunks) \in Nat
         /\ \A k \in 2..Len(chunks) : chunks[k].flows => UnderWay(stream, chunks[k - 1].upto)
<1>1. PICK script \in Scripts : stream = script.bytes /\ chunks = script.chunks
  BY DEF LineInv
<1>2. /\ script.chunks \in Seq([upto : 1..Len(script.bytes), flows : BOOLEAN])
      /\ \A k \in 2..Len(script.chunks) :
           script.chunks[k].flows => UnderWay(script.bytes, script.chunks[k - 1].upto)
  BY ScriptsAssumption
<1> QED
  BY <1>1, <1>2

LEMMA LineInvInit == HsInit => LineInv
<1> SUFFICES ASSUME HsInit  PROVE LineInv
  OBVIOUS
<1>1. PICK script \in Scripts : stream = script.bytes /\ chunks = script.chunks
  BY DEF HsInit
<1>2. script.chunks \in Seq([upto : 1..Len(script.bytes), flows : BOOLEAN])
  BY ScriptsAssumption
<1>3. Len(chunks) \in Nat
  BY <1>1, <1>2
<1> QED
  BY <1>1, <1>3 DEF HsInit, LineInv

LEMMA LineInvNext ==
  ASSUME LineInv, TimeInv, [HsNext]_hs_vars
  PROVE  LineInv'
<1> USE TimesAssumption
<1>1. Len(chunks) \in Nat /\ now \in Nat /\ last_byte \in Nat
  BY ScriptIs DEF TimeInv
<1>2. CASE Tune \/ TopPulses \/ TopReads \/ ReadNothing \/ PulseIsOut \/ TopGivesUp \/ Drain \/ Collect \/ IoFails
  <2>1. UNCHANGED <<stream, fed, chunks, came, seen, flow_by, now, last_byte>>
    BY <1>2 DEF Tune, TopPulses, TopReads, ReadNothing, PulseIsOut, TopGivesUp, Drain, Collect, IoFails,
                NextFrame, TakeDiscarded, vars, line_vars
  <2>2. pc' \notin {"pulse", "read", "returned"} => seen = came
    <3>1. CASE Tune \/ Drain \/ Collect
      BY <3>1 DEF Tune, Drain, Collect, LineInv
    <3>2. CASE ReadNothing
      BY <3>2 DEF ReadNothing, Waiting, LineInv
    <3>3. CASE TopPulses \/ TopReads \/ PulseIsOut \/ TopGivesUp \/ IoFails
      BY <3>3 DEF TopPulses, TopReads, PulseIsOut, TopGivesUp, IoFails, Call, Return
    <3> QED  BY <1>2, <3>1, <3>2, <3>3
  <2> QED  BY <2>1, <2>2 DEF LineInv, Flows
<1>3. CASE ReadSome
  <2>1. /\ seen' = came /\ fed' = chunks[came].upto /\ last_byte' = now /\ came > seen
        /\ UNCHANGED <<stream, chunks, came, flow_by, now>>
    BY <1>3 DEF ReadSome, ReadAll, Feed, Waiting, line_vars
  <2>2. came \in 1..Len(chunks)
    BY <2>1 DEF LineInv
  <2> QED  BY <1>1, <2>1, <2>2 DEF LineInv, Flows
<1>4. CASE Arrive
  <2>1. /\ came' = came + 1 /\ came < Len(chunks) /\ pc \in {"pulse", "read"} /\ pc' = pc
        /\ flow_by' = IF Flows(came + 2) THEN now + MaxGap ELSE 0
        /\ UNCHANGED <<stream, fed, chunks, seen, now, last_byte>>
    BY <1>4 DEF Arrive, vars, host_vars
  <2>2. /\ came' \in 0..Len(chunks) /\ seen \in 0..came' /\ seen # came'
        /\ (came' + 1 = came + 2)
    BY <1>1, <2>1 DEF LineInv
  <2>3. Flows(came + 2) => flow_by' \in Int /\ now <= flow_by' /\ flow_by' <= now + MaxGap
    BY <1>1, <2>1
  <2>4. Flows(came + 1)' => Flows(came + 2)
    BY <2>1, <2>2 DEF Flows
  <2> QED  BY <2>1, <2>2, <2>3, <2>4 DEF LineInv
<1>5. CASE Tick
  <2>1. /\ Flows(came + 1) => now < flow_by
        /\ now' = now + 1
        /\ UNCHANGED <<stream, fed, chunks, came, seen, flow_by, last_byte, pc>>
    BY <1>5 DEF Tick, vars, line_vars
  <2> QED  BY <1>1, <2>1 DEF LineInv, Flows
<1>6. CASE UNCHANGED hs_vars
  BY <1>6 DEF hs_vars, host_vars, line_vars, vars, LineInv, Flows
<1> QED
  BY <1>2, <1>3, <1>4, <1>5, <1>6 DEF HsNext, Host

\* For every line whose flowing chunks go on with something under way, whatever
\* came before it: once its beginning was read, no pulse goes out until the rest
\* is in (driver.rs 172-193).
THEOREM PacketsAreLeftAlone == HsSpec => NoPulseIntoAPacket
<1>1. ASSUME LineInv, TimeInv, HoldInv, ReceiverInv, TopPulses
      PROVE  ~(seen > 0 /\ Flows(seen + 1))
  <2> SUFFICES ASSUME seen > 0, Flows(seen + 1)  PROVE FALSE
    OBVIOUS
  <2>1. pc = "top" /\ ~(buf # <<>> /\ now - last_byte < PartialStall)
    BY <1>1 DEF TopPulses, MidFrame
  <2>2. seen = came /\ came \in Nat /\ now <= flow_by /\ flow_by <= last_byte + MaxGap /\ flow_by \in Int
    BY <1>1, <2>1 DEF LineInv
  <2>3. now - last_byte < PartialStall
    BY <1>1, <2>2, TimesAssumption DEF TimeInv
  <2>4. UnderWay(stream, fed)
    <3>1. seen + 1 \in 2..Len(chunks) /\ chunks[seen + 1].flows /\ (seen + 1) - 1 = seen
      BY <1>1, <2>2, ScriptIs DEF Flows
    <3>2. UnderWay(stream, chunks[(seen + 1) - 1].upto)
      BY <1>1, <3>1, ScriptIs
    <3>3. fed = chunks[seen].upto
      BY <1>1 DEF LineInv
    <3> QED  BY <3>1, <3>2, <3>3
  <2>5. PICK a \in 0..(fed - 1) : fed - Len(buf) <= a
    BY <1>1, <2>4 DEF UnderWay, HoldInv
  <2>6. buf # <<>>
    <3>1. fed \in Nat /\ a < fed
      BY <1>1, <2>5 DEF ReceiverInv
    <3> QED  BY <2>5, <3>1
  <2> QED  BY <2>1, <2>3, <2>6
<1>2. LineInv /\ TimeInv /\ HoldInv /\ ReceiverInv =>
        [TopPulses => ~(seen > 0 /\ Flows(seen + 1))]_hs_vars
  BY <1>1
<1>3. LineInv /\ TimeInv /\ [HsNext]_hs_vars => LineInv'
  BY LineInvNext
<1> QED
  BY <1>2, <1>3, LineInvInit, TimersHold, HsImplementsReceiver, Holds, ReceiverInvariant,
     PTL DEF HsSpec, NoPulseIntoAPacket
=============================================================================
