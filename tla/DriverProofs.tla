----------------------------- MODULE DriverProofs -----------------------------
(***************************************************************************)
(* The driver is a session's caller, one that never talks over the chip    *)
(* and never counts as answered what the chip has not carried out: for     *)
(* every set of plans, any number of blocks, faults and disturbances, and  *)
(* whatever fails.                                                         *)
(*                                                                         *)
(* Frames in the queues do not say what they answer.  What makes the next  *)
(* one the answer to the step in hand is that there is at most one that a  *)
(* step could take, and only once the chip has carried that step out.      *)
(* RunInv says so for each place run() may be in; while it is between two  *)
(* steps there is none.                                                    *)
(***************************************************************************)
EXTENDS Driver, SessionProofs, FiniteSetTheorems

(* Sequences of items of any kind.                                         *)
IsSeq(s) == Len(s) \in Nat /\ s = [k \in 1..Len(s) |-> s[k]]

\* t is s without its first m items.
Suffix(t, s, m) == /\ IsSeq(t)
                   /\ m \in 0..Len(s)
                   /\ Len(t) = Len(s) - m
                   /\ \A k \in 1..Len(t) : t[k] = s[k + m]

LEMMA SeqOfItems == ASSUME NEW s, IsSeq(s)  PROVE s \in Seq({s[k] : k \in 1..Len(s)})
<1> DEFINE S == {s[k] : k \in 1..Len(s)}
<1>1. s \in [1..Len(s) -> S]
  BY DEF IsSeq
<1>2. Len(s) \in Nat
  BY DEF IsSeq
<1> HIDE DEF S
<1> QED
  BY <1>1, <1>2, SeqDef

LEMMA IsSeqOf == ASSUME NEW S, NEW s \in Seq(S)  PROVE IsSeq(s)
BY LenProperties DEF IsSeq

LEMMA MapSeq == ASSUME NEW n \in Nat, NEW s, s = [k \in 1..n |-> s[k]]  PROVE IsSeq(s) /\ Len(s) = n
<1> DEFINE S == {s[k] : k \in 1..n}
<1>1. s \in [1..n -> S]
  OBVIOUS
<1> HIDE DEF S
<1>2. s \in Seq(S)
  BY <1>1, SeqDef
<1>3. Len(s) \in Nat /\ DOMAIN s = 1..Len(s) /\ DOMAIN s = 1..n
  BY <1>1, <1>2, LenProperties
<1>4. Len(s) = n
  BY <1>3
<1> QED
  BY <1>2, <1>4, IsSeqOf

LEMMA AppendSeq ==
  ASSUME NEW s, NEW e, IsSeq(s)
  PROVE  /\ IsSeq(Append(s, e))
         /\ Len(Append(s, e)) = Len(s) + 1
         /\ \A k \in 1..(Len(s) + 1) : Append(s, e)[k] = IF k = Len(s) + 1 THEN e ELSE s[k]
<1> DEFINE S == {s[k] : k \in 1..Len(s)} \cup {e}
<1>1. s \in Seq(S) /\ e \in S
  <2>1. s \in [1..Len(s) -> S]
    BY DEF IsSeq
  <2>2. Len(s) \in Nat
    BY DEF IsSeq
  <2> HIDE DEF S
  <2>3. s \in Seq(S)
    BY <2>1, <2>2, SeqDef
  <2> QED
    BY <2>3 DEF S
<1> HIDE DEF S
<1>2. Append(s, e) \in Seq(S) /\ Len(Append(s, e)) = Len(s) + 1
  BY <1>1, AppendProperties
<1>3. Len(s) \in Nat /\ \A k \in 1..Len(s) : Append(s, e)[k] = s[k]
  BY <1>1, AppendProperties
<1>4. Append(s, e)[Len(s) + 1] = e
  BY <1>1, AppendProperties
<1>5. IsSeq(Append(s, e))
  BY <1>2, IsSeqOf
<1> QED
  BY <1>2, <1>3, <1>4, <1>5

LEMMA SuffixSeq ==
  ASSUME NEW s, IsSeq(s), NEW m \in 0..Len(s)
  PROVE  Suffix(SubSeq(s, m + 1, Len(s)), s, m)
<1> DEFINE S == {s[k] : k \in 1..Len(s)}
           t == SubSeq(s, m + 1, Len(s))
<1>1. s \in Seq(S) /\ Len(s) \in Nat
  BY SeqOfItems DEF IsSeq
<1> HIDE DEF S
<1>2. t \in Seq(S) /\ Len(t) = Len(s) - m /\ \A k \in 1..Len(t) : t[k] = s[k + m]
  <2>1. \A i \in (m + 1)..Len(s) : s[i] \in S
    BY <1>1, ElementOfSeq
  <2>2. m + 1 \in 1..(Len(s) + 1) /\ Len(s) \in m..Len(s)
    BY <1>1
  <2> QED
    BY <1>1, <2>1, <2>2, SubSeqProperties
<1> QED
  BY <1>2, IsSeqOf DEF Suffix

LEMMA PrefixSeq ==
  ASSUME NEW s, IsSeq(s), NEW m \in 0..Len(s)
  PROVE  /\ IsSeq(SubSeq(s, 1, m))
         /\ Len(SubSeq(s, 1, m)) = m
         /\ \A k \in 1..m : SubSeq(s, 1, m)[k] = s[k]
<1> DEFINE S == {s[k] : k \in 1..Len(s)}
           t == SubSeq(s, 1, m)
<1>1. s \in Seq(S) /\ Len(s) \in Nat
  BY SeqOfItems DEF IsSeq
<1> HIDE DEF S
<1>2. t \in Seq(S) /\ Len(t) = m /\ \A k \in 1..m : t[k] = s[k]
  <2>1. \A i \in 1..m : s[i] \in S
    BY <1>1, ElementOfSeq
  <2> QED
    BY <1>1, <2>1, SubSeqProperties
<1> QED
  BY <1>2, IsSeqOf

LEMMA ConcatSeq ==
  ASSUME NEW s, IsSeq(s), NEW t, IsSeq(t)
  PROVE  /\ IsSeq(s \o t)
         /\ Len(s \o t) = Len(s) + Len(t)
         /\ \A k \in 1..(Len(s) + Len(t)) :
              (s \o t)[k] = IF k <= Len(s) THEN s[k] ELSE t[k - Len(s)]
<1> DEFINE S == {s[k] : k \in 1..Len(s)} \cup {t[k] : k \in 1..Len(t)}
<1>1. s \in Seq(S) /\ t \in Seq(S)
  <2>1. s \in [1..Len(s) -> S] /\ t \in [1..Len(t) -> S]
    BY DEF IsSeq
  <2>2. Len(s) \in Nat /\ Len(t) \in Nat
    BY DEF IsSeq
  <2> HIDE DEF S
  <2> QED
    BY <2>1, <2>2, SeqDef
<1> HIDE DEF S
<1>2. s \o t \in Seq(S)
  BY <1>1, ConcatProperties
<1> QED
  BY <1>1, <1>2, ConcatProperties, IsSeqOf

LEMMA TailSeq == ASSUME NEW s, IsSeq(s), s # <<>>  PROVE Suffix(Tail(s), s, 1)
<1> DEFINE S == {s[k] : k \in 1..Len(s)}
<1>1. s \in Seq(S) /\ Len(s) \in Nat
  BY SeqOfItems DEF IsSeq
<1> HIDE DEF S
<1>2. /\ Tail(s) \in Seq(S) /\ Len(Tail(s)) = Len(s) - 1 /\ Len(s) # 0
      /\ \A i \in 1..Len(Tail(s)) : Tail(s)[i] = s[i + 1]
  BY <1>1, HeadTailProperties, EmptySeq
<1>3. IsSeq(Tail(s))
  BY <1>2, IsSeqOf
<1> QED
  BY <1>1, <1>2, <1>3 DEF Suffix

LEMMA EmptyIsSeq == IsSeq(<<>>) /\ Len(<<>>) = 0
BY DEF IsSeq

LEMMA AppendToNone ==
  ASSUME NEW e
  PROVE  IsSeq(Append(<<>>, e)) /\ Len(Append(<<>>, e)) = 1 /\ Append(<<>>, e)[1] = e
<1>1. IsSeq(Append(<<>>, e)) /\ Len(Append(<<>>, e)) = Len(<<>>) + 1
      /\ \A k \in 1..(Len(<<>>) + 1) : Append(<<>>, e)[k] = IF k = Len(<<>>) + 1 THEN e ELSE <<>>[k]
  BY EmptyIsSeq, AppendSeq
<1>2. Len(<<>>) = 0
  BY EmptyIsSeq
<1> QED
  BY <1>1, <1>2

LEMMA NoItems == ASSUME NEW s, IsSeq(s)  PROVE s = <<>> <=> Len(s) = 0
<1>1. s \in Seq({s[k] : k \in 1..Len(s)})
  BY SeqOfItems
<1> QED
  BY <1>1, EmptySeq

\* What the receiver holds is a tail end of what it was fed.
LEMMA HeldIsSuffix == ASSUME NEW s, IsSeq(s)  PROVE \E m \in 0..Len(s) : Suffix(Held(s), s, m)
<1> DEFINE N == {k \in 1..Len(s) : \A j \in 1..k : s[j].kind = "noise"}
           m == Cardinality(N)
<1>1. Len(s) \in Nat
  BY DEF IsSeq
<1>2. IsFiniteSet(1..Len(s)) /\ Cardinality(1..Len(s)) = Len(s)
  <2>1. \A n \in Nat : IsFiniteSet(1..n) /\ Cardinality(1..n) = n
    <3>1. \A n \in Nat : Cardinality(1..n) = IF 1 > n THEN 0 ELSE n - 1 + 1
      BY FS_Interval
    <3> QED
      BY <3>1, FS_Interval
  <2> QED
    BY <1>1, <2>1
<1>3. IsFiniteSet(N) /\ m \in Nat /\ m <= Len(s)
  <2>1. N \subseteq 1..Len(s)
    OBVIOUS
  <2> HIDE DEF N
  <2> QED
    BY <1>2, <2>1, FS_Subset, FS_CardinalityType
<1>4. Held(s) = SubSeq(s, m + 1, Len(s))
  BY DEF Held
<1> HIDE DEF N, m
<1>5. m \in 0..Len(s)
  BY <1>1, <1>3
<1> QED
  BY <1>4, <1>5, SuffixSeq

-----------------------------------------------------------------------------
(* The invariant.                                                          *)

\* A frame that some step could take for its reply.
CouldAnswer(x)  == x.kind = "frame" /\ ~Foreign(x.frame)
AnswerIn(items) == \E k \in 1..Len(items) : CouldAnswer(items[k])
AtMostOneIn(items) ==
  \A j, k \in 1..Len(items) : CouldAnswer(items[j]) /\ CouldAnswer(items[k]) => j = k

KnownFrames(items) == \A k \in 1..Len(items) : items[k].kind = "frame" => items[k].frame \in Replies

QueuesInv ==
  /\ IsSeq(rx) /\ KnownFrames(rx)
  /\ IsSeq(inq) /\ KnownFrames(inq)
  /\ answer # NoAnswer => answer[1] \in Replies

\* At most one request is on its way out: the first the chip has not carried out.
TxInv ==
  /\ IsSeq(tx) /\ Len(tx) <= 1
  /\ Len(tx) = 1 => /\ tx[1] = [frame |-> tx[1].frame, step |-> tx[1].step,
                                baud |-> tx[1].baud, cut |-> tx[1].cut]
                    /\ tx[1].step = Len(executed) + 1
                    /\ tx[1].step \in 1..Len(steps)
                    /\ tx[1].frame = steps[tx[1].step].frame

HistoryInv ==
  /\ executed \in Seq(Nat)
  /\ \A k \in 1..Len(executed) : executed[k] = k
  /\ \A i \in 1..Len(steps) : Answered(i) => i <= Len(executed)

NoneToCome == answer = NoAnswer /\ ~AnswerIn(rx) /\ ~AnswerIn(inq)
Quiet      == tx = <<>> /\ NoneToCome

OneToCome ==
  /\ AtMostOneIn(rx) /\ AtMostOneIn(inq)
  /\ ~(AnswerIn(rx) /\ AnswerIn(inq))
  /\ AnswerIn(rx) \/ AnswerIn(inq) => answer = NoAnswer

\* The step in hand is on its way, or lost, or carried out.
Exchange ==
  \/ Len(executed) = cur - 1 /\ NoneToCome
  \/ Len(executed) = cur /\ tx = <<>> /\ OneToCome

Places == {"next", "drop", "write", "drain", "switch", "look", "read", "done", "failed"}

PlaceInv ==
  /\ pc \in Places
  /\ pc \in {"drop", "write", "drain", "switch", "look", "read"} =>
       /\ cur = Len(sent) /\ cur \in 1..Len(steps)
       /\ awaiting <=> ExpectsReply(steps[cur])
  /\ pc \in {"look", "read"} => awaiting
  /\ pc = "next" => ~awaiting /\ (at < Len(steps) => Quiet /\ Len(executed) = at)
  /\ pc \in {"drop", "write"} => Quiet /\ Len(executed) = cur - 1
  /\ pc \in {"drain", "switch", "look", "read"} /\ awaiting => Exchange

RunInv == Inv /\ QueuesInv /\ TxInv /\ HistoryInv /\ PlaceInv
-----------------------------------------------------------------------------
(* Queues that lose their front, or gain an item.                          *)

LEMMA SuffixKeeps ==
  ASSUME NEW s, NEW t, NEW m, IsSeq(s), Suffix(t, s, m)
  PROVE  /\ IsSeq(t)
         /\ KnownFrames(s) => KnownFrames(t)
         /\ AnswerIn(t) => AnswerIn(s)
         /\ AtMostOneIn(s) => AtMostOneIn(t)
<1>1. /\ Len(s) \in Nat /\ Len(t) \in Nat /\ m \in Nat /\ Len(t) = Len(s) - m
      /\ \A k \in 1..Len(t) : k + m \in 1..Len(s) /\ t[k] = s[k + m]
  BY DEF IsSeq, Suffix
<1>2. IsSeq(t)
  BY DEF Suffix
<1>3. KnownFrames(s) => KnownFrames(t)
  BY <1>1 DEF KnownFrames
<1>4. AnswerIn(t) => AnswerIn(s)
  BY <1>1 DEF AnswerIn
<1>5. ASSUME AtMostOneIn(s)  PROVE AtMostOneIn(t)
  <2>1. ASSUME NEW j \in 1..Len(t), NEW k \in 1..Len(t), CouldAnswer(t[j]), CouldAnswer(t[k])
        PROVE  j = k
    <3>1. j + m = k + m
      BY <1>1, <1>5, <2>1 DEF AtMostOneIn
    <3> QED
      BY <1>1, <3>1
  <2> QED
    BY <2>1 DEF AtMostOneIn
<1> QED
  BY <1>2, <1>3, <1>4, <1>5

\* If the first item of s is the only one a step could take, none is left behind it.
LEMMA SuffixBehind ==
  ASSUME NEW s, NEW t, NEW m, IsSeq(s), Suffix(t, s, m), AtMostOneIn(s),
         NEW k \in 1..m, CouldAnswer(s[k])
  PROVE  ~AnswerIn(t)
<1>1. /\ Len(s) \in Nat /\ Len(t) \in Nat /\ m \in Nat /\ m <= Len(s)
      /\ \A i \in 1..Len(t) : i + m \in 1..Len(s) /\ t[i] = s[i + m] /\ i + m # k
  BY DEF IsSeq, Suffix
<1>2. k \in 1..Len(s)
  BY <1>1
<1> QED
  BY <1>1, <1>2 DEF AnswerIn, AtMostOneIn

LEMMA AppendKeeps ==
  ASSUME NEW s, NEW e, IsSeq(s)
  PROVE  /\ IsSeq(Append(s, e))
         /\ KnownFrames(s) /\ (e.kind = "frame" => e.frame \in Replies) => KnownFrames(Append(s, e))
         /\ ~AnswerIn(s) => AtMostOneIn(Append(s, e))
         /\ AtMostOneIn(s) /\ e.kind # "frame" => AtMostOneIn(Append(s, e))
         /\ AnswerIn(Append(s, e)) /\ e.kind # "frame" => AnswerIn(s)
<1> DEFINE t == Append(s, e)
<1>1. /\ Len(s) \in Nat /\ IsSeq(t) /\ Len(t) = Len(s) + 1
      /\ \A k \in 1..Len(t) : t[k] = IF k = Len(s) + 1 THEN e ELSE s[k]
  BY AppendSeq DEF IsSeq
<1> HIDE DEF t
<1>2. \A k \in 1..Len(t) : k = Len(s) + 1 \/ k \in 1..Len(s)
  BY <1>1
<1>3. KnownFrames(s) /\ (e.kind = "frame" => e.frame \in Replies) => KnownFrames(t)
  BY <1>1, <1>2 DEF KnownFrames
<1>4. ~AnswerIn(s) => AtMostOneIn(t)
  BY <1>1, <1>2 DEF AnswerIn, AtMostOneIn
<1>5. AtMostOneIn(s) /\ e.kind # "frame" => AtMostOneIn(t)
  BY <1>1, <1>2 DEF AtMostOneIn, CouldAnswer
<1>6. AnswerIn(t) /\ e.kind # "frame" => AnswerIn(s)
  BY <1>1, <1>2 DEF AnswerIn, CouldAnswer
<1> QED
  BY <1>1, <1>3, <1>4, <1>5, <1>6 DEF t

\* The driver's read moves the first n items of the queue behind those it holds.
LEMMA ReadKeeps ==
  ASSUME NEW s, NEW q, IsSeq(s), IsSeq(q), NEW n \in 0..Len(q)
  PROVE  LET t == s \o SubSeq(q, 1, n)
             u == SubSeq(q, n + 1, Len(q))
         IN  /\ IsSeq(t) /\ IsSeq(u)
             /\ KnownFrames(s) /\ KnownFrames(q) => KnownFrames(t) /\ KnownFrames(u)
             /\ AnswerIn(t) => AnswerIn(s) \/ AnswerIn(q)
             /\ AnswerIn(u) => AnswerIn(q)
             /\ AtMostOneIn(s) /\ AtMostOneIn(q) /\ ~(AnswerIn(s) /\ AnswerIn(q)) =>
                  AtMostOneIn(t) /\ AtMostOneIn(u) /\ ~(AnswerIn(t) /\ AnswerIn(u))
<1> DEFINE p == SubSeq(q, 1, n)
           t == s \o p
           u == SubSeq(q, n + 1, Len(q))
<1>1. Len(s) \in Nat /\ Len(q) \in Nat /\ n \in Nat /\ n <= Len(q)
  BY DEF IsSeq
<1>2. IsSeq(p) /\ Len(p) = n /\ \A k \in 1..n : p[k] = q[k]
  BY PrefixSeq
<1>3. Suffix(u, q, n)
  BY SuffixSeq
<1> HIDE DEF p, u
<1>4. IsSeq(t) /\ Len(t) = Len(s) + n
      /\ \A k \in 1..(Len(s) + n) : t[k] = IF k <= Len(s) THEN s[k] ELSE p[k - Len(s)]
  BY <1>2, ConcatSeq
<1> HIDE DEF t
<1>5. \A k \in 1..Len(t) : \/ k \in 1..Len(s) /\ t[k] = s[k]
                           \/ k - Len(s) \in 1..n /\ k - Len(s) \in 1..Len(q) /\ t[k] = q[k - Len(s)]
  BY <1>1, <1>2, <1>4
<1>6. KnownFrames(s) /\ KnownFrames(q) => KnownFrames(t) /\ KnownFrames(u)
  BY <1>3, <1>5, SuffixKeeps DEF KnownFrames
<1>7. AnswerIn(t) => AnswerIn(s) \/ AnswerIn(q)
  BY <1>5 DEF AnswerIn
<1>8. ASSUME AtMostOneIn(s), AtMostOneIn(q), ~(AnswerIn(s) /\ AnswerIn(q))
      PROVE  AtMostOneIn(t) /\ AtMostOneIn(u) /\ ~(AnswerIn(t) /\ AnswerIn(u))
  <2>1. ASSUME NEW j \in 1..Len(t), NEW k \in 1..Len(t), CouldAnswer(t[j]), CouldAnswer(t[k])
        PROVE  j = k
    <3>1. CASE j \in 1..Len(s) /\ t[j] = s[j] /\ k \in 1..Len(s) /\ t[k] = s[k]
      BY <1>8, <2>1, <3>1 DEF AtMostOneIn
    <3>2. CASE /\ j - Len(s) \in 1..Len(q) /\ t[j] = q[j - Len(s)]
               /\ k - Len(s) \in 1..Len(q) /\ t[k] = q[k - Len(s)]
      <4>1. j - Len(s) = k - Len(s)
        BY <1>8, <2>1, <3>2 DEF AtMostOneIn
      <4> QED
        BY <1>1, <1>4, <4>1
    <3>3. CASE AnswerIn(s) /\ AnswerIn(q)
      BY <1>8, <3>3
    <3> QED
      BY <1>5, <2>1, <3>1, <3>2, <3>3 DEF AnswerIn
  <2>2. ASSUME AnswerIn(t), AnswerIn(u)  PROVE FALSE
    <3>1. PICK j \in 1..Len(u) : CouldAnswer(u[j])
      BY <2>2 DEF AnswerIn
    <3>2. u[j] = q[j + n] /\ j + n \in 1..Len(q) /\ j \in Nat /\ j > 0
      BY <1>1, <1>3 DEF Suffix, IsSeq
    <3>3. AnswerIn(q) /\ ~AnswerIn(s)
      BY <1>8, <3>1, <3>2 DEF AnswerIn
    <3>4. PICK k \in 1..Len(t) : CouldAnswer(t[k])
      BY <2>2 DEF AnswerIn
    <3>5. k - Len(s) \in 1..n /\ k - Len(s) \in 1..Len(q) /\ t[k] = q[k - Len(s)]
      BY <1>5, <3>3, <3>4 DEF AnswerIn
    <3>6. k - Len(s) = j + n
      BY <1>8, <3>1, <3>2, <3>4, <3>5 DEF AtMostOneIn
    <3> QED
      BY <1>1, <3>2, <3>5, <3>6
  <2>3. AtMostOneIn(t)
    BY <2>1 DEF AtMostOneIn
  <2>4. AtMostOneIn(u)
    BY <1>3, <1>8, SuffixKeeps
  <2> QED
    BY <2>2, <2>3, <2>4
<1>9. IsSeq(u) /\ (AnswerIn(u) => AnswerIn(q))
  BY <1>3, SuffixKeeps
<1> QED
  BY <1>4, <1>6, <1>7, <1>8, <1>9 DEF t, u, p
-----------------------------------------------------------------------------
(* The invariant holds at the start and in every step.                     *)

LEMMA PlanFacts ==
  ASSUME Inv
  PROVE  /\ steps \in Plans /\ Len(steps) \in Nat /\ at \in Nat /\ at <= Len(steps)
         /\ Len(sent) = IF awaiting THEN at + 1 ELSE at
         /\ awaiting => at < Len(steps) /\ ExpectsReply(steps[at + 1])
         /\ \A i \in 1..Len(steps) : ExpectsReply(steps[i]) \/ i = Len(steps)
BY PlansAssumption, RunPlansAssumption DEF Inv, TypeOK, CursorInv

LEMMA RunInitInv == RunInit => RunInv
<1> SUFFICES ASSUME RunInit  PROVE RunInv
  OBVIOUS
<1>1. /\ Init /\ pc = "next" /\ rx = <<>> /\ tx = <<>> /\ answer = NoAnswer
      /\ executed = <<>> /\ inq \in Leftovers
  BY DEF RunInit, BslInit
<1>2. Inv
  BY <1>1, InitInv
<1>3. /\ IsSeq(inq)
      /\ \A k \in 1..Len(inq) :
           inq[k].kind = "frame" => inq[k].frame \in Replies /\ Foreign(inq[k].frame)
  BY <1>1, LeftoversAssumption DEF IsSeq
<1>4. KnownFrames(inq) /\ ~AnswerIn(inq)
  BY <1>3 DEF KnownFrames, AnswerIn, CouldAnswer
<1>5. IsSeq(rx) /\ Len(rx) = 0 /\ IsSeq(tx) /\ Len(tx) = 0 /\ KnownFrames(rx) /\ ~AnswerIn(rx)
  BY <1>1, EmptyIsSeq DEF KnownFrames, AnswerIn
<1>6. QueuesInv
  BY <1>1, <1>3, <1>4, <1>5 DEF QueuesInv
<1>7. TxInv
  BY <1>5 DEF TxInv
<1>8. HistoryInv
  <2>1. executed \in Seq(Nat) /\ Len(executed) = 0
    BY <1>1, EmptySeq
  <2>2. \A i \in 1..Len(steps) : ~Answered(i)
    BY <1>1 DEF Init, Answered
  <2> QED
    BY <2>1, <2>2 DEF HistoryInv
<1>9. PlaceInv
  <2>1. ~awaiting /\ at = 0 /\ Len(executed) = 0
    BY <1>1 DEF Init
  <2> QED
    BY <1>1, <1>4, <1>5, <2>1 DEF PlaceInv, Places, Quiet, NoneToCome
<1> QED
  BY <1>2, <1>6, <1>7, <1>8, <1>9 DEF RunInv

\* The receiver's next frame, if it has one: known, and the only one a step could
\* take if it is one.
LEMMA ReplyFacts ==
  ASSUME QueuesInv, IsReply(Held(rx))
  PROVE  LET reply == Held(rx)[1].frame
             rest  == Tail(Held(rx))
         IN  /\ reply \in Replies
             /\ IsSeq(rest)
             /\ KnownFrames(rest)
             /\ ~Foreign(reply) => AnswerIn(rx)
             /\ ~Foreign(reply) /\ AtMostOneIn(rx) => ~AnswerIn(rest)
<1> DEFINE h == Held(rx)
           rest == Tail(h)
<1>1. IsSeq(rx) /\ KnownFrames(rx) /\ Len(rx) \in Nat
  BY DEF QueuesInv, IsSeq
<1>2. PICK m \in 0..Len(rx) : Suffix(h, rx, m)
  BY <1>1, HeldIsSuffix
<1>3. h # <<>> /\ h[1].kind = "frame"
  BY DEF IsReply
<1> HIDE DEF h
<1>4. IsSeq(h) /\ Len(h) # 0 /\ KnownFrames(h)
  BY <1>1, <1>2, <1>3, NoItems, SuffixKeeps
<1>5. Suffix(rest, h, 1)
  BY <1>3, <1>4, TailSeq
<1>6. /\ m \in Nat /\ Len(h) \in Nat /\ Len(h) = Len(rx) - m /\ h[1] = rx[m + 1]
      /\ m + 1 \in 1..Len(rx) /\ 1 \in 1..Len(h)
  BY <1>1, <1>2, <1>4 DEF Suffix, IsSeq
<1>7. h[1].frame \in Replies
  BY <1>3, <1>4, <1>6 DEF KnownFrames
<1>8. IsSeq(rest) /\ KnownFrames(rest)
  BY <1>4, <1>5, SuffixKeeps
<1>9. ASSUME ~Foreign(h[1].frame)  PROVE CouldAnswer(h[1])
  BY <1>3, <1>9 DEF CouldAnswer
<1>10. ~Foreign(h[1].frame) => AnswerIn(rx)
  BY <1>6, <1>9 DEF AnswerIn
<1>11. ~Foreign(h[1].frame) /\ AtMostOneIn(rx) => ~AnswerIn(rest)
  <2>1. AtMostOneIn(rx) => AtMostOneIn(h)
    BY <1>1, <1>2, SuffixKeeps
  <2>2. ~Foreign(h[1].frame) /\ AtMostOneIn(h) => ~AnswerIn(rest)
    BY <1>4, <1>5, <1>9, SuffixBehind
  <2> QED
    BY <2>1, <2>2
<1> QED
  BY <1>7, <1>8, <1>10, <1>11 DEF h, rest

\* What run() does to its session are calls of the session.
LEMMA SessionStep == RunInv /\ [RunNext]_all_vars => [Next]_vars
<1> SUFFICES ASSUME RunInv, [RunNext]_all_vars  PROVE [Next]_vars
  OBVIOUS
<1>1. CASE Finished
  BY <1>1 DEF Finished, Next, NextAction
<1>2. CASE Begin
  BY <1>2 DEF Begin, Next, NextAction
<1>3. CASE LookFindsReply
  <2>1. IsReply(Held(rx)) /\ (Accepted(Held(rx)[1].frame) \/ Rejected(Held(rx)[1].frame))
    BY <1>3 DEF LookFindsReply
  <2>2. Held(rx)[1].frame \in Replies
    BY <2>1, ReplyFacts DEF RunInv
  <2> QED
    BY <2>1, <2>2 DEF Next, OnReply
<1>4. CASE RetuneBefore \/ Write \/ DrainAndSettle \/ RetuneAfter \/ LookFindsBadFrame
  BY <1>4 DEF RetuneBefore, Write, DrainAndSettle, RetuneAfter, LookFindsBadFrame
<1>5. CASE LookFindsNothing \/ Read \/ IoFails \/ FlushFails \/ Expire \/ Environment
  BY <1>5 DEF LookFindsNothing, Read, IoFails, FlushFails, Expire, Environment
<1>6. CASE UNCHANGED all_vars
  BY <1>6 DEF all_vars
<1> QED
  BY <1>1, <1>2, <1>3, <1>4, <1>5, <1>6 DEF RunNext, RunStep

\* The line and the chip, between two calls of the host.
LEMMA EnvironmentInv == RunInv /\ Environment => RunInv'
<1> SUFFICES ASSUME RunInv, Environment  PROVE RunInv'
  OBVIOUS
<1>1. UNCHANGED <<vars, driver_vars>> /\ BslNext
  BY DEF Environment
<1>2. /\ UNCHANGED <<steps, at, awaiting, sent, heard, pc, cur, rx>>
      /\ Inv'
  BY <1>1 DEF vars, fields, driver_vars, RunInv, Inv, TypeOK, CursorInv, Answered, IsWrite, LastWrite
<1> HIDE DEF Inv
<1>3. Inv /\ QueuesInv /\ TxInv /\ HistoryInv /\ PlaceInv
  BY DEF RunInv
<1>4. CASE Hear
  <2>1. tx # <<>> /\ tx' = Tail(tx) /\ inq' = inq
    BY <1>4 DEF Hear
  <2>2. Len(tx) = 1 /\ Len(tx') = 0 /\ IsSeq(tx') /\ tx' = <<>>
    <3>1. IsSeq(tx) /\ Len(tx) = 1
      BY <1>3, <2>1, NoItems DEF TxInv, IsSeq
    <3>2. Suffix(tx', tx, 1)
      BY <2>1, <3>1, TailSeq
    <3>3. IsSeq(tx') /\ Len(tx') = 0
      BY <3>1, <3>2 DEF Suffix
    <3> QED
      BY <3>1, <3>3, NoItems
  <2>3. /\ tx[1].step = Len(executed) + 1 /\ tx[1].step \in 1..Len(steps)
        /\ tx[1].frame = steps[tx[1].step].frame
    BY <1>3, <2>2 DEF TxInv
  <2>4. TxInv'
    BY <2>2 DEF TxInv
  <2>5. \/ executed' = executed /\ answer' = answer
        \/ /\ executed' = Append(executed, tx[1].step)
           /\ answer' # NoAnswer => answer'[1] \in Replies
    <3>1. Head(tx) = tx[1]
      BY <1>3, <2>2 DEF TxInv
    <3> DEFINE f == steps[tx[1].step].frame
    <3>2. /\ EchoOf(f) \in Replies /\ McuFrame(ReplyAck, <<>>) \in Replies /\ EraseReply \in Replies
          /\ McuFrame(ReplyAck, <<Checksum(DataOf(f))>>) \in Replies
          /\ McuFrame(ReplyAck, <<(Checksum(DataOf(f)) + 1) % 256>>) \in Replies
      BY <1>3, <2>3, PlanFacts, AnswersAssumption
    <3> HIDE DEF f
    <3>3. CASE UNCHANGED <<chip_vars, executed>>
      BY <3>3 DEF chip_vars
    <3>4. ASSUME answer = NoAnswer, NEW g, g = f,
                 BaudRequest(g) \/ LinkTest(g) \/ Erase(g) \/ Program(g) \/ SetOptions(g) \/ RunApplication(g)
          PROVE  answer' # NoAnswer => answer'[1] \in Replies
      BY <3>2, <3>4 DEF BaudRequest, LinkTest, Erase, Program, SetOptions, RunApplication
    <3>5. \/ UNCHANGED <<chip_vars, executed>>
          \/ /\ answer = NoAnswer
             /\ \/ BaudRequest(f) \/ LinkTest(f) \/ Erase(f)
                \/ Program(f) \/ SetOptions(f) \/ RunApplication(f)
             /\ executed' = Append(executed, tx[1].step)
      BY <1>4, <2>3, <3>1 DEF Hear, f
    <3> QED
      BY <3>3, <3>4, <3>5
  <2>6. QueuesInv'
    <3>1. answer' # NoAnswer => answer'[1] \in Replies
      BY <1>3, <2>5 DEF QueuesInv
    <3> QED
      BY <1>2, <1>3, <2>1, <3>1 DEF QueuesInv
  <2>7. /\ HistoryInv'
        /\ \/ Len(executed') = Len(executed) /\ answer' = answer
           \/ Len(executed') = Len(executed) + 1
    <3>1. executed \in Seq(Nat) /\ Len(executed) \in Nat /\ tx[1].step \in Nat
      BY <1>3, <2>3 DEF HistoryInv
    <3>2. \A i \in 1..Len(steps) : Answered(i)' <=> Answered(i)
      BY <1>2 DEF Answered
    <3>3. CASE executed' = executed /\ answer' = answer
      BY <1>2, <1>3, <3>2, <3>3 DEF HistoryInv
    <3>4. CASE executed' = Append(executed, tx[1].step)
      <4>1. /\ executed' \in Seq(Nat) /\ Len(executed') = Len(executed) + 1
            /\ \A k \in 1..Len(executed') : executed'[k] = k
        BY <1>3, <2>3, <3>1, <3>4 DEF HistoryInv
      <4>2. \A i \in 1..Len(steps') : Answered(i)' => i <= Len(executed')
        BY <1>2, <1>3, <3>1, <3>2, <4>1 DEF HistoryInv
      <4> QED
        BY <4>1, <4>2 DEF HistoryInv
    <3> QED
      BY <2>5, <3>3, <3>4
  <2>8. PlaceInv'
    <3>1. ~Quiet
      BY <2>1 DEF Quiet
    <3>2. ASSUME Exchange, cur \in 1..Len(steps)  PROVE Exchange'
      <4>1. Len(executed) = cur - 1 /\ NoneToCome
        BY <2>1, <3>2 DEF Exchange
      <4>2. CASE Len(executed') = Len(executed) /\ answer' = answer
        BY <1>2, <2>1, <4>1, <4>2 DEF Exchange, NoneToCome
      <4>3. CASE Len(executed') = Len(executed) + 1
        <5>1. ~AnswerIn(rx') /\ ~AnswerIn(inq')
          BY <1>2, <2>1, <4>1 DEF NoneToCome
        <5>2. AtMostOneIn(rx') /\ AtMostOneIn(inq')
          BY <5>1 DEF AtMostOneIn, AnswerIn
        <5>3. OneToCome'
          BY <5>1, <5>2 DEF OneToCome
        <5>4. Len(executed') = cur'
          BY <1>2, <3>2, <4>1, <4>3
        <5> QED
          BY <2>2, <5>3, <5>4 DEF Exchange
      <4> QED
        BY <2>7, <4>2, <4>3
    <3> QED
      BY <1>2, <1>3, <3>1, <3>2 DEF PlaceInv
  <2> QED
    BY <1>2, <2>4, <2>6, <2>7, <2>8 DEF RunInv
<1>5. ASSUME UNCHANGED <<tx, executed>>,
             IsSeq(inq'), KnownFrames(inq'), answer' # NoAnswer => answer'[1] \in Replies,
             NoneToCome => NoneToCome', OneToCome => OneToCome'
      PROVE  RunInv'
  <2>1. QueuesInv'
    BY <1>2, <1>3, <1>5 DEF QueuesInv
  <2>2. TxInv' /\ HistoryInv'
    BY <1>2, <1>3, <1>5 DEF TxInv, HistoryInv, Answered
  <2>3. PlaceInv'
    BY <1>2, <1>3, <1>5 DEF PlaceInv, Quiet, Exchange
  <2> QED
    BY <1>2, <2>1, <2>2, <2>3 DEF RunInv
<1>6. CASE Answer \/ AnswerSpoilt
  <2>1. answer # NoAnswer /\ answer' = NoAnswer /\ UNCHANGED <<tx, executed>>
    BY <1>6 DEF Answer, AnswerSpoilt, AnswerLeaves
  <2>2. \/ inq' = inq
        \/ inq' = Append(inq, FrameItem(answer[1]))
        \/ \E kind \in {"noise", "bad"} : inq' = Append(inq, Junk(kind))
    BY <1>6 DEF Answer, AnswerSpoilt
  <2>3. ASSUME NEW e, inq' = Append(inq, e), e.kind = "frame" => e.frame \in Replies
        PROVE  IsSeq(inq') /\ KnownFrames(inq') /\ (~AnswerIn(inq) => AtMostOneIn(inq'))
    BY <1>3, <2>3, AppendKeeps DEF QueuesInv
  <2>4. ~AnswerIn(inq) => AtMostOneIn(inq)
    BY DEF AnswerIn, AtMostOneIn
  <2>5. IsSeq(inq') /\ KnownFrames(inq') /\ (~AnswerIn(inq) => AtMostOneIn(inq'))
    BY <1>3, <2>1, <2>2, <2>3, <2>4 DEF QueuesInv, FrameItem, Junk
  <2>6. ~NoneToCome
    BY <2>1 DEF NoneToCome
  <2>7. OneToCome => OneToCome'
    BY <1>2, <2>1, <2>5 DEF OneToCome
  <2> QED
    BY <1>5, <2>1, <2>5, <2>6, <2>7
<1>7. CASE PowerLoss
  <2>1. UNCHANGED <<tx, inq, executed>> /\ answer' = NoAnswer
    BY <1>7 DEF PowerLoss, line_vars
  <2>2. NoneToCome => NoneToCome'
    BY <1>2, <2>1 DEF NoneToCome
  <2>3. OneToCome => OneToCome'
    BY <1>2, <2>1 DEF OneToCome
  <2> QED
    BY <1>3, <1>5, <2>1, <2>2, <2>3 DEF QueuesInv
<1>8. CASE Disturb
  <2>1. UNCHANGED <<tx, answer, executed>>
    BY <1>8 DEF Disturb, chip_vars
  <2>2. PICK kind \in {"noise", "bad", "fluke"} : inq' = Append(inq, Junk(kind))
    BY <1>8, BslAssumption DEF Disturb
  <2>3. Junk(kind).kind # "frame"
    BY <2>2 DEF Junk
  <2>4. /\ IsSeq(inq') /\ KnownFrames(inq')
        /\ AnswerIn(inq') => AnswerIn(inq)
        /\ AtMostOneIn(inq) => AtMostOneIn(inq')
    BY <1>3, <2>2, <2>3, AppendKeeps DEF QueuesInv
  <2>5. NoneToCome => NoneToCome'
    BY <1>2, <2>1, <2>4 DEF NoneToCome
  <2>6. OneToCome => OneToCome'
    BY <1>2, <2>1, <2>4 DEF OneToCome
  <2> QED
    BY <1>3, <1>5, <2>1, <2>4, <2>5, <2>6 DEF QueuesInv
<1> QED
  BY <1>1, <1>4, <1>6, <1>7, <1>8 DEF BslNext
\* Skipping noise, and dropping the front of a run that failed its checks.
LEMMA RestFacts ==
  ASSUME QueuesInv, NEW rest, rest = Held(rx) \/ (Held(rx) # <<>> /\ rest = Tail(Held(rx)))
  PROVE  /\ IsSeq(rest) /\ KnownFrames(rest)
         /\ AnswerIn(rest) => AnswerIn(rx)
         /\ AtMostOneIn(rx) => AtMostOneIn(rest)
<1> DEFINE h == Held(rx)
<1>1. IsSeq(rx) /\ KnownFrames(rx)
  BY DEF QueuesInv
<1>2. PICK m \in 0..Len(rx) : Suffix(h, rx, m)
  BY <1>1, HeldIsSuffix
<1>3. rest = h \/ (h # <<>> /\ rest = Tail(h))
  OBVIOUS
<1> HIDE DEF h
<1>4. IsSeq(h) /\ KnownFrames(h) /\ (AnswerIn(h) => AnswerIn(rx)) /\ (AtMostOneIn(rx) => AtMostOneIn(h))
  BY <1>1, <1>2, SuffixKeeps
<1>5. CASE rest = h
  BY <1>4, <1>5
<1>6. CASE h # <<>> /\ rest = Tail(h)
  <2>1. Suffix(rest, h, 1)
    BY <1>4, <1>6, TailSeq
  <2> QED
    BY <1>4, <2>1, SuffixKeeps
<1> QED
  BY <1>3, <1>5, <1>6

\* A retune empties the receiver and marks what is still on its way out.
LEMMA SetBaudFacts ==
  ASSUME QueuesInv, TxInv, NEW baud, SetBaud(baud), UNCHANGED steps
  PROVE  /\ QueuesInv' /\ TxInv' /\ UNCHANGED <<answer, executed>>
         /\ tx = <<>> => tx' = <<>>
         /\ NoneToCome => NoneToCome'
         /\ OneToCome => OneToCome'
<1>1. /\ rx' = <<>> /\ UNCHANGED <<inq, answer, executed>>
      /\ tx' = [k \in 1..Len(tx) |-> [tx[k] EXCEPT !.cut = TRUE]]
  BY DEF SetBaud, chip_vars
<1>2. IsSeq(rx') /\ Len(rx') = 0
  BY <1>1, EmptyIsSeq
<1>3. KnownFrames(rx') /\ ~AnswerIn(rx') /\ AtMostOneIn(rx')
  BY <1>2 DEF KnownFrames, AnswerIn, AtMostOneIn
<1>4. QueuesInv'
  BY <1>1, <1>2, <1>3 DEF QueuesInv
<1>5. IsSeq(tx') /\ Len(tx') = Len(tx) /\ \A k \in 1..Len(tx) : tx'[k] = [tx[k] EXCEPT !.cut = TRUE]
  <2>1. Len(tx) \in Nat
    BY DEF TxInv, IsSeq
  <2>2. tx' = [k \in 1..Len(tx) |-> tx'[k]] /\ \A k \in 1..Len(tx) : tx'[k] = [tx[k] EXCEPT !.cut = TRUE]
    BY <1>1
  <2> QED
    BY <2>1, <2>2, MapSeq
<1>6. TxInv'
  <2>1. ASSUME Len(tx') = 1
        PROVE  /\ tx'[1] = [frame |-> tx'[1].frame, step |-> tx'[1].step,
                            baud |-> tx'[1].baud, cut |-> tx'[1].cut]
               /\ tx'[1].step = tx[1].step /\ tx'[1].frame = tx[1].frame
    BY <1>5, <2>1 DEF TxInv
  <2> QED
    BY <1>1, <1>5, <2>1 DEF TxInv
<1>7. tx = <<>> => tx' = <<>>
  BY <1>5, NoItems DEF TxInv
<1>8. NoneToCome => NoneToCome'
  BY <1>1, <1>3 DEF NoneToCome
<1>9. OneToCome => OneToCome'
  BY <1>1, <1>3 DEF OneToCome
<1> QED
  BY <1>1, <1>4, <1>6, <1>7, <1>8, <1>9

\* The frame in hand is handed to the adapter while nothing else is under way.
LEMMA PutFacts ==
  ASSUME RunInv, Put, pc = "write", UNCHANGED <<steps, rx>>
  PROVE  /\ UNCHANGED <<inq, answer, executed>>
         /\ QueuesInv' /\ TxInv' /\ NoneToCome'
         /\ tx'[1] = [frame |-> steps[cur].frame, step |-> cur, baud |-> line_baud, cut |-> FALSE]
<1>1. /\ QueuesInv /\ TxInv /\ HistoryInv
      /\ tx = <<>> /\ NoneToCome /\ Len(executed) = cur - 1 /\ cur \in 1..Len(steps)
  BY DEF RunInv, PlaceInv, Quiet
<1>2. /\ UNCHANGED <<inq, answer, executed>>
      /\ tx' = Append(tx, [frame |-> steps[cur].frame, step |-> cur, baud |-> line_baud, cut |-> FALSE])
  BY DEF Put, chip_vars, StepInHand
<1>3. /\ IsSeq(tx') /\ Len(tx') = 1
      /\ tx'[1] = [frame |-> steps[cur].frame, step |-> cur, baud |-> line_baud, cut |-> FALSE]
  <2> DEFINE e == [frame |-> steps[cur].frame, step |-> cur, baud |-> line_baud, cut |-> FALSE]
  <2>1. tx' = Append(<<>>, e)
    BY <1>1, <1>2
  <2> HIDE DEF e
  <2>2. IsSeq(tx') /\ Len(tx') = 1 /\ tx'[1] = e
    BY <2>1, AppendToNone
  <2> QED
    BY <2>2 DEF e
<1>4. Len(steps) \in Nat
  BY PlanFacts DEF RunInv
<1>5. cur = Len(executed) + 1
  BY <1>1 DEF HistoryInv
<1>6. TxInv'
  BY <1>1, <1>2, <1>3, <1>4, <1>5 DEF TxInv
<1> QED
  BY <1>1, <1>2, <1>3, <1>6 DEF QueuesInv, NoneToCome

\* Every step of the host, the chip and the line keeps the invariant.
LEMMA RunNextInv == RunInv /\ [RunNext]_all_vars => RunInv'
<1> SUFFICES ASSUME RunInv, [RunNext]_all_vars  PROVE RunInv'
  OBVIOUS
<1>1. Inv'
  BY SessionStep, NextInv DEF RunInv
<1>2. /\ Inv /\ QueuesInv /\ TxInv /\ HistoryInv /\ PlaceInv
      /\ steps \in Plans /\ Len(steps) \in Nat /\ at \in Nat /\ at <= Len(steps)
      /\ Len(sent) = IF awaiting THEN at + 1 ELSE at
      /\ Len(executed) \in Nat
  BY PlanFacts DEF RunInv, HistoryInv
<1> HIDE DEF Inv
\* The step in hand, if no reply to it is awaited, is the last.
<1>3. ASSUME pc \in {"drop", "write", "drain", "switch"}, ~ExpectsReply(steps[cur])
      PROVE  ~awaiting /\ at = Len(steps)
  <2>1. cur = Len(sent) /\ cur \in 1..Len(steps) /\ ~awaiting
    BY <1>2, <1>3 DEF PlaceInv
  <2>2. cur = Len(steps)
    BY <1>2, <1>3, <2>1, PlanFacts
  <2> QED
    BY <1>2, <2>1, <2>2
<1>4. ASSUME UNCHANGED <<steps, heard, executed>>, QueuesInv', TxInv', PlaceInv'  PROVE RunInv'
  <2>1. HistoryInv'
    BY <1>2, <1>4 DEF HistoryInv, Answered
  <2> QED
    BY <1>1, <1>4, <2>1 DEF RunInv
<1>5. ASSUME UNCHANGED <<steps, heard, rx, inq, answer, tx, executed>>, PlaceInv'  PROVE RunInv'
  <2>1. QueuesInv' /\ TxInv'
    BY <1>2, <1>5 DEF QueuesInv, TxInv
  <2> QED
    BY <1>4, <1>5, <2>1
<1>6. CASE Finished
  <2>1. pc' = "done" /\ UNCHANGED <<steps, heard, rx, inq, answer, tx, executed>>
    BY <1>6 DEF Finished, Return, Finish, fields, bsl_vars, line_vars, chip_vars
  <2>2. PlaceInv'
    BY <2>1 DEF PlaceInv, Places
  <2> QED
    BY <1>5, <2>1, <2>2
<1>7. CASE Begin
  <2>1. /\ pc = "next" /\ pc' \in {"drop", "write"} /\ cur' = at + 1 /\ at < Len(steps)
        /\ UNCHANGED <<steps, heard, rx, inq, answer, tx, executed>>
        /\ \/ ExpectsReply(steps[at + 1]) /\ awaiting' = TRUE /\ at' = at
           \/ ~ExpectsReply(steps[at + 1]) /\ awaiting' = FALSE /\ at' = at + 1
    BY <1>7 DEF Begin, Send, Advance, Step, bsl_vars, line_vars, chip_vars
  <2>2. Quiet /\ Len(executed) = at
    BY <1>2, <2>1 DEF PlaceInv
  <2>3. Len(sent') = IF awaiting' THEN at' + 1 ELSE at'
    BY <1>1 DEF Inv, CursorInv
  <2>4. cur' = Len(sent') /\ cur' \in 1..Len(steps') /\ (awaiting' <=> ExpectsReply(steps'[cur']))
    BY <1>2, <2>1, <2>3
  <2>5. Quiet' /\ Len(executed') = cur' - 1
    BY <1>2, <2>1, <2>2 DEF Quiet, NoneToCome
  <2>6. PlaceInv'
    BY <2>1, <2>4, <2>5 DEF PlaceInv, Places
  <2> QED
    BY <1>5, <2>1, <2>6
<1>8. CASE RetuneBefore
  <2>1. /\ pc = "drop" /\ pc' = "write" /\ UNCHANGED <<steps, at, awaiting, sent, heard, cur>>
        /\ SetBaud(StepInHand.retune_before_send)
    BY <1>8 DEF RetuneBefore, vars, fields
  <2>2. Quiet /\ Len(executed) = cur - 1
    BY <1>2, <2>1 DEF PlaceInv
  <2>3. QueuesInv' /\ TxInv' /\ UNCHANGED executed /\ Quiet'
    BY <1>2, <2>1, <2>2, SetBaudFacts DEF Quiet
  <2>4. PlaceInv'
    BY <1>2, <2>1, <2>2, <2>3 DEF PlaceInv, Places
  <2> QED
    BY <1>4, <2>1, <2>3, <2>4
<1>9. CASE Write \/ FlushFails
  <2>1. /\ pc = "write" /\ Put /\ UNCHANGED <<steps, at, awaiting, sent, heard, cur, rx>>
        /\ pc' \in {"failed", AfterWrite}
    BY <1>9 DEF Write, FlushFails, vars, fields
  <2>2. /\ UNCHANGED <<inq, answer, executed>> /\ QueuesInv' /\ TxInv' /\ NoneToCome'
    BY <2>1, PutFacts
  <2>3. /\ Len(executed) = cur - 1 /\ cur = Len(sent) /\ cur \in 1..Len(steps)
        /\ awaiting <=> ExpectsReply(steps[cur])
    BY <1>2, <2>1 DEF PlaceInv
  <2>4. \/ pc' = "failed" \/ pc' = "drain"
        \/ pc' = "look" /\ ExpectsReply(steps[cur])
        \/ pc' = "next" /\ ~ExpectsReply(steps[cur])
    BY <2>1 DEF AfterWrite, StepInHand
  <2>5. Exchange'
    BY <2>1, <2>2, <2>3 DEF Exchange
  <2>6. pc' = "next" => ~awaiting' /\ at' = Len(steps')
    BY <1>3, <2>1, <2>4
  <2>7. PlaceInv'
    BY <1>2, <2>1, <2>3, <2>4, <2>5, <2>6 DEF PlaceInv, Places
  <2> QED
    BY <1>4, <2>1, <2>2, <2>7
<1>10. CASE DrainAndSettle
  <2>1. /\ pc = "drain" /\ pc' = "switch"
        /\ UNCHANGED <<steps, at, awaiting, sent, heard, cur, rx, inq, answer, tx, executed>>
    BY <1>10 DEF DrainAndSettle, vars, fields, bsl_vars, line_vars, chip_vars
  <2>2. PlaceInv'
    BY <1>2, <2>1 DEF PlaceInv, Places, Exchange, NoneToCome, OneToCome
  <2> QED
    BY <1>5, <2>1, <2>2
<1>11. CASE RetuneAfter
  <2>1. /\ pc = "switch" /\ UNCHANGED <<steps, at, awaiting, sent, heard, cur>>
        /\ SetBaud(StepInHand.retune_after_send)
        /\ \/ pc' = "look" /\ ExpectsReply(steps[cur])
           \/ pc' = "next" /\ ~ExpectsReply(steps[cur])
    BY <1>11 DEF RetuneAfter, vars, fields, StepInHand
  <2>2. /\ QueuesInv' /\ TxInv' /\ UNCHANGED <<answer, executed>>
        /\ tx = <<>> => tx' = <<>>
        /\ NoneToCome => NoneToCome'
        /\ OneToCome => OneToCome'
    BY <1>2, <2>1, SetBaudFacts
  <2>3. /\ cur = Len(sent) /\ cur \in 1..Len(steps)
        /\ awaiting <=> ExpectsReply(steps[cur])
        /\ awaiting => Exchange
    BY <1>2, <2>1 DEF PlaceInv
  <2>4. Exchange => Exchange'
    BY <2>1, <2>2 DEF Exchange
  <2>5. pc' = "next" => ~awaiting' /\ at' = Len(steps')
    BY <1>3, <2>1
  <2>6. PlaceInv'
    BY <1>2, <2>1, <2>3, <2>4, <2>5 DEF PlaceInv, Places
  <2> QED
    BY <1>4, <2>1, <2>2, <2>6
<1>12. CASE IoFails
  <2>1. pc' = "failed" /\ UNCHANGED <<steps, heard, rx, inq, answer, tx, executed>>
    BY <1>12 DEF IoFails, Return, vars, fields, bsl_vars, line_vars, chip_vars
  <2>2. PlaceInv'
    BY <2>1 DEF PlaceInv, Places
  <2> QED
    BY <1>5, <2>1, <2>2
<1>13. CASE LookFindsReply
  <2> DEFINE reply == Held(rx)[1].frame
             rest  == Tail(Held(rx))
  <2>1. /\ pc = "look" /\ IsReply(Held(rx)) /\ rx' = rest
        /\ UNCHANGED <<cur, inq, answer, tx, executed>>
        /\ \/ Accepted(reply) /\ pc' = "next"
           \/ Rejected(reply) /\ pc' = "failed"
    BY <1>13 DEF LookFindsReply, bsl_vars, line_vars, chip_vars
  <2>2. /\ IsSeq(rest) /\ KnownFrames(rest)
        /\ ~Foreign(reply) => AnswerIn(rx)
        /\ ~Foreign(reply) /\ AtMostOneIn(rx) => ~AnswerIn(rest)
    BY <1>2, <2>1, ReplyFacts
  <2> HIDE DEF reply, rest
  <2>3. UNCHANGED steps
    BY <2>1 DEF Accepted, Rejected, fields
  <2>4. QueuesInv' /\ TxInv'
    BY <1>2, <2>1, <2>2, <2>3 DEF QueuesInv, TxInv
  <2>5. CASE Rejected(reply) /\ pc' = "failed"
    <3>1. UNCHANGED heard
      BY <2>5 DEF Rejected
    <3>2. PlaceInv'
      BY <2>5 DEF PlaceInv, Places
    <3> QED
      BY <1>4, <2>1, <2>3, <2>4, <3>1, <3>2
  <2>6. CASE Accepted(reply) /\ pc' = "next"
    <3>1. /\ awaiting /\ Verdict(steps[at + 1], reply) = "Ok"
          /\ awaiting' = FALSE /\ at' = at + 1
          /\ heard' = [heard EXCEPT ![at + 1] = Append(@, reply)]
      BY <2>6 DEF Accepted, Advance, Step
    <3>2. at + 1 \in 1..Len(steps) /\ cur = at + 1
      BY <1>2, <2>1, <3>1, PlanFacts DEF PlaceInv
    <3>3. ~Foreign(reply)
      BY <1>2, <3>1, <3>2 DEF Foreign
    <3>4. Len(executed) = at + 1 /\ tx = <<>> /\ OneToCome
      BY <1>2, <2>1, <2>2, <3>1, <3>2, <3>3 DEF PlaceInv, Exchange, NoneToCome
    <3>5. answer = NoAnswer /\ ~AnswerIn(inq) /\ ~AnswerIn(rest)
      BY <2>2, <3>3, <3>4 DEF OneToCome
    <3>6. Quiet'
      BY <2>1, <3>4, <3>5 DEF Quiet, NoneToCome
    <3>7. PlaceInv'
      BY <2>1, <2>6, <3>1, <3>4, <3>6 DEF PlaceInv, Places
    <3>8. HistoryInv'
      <4>1. heard \in [1..Len(steps) -> Seq(Replies)]
        BY <1>2 DEF Inv, TypeOK
      <4>2. ASSUME NEW i \in 1..Len(steps), heard'[i] # <<>>  PROVE i <= Len(executed)
        <5>1. CASE i = at + 1
          BY <1>2, <3>4, <5>1
        <5>2. CASE i # at + 1
          BY <1>2, <3>1, <4>1, <4>2, <5>2 DEF HistoryInv, Answered
        <5> QED
          BY <5>1, <5>2
      <4> QED
        BY <1>2, <2>1, <2>3, <4>2 DEF HistoryInv, Answered
    <3> QED
      BY <1>1, <2>4, <3>7, <3>8 DEF RunInv
  <2> QED
    BY <2>1, <2>5, <2>6
\* What is left of the receiver's items, when no frame was found in them.
<1>14. ASSUME pc = "look", pc' \in {"look", "read", "failed"},
              UNCHANGED <<steps, at, awaiting, sent, heard, cur, inq, answer, tx, executed>>,
              rx' = Held(rx) \/ (Held(rx) # <<>> /\ rx' = Tail(Held(rx)))
       PROVE  RunInv'
  <2>1. /\ IsSeq(rx') /\ KnownFrames(rx')
        /\ AnswerIn(rx') => AnswerIn(rx)
        /\ AtMostOneIn(rx) => AtMostOneIn(rx')
    BY <1>2, <1>14, RestFacts
  <2>2. QueuesInv' /\ TxInv'
    BY <1>2, <1>14, <2>1 DEF QueuesInv, TxInv
  <2>3. NoneToCome => NoneToCome'
    BY <1>14, <2>1 DEF NoneToCome
  <2>4. OneToCome => OneToCome'
    BY <1>14, <2>1 DEF OneToCome
  <2>5. PlaceInv'
    BY <1>2, <1>14, <2>3, <2>4 DEF PlaceInv, Places, Exchange
  <2> QED
    BY <1>4, <1>14, <2>2, <2>5
<1>15. CASE LookFindsBadFrame
  <2>1. Held(rx) # <<>> /\ rx' = Tail(Held(rx))
    BY <1>15 DEF LookFindsBadFrame, IsBad
  <2>2. /\ pc = "look" /\ pc' = "look"
        /\ UNCHANGED <<steps, at, awaiting, sent, heard, cur, inq, answer, tx, executed>>
    BY <1>15 DEF LookFindsBadFrame, vars, fields, bsl_vars, line_vars, chip_vars
  <2> QED
    BY <1>14, <2>1, <2>2
<1>16. CASE LookFindsNothing
  <2>1. /\ pc = "look" /\ pc' \in {"read", "failed"} /\ rx' = Held(rx)
        /\ UNCHANGED <<steps, at, awaiting, sent, heard, cur, inq, answer, tx, executed>>
    BY <1>16 DEF LookFindsNothing, vars, fields, bsl_vars, line_vars, chip_vars
  <2> QED
    BY <1>14, <2>1
<1>17. CASE Read
  <2>1. /\ pc = "read" /\ pc' = "look"
        /\ UNCHANGED <<steps, at, awaiting, sent, heard, cur, answer, tx, executed>>
    BY <1>17 DEF Read, vars, fields, chip_vars
  <2>2. PICK n \in 0..Len(inq) : rx' = rx \o SubSeq(inq, 1, n) /\ inq' = SubSeq(inq, n + 1, Len(inq))
    BY <1>17 DEF Read
  <2>3. /\ IsSeq(rx') /\ IsSeq(inq') /\ KnownFrames(rx') /\ KnownFrames(inq')
        /\ AnswerIn(rx') => AnswerIn(rx) \/ AnswerIn(inq)
        /\ AnswerIn(inq') => AnswerIn(inq)
        /\ AtMostOneIn(rx) /\ AtMostOneIn(inq) /\ ~(AnswerIn(rx) /\ AnswerIn(inq)) =>
             AtMostOneIn(rx') /\ AtMostOneIn(inq') /\ ~(AnswerIn(rx') /\ AnswerIn(inq'))
    <3>1. IsSeq(rx) /\ IsSeq(inq) /\ KnownFrames(rx) /\ KnownFrames(inq)
      BY <1>2 DEF QueuesInv
    <3> QED
      BY <2>2, <3>1, ReadKeeps
  <2>4. QueuesInv' /\ TxInv'
    BY <1>2, <2>1, <2>3 DEF QueuesInv, TxInv
  <2>5. NoneToCome => NoneToCome'
    BY <2>1, <2>3 DEF NoneToCome
  <2>6. OneToCome => OneToCome'
    BY <2>1, <2>3 DEF OneToCome
  <2>7. PlaceInv'
    BY <1>2, <2>1, <2>5, <2>6 DEF PlaceInv, Places, Exchange
  <2> QED
    BY <1>4, <2>1, <2>4, <2>7
<1>18. CASE Expire
  <2>1. UNCHANGED <<steps, at, awaiting, sent, heard, pc, cur, rx, inq, answer, tx, executed>>
    BY <1>18 DEF Expire, vars, fields, bsl_vars, line_vars, chip_vars
  <2>2. PlaceInv'
    BY <1>2, <2>1 DEF PlaceInv, Quiet, Exchange, NoneToCome, OneToCome
  <2> QED
    BY <1>5, <2>1, <2>2
<1>19. CASE Environment
  BY <1>19, EnvironmentInv
<1>20. CASE UNCHANGED all_vars
  <2>1. UNCHANGED <<steps, at, awaiting, sent, heard, pc, cur, rx, inq, answer, tx, executed>>
    BY <1>20 DEF all_vars, vars, fields, driver_vars, bsl_vars, line_vars, chip_vars
  <2>2. PlaceInv'
    BY <1>2, <2>1 DEF PlaceInv, Quiet, Exchange, NoneToCome, OneToCome
  <2> QED
    BY <1>5, <2>1, <2>2
<1> QED
  BY <1>6, <1>7, <1>8, <1>9, <1>10, <1>11, <1>12, <1>13, <1>15, <1>16, <1>17, <1>18, <1>19, <1>20
  DEF RunNext, RunStep

-----------------------------------------------------------------------------
\* The invariant of run(), whatever fails and whatever the line brings.
THEOREM RunInvariant == RunSpec => []RunInv
BY RunInitInv, RunNextInv, PTL DEF RunSpec

\* run() is one of the callers that Session allows: every step of the whole is a
\* call of its session, with a reply the session may be given, or none, so
\* whatever SessionProofs shows of a session holds of the one in run()
\* (driver.rs 229-325).
THEOREM RunImplementsSession == RunSpec => Spec
<1>1. RunInit => Init
  BY DEF RunInit
<1> QED
  BY <1>1, SessionStep, RunInvariant, PTL DEF RunSpec, Spec

\* The host never writes while the line is busy in its direction or the chip owes
\* it an answer (driver.rs 243-262, 303-313).
THEOREM TalksInTurn == RunSpec => []NeverTalksOver
<1>1. RunInv => NeverTalksOver
  BY DEF RunInv, PlaceInv, Quiet, NoneToCome, NeverTalksOver
<1> QED
  BY <1>1, RunInvariant, PTL

\* The chip carries the steps out in order, each at most once, and only a step it
\* has carried out counts as answered (driver.rs 284-325).
THEOREM AnsweredIsCarriedOut == RunSpec => []AnsweredMeansCarriedOut
<1>1. RunInv => AnsweredMeansCarriedOut
  BY DEF RunInv, HistoryInv, AnsweredMeansCarriedOut
<1> QED
  BY <1>1, RunInvariant, PTL

\* At the end of a run that finished, every block was acknowledged by its own sum
\* and every echoed step by its own request (driver.rs 240, session.rs 246-312).
THEOREM RunFinishesVerified == RunSpec => []FinishedMeansVerified
BY RunImplementsSession, FinishedIsVerified, PTL
=============================================================================
