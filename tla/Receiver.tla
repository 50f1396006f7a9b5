------------------------------ MODULE Receiver ------------------------------
(***************************************************************************)
(* The resynchronising byte-stream decoder of src/frame.rs.  Bytes arrive  *)
(* in chunks of any size; between two chunks the caller may ask for the    *)
(* next frame any number of times, and may collect the discarded bytes.    *)
(*                                                                         *)
(* stream and fed are the environment: the bytes the line will carry and   *)
(* how many of them have been fed.  buf and discarded are the Receiver's   *)
(* own fields.  ret is what the last call of next_frame returned; got and  *)
(* reported record everything it and take_discarded have handed out.       *)
(***************************************************************************)
EXTENDS Frame, FiniteSetsExt, SequencesExt

CONSTANTS
  MaxLenField,   \* MAX_LEN_FIELD, 1024 in the code
  Streams        \* the byte streams considered

ASSUME MaxLenFieldAssumption ==
  MaxLenField \in Word /\ MaxLenField >= MinLenField   \* a u16
ASSUME StreamsAssumption     == Streams \subseteq Seq(Byte)

VARIABLES stream, fed, buf, discarded, ret, got, reported
vars == <<stream, fed, buf, discarded, ret, got, reported>>

Drop(s, k) == SubSeq(s, k + 1, Len(s))
Take(s, k) == SubSeq(s, 1, k)

NotCalled == [kind |-> "NotCalled"]
NeedMore  == [kind |-> "None"]
SomeOk    == [kind |-> "Ok"]
SomeErr(error) == [kind |-> "Err", error |-> error]

-----------------------------------------------------------------------------
(* hunt() and the `Advanced` branch of next_frame's loop: both drop one    *)
(* byte and look again, so together they stop at the first offset whose    *)
(* byte cannot be dropped yet.                                             *)

Declared(b)   == BigEndian(b[4], b[5])
Plausible(b)  == Declared(b) \in MinLenField..MaxLenField

DroppableTrustingLen(b) ==                                              \* mutant
  /\ b # <<>>
  /\ \/ b[1] # Magic[1]
     \/ Len(b) >= 2 /\ b[2] # Magic[2]
     \/ Len(b) >= 5 /\ Declared(b) < MinLenField

Droppable(b) ==
  /\ b # <<>>
  /\ \/ b[1] # Magic[1]
     \/ Len(b) >= 2 /\ b[2] # Magic[2]
     \/ Len(b) >= 5 /\ ~Plausible(b)

HuntOffset(b) == Min({k \in 0..Len(b) : ~Droppable(Drop(b, k))})

FrameLen(b) == Declared(b) + 2

Complete(b) == Len(b) >= 5 /\ Len(b) >= FrameLen(b)

(* The error arm of next_frame: the n drained bytes of a run that does not *)
(* decode go back in front of the unread ones, all but the leading 0x46,   *)
(* which is discarded.                                                     *)

PutBackBehind(rest, n)  == Drop(rest, n) \o Drop(Take(rest, n), 1)      \* mutant
PutBackNothing(rest, n) == Drop(rest, n)                                \* mutant
PutBackAll(rest, n)     == rest                                         \* mutant
PutBack(rest, n)        == Drop(rest, 1)

LostInTheBadRun(buffer, k) == Take(buffer, k)                           \* mutant
DiscardedByError(buffer, k) == Take(buffer, k + 1)

-----------------------------------------------------------------------------
Init ==
  /\ stream \in Streams
  /\ fed = 0
  /\ buf = <<>>
  /\ discarded = <<>>
  /\ ret = NotCalled
  /\ got = <<>>
  /\ reported = <<>>

Feed ==
  \E n \in 1..(Len(stream) - fed) :
    /\ buf' = buf \o SubSeq(stream, fed + 1, fed + n)
    /\ fed' = fed + n
    /\ ret' = NotCalled
    /\ UNCHANGED <<stream, discarded, got, reported>>

NextFrame ==
  \E k \in {HuntOffset(buf)} :
    LET rest == Drop(buf, k)
        n    == FrameLen(rest)
        d    == Decode(Take(rest, n))
    IN  /\ \/ /\ ~Complete(rest)
              /\ buf' = rest
              /\ discarded' = discarded \o Take(buf, k)
              /\ ret' = NeedMore
              /\ got' = got
           \/ /\ Complete(rest)
              /\ d.ok
              /\ buf' = Drop(rest, n)
              /\ discarded' = discarded \o Take(buf, k)
              /\ ret' = SomeOk
              /\ got' = Append(got, d.frame)
           \/ /\ Complete(rest)
              /\ ~d.ok
              /\ buf' = PutBack(rest, n)
              /\ discarded' = discarded \o DiscardedByError(buf, k)
              /\ ret' = SomeErr(d.error)
              /\ got' = got
        /\ UNCHANGED <<stream, fed, reported>>

TakeDiscarded ==
  /\ reported' = reported \o discarded
  /\ discarded' = <<>>
  /\ UNCHANGED <<stream, fed, buf, ret, got>>

Next == Feed \/ NextFrame \/ TakeDiscarded

Spec == Init /\ [][Next]_vars

-----------------------------------------------------------------------------
(* What the receiver promises, defined on the bytes alone and without its  *)
(* buffer: scan from the left, take a frame wherever the bytes are exactly *)
(* the encoding of one, and count every other byte as noise.               *)

IsFrame(s, p, n) ==
  /\ n - 2 \in MinLenField..MaxLenField
  /\ p + n - 1 <= Len(s)
  /\ s[p] = Magic[1]     \* implied by the last conjunct, and cheaper to refute
  /\ \E d \in Dir : SubSeq(s, p, p + n - 1)
                      = Encode([dir     |-> d,
                                cmd     |-> s[p + 5],
                                payload |-> SubSeq(s, p + 6, p + n - 3)])

FrameSizes(s, p) == {n \in FrameOverhead..(Len(s) - p + 1) : IsFrame(s, p, n)}

Reading(s) ==
  LET from[p \in 1..(Len(s) + 1)] ==
        IF p > Len(s) THEN [frames |-> <<>>, noise |-> <<>>]
        ELSE IF FrameSizes(s, p) # {}
        THEN LET n == Min(FrameSizes(s, p))
                 f == Decode(SubSeq(s, p, p + n - 1)).frame
             IN  [from[p + n] EXCEPT !.frames = <<f>> \o @]
        ELSE [from[p + 1] EXCEPT !.noise = <<s[p]>> \o @]
  IN  from[1]

Consumed == Take(stream, fed - Len(buf))

\* The buffer is always the unread tail of what was fed: no byte is lost,
\* duplicated or moved when next_frame puts the rest of a bad run back behind
\* its first byte (frame.rs 295-299).
NothingReordered == buf = Drop(Take(stream, fed), fed - Len(buf))

\* Whatever the chunking and wherever a bad frame was re-hunted, the frames
\* handed out are the ones a left-to-right reading of the consumed bytes finds:
\* none lost inside a bad run, none reported twice, none made up.
DeliversWhatWasSent == got = Reading(Consumed).frames

\* Every consumed byte is either part of a frame handed out or is reported as
\* discarded, once and in order (take_discarded, frame.rs 263-267).
AccountsForEveryByte == reported \o discarded = Reading(Consumed).noise

\* When next_frame asks for more bytes it holds back nothing but the start of
\* a frame whose end has not arrived, and less than one maximal frame of it.
HoldsOnlyAnUnfinishedFrame ==
  ret = NeedMore =>
    /\ Len(buf) < MaxLenField + 2
    /\ IsPrefix(Take(buf, Min({2, Len(buf)})), Magic)
    /\ Len(buf) >= 5 => Plausible(buf) /\ Len(buf) < Declared(buf) + 2

\* A call that returns Some(..) has used up at least one byte, so the loops of
\* driver.rs that call next_frame again after an error (197, 297) end; after a
\* None, calling again before the next feed changes nothing.
EveryCallAdvances ==
  [][NextFrame => /\ ret' # NeedMore => Len(buf') < Len(buf)
                  /\ ret = NeedMore => ret' = NeedMore /\ buf' = buf]_vars

\* frame.rs 245-247: a failed check "re-hunts from the *next* byte rather than
\* giving up or trusting the header", and next_frame "Returns `None` when more
\* bytes are needed" (279).  A complete valid frame in the buffer needs no more
\* bytes, whatever noise came before it.
NoneMeansNoFrameInTheBuffer ==
  ret = NeedMore => \A p \in 1..Len(buf) : FrameSizes(buf, p) = {}
=============================================================================
