------------------------------ MODULE FrameLine ------------------------------
(***************************************************************************)
(* A frame on a line that alters, loses and repeats single bytes: what     *)
(* Frame::decode makes of what Frame::encode produced.                     *)
(***************************************************************************)
EXTENDS Frame

CONSTANTS
  Frames,      \* the frames sent
  Deltas,      \* what a byte may be altered by
  MaxFaults    \* how many bytes the line damages

ASSUME FrameLineAssumption ==
  Frames \subseteq FrameType /\ Deltas \subseteq 1..255 /\ MaxFaults \in Nat

VARIABLES frame, wire, faults
wire_vars == <<frame, wire, faults>>

LineInit ==
  /\ frame \in Frames
  /\ wire = Encode(frame)
  /\ faults = 0

Damage(w) ==
  /\ faults < MaxFaults
  /\ faults' = faults + 1
  /\ wire' = w
  /\ UNCHANGED frame

Altered(w, i, d) == [w EXCEPT ![i] = (@ + d) % 256]
Lost(w, i)       == SubSeq(w, 1, i - 1) \o SubSeq(w, i + 1, Len(w))
Repeated(w, i)   == SubSeq(w, 1, i) \o SubSeq(w, i, Len(w))

Alter  == \E i \in 1..Len(wire), d \in Deltas : Damage(Altered(wire, i, d))
Lose   == \E i \in 1..Len(wire) : Damage(Lost(wire, i))
Repeat == \E i \in 1..Len(wire) : Damage(Repeated(wire, i))

LineNext == Alter \/ Lose \/ Repeat

LineSpec == LineInit /\ [][LineNext]_wire_vars

-----------------------------------------------------------------------------
\* frame.rs 109-152: an undamaged frame decodes to itself, and one damaged byte
\* anywhere - altered, lost or repeated - is always an error.
OneFaultIsDetected ==
  /\ faults = 0 => Decode(wire) = Decoded(frame)
  /\ faults = 1 => ~Decode(wire).ok

\* decode accepts nothing but encodings: however the line damaged the bytes,
\* what is accepted re-encodes to the same bytes (the corpus test of
\* tests/replay.rs 33-58, for every damage of up to MaxFaults bytes).
AcceptsOnlyEncodings ==
  LET d == Decode(wire)
  IN  d.ok => d.frame \in FrameType /\ Encode(d.frame) = wire
=============================================================================
