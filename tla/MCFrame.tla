------------------------------ MODULE MCFrame ------------------------------
(* Frames with payloads of up to two bytes, the magic bytes among them.     *)
EXTENDS FrameLine

Values   == {0, 70, 185, 255}
Payloads == UNION {[1..n -> Values] : n \in 0..2}

MCFrames == [dir : Dir, cmd : {0, 128}, payload : Payloads]
MCDeltas == {1, 2, 64, 128, 254, 255}
=============================================================================
