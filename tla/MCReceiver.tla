----------------------------- MODULE MCReceiver -----------------------------
(* Byte streams for Receiver: two segments of noise, broken frames or good  *)
(* frames in any order, followed by one good acknowledgement.               *)
EXTENDS Receiver

Ack     == Encode(McuFrame(128, <<>>))
Status  == Encode(McuFrame(0, <<70, 185, 104>>))      \* the magic inside a payload
Outer   == Encode(McuFrame(0, Ack))                   \* a whole frame inside a payload

Wrong(bytes, i) == [bytes EXCEPT ![i] = (@ + 1) % 256]

BadDirFrame == <<70, 185, 0, 0, 6, 128, 134, 22>>     \* a right checksum over a DIR of 0

Segments ==
  { <<0>>, <<70>>, <<70, 70>>, <<70, 185>>,
    <<70, 185, 104, 0, 5>>,                    \* LEN one below the minimum
    <<70, 185, 104, 0, MaxLenField + 1>>,      \* LEN one above the maximum
    <<70, 185, 104, 0, 6>>,                    \* a fluke header that completes
    <<70, 185, 104, 0, MaxLenField>>,          \* a fluke header that may not
    SubSeq(Ack, 1, 7),                         \* a truncated frame
    Wrong(Ack, 8), Wrong(Status, 9), Wrong(Outer, 15), BadDirFrame,
    Encode(HostFrame(130, <<>>)), Status, Outer }

MCStreams == {a \o b \o Ack : a \in Segments, b \in Segments}

\* The streams of the counterexample to NoneMeansNoFrameInTheBuffer.
MCFlukeStreams == {<<n>> \o b \o Ack : n \in {0, 70, 185}, b \in Segments}
=============================================================================
