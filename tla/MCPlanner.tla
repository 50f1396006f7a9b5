----------------------------- MODULE MCPlanner -----------------------------
(* A chip with 16 bytes of code flash in write blocks of 2, erase blocks of *)
(* 4 and granules of 8 bytes, one more chip nobody knows, and every kind of *)
(* job and status packet around the edges.                                  *)
EXTENDS Planner

Known   == <<240, 2>>
Unknown == <<240, 3>>
MCKnownChips == [id \in {Known} |-> 16]

\* Measured words: below and above the band, the two of the captures, and one
\* whose rounding at 115200 is away from the truncated value.
Words == {243, 244, 2667, 2681, 3200, 11666, 11667}

StatusPayload(word, option, id) ==
  [i \in 1..StatusPayloadLen |->
     IF i <= 16 THEN (IF i % 2 = 1 THEN word \div 256 ELSE word % 256)
     ELSE IF i = OffOption + 1 THEN option
     ELSE IF i = OffChipId + 1 THEN id[1]
     ELSE IF i = OffChipId + 2 THEN id[2]
     ELSE 102]

Good(word, id)  == McuFrame(CmdStatus, StatusPayload(word, 253, id))
Cut(f, n)       == [f EXCEPT !.payload = SubSeq(@, 1, n)]

MCStatuses ==
  {Good(w, id) : w \in Words, id \in {Known, Unknown}}
  \cup {Cut(Good(2667, Known), n) : n \in {20, 21, 51}}
  \cup {[Good(2667, Known) EXCEPT !.payload[14] = 0],      \* one word of eight garbled
        [Good(2667, Known) EXCEPT !.cmd = CmdBaudProbe],
        [Good(2667, Known) EXCEPT !.dir = "HostToMcu"]}

\* Image contents: no two neighbouring bytes alike, and blocks whose sum wraps.
Image(n) == [j \in 1..n |-> (37 * j + 200) % 256]

MCJobs ==
  {[kind |-> "Identify"], [kind |-> "EraseAll"]}
  \cup {[kind |-> "Erase", blocks |-> n] : n \in {0, 1, 255}}
  \cup {[kind |-> "Flash", image |-> Image(n), write_options |-> w] :
          n \in 0..17, w \in BOOLEAN}
  \cup {[kind |-> "Flash", image |-> Image(n), write_options |-> FALSE] : n \in {1016, 1017}}

MCOptions ==
  {[handshake_baud |-> 2400, transfer_baud |-> b, reply_timeout_ms |-> 2000,
    erase_timeout_ms |-> 20000] : b \in {0, 1200, 1340, 19200, 115200, 685800, 2000000}}
=============================================================================
