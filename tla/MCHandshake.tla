---------------------------- MODULE MCHandshake ----------------------------
(* Real status packets of the STC89 (60 bytes, in three chunks) behind       *)
(* noise, a lone 0x46, fluke headers, broken, foreign and short frames.      *)
EXTENDS Handshake

P == INSTANCE Stc89 WITH WriteBlock <- 128, EraseBlock <- 256, EraseGranule <- 512,
                         LinkTestRepeats <- 4,
                         KnownChips <- [id \in {<<240, 2>>} |-> 8192]

MCIsStatusFrame(f) == P!IsStatusFrame(f)
MCParseStatus(f)   == P!ParseStatus(f, 2400)

Payload == [i \in 1..P!StatusPayloadLen |->
              IF i <= 16 THEN IF i % 2 = 1 THEN 10 ELSE 107
              ELSE IF i = P!OffOption + 1 THEN 253
              ELSE IF i = P!OffChipId + 1 THEN 240
              ELSE IF i = P!OffChipId + 2 THEN 2 ELSE 102]

Packet == Encode(McuFrame(P!CmdStatus, Payload))
Short  == Encode(McuFrame(P!CmdStatus, SubSeq(Payload, 1, 21)))
Echo   == Encode(McuFrame(P!CmdLinkTest, <<>>))
Spoilt == [Short EXCEPT ![9] = (@ + 1) % 256]
Fluke(n) == <<70, 185, 104, 0, n>>

\* One chunk on its own, and a run of bytes cut in three that flows.
Alone(bytes) == <<[bytes |-> bytes, flows |-> FALSE]>>
InFlow(bytes, a, b) ==
  << [bytes |-> SubSeq(bytes, 1, a), flows |-> FALSE],
     [bytes |-> SubSeq(bytes, a + 1, b), flows |-> TRUE],
     [bytes |-> SubSeq(bytes, b + 1, Len(bytes)), flows |-> TRUE] >>

BytesOf(cs) == FlattenSeq([k \in 1..Len(cs) |-> cs[k].bytes])
Script(cs)  == [bytes  |-> BytesOf(cs),
                chunks |-> [k \in 1..Len(cs) |-> [upto  |-> Len(BytesOf(SubSeq(cs, 1, k))),
                                                  flows |-> cs[k].flows]]]

Before == { <<>>, Alone(<<0, 255>>), Alone(<<70>>), Alone(<<70, 185>>), Alone(Fluke(6)),
            Alone(Fluke(40)), Alone(Fluke(200)), Alone(Echo), Alone(Short), Alone(Spoilt),
            Alone(<<70>>) \o Alone(<<1>>) }

MCChunks ==  { b \o InFlow(Packet, 1, 30) : b \in Before }
             \cup { b \o InFlow(Spoilt, 2, 20) \o InFlow(Packet, 5, 59) : b \in {<<>>, Alone(<<70>>)} }
             \cup { b \o b : b \in {<<>>, Alone(<<70>>), Alone(Fluke(6))} }
             \cup { Alone(Spoilt) \o Alone(<<70>>) \o Alone(Spoilt), Alone(Fluke(6)) \o Alone(Echo) }
MCScripts == { Script(cs) : cs \in MCChunks }
MCStreams == { BytesOf(cs) : cs \in MCChunks }
=============================================================================
