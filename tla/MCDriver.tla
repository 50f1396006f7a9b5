------------------------------ MODULE MCDriver ------------------------------
(* Sessions over a chip of four write blocks of one byte: a flash job with  *)
(* the options step, an erase of the whole chip and an identify.            *)
EXTENDS Driver

P == INSTANCE Stc89 WITH WriteBlock <- BytesPerBlock, EraseBlock <- EraseUnit * BytesPerBlock,
                         EraseGranule <- 2 * EraseUnit * BytesPerBlock,
                         LinkTestRepeats <- LinksWanted,
                         KnownChips <- [id \in {<<240, 2>>} |-> FlashBlocks * BytesPerBlock]

MCInfo == [chip_id |-> <<240, 2>>, code_flash |-> FlashBlocks * BytesPerBlock,
           measured_hz |-> 10972800, option_bytes |-> <<253>>]
MCOpts == [handshake_baud |-> HandshakeBaud, transfer_baud |-> TransferBaud,
           reply_timeout_ms |-> 2000, erase_timeout_ms |-> 20000]

PlanOf(job) == P!Plan(MCInfo, job, MCOpts).value

FlashJob(w) == [kind |-> "Flash", image |-> <<7, 9, 9>>, write_options |-> w]

MCPlans   == {PlanOf(FlashJob(TRUE)), PlanOf([kind |-> "EraseAll"]), PlanOf([kind |-> "Identify"])}

\* A frame left in the input queue by the handshake: a second status packet.
StaleStatus == McuFrame(CmdStatus, <<>>)
MCLeftovers == {<<>>, <<FrameItem(StaleStatus)>>}
NoLeftovers == {<<>>}

\* on_reply is only ever called with what the chip or the line produced.
MCReplies ==
  {McuFrame(f.cmd, f.payload) : f \in UNION {{p[i].frame : i \in 1..Len(p)} : p \in MCPlans}}
  \cup {McuFrame(ReplyAck, <<s>>) : s \in Byte}
  \cup {McuFrame(ReplyAck, <<>>), EraseReply, StaleStatus}
=============================================================================
