-------------------------------- MODULE Steps --------------------------------
(***************************************************************************)
(* What a session is made of, shared by the planner that makes steps, the  *)
(* session that walks them and the chip that hears them: the command bytes *)
(* of src/protocol/stc89.rs and the shape of a step of src/session.rs.     *)
(***************************************************************************)
EXTENDS Frame

(* Host -> MCU, except that 0x00 is also the MCU's status packet.          *)
CmdStatus     == 0
CmdWrite      == 0
CmdBaudProbe  == 143    \* 0x8F, try a rate and fall back
CmdBaudCommit == 142    \* 0x8E, stay at the rate
CmdLinkTest   == 128    \* 0x80
CmdErase      == 132    \* 0x84
CmdOptions    == 141    \* 0x8D
CmdRun        == 130    \* 0x82, never answered

(* MCU -> host: link test, erase and write blocks are acknowledged alike.  *)
ReplyAck      == 128    \* 0x80

Phases == {"Sync", "Status", "BaudProbe", "BaudCommit", "LinkTest",
           "Erase", "Write", "Options", "Run"}

-----------------------------------------------------------------------------
(* What a reply must be: nothing at all, the request itself, an exact      *)
(* acknowledgement, one of a given length, or one with a block's sum.      *)

ExpectNothing        == [kind |-> "Nothing"]
ExpectEcho           == [kind |-> "Echo"]
ExpectAck(cmd, p)    == [kind |-> "Ack", cmd |-> cmd, payload |-> p]
ExpectAckLen(cmd, n) == [kind |-> "AckLen", cmd |-> cmd, payload_len |-> n]
ExpectBlockAck(sum)  == [kind |-> "BlockAck", sum |-> sum]

ExpectKinds == {"Nothing", "Echo", "Ack", "AckLen", "BlockAck"}

ExpectsReply(step) == step.expect.kind # "Nothing"

-----------------------------------------------------------------------------
(* A step: a request, the reply it must get, its timeout, the rates to set *)
(* before and after sending.  Most steps leave the rate alone.             *)

NoBaud == 0    \* retune_before_send = None, retune_after_send = None

PlainStep(phase, frame, expect, timeout) ==
  [phase |-> phase, frame |-> frame, expect |-> expect, timeout_ms |-> timeout,
   retune_before_send |-> NoBaud, retune_after_send |-> NoBaud, write_addr |-> 0]

\* What a write request carries: a four byte address, of which the chip has 16
\* bits, two bytes of length, the data.
AddrOf(f) == BigEndian(f.payload[3], f.payload[4])
DataOf(f) == SubSeq(f.payload, 7, Len(f.payload))
=============================================================================
