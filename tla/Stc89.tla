-------------------------------- MODULE Stc89 --------------------------------
(***************************************************************************)
(* The STC89 family of src/protocol/stc89.rs as pure operators: what the   *)
(* status packet says, the baud arithmetic, the frames, and the plan - the *)
(* whole session computed up front from the status packet and the job.     *)
(*                                                                         *)
(* The sizes are parameters so that a small flash can be checked; the code *)
(* has WriteBlock = 128, EraseBlock = 256 and EraseGranule = 512.          *)
(***************************************************************************)
EXTENDS Steps

CONSTANTS
  WriteBlock,        \* WRITE_BLOCK, bytes per write frame
  EraseBlock,        \* ERASE_BLOCK, the unit of the erase count
  EraseGranule,      \* ERASE_GRANULE, what an image is rounded up to
  LinkTestRepeats,   \* LINK_TEST_REPEATS
  KnownChips         \* KNOWN_CHIPS: code flash size by chip id

\* What plan() relies on: `2 * div_ceil(ERASE_GRANULE)` counts erase blocks only
\* if a granule is two of them, and every chunk of the region is a full write
\* block only if WRITE_BLOCK divides ERASE_BLOCK.
ASSUME SizesAssumption ==
  /\ WriteBlock \in Nat \ {0}
  /\ EraseBlock \in Nat \ {0}
  /\ EraseGranule = 2 * EraseBlock
  /\ EraseBlock % WriteBlock = 0
  /\ LinkTestRepeats \in Nat \ {0}

ASSUME KnownChipsAssumption ==
  \A id \in DOMAIN KnownChips :
    /\ id \in Byte \X Byte
    /\ KnownChips[id] \in Nat \ {0}
    /\ KnownChips[id] % EraseGranule = 0

-----------------------------------------------------------------------------
StatusPayloadLen == 52
FreqWordCount    == 8      \* at payload offset 0
OffOption        == 18
OffChipId        == 19
ChipIdLen        == 2

FreqMinHz == 1000000
FreqMaxHz == 48000000

BaudConsts     == <<0, 6, 160>>
BaudProbeTail  == 129
LinkTestPrefix == <<0, 0, 54, 1>>
EraseFill      == [i \in 1..6 |-> 51]
EraseReplyLen  == 7
OptionsTail    == <<255, 255, 255>>

NoCapacity == 0    \* TargetInfo.code_flash = None

Ok(value)     == [ok |-> TRUE, value |-> value]
Error(name)   == [ok |-> FALSE, error |-> name]

-----------------------------------------------------------------------------
(* Arithmetic (134-170, 211-213).                                          *)

\* f_osc = word * baud * 12 / 7, truncated.
FrequencyHz(word, baud) == (word * baud * 12) \div 7

\* Mutant: truncation instead of rounding.
TimerReloadTruncated(f_osc, baud) ==
  IF baud # 0 /\ 256 - f_osc \div (baud * 32) \in 1..255
  THEN Ok(256 - f_osc \div (baud * 32)) ELSE Error("UnreachableBaud")

\* The byte the timer is reloaded with: 256 less the rounded number of ticks.
TimerReload(f_osc, baud) ==
  LET denom  == baud * 32
      reload == 256 - (f_osc + denom \div 2) \div denom
  IN  IF baud # 0 /\ reload \in 1..255 THEN Ok(reload) ELSE Error("UnreachableBaud")

\* 16-bit two's complement of reload - 256, big endian.
ReloadField(reload) == LET v == 65536 - (256 - reload) IN <<v \div 256, v % 256>>

CeilDiv(a, b) == (a + b - 1) \div b

EraseBlocksForOneMore(len) == 2 * (len \div EraseGranule + 1)            \* mutant
EraseBlocksFor(len) == 2 * CeilDiv(len, EraseGranule)

BlockAck(data) == Checksum(data)

-----------------------------------------------------------------------------
(* Frames (172-227).                                                       *)

BaudProbeFrame(reload)  == HostFrame(CmdBaudProbe, ReloadField(reload) \o BaudConsts \o <<BaudProbeTail>>)
BaudCommitFrame(reload) == HostFrame(CmdBaudCommit, ReloadField(reload) \o BaudConsts)
LinkTestFrame(chip_id)  == HostFrame(CmdLinkTest, LinkTestPrefix \o chip_id)
EraseFrame(blocks)      == HostFrame(CmdErase, <<blocks>> \o EraseFill)
OptionsFrameErased(info) == HostFrame(CmdOptions, <<255>> \o OptionsTail)   \* mutant
OptionsFrame(info)      == HostFrame(CmdOptions, info.option_bytes \o OptionsTail)
RunFrame                == HostFrame(CmdRun, <<>>)

U32Bytes(v) == <<v \div 16777216, (v \div 65536) % 256, (v \div 256) % 256, v % 256>>

WriteFrame(addr, data) ==
  HostFrame(CmdWrite, U32Bytes(addr) \o <<Len(data) \div 256, Len(data) % 256>> \o data)

-----------------------------------------------------------------------------
(* The status packet (243-301).                                            *)

IsStatusFrame(f) ==
  /\ f.dir = "McuToHost"
  /\ f.cmd = CmdStatus
  /\ Len(f.payload) >= OffChipId + ChipIdLen

FreqWord(p, i) == BigEndian(p[2 * i - 1], p[2 * i])

\* What the host learned from the status packet, as far as anything here reads it.
TargetInfo(chip_id, code_flash, measured_hz, option_bytes) ==
  [chip_id |-> chip_id, code_flash |-> code_flash, measured_hz |-> measured_hz,
   option_bytes |-> option_bytes]

ParseStatus(f, handshake_baud) ==
  LET p       == f.payload
      hz      == FrequencyHz(FreqWord(p, 1), handshake_baud)
      chip_id == SubSeq(p, OffChipId + 1, OffChipId + ChipIdLen)
  IN  IF f.cmd # CmdStatus \/ f.dir # "McuToHost" THEN Error("NotAStatusFrame")
      ELSE IF Len(p) < StatusPayloadLen           THEN Error("ShortStatus")
      ELSE IF \E i \in 1..FreqWordCount : FreqWord(p, i) # FreqWord(p, 1)
                                                  THEN Error("InconsistentFrequency")
      ELSE IF hz \notin FreqMinHz..FreqMaxHz      THEN Error("ImplausibleFrequency")
      ELSE Ok(TargetInfo(chip_id,
                         IF chip_id \in DOMAIN KnownChips THEN KnownChips[chip_id] ELSE NoCapacity,
                         hz,
                         <<p[OffOption + 1]>>))

-----------------------------------------------------------------------------
(* The plan (303-473), part by part.                                       *)

\* Mutant: the commit is sent at the rate the probe's echo was read at.
BaudStepsNoDrop(reload, opts) ==
  << [PlainStep("BaudProbe", BaudProbeFrame(reload), ExpectEcho, opts.reply_timeout_ms)
        EXCEPT !.retune_after_send = opts.transfer_baud],
     [PlainStep("BaudCommit", BaudCommitFrame(reload), ExpectEcho, opts.reply_timeout_ms)
        EXCEPT !.retune_after_send = opts.transfer_baud] >>

\* Both baud frames are sent at the handshake rate and answered at the transfer rate.
BaudSteps(reload, opts) ==
  << [PlainStep("BaudProbe", BaudProbeFrame(reload), ExpectEcho, opts.reply_timeout_ms)
        EXCEPT !.retune_after_send = opts.transfer_baud],
     [PlainStep("BaudCommit", BaudCommitFrame(reload), ExpectEcho, opts.reply_timeout_ms)
        EXCEPT !.retune_before_send = opts.handshake_baud,
               !.retune_after_send  = opts.transfer_baud] >>

LinkTestStepsOneFewer(info, opts) ==                                    \* mutant
  [i \in 1..(LinkTestRepeats - 1) |->
     PlainStep("LinkTest", LinkTestFrame(info.chip_id), ExpectAck(ReplyAck, <<>>), opts.reply_timeout_ms)]

LinkTestSteps(info, opts) ==
  [i \in 1..LinkTestRepeats |->
     PlainStep("LinkTest", LinkTestFrame(info.chip_id), ExpectAck(ReplyAck, <<>>), opts.reply_timeout_ms)]

EraseStep(blocks, opts) ==
  PlainStep("Erase", EraseFrame(blocks % 256), ExpectAckLen(ReplyAck, EraseReplyLen), opts.erase_timeout_ms)

\* Mutant: only the image is written, padded to a whole write block.
WriteStepsImageOnly(image, blocks, opts) ==
  LET padded(j) == IF j <= Len(image) THEN image[j] ELSE 255
      chunk(i)  == [j \in 1..WriteBlock |-> padded((i - 1) * WriteBlock + j)]
  IN  [i \in 1..CeilDiv(Len(image), WriteBlock) |->
         [PlainStep("Write", WriteFrame((i - 1) * WriteBlock, chunk(i)),
                    ExpectBlockAck(BlockAck(chunk(i))), opts.reply_timeout_ms)
            EXCEPT !.write_addr = (i - 1) * WriteBlock]]

\* The image padded with 0xFF to the erased region, one step per write block.
WriteSteps(image, blocks, opts) ==
  LET padded   == [j \in 1..(blocks * EraseBlock) |-> IF j <= Len(image) THEN image[j] ELSE 255]
      chunk(i) == SubSeq(padded, (i - 1) * WriteBlock + 1, i * WriteBlock)
      addr(i)  == (i - 1) * WriteBlock
  IN  [i \in 1..((blocks * EraseBlock) \div WriteBlock) |->
         [PlainStep("Write", WriteFrame(addr(i), chunk(i)),
                    ExpectBlockAck(BlockAck(chunk(i))), opts.reply_timeout_ms)
            EXCEPT !.write_addr = addr(i)]]

OptionsSteps(info, opts) ==
  << PlainStep("Options", OptionsFrame(info), ExpectEcho, opts.reply_timeout_ms) >>

RunStep(opts) == PlainStep("Run", RunFrame, ExpectNothing, opts.reply_timeout_ms)

\* Mutant: an image that fills the chip exactly is taken for one too large.
EraseCountStrict(info, job) ==
  CASE job.kind = "Erase" -> Ok(job.blocks)
    [] job.kind = "EraseAll" ->
         IF info.code_flash = NoCapacity THEN Error("UnknownChipSize")
         ELSE Ok(info.code_flash \div EraseBlock)
    [] job.kind = "Flash" ->
         IF job.image = <<>> THEN Error("EmptyImage")
         ELSE IF info.code_flash # NoCapacity /\ Len(job.image) >= info.code_flash
         THEN Error("ImageTooLarge")
         ELSE Ok(EraseBlocksFor(Len(job.image)))

\* How many blocks the job erases, or why it cannot be planned (370-395).
\* "EraseAll" is Job::Erase { blocks: None }.
EraseCount(info, job) ==
  CASE job.kind = "Erase" -> Ok(job.blocks)
    [] job.kind = "EraseAll" ->
         IF info.code_flash = NoCapacity THEN Error("UnknownChipSize")
         ELSE Ok(info.code_flash \div EraseBlock)
    [] job.kind = "Flash" ->
         IF job.image = <<>> THEN Error("EmptyImage")
         ELSE IF info.code_flash # NoCapacity /\ Len(job.image) > info.code_flash
         THEN Error("ImageTooLarge")
         ELSE Ok(EraseBlocksFor(Len(job.image)))

Plan(info, job, opts) ==
  LET reload == TimerReload(info.measured_hz, opts.transfer_baud)
      count  == EraseCount(info, job)
  IN  IF job.kind = "Identify"               THEN Ok(<<RunStep(opts)>>)
      ELSE IF ~reload.ok                     THEN reload
      ELSE IF ~count.ok                      THEN count
      ELSE IF count.value \notin 1..255      THEN Error("EraseTooLarge")
      ELSE Ok( BaudSteps(reload.value, opts)
               \o LinkTestSteps(info, opts)
               \o << EraseStep(count.value, opts) >>
               \o (IF job.kind = "Flash"
                   THEN WriteSteps(job.image, count.value, opts)
                        \o (IF job.write_options THEN OptionsSteps(info, opts) ELSE <<>>)
                   ELSE <<>>)
               \o << RunStep(opts) >> )
=============================================================================
