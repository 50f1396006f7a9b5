------------------------------- MODULE Planner -------------------------------
(***************************************************************************)
(* From the status packet to the plan, as cmd_session of src/bin/stcbsl.rs *)
(* goes: the handshake takes the first frame that looks like a status      *)
(* packet and parses it, then the whole session is planned from the result *)
(* and the job.  The properties say what every plan must be.               *)
(***************************************************************************)
EXTENDS Stc89, SequencesExt

CONSTANTS
  Statuses,   \* frames that may arrive while the handshake waits
  Jobs,       \* what the command line may ask for
  Options     \* session options

ASSUME StatusesAssumption == Statuses \subseteq FrameType

ASSUME JobsAssumption ==
  \A job \in Jobs :
    /\ job.kind \in {"Identify", "Erase", "EraseAll", "Flash"}
    /\ job.kind = "Erase" => job.blocks \in Nat
    /\ job.kind = "Flash" => job.image \in Seq(Byte) /\ job.write_options \in BOOLEAN

ASSUME OptionsAssumption ==
  \A opts \in Options : opts.handshake_baud \in Nat \ {0} /\ opts.transfer_baud \in Nat

VARIABLES pc, status, job, opts, info, plan
vars == <<pc, status, job, opts, info, plan>>

NoInfo == TargetInfo(<<0, 0>>, NoCapacity, 0, <<>>)
NoPlan == Error("NotPlanned")

Init ==
  /\ pc = "waiting"
  /\ status \in Statuses
  /\ job \in Jobs
  /\ opts \in Options
  /\ info = NoInfo
  /\ plan = NoPlan

\* A frame that is not a status packet is passed over (driver.rs 210-214).
PassOver ==
  /\ pc = "waiting"
  /\ ~IsStatusFrame(status)
  /\ status' \in Statuses
  /\ UNCHANGED <<pc, job, opts, info, plan>>

Identify ==
  /\ pc = "waiting"
  /\ IsStatusFrame(status)
  /\ LET parsed == ParseStatus(status, opts.handshake_baud)
     IN  \/ /\ parsed.ok
            /\ pc' = "identified"
            /\ info' = parsed.value
            /\ UNCHANGED plan
         \/ /\ ~parsed.ok
            /\ pc' = "refused"
            /\ plan' = parsed
            /\ UNCHANGED info
  /\ UNCHANGED <<status, job, opts>>

MakePlan ==
  /\ pc = "identified"
  /\ plan' = Plan(info, job, opts)
  /\ pc' = IF plan'.ok THEN "planned" ELSE "refused"
  /\ UNCHANGED <<status, job, opts, info>>

Next == PassOver \/ Identify \/ MakePlan

Spec == Init /\ [][Next]_vars

-----------------------------------------------------------------------------
Planned        == pc = "planned"
Steps          == plan.value
Index(phase)   == {i \in DOMAIN Steps : Steps[i].phase = phase}
ErasedBytes(e) == Steps[e].frame.payload[1] * EraseBlock

CarriedReload(k) == BigEndian(Steps[k].frame.payload[1], Steps[k].frame.payload[2])

\* By how much the oscillator misses 32 clocks a bit, with n timer ticks.
MissesBy(n) ==
  LET wanted == n * (opts.transfer_baud * 32)
  IN  IF info.measured_hz > wanted THEN info.measured_hz - wanted ELSE wanted - info.measured_hz

\* Every plan that programs sends the image, in address order and without a
\* gap, padded with 0xFF to exactly the bytes its own erase step erases; each
\* block goes to the address the frame carries and is checked against the sum
\* of the bytes that frame carries (stc89.rs 410-437).
WritesFillTheErasedRegion ==
  Planned /\ job.kind = "Flash" =>
    \E e \in Index("Erase") :
      LET count   == ErasedBytes(e) \div WriteBlock
          byte(a) == IF a < Len(job.image) THEN job.image[a + 1] ELSE 255
      IN  /\ count * WriteBlock = ErasedBytes(e)
          /\ Index("Write") = (e + 1)..(e + count)
          /\ \A i \in 1..count :
               LET write == Steps[e + i]
                   addr  == (i - 1) * WriteBlock
                   data  == DataOf(write.frame)
               IN  /\ SubSeq(write.frame.payload, 1, 4) = U32Bytes(addr)
                   /\ write.write_addr = addr
                   /\ data = [j \in 1..WriteBlock |-> byte(addr + j - 1)]
                   /\ write.expect = ExpectBlockAck(Checksum(data))

\* No plan that programs erases less than the image, more than one granule
\* beyond it, or more than a known chip has; erasing the whole chip erases just
\* that.  The count survives its cast to one byte (stc89.rs 369-403).
ErasesWhatTheJobNeeds ==
  Planned => \A e \in Index("Erase") :
    /\ job.kind = "Flash" =>
         /\ Len(job.image) <= ErasedBytes(e)
         /\ ErasedBytes(e) < Len(job.image) + EraseGranule
         /\ info.code_flash # NoCapacity => ErasedBytes(e) <= info.code_flash
    /\ job.kind = "EraseAll" => ErasedBytes(e) = info.code_flash

\* The rate the host is at while it waits for the reply to step i (RateRead) and
\* while it sends step i (RateSent): the last one set so far.
Retunes(i)   == {k \in 1..i : {Steps[k].retune_before_send, Steps[k].retune_after_send} # {NoBaud}}
RateAfter(s) == IF s.retune_after_send = NoBaud THEN s.retune_before_send ELSE s.retune_after_send
RateRead(i)  == IF Retunes(i) = {} THEN opts.handshake_baud ELSE RateAfter(Steps[Max(Retunes(i))])
RateSent(i)  == IF Steps[i].retune_before_send = NoBaud THEN RateRead(i - 1)
                                                        ELSE Steps[i].retune_before_send
Committed(i) == \E k \in 1..(i - 1) : Steps[k].phase = "BaudCommit"

\* The chip hears each frame, and the host each reply, only if both are at the
\* same rate.  The chip (session.rs 78-87) starts at the handshake rate, answers
\* the probe at the transfer rate and falls back, and stays at the transfer rate
\* from the commit on.  In every plan the host's retunes follow it step by step.
RatesFollowTheChip ==
  Planned => \A i \in DOMAIN Steps :
    /\ RateSent(i) = IF Committed(i) THEN opts.transfer_baud ELSE opts.handshake_baud
    /\ RateRead(i) = IF Committed(i) \/ Steps[i].phase \in {"BaudProbe", "BaudCommit"}
                     THEN opts.transfer_baud ELSE opts.handshake_baud

\* The only option byte a plan can send is the one read from this chip, after
\* every block is written, and only if the job asks for it (stc89.rs 439-452,
\* protocol/mod.rs 90-99).
OptionsAreOnlyEchoed ==
  Planned =>
    /\ \A i \in Index("Options") :
         /\ job.kind = "Flash" /\ job.write_options
         /\ Steps[i].frame.payload[1] = status.payload[OffOption + 1]
         /\ \A k \in Index("Write") : k < i
    /\ job.kind = "Flash" /\ job.write_options => Index("Options") # {}

\* Every plan ends by releasing the chip, does so once, and waits for an answer
\* to everything else: a host that waits for one here would report a false
\* failure (session.rs 52-54).  The erase comes after all the link tests, which
\* are the only proof that both ends are at the new rate (stc89.rs 79-80).
EndsWithRunAndErasesLate ==
  Planned =>
    /\ {i \in DOMAIN Steps : Steps[i].expect = ExpectNothing} = {Len(Steps)}
    /\ Index("Run") = {Len(Steps)}
    /\ \A e \in Index("Erase") :
         Cardinality({i \in Index("LinkTest") : i < e}) = LinkTestRepeats
    /\ Cardinality(Index("Erase")) = IF job.kind = "Identify" THEN 0 ELSE 1

\* The reload a plan negotiates is the best an 8-bit timer can do for the
\* requested rate, and the two baud frames carry the same one, as a 16-bit
\* negative number (stc89.rs 145-165).
ReloadIsTheNearest ==
  Planned /\ job.kind # "Identify" =>
    /\ Index("BaudProbe") # {} /\ Index("BaudCommit") # {}
    /\ \E ticks \in 1..255 :
         /\ \A n \in {ticks - 1, ticks + 1} : MissesBy(ticks) <= MissesBy(n)
         /\ \A k \in Index("BaudProbe") \cup Index("BaudCommit") :
              CarriedReload(k) = 65536 - ticks

\* A job that fits is planned: an image that is not empty and not larger than a
\* known chip, or than the 254 blocks an even one-byte count can name, at a rate
\* some reload reaches.  Nothing else about image, chip or option byte may stand
\* in the way.
PlansEveryJobThatFits ==
  pc = "refused" /\ info # NoInfo /\ job.kind = "Flash" =>
    \/ job.image = <<>>
    \/ Len(job.image) > (IF info.code_flash = NoCapacity THEN 254 * EraseBlock
                         ELSE Min({info.code_flash, 254 * EraseBlock}))
    \/ opts.transfer_baud = 0
    \/ LET denom == opts.transfer_baud * 32
       IN  2 * info.measured_hz < denom \/ 2 * info.measured_hz >= 511 * denom
=============================================================================
