------------------------------ MODULE PlanShape ------------------------------
(***************************************************************************)
(* What every plan of Stc89::plan (src/protocol/stc89.rs 303-473) is like, *)
(* as far as the flash and the line depend on it.  run() looks at none of  *)
(* this: module DriverPlans assumes it of the plans it is given, and       *)
(* PlannerProofs proves it of the plans that Stc89!Plan makes.             *)
(***************************************************************************)
EXTENDS Steps

Asks(plan, i, cmd)       == plan[i].frame.cmd = cmd
Trial(plan, i)           == Asks(plan, i, CmdBaudProbe) \/ Asks(plan, i, CmdBaudCommit)
TrialBefore(plan, i)     == \E k \in 1..(i - 1) : Trial(plan, k)
CommittedBefore(plan, i) == \E k \in 1..(i - 1) : Asks(plan, k, CmdBaudCommit)

\* Both baud frames go out at the handshake rate and are answered at the transfer
\* rate, where the host stays after the second, and there is no third (333-349).
SetsRates(plan, handshake_baud, transfer_baud) ==
  \A i \in 1..Len(plan) :
    \/ /\ Trial(plan, i)
       /\ ~CommittedBefore(plan, i)
       /\ \/ plan[i].retune_before_send = handshake_baud
          \/ plan[i].retune_before_send = NoBaud /\ ~TrialBefore(plan, i)
       /\ plan[i].retune_after_send = transfer_baud
    \/ /\ ~Trial(plan, i)
       /\ TrialBefore(plan, i) => CommittedBefore(plan, i)
       /\ plan[i].retune_before_send = NoBaud /\ plan[i].retune_after_send = NoBaud

\* The link tests come right before the erase, at the new rate (351-408).
ProvesLineFirst(plan, links) ==
  \A i \in 1..Len(plan) : Asks(plan, i, CmdErase) =>
    /\ i > links
    /\ \A k \in (i - links)..(i - 1) : Asks(plan, k, CmdLinkTest) /\ CommittedBefore(plan, k)

\* Each write step has a block of its own, of size bytes, erased by a step before
\* it, in units of unit blocks, and by none after it, and its reply is tested
\* against the sum of its data (410-437).
FillsOwnBlocks(plan, blocks, unit, size) ==
  \A i \in 1..Len(plan) :
    /\ plan[i].phase = "Write" <=> Asks(plan, i, CmdWrite)
    /\ plan[i].phase = "Write" =>
         LET block(k) == AddrOf(plan[k].frame) \div size
         IN  /\ block(i) \in 0..(blocks - 1)
             /\ plan[i].expect = ExpectBlockAck(Checksum(DataOf(plan[i].frame)))
             /\ \E e \in 1..(i - 1) :
                  Asks(plan, e, CmdErase) /\ block(i) < plan[e].frame.payload[1] * unit
             /\ \A k \in 1..Len(plan) :
                  /\ Asks(plan, k, CmdErase) => k < i
                  /\ plan[k].phase = "Write" /\ k # i => block(k) # block(i)
=============================================================================
