----------------------------- MODULE MCSession -----------------------------
(* Sessions made from real plans over a small flash, fed every reply their  *)
(* steps could be answered with, right and wrong.                           *)
EXTENDS Session, FiniteSets

P == INSTANCE Stc89 WITH WriteBlock <- 2, EraseBlock <- 2, EraseGranule <- 4,
                         LinkTestRepeats <- 2, KnownChips <- [id \in {<<240, 2>>} |-> 8]

MCInfo == [chip_id |-> <<240, 2>>, code_flash |-> 8, measured_hz |-> 10972800,
           option_bytes |-> <<253>>]
MCOpts == [handshake_baud |-> 2400, transfer_baud |-> 115200,
           reply_timeout_ms |-> 2000, erase_timeout_ms |-> 20000]

MCJobs ==
  { [kind |-> "Identify"], [kind |-> "EraseAll"],
    [kind |-> "Flash", image |-> <<1, 2, 3>>, write_options |-> TRUE],
    [kind |-> "Flash", image |-> <<1, 2, 3>>, write_options |-> FALSE],
    [kind |-> "Flash", image |-> <<1, 2, 2, 1, 7>>, write_options |-> FALSE] }

\* The plans of the jobs, and one that stops short of the run step: the session
\* does not know what a plan ends with.
MCPlans == LET whole == {P!Plan(MCInfo, job, MCOpts).value : job \in MCJobs}
           IN  whole \cup {SubSeq(p, 1, Len(p) - 1) : p \in whole}

EraseReply(id) == id \o <<196, 43, 1, 131, 116>>
Payloads  == {<<>>, EraseReply(<<240, 2>>), EraseReply(<<240, 3>>)}
             \cup {<<s>> : s \in {3, 2, 6, 255, 254}}

MCRequests == UNION {{p[i].frame : i \in 1..Len(p)} : p \in MCPlans}
MCReplies ==
  {McuFrame(f.cmd, f.payload) : f \in MCRequests}
  \cup {McuFrame(c, p) : c \in {ReplyAck, CmdErase}, p \in Payloads}
  \cup {HostFrame(ReplyAck, <<>>)}
=============================================================================
