------------------------------- MODULE Flasher -------------------------------
(***************************************************************************)
(* The stcbsl command of src/bin/stcbsl.rs, from its arguments to its exit *)
(* status: parse_args word by word, the choice of a command, the image,    *)
(* the port, the handshake, the plan and the run.                          *)
(*                                                                         *)
(* The handshake gives what parse_status makes of a status packet, or      *)
(* fails (module Handshake); running a plan is what FlashPromise promises  *)
(* of it (module Driver keeps that promise).  A word of the command line   *)
(* is a string; numbers_of gives the ones that are numbers their value.    *)
(***************************************************************************)
EXTENDS Stc89, SequencesExt

CONSTANTS
  CommandLines,   \* sequences of words
  Dashed,         \* the words that start with '-'
  NumberOf,       \* function from the words that are integers to their value
  ImageOf,        \* function from the paths that hold a sound HEX file to its image
  Statuses,       \* the status packets a chip may send
  StdoutMayClose  \* whoever reads the output may go away

VARIABLES
  argv, at,                       \* the words, and how many are read
  settings, write_options, quiet, words, \* of Args: the valued options, the flags, the plain words
  stage, image, info, plan,
  shown,                          \* what `explain` printed
  exit,
  content, told                   \* of FlashPromise
args_vars == <<settings, write_options, quiet, words>>
run_vars  == <<content, told>>
cli_vars  == <<argv, at, args_vars, stage, image, info, plan, shown, exit, run_vars>>

None     == "none given"
NoInfo   == TargetInfo(<<0, 0>>, NoCapacity, 0, <<>>)
NoPlan   == Error("NotPlanned")

-----------------------------------------------------------------------------
(* The words.                                                              *)
Name(w)  == IF w = "-p" THEN "--port" ELSE w
Help     == {"-h", "--help"}
Flags    == {"-q", "--quiet", "--keep-options", "--skip-options"}
Settings == {"--port", "--baud", "--handshake-baud", "--drain-mode", "--drain-margin",
             "--parity", "--wait", "--blocks"}
Valued   == Settings \cup {"-p"}

\* The options begin with '-', and what says that there is no value is no number.
ASSUME FlasherAssumption ==
  /\ \A line \in CommandLines : line \in Seq(STRING)
  /\ Valued \cup Flags \cup Help \subseteq Dashed
  /\ None \notin DOMAIN NumberOf
  /\ \A w \in DOMAIN NumberOf : NumberOf[w] \in Int
  /\ \A st \in Statuses : IsStatusFrame(st)
  /\ StdoutMayClose \in BOOLEAN

Default == [s \in Settings |->
  CASE s = "--baud"           -> "115200"
    [] s = "--handshake-baud" -> "2400"
    [] s = "--drain-mode"     -> "tcdrain"
    [] s = "--drain-margin"   -> "100"
    [] s = "--parity"         -> "none"
    [] s = "--wait"           -> "30"
    [] OTHER                  -> None]

\* The values an option takes: a byte, one of two words, any number (an i64), or any
\* that is not negative; of a u32 and a u64 the upper bound is left out.
Takes(s, w) ==
  CASE s = "--port"         -> TRUE
    [] s = "--drain-mode"   -> w \in {"tcdrain", "wire"}
    [] s = "--parity"       -> w \in {"none", "even"}
    [] s = "--drain-margin" -> w \in DOMAIN NumberOf
    [] s = "--blocks"       -> w \in DOMAIN NumberOf /\ NumberOf[w] \in 0..255
    [] OTHER                -> w \in DOMAIN NumberOf /\ NumberOf[w] \in Nat

Command == words[1]

Opts == [handshake_baud |-> NumberOf[settings["--handshake-baud"]],
         transfer_baud  |-> NumberOf[settings["--baud"]],
         reply_timeout_ms |-> 2000, erase_timeout_ms |-> 20000]

Job == CASE Command \in {"identify", "info"} -> [kind |-> "Identify"]
         [] Command \in {"write", "flash"}   ->
              [kind |-> "Flash", image |-> image, write_options |-> write_options]
         [] OTHER -> IF settings["--blocks"] = None THEN [kind |-> "EraseAll"]
                     ELSE [kind |-> "Erase", blocks |-> NumberOf[settings["--blocks"]]]

Promise == INSTANCE FlashPromise WITH wants <- words # <<>> /\ Command \in {"write", "flash"}

-----------------------------------------------------------------------------
CliInit ==
  /\ argv \in CommandLines
  /\ at = 0
  /\ settings = Default
  /\ write_options = TRUE
  /\ quiet = FALSE
  /\ words = <<>>
  /\ stage = "parse"
  /\ image = <<>> /\ info = NoInfo /\ plan = NoPlan /\ shown = <<>>
  /\ exit = "none"
  /\ content = "blank" /\ told = "none"

Exit(status) == stage' = "exited" /\ exit' = status
Go(s)        == stage' = s /\ UNCHANGED exit
Parsed       == <<image, info, plan, shown, run_vars>>

Arg == argv[at + 1]
ReadsArg == stage = "parse" /\ at < Len(argv)

\* No words at all print the usage, too.
ShowHelp ==
  /\ stage = "parse"
  /\ argv = <<>> \/ (ReadsArg /\ Arg \in Help)
  /\ Exit("success")
  /\ UNCHANGED <<argv, at, args_vars, Parsed>>

\* Mutant: a `continue` on the flags skips the increment.
TakeFlagForever ==
  /\ ReadsArg
  /\ Arg \in Flags
  /\ UNCHANGED cli_vars

TakeFlag ==
  /\ ReadsArg
  /\ Arg \in Flags
  /\ at' = at + 1
  /\ write_options' = CASE Arg = "--keep-options" -> TRUE
                        [] Arg = "--skip-options" -> FALSE
                        [] OTHER                   -> write_options
  /\ quiet' = (quiet \/ Arg \in {"-q", "--quiet"})
  /\ UNCHANGED <<argv, settings, words, stage, exit, Parsed>>

ValueIsGood == at + 2 <= Len(argv) /\ Takes(Name(Arg), argv[at + 2])

\* Mutant: the value is not stepped over.
TakeOptionOnly ==
  /\ ReadsArg
  /\ Arg \in Valued /\ ValueIsGood
  /\ settings' = [settings EXCEPT ![Name(Arg)] = argv[at + 2]]
  /\ at' = at + 1
  /\ UNCHANGED <<argv, write_options, quiet, words, stage, exit, Parsed>>

\* next!: the word behind the option, whatever it looks like.
TakeOption ==
  /\ ReadsArg
  /\ Arg \in Valued /\ ValueIsGood
  /\ settings' = [settings EXCEPT ![Name(Arg)] = argv[at + 2]]
  /\ at' = at + 2
  /\ UNCHANGED <<argv, write_options, quiet, words, stage, exit, Parsed>>

RefuseWord ==
  /\ ReadsArg
  /\ \/ Arg \in Valued /\ ~ValueIsGood
     \/ Arg \in Dashed \ (Valued \cup Flags \cup Help)
  /\ Exit("failure")
  /\ UNCHANGED <<argv, at, args_vars, Parsed>>

TakePlainWord ==
  /\ ReadsArg
  /\ Arg \notin Dashed
  /\ at' = at + 1
  /\ words' = Append(words, Arg)
  /\ UNCHANGED <<argv, settings, write_options, quiet, stage, exit, Parsed>>

Dispatch ==
  /\ stage = "parse"
  /\ argv # <<>> /\ at = Len(argv)
  /\ \/ /\ words = <<>>
        /\ Exit("failure")
     \/ /\ words # <<>>
        /\ \/ Command = "ports" /\ Exit("success")
           \/ Command \in {"identify", "info", "erase"} /\ Go("port")
           \/ Command \in {"write", "flash", "explain"} /\
                IF Len(words) > 1 THEN Go("load") ELSE Exit("failure")
           \/ /\ Command \notin {"ports", "identify", "info", "erase", "write", "flash", "explain"}
              /\ Exit("failure")
  /\ UNCHANGED <<argv, at, args_vars, Parsed>>

-----------------------------------------------------------------------------
\* load_image: the file is read and parsed, or the command ends.
LoadImage ==
  /\ stage = "load"
  /\ IF words[2] \in DOMAIN ImageOf
     THEN /\ image' = ImageOf[words[2]]
          /\ Go(IF Command = "explain" THEN "explain" ELSE "port")
     ELSE Exit("failure") /\ UNCHANGED image
  /\ UNCHANGED <<argv, at, args_vars, info, plan, shown, run_vars>>

\* Mutant: only the image is cut into blocks, not the region that is erased.
BlocksOfTheImage(bytes) ==
  [k \in 1..CeilDiv(Len(bytes), WriteBlock) |->
     [addr |-> (k - 1) * WriteBlock,
      ack  |-> BlockAck([j \in 1..WriteBlock |-> IF (k - 1) * WriteBlock + j <= Len(bytes)
                                                 THEN bytes[(k - 1) * WriteBlock + j] ELSE 255])]]

\* The lines `explain` prints: address and expected acknowledgement of each block.
BlocksShown(bytes) ==
  LET region == EraseBlocksFor(Len(bytes)) * EraseBlock
      padded == [j \in 1..region |-> IF j <= Len(bytes) THEN bytes[j] ELSE 255]
  IN  [k \in 1..(region \div WriteBlock) |->
         [addr |-> (k - 1) * WriteBlock,
          ack  |-> BlockAck(SubSeq(padded, (k - 1) * WriteBlock + 1, k * WriteBlock))]]

Explain ==
  /\ stage = "explain"
  /\ shown' = BlocksShown(image)
  /\ Exit("success")
  /\ UNCHANGED <<argv, at, args_vars, image, info, plan, run_vars>>

OpenPort ==
  /\ stage = "port"
  /\ \/ settings["--port"] # None /\ Go("handshake")
     \/ Exit("failure")      \* no --port, or the port does not open
  /\ UNCHANGED <<argv, at, args_vars, Parsed>>

\* The first status packet, as it parses; no packet or a failing port end here.
Handshake ==
  /\ stage = "handshake"
  /\ \/ /\ Exit("failure")
        /\ UNCHANGED info
     \/ \E st \in Statuses :
          LET parsed == ParseStatus(st, Opts.handshake_baud)
          IN  IF parsed.ok THEN info' = parsed.value /\ Go("plan")
                           ELSE Exit("failure") /\ UNCHANGED info
  /\ UNCHANGED <<argv, at, args_vars, image, plan, shown, run_vars>>

MakePlan ==
  /\ stage = "plan"
  /\ plan' = Plan(info, Job, Opts)
  /\ IF plan'.ok THEN Go("run") ELSE Exit("failure")
  /\ UNCHANGED <<argv, at, args_vars, image, info, shown, run_vars>>

RunPlan ==
  /\ stage = "run"
  /\ UNCHANGED <<argv, at, args_vars, stage, image, info, plan, shown, exit>>
  /\ Promise!PromiseNext

\* Mutant: the result of run() is dropped.
ReportAnyRun ==
  /\ stage = "run"
  /\ told # "none"
  /\ Exit("success")
  /\ UNCHANGED <<argv, at, args_vars, Parsed>>

Report ==
  /\ stage = "run"
  /\ told # "none"
  /\ Exit(IF told = "ok" THEN "success" ELSE "failure")
  /\ UNCHANGED <<argv, at, args_vars, Parsed>>

\* A request already on the wire may be carried out after the process is gone.
Aftermath ==
  /\ stage = "exited" /\ plan.ok
  /\ UNCHANGED <<argv, at, args_vars, stage, image, info, plan, shown, exit>>
  /\ Promise!ProgramSome

\* Where something is printed: help, ports, blocks, the target and the outcome
\* always, the rest, every step of the run included, unless quiet.
Prints ==
  \/ stage = "parse" /\ (argv = <<>> \/ (ReadsArg /\ Arg \in Help))
  \/ stage = "parse" /\ at = Len(argv) /\ words # <<>> /\ Command = "ports"
  \/ stage \in {"explain", "plan"}
  \/ stage = "run" /\ told = "ok"
  \/ ~quiet /\ \/ stage = "load" /\ words[2] \in DOMAIN ImageOf
               \/ stage = "handshake"
               \/ stage = "run" /\ told = "none"

\* println! panics if standard output is gone, and the process ends there.
PrintFails ==
  /\ StdoutMayClose /\ Prints
  /\ Exit("panic")
  /\ UNCHANGED <<argv, at, args_vars, Parsed>>

ParseArgs == ShowHelp \/ TakeFlag \/ TakeOption \/ RefuseWord \/ TakePlainWord
Main == Dispatch \/ LoadImage \/ Explain \/ OpenPort \/ Handshake \/ MakePlan \/ Report

CliNext == ParseArgs \/ Main \/ RunPlan \/ Aftermath \/ PrintFails

CliSpec == CliInit /\ [][CliNext]_cli_vars

\* The process runs, and run() returns (Driver!RunReturns).
FairCliSpec ==
  CliSpec /\ WF_cli_vars(ParseArgs \/ Main) /\ WF_cli_vars(RunPlan /\ told' # told)

-----------------------------------------------------------------------------
(* What a command line says, read without parse_args: a word is a value if *)
(* the word before it is an option that wants one and is no value itself.  *)
IsValue == LET v[k \in 0..Len(argv)] == k > 1 /\ argv[k - 1] \in Valued /\ ~v[k - 1] IN v
Said(names) == {k \in 1..Len(argv) : argv[k] \in names /\ ~IsValue[k]}
PlainAt     == {k \in 1..Len(argv) : argv[k] \notin Dashed /\ ~IsValue[k]}

LastOf(ks) == CHOOSE k \in ks : \A j \in ks : j <= k
SettingSaid(s) == LET ks == {k \in Said(Valued) : Name(argv[k]) = s}
                  IN  IF ks = {} THEN Default[s] ELSE argv[LastOf(ks) + 1]
OptionsSaid == LET ks == Said({"--keep-options", "--skip-options"})
               IN  ks = {} \/ argv[LastOf(ks)] = "--keep-options"
PlainSaid(n) == CHOOSE k \in PlainAt : Cardinality({j \in PlainAt : j < k}) = n - 1

\* Before the port is opened the whole command line has been understood and the
\* image is loaded; and what then goes to the chip is what was asked for: the
\* first plain word is the command and the second its file, the last mention of
\* an option counts, a word an option takes is nothing else, and only the erase
\* command hears --blocks (stcbsl.rs 97-216, 304-308).
TheJobIsTheOneAskedFor ==
  stage \in {"handshake", "plan", "run"} =>
    LET command == argv[PlainSaid(1)]
    IN  /\ PlainAt # {}
        /\ \A s \in Settings : settings[s] = SettingSaid(s) /\ (Said({s}) # {} => Takes(s, settings[s]))
        /\ Said(Help) = {}
        /\ settings["--port"] # None
        /\ CASE command \in {"write", "flash"} ->
                  /\ Cardinality(PlainAt) > 1 /\ argv[PlainSaid(2)] \in DOMAIN ImageOf
                  /\ Job = [kind |-> "Flash", image |-> ImageOf[argv[PlainSaid(2)]],
                            write_options |-> OptionsSaid]
             [] command = "erase" ->
                  Job = IF Said({"--blocks"}) = {} THEN [kind |-> "EraseAll"]
                        ELSE [kind |-> "Erase", blocks |-> NumberOf[SettingSaid("--blocks")]]
             [] command \in {"identify", "info"} -> Job = [kind |-> "Identify"]
             [] OTHER -> FALSE

\* Success is only reported when help, ports or explain was asked for or the run
\* reported success, over a complete image if there was one to write; and a
\* failure that is not called indeterminate never leaves part of an image in the
\* flash, not even by what the chip does later; with --quiet that goes for a lost
\* standard output, too (stcbsl.rs 71-80, 342-351).
ExitTellsTheTruth ==
  /\ exit = "success" =>
       \/ argv = <<>> \/ Said(Help) # {}
       \/ argv[PlainSaid(1)] \in {"ports", "explain"}
       \/ told = "ok" /\ (argv[PlainSaid(1)] \in {"write", "flash"} => content = "complete")
  /\ exit = "failure" /\ content = "partial" => told = "indeterminate"
  /\ exit = "panic" /\ quiet => content # "partial"

\* The flash job of the loaded image, for a chip that answers at the usual rates.
FlashPlan(target) == Plan(target, [kind |-> "Flash", image |-> image, write_options |-> FALSE],
                          [Opts EXCEPT !.transfer_baud = 115200])

\* What `explain` prints without a chip is what `write` sends to any chip that it
\* can be planned for: the same blocks, addresses and acknowledgements
\* (stcbsl.rs 241-258, README of the repository 97-100).
ExplainShowsTheWrites ==
  \A st \in Statuses :
    shown # <<>> =>
      LET parsed == ParseStatus(st, 2400)
          made   == FlashPlan(parsed.value)
          steps  == made.value
          writes == {i \in DOMAIN steps : steps[i].phase = "Write"}
      IN  parsed.ok /\ made.ok =>
            /\ Len(shown) = Cardinality(writes)
            /\ \A i \in writes :
                 shown[Cardinality({j \in writes : j <= i})] =
                   [addr |-> steps[i].write_addr, ack |-> steps[i].expect.sum]

\* driver.rs 13-14: "on any abort after the first write block it reports the
\* flash as indeterminate".
AbortIsCalledIndeterminate ==
  exit \in {"failure", "panic"} /\ content = "partial" => told = "indeterminate"

\* Every command line comes to an exit status.
ProcessExits == <>(exit # "none")
=============================================================================
