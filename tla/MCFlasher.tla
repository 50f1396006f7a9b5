----------------------------- MODULE MCFlasher -----------------------------
(* Command lines of up to four words, some behind a port: commands, two       *)
(* files and one that is missing, values that look like commands or options,  *)
(* and numbers an option does not take.  The chip is that of MCPlanner.       *)
EXTENDS Flasher

Known   == <<240, 2>>
Unknown == <<240, 3>>
MCKnownChips == [id \in {Known} |-> 16]

StatusPayload(word, id) ==
  [i \in 1..StatusPayloadLen |->
     IF i <= 16 THEN (IF i % 2 = 1 THEN word \div 256 ELSE word % 256)
     ELSE IF i = OffOption + 1 THEN 253
     ELSE IF i = OffChipId + 1 THEN id[1]
     ELSE IF i = OffChipId + 2 THEN id[2]
     ELSE 102]
Good(id) == McuFrame(CmdStatus, StatusPayload(2667, id))

MCStatuses == {Good(Known), Good(Unknown), McuFrame(CmdStatus, SubSeq(StatusPayload(2667, Known), 1, 21))}

MCNumberOf == [w \in {"0", "2", "256", "2400", "9600", "115200", "100", "30", "-5"} |->
  CASE w = "0" -> 0 [] w = "2" -> 2 [] w = "256" -> 256 [] w = "2400" -> 2400
    [] w = "9600" -> 9600 [] w = "115200" -> 115200 [] w = "100" -> 100 [] w = "30" -> 30 [] w = "-5" -> 0 - 5]

MCImageOf == [p \in {"a.hex", "large.hex"} |->
  [j \in 1..(IF p = "a.hex" THEN 5 ELSE 17) |-> (37 * j + 200) % 256]]

MCWords == {"write", "erase", "explain", "a.hex", "large.hex", "gone.hex", "2", "256", "-5",
            "--blocks", "--skip-options", "--keep-options", "-p", "-h", "-x"}
MCDashed == {"-p", "-h", "-x", "-q", "-5", "--help", "--quiet"} \cup Settings \cup Flags

Up(n) == UNION {[1..k -> MCWords] : k \in 0..n}

MCCommandLines ==
  Up(3)
  \cup {<<"-p", "dev">> \o s : s \in Up(3)}
  \cup {<<"write", "-p", "dev", w, "--skip-options", v, u>> : w, v, u \in MCWords}
  \cup {<<"-p", "dev", c, o, v>> :
          c \in {"identify", "info", "flash", "ports"},
          o \in Settings \cup {"-q", "--keep-options"},
          v \in {"0", "2400", "9600", "-5", "even", "odd", "wire", "a.hex", "--parity"}}
=============================================================================
