-------------------------------- MODULE Ihex --------------------------------
(***************************************************************************)
(* The Intel HEX reader of src/ihex.rs: one record after another into a    *)
(* memory of optional bytes, then the image, its lowest address and the    *)
(* number of gap bytes.                                                    *)
(*                                                                         *)
(* A line is blank, malformed (no ':', too short, odd, not hex: all        *)
(* BadRecord) or the bytes its digits stand for, at least five of them.    *)
(* base, mem, size (mem.len()), lowest and saw_data are the locals of      *)
(* parse; at counts the lines read.                                        *)
(***************************************************************************)
EXTENDS Frame, FiniteSets

CONSTANTS
  Files,       \* sequences of lines
  AddrLimit    \* 0x1_0000

Blank          == [kind |-> "blank"]
Malformed      == [kind |-> "malformed"]
Record(b)      == [kind |-> "record", bytes |-> b]

ASSUME FilesAssumption ==
  /\ AddrLimit \in Nat
  /\ \A f \in Files :
       /\ Len(f) \in Nat /\ DOMAIN f = 1..Len(f)
       /\ \A i \in 1..Len(f) :
            \/ f[i] \in {Blank, Malformed}
            \/ /\ f[i] = Record(f[i].bytes)
               /\ f[i].bytes \in Seq(Byte)
               /\ Len(f[i].bytes) >= 5

VARIABLES file, at, base, mem, size, lowest, saw_data, result
ihex_vars == <<file, at, base, mem, size, lowest, saw_data, result>>

NoByte   == 256     \* None
NoLowest == AddrLimit + 1     \* u32::MAX
Running  == [kind |-> "running"]
Refused(error)     == [kind |-> "refused", error |-> error]
Image(bytes, low, gaps) == [kind |-> "image", bytes |-> bytes, lowest_addr |-> low, gap_bytes |-> gaps]

-----------------------------------------------------------------------------
(* One record.                                                             *)
Count(line)  == line.bytes[1]
Offset(line) == BigEndian(line.bytes[2], line.bytes[3])
Type(line)   == line.bytes[4]
Data(line)   == SubSeq(line.bytes, 5, 4 + Count(line))
Upper(line)  == BigEndian(line.bytes[5], line.bytes[6])

NoFault == "none"

\* Mutant: the limit is asked of the first byte, not of the end.
DataFaultAtTheStart(line, b) == IF b + Offset(line) > AddrLimit THEN "AddressTooHigh" ELSE NoFault
DataFault(line, b) == IF b + Offset(line) + Count(line) > AddrLimit THEN "AddressTooHigh" ELSE NoFault

BaseFault(line) == IF Count(line) # 2 THEN "BadRecord"
                   ELSE IF Type(line) = 4 /\ Upper(line) # 0 THEN "AddressTooHigh" ELSE NoFault

TypeFault(line, b) == CASE Type(line) = 0         -> DataFault(line, b)
                        [] Type(line) \in {2, 4}    -> BaseFault(line)
                        [] Type(line) \in {1, 3, 5} -> NoFault
                        [] OTHER                    -> "BadRecord"

\* Mutant: the sum of the record is not looked at.
LineFaultNoSum(line, b) == CASE line.kind = "blank"                -> NoFault
                             [] line.kind = "malformed"            -> "BadRecord"
                             [] OTHER -> IF Len(line.bytes) # Count(line) + 5 THEN "BadRecord"
                                         ELSE TypeFault(line, b)
\* Why parse refuses a line read under base b, test by test (82-157).
LineFault(line, b) == CASE line.kind = "blank"     -> NoFault
                        [] line.kind = "malformed" -> "BadRecord"
                        [] OTHER -> IF Len(line.bytes) # Count(line) + 5 THEN "BadRecord"
                                    ELSE IF Checksum(line.bytes) # 0 THEN "BadChecksum"
                                    ELSE TypeFault(line, b)

Line  == file[at + 1]
Grown(end) == IF end > size THEN end ELSE size
IsSound(type) == /\ Line.kind = "record"
                 /\ Type(Line) \in type
                 /\ LineFault(Line, base) = NoFault

-----------------------------------------------------------------------------
IhexInit ==
  /\ file \in Files
  /\ at = 0
  /\ base = 0
  /\ mem = [a \in {} |-> NoByte]
  /\ size = 0
  /\ lowest = NoLowest
  /\ saw_data = FALSE
  /\ result = IF \A i \in 1..Len(file) : file[i] = Blank THEN Refused("Empty") ELSE Running

ReadLine == result = Running /\ at < Len(file) /\ at' = at + 1

PassOver ==
  /\ ReadLine
  /\ Line = Blank \/ IsSound({3, 5})
  /\ UNCHANGED <<file, base, mem, size, lowest, saw_data, result>>

Refuse ==
  /\ ReadLine
  /\ LineFault(Line, base) # NoFault
  /\ result' = Refused(LineFault(Line, base))
  /\ UNCHANGED <<file, base, mem, size, lowest, saw_data>>

\* Mutant: a byte that is there already is kept.
StoredFirst(addr, end, data) ==
  [a \in 0..(Grown(end) - 1) |->
     IF a < size /\ mem[a] # NoByte THEN mem[a]
     ELSE IF a \in addr..(end - 1) THEN data[a - addr + 1] ELSE NoByte]
\* mem grown to end and overwritten from addr on.
Stored(addr, end, data) ==
  [a \in 0..(Grown(end) - 1) |->
     IF a \in addr..(end - 1) THEN data[a - addr + 1]
     ELSE IF a < size THEN mem[a] ELSE NoByte]

DataRecord ==
  /\ ReadLine
  /\ IsSound({0})
  /\ LET addr == base + Offset(Line)
         end  == addr + Count(Line)
     IN  /\ mem' = Stored(addr, end, Data(Line))
         /\ size' = Grown(end)
         /\ lowest' = IF addr < lowest THEN addr ELSE lowest
  /\ saw_data' = TRUE
  /\ UNCHANGED <<file, base, result>>

\* Type 2 sets a paragraph, type 4 can only name the lowest 64 KB.
BaseRecord ==
  /\ ReadLine
  /\ IsSound({2, 4})
  /\ base' = IF Type(Line) = 2 THEN Upper(Line) * 16 ELSE 0
  /\ UNCHANGED <<file, mem, size, lowest, saw_data, result>>

Outcome ==
  IF ~saw_data \/ size = 0 THEN Refused("NoData")
  ELSE Image([a \in 0..(size - 1) |-> IF mem[a] = NoByte THEN 0 ELSE mem[a]],
             lowest, Cardinality({a \in 0..(size - 1) : mem[a] = NoByte}))

\* An end record, or the end of the text without one.
EndOfFile ==
  /\ \/ ReadLine /\ IsSound({1})
     \/ result = Running /\ at = Len(file) /\ at' = at
  /\ result' = Outcome
  /\ UNCHANGED <<file, base, mem, size, lowest, saw_data>>

IhexNext == PassOver \/ Refuse \/ DataRecord \/ BaseRecord \/ EndOfFile

IhexSpec == IhexInit /\ [][IhexNext]_ihex_vars

-----------------------------------------------------------------------------
(* What a file says, without its reader: each data record covers addresses *)
(* from the base set by the last base record before it.                    *)

IsA(i, types)  == file[i].kind = "record" /\ Type(file[i]) \in types
LastBase(k, i) == /\ k \in 1..(i - 1)
                  /\ IsA(k, {2, 4})
                  /\ \A j \in (k + 1)..(i - 1) : ~IsA(j, {2, 4})
BaseOf(i) ==
  IF \E k \in 1..(i - 1) : LastBase(k, i) /\ Type(file[k]) = 2
  THEN Upper(file[CHOOSE k \in 1..(i - 1) : LastBase(k, i)]) * 16 ELSE 0

DataLines    == {i \in 1..at : IsA(i, {0})}
First(i)     == BaseOf(i) + Offset(file[i])
End(i)       == First(i) + Count(file[i])
Covers(i, a) == First(i) <= a /\ a < End(i)
ByteAt(i, a) == file[i].bytes[5 + a - First(i)]

Covered(a)  == \E i \in DataLines : Covers(i, a)
Says(a, v)  == \E i \in DataLines : /\ Covers(i, a)
                                   /\ \A j \in DataLines : Covers(j, a) => j <= i
                                   /\ v = ByteAt(i, a)

IhexTypeOK ==
  /\ file \in Files
  /\ at \in 0..Len(file)
  /\ base \in Nat /\ size \in 0..AddrLimit
  /\ mem \in [0..(size - 1) -> Byte \cup {NoByte}]
  /\ lowest \in 0..NoLowest /\ saw_data \in BOOLEAN
  /\ result.kind \in {"running", "refused", "image"}

\* The image of an accepted file: at every address the byte of the last record
\* that covers it, zero where none does; as long as the furthest record reaches;
\* its lowest address and gap count those of the records (ihex.rs 112-167).
ImageIsWhatTheRecordsSay ==
  result.kind = "image" =>
    LET bytes == result.bytes
    IN  /\ DOMAIN bytes = 0..(size - 1)
        /\ \A a \in 0..(size - 1) : IF Covered(a) THEN Says(a, bytes[a]) ELSE bytes[a] = 0
        /\ \A i \in DataLines : End(i) <= size /\ result.lowest_addr <= First(i)
        /\ \E i \in DataLines : End(i) = size
        /\ \E i \in DataLines : result.lowest_addr = First(i)
        /\ result.gap_bytes = Cardinality({a \in 0..(size - 1) : ~Covered(a)})

\* Nothing a damaged record said is in an image: every record read up to the end
\* record has its length and its sum right and stays below 64 KB (82-107, 116).
OnlySoundRecordsCount ==
  result.kind = "image" =>
    \A i \in 1..at :
      file[i] # Blank =>
        /\ file[i].kind = "record"
        /\ Len(file[i].bytes) = Count(file[i]) + 5
        /\ Checksum(file[i].bytes) = 0
        /\ IsA(i, {0}) => End(i) <= AddrLimit
=============================================================================
