----------------------------- MODULE IhexProofs -----------------------------
(***************************************************************************)
(* The image of every accepted HEX file is what its records say, whatever  *)
(* the files and the address limit.                                        *)
(*                                                                         *)
(* While it reads, parse knows only its base and its memory; the meaning   *)
(* of a record is given by all the records before it.  ReadInv ties them   *)
(* together: the base is the one the next record is under, and the memory, *)
(* its size and its lowest address are those of the records read so far.   *)
(* It says nothing of a file that was refused.                             *)
(***************************************************************************)
EXTENDS Ihex, SequenceTheorems, TLAPS

Held(a) == IF Covered(a) THEN Says(a, mem[a]) /\ mem[a] \in Byte ELSE mem[a] = NoByte

MemInv == \A a \in 0..(size - 1) : Held(a)

ExtentInv ==
  /\ \A i \in DataLines : First(i) \in Nat /\ End(i) <= size /\ lowest <= First(i)
  /\ saw_data => /\ \E i \in DataLines : End(i) = size
                 /\ \E i \in DataLines : lowest = First(i)
  /\ ~saw_data => size = 0 /\ lowest = NoLowest

Sound(i) == file[i] # Blank => /\ file[i].kind = "record"
                               /\ Len(file[i].bytes) = Count(file[i]) + 5
                               /\ Checksum(file[i].bytes) = 0
                               /\ IsA(i, {0}) => End(i) <= AddrLimit

SoundInv == \A i \in 1..at : Sound(i)

ImageInv ==
  result.kind = "image" =>
    /\ saw_data /\ size # 0
    /\ result = Image([a \in 0..(size - 1) |-> IF mem[a] = NoByte THEN 0 ELSE mem[a]],
                      lowest, Cardinality({a \in 0..(size - 1) : mem[a] = NoByte}))

ReadInv == MemInv /\ ExtentInv /\ SoundInv /\ ImageInv /\ base = BaseOf(at + 1)

IhexInv == IhexTypeOK /\ (result.kind # "refused" => ReadInv)

-----------------------------------------------------------------------------
LEMMA BigEndianNat == \A hi, lo \in Byte : BigEndian(hi, lo) \in Nat
BY DEF BigEndian, Byte

LEMMA ByteIsNat == Byte \subseteq Nat
BY DEF Byte

\* What FilesAssumption says of a line that is a record.
LEMMA RecordLine ==
  ASSUME file \in Files, NEW i \in 1..Len(file), file[i].kind = "record"
  PROVE  /\ file[i].bytes \in Seq(Byte)
         /\ Len(file[i].bytes) \in Nat
         /\ Len(file[i].bytes) >= 5
         /\ Count(file[i]) \in Byte
         /\ Offset(file[i]) \in Nat
         /\ Type(file[i]) \in Byte
         /\ Len(file[i].bytes) >= 6 => Upper(file[i]) \in Nat
<1>1. file[i] \in {Blank, Malformed} \/
      (file[i].bytes \in Seq(Byte) /\ Len(file[i].bytes) >= 5)
  BY FilesAssumption
<1>2. file[i].bytes \in Seq(Byte) /\ Len(file[i].bytes) >= 5
  BY <1>1 DEF Blank, Malformed
<1> DEFINE b == file[i].bytes
<1>3. b \in Seq(Byte) /\ Len(b) \in Nat /\ Len(b) >= 5
  BY <1>2
<1> HIDE DEF b
<1>4. \A k \in 1..Len(b) : b[k] \in Byte
  BY <1>3, ElementOfSeq
<1>5. b[1] \in Byte /\ b[2] \in Byte /\ b[3] \in Byte /\ b[4] \in Byte
  BY <1>3, <1>4
<1>6. Len(b) >= 6 => b[5] \in Byte /\ b[6] \in Byte
  BY <1>3, <1>4
<1>7. BigEndian(b[2], b[3]) \in Nat /\ (Len(b) >= 6 => BigEndian(b[5], b[6]) \in Nat)
  BY <1>5, <1>6, BigEndianNat
<1> QED
  BY <1>3, <1>5, <1>7 DEF b, Count, Offset, Type, Upper

LEMMA FileLength == ASSUME file \in Files  PROVE Len(file) \in Nat
BY FilesAssumption

\* What it takes for a line to be passed.
LEMMA SoundLine ==
  ASSUME file \in Files, at \in 0..Len(file), at < Len(file),
         NEW types, IsSound(types), base \in Nat
  PROVE  /\ Line.kind = "record" /\ Type(Line) \in types
         /\ Len(Line.bytes) = Count(Line) + 5
         /\ Checksum(Line.bytes) = 0
         /\ Type(Line) = 0 => base + Offset(Line) + Count(Line) <= AddrLimit
         /\ Type(Line) \in {2, 4} => Count(Line) = 2
<1>1. Len(file) \in Nat /\ at + 1 \in 1..Len(file)
  BY FileLength
<1>2. Line.kind = "record" /\ Type(Line) \in types /\ LineFault(Line, base) = NoFault
  BY DEF IsSound
<1>3. Count(Line) \in Nat /\ Offset(Line) \in Nat
  <2>1. file[at + 1].kind = "record"
    BY <1>2 DEF Line
  <2>2. Count(file[at + 1]) \in Byte /\ Offset(file[at + 1]) \in Nat
    BY <1>1, <2>1, RecordLine
  <2>3. Count(file[at + 1]) \in Nat
    BY <2>2, ByteIsNat
  <2>4. Count(Line) = Count(file[at + 1])
    BY DEF Line
  <2>5. Offset(Line) = Offset(file[at + 1])
    BY DEF Line
  <2> QED
    BY <2>2, <2>3, <2>4, <2>5
<1>4. Len(Line.bytes) = Count(Line) + 5 /\ Checksum(Line.bytes) = 0 /\ TypeFault(Line, base) = NoFault
  BY <1>2 DEF LineFault, NoFault
<1>5. Type(Line) = 0 => DataFault(Line, base) = NoFault
  BY <1>4 DEF TypeFault
<1>6. Type(Line) = 0 => ~(base + Offset(Line) + Count(Line) > AddrLimit)
  BY <1>5 DEF DataFault, NoFault
<1>7. Type(Line) \in {2, 4} => BaseFault(Line) = NoFault
  BY <1>4 DEF TypeFault
<1>8. Type(Line) \in {2, 4} => Count(Line) = 2
  BY <1>7 DEF BaseFault, NoFault
<1> QED
  BY <1>2, <1>3, <1>4, <1>6, <1>8, FilesAssumption

-----------------------------------------------------------------------------
\* There is at most one last base record before a line, and it decides the base.
LEMMA BaseIs ==
  ASSUME NEW i \in Nat, NEW k, LastBase(k, i)
  PROVE  BaseOf(i) = IF Type(file[k]) = 2 THEN Upper(file[k]) * 16 ELSE 0
<1>1. \A j : LastBase(j, i) => j = k
  <2> SUFFICES ASSUME NEW j, LastBase(j, i)  PROVE j = k
    OBVIOUS
  <2>1. j \in 1..(i - 1) /\ k \in 1..(i - 1) /\ IsA(j, {2, 4}) /\ IsA(k, {2, 4})
    BY DEF LastBase
  <2>2. ~(j < k)
    <3> SUFFICES ASSUME j < k  PROVE FALSE
      OBVIOUS
    <3>1. k \in (j + 1)..(i - 1)
      BY <2>1
    <3> QED
      BY <2>1, <3>1 DEF LastBase
  <2>3. ~(k < j)
    <3> SUFFICES ASSUME k < j  PROVE FALSE
      OBVIOUS
    <3>1. j \in (k + 1)..(i - 1)
      BY <2>1
    <3> QED
      BY <2>1, <3>1 DEF LastBase
  <2> QED
    BY <2>1, <2>2, <2>3
<1>2. k \in 1..(i - 1)
  BY DEF LastBase
<1> DEFINE c == CHOOSE m \in 1..(i - 1) : LastBase(m, i)
<1>3. LastBase(c, i)
  BY <1>2
<1>4. c = k
  BY <1>1, <1>3
<1>5. (\E m \in 1..(i - 1) : LastBase(m, i) /\ Type(file[m]) = 2) <=> Type(file[k]) = 2
  BY <1>1, <1>2
<1> QED
  BY <1>4, <1>5 DEF BaseOf

LEMMA NoBase ==
  ASSUME NEW i, \A k : ~LastBase(k, i)
  PROVE  BaseOf(i) = 0
BY DEF BaseOf

\* A base record sets the base of the line behind it; any other line keeps it.
LEMMA NextBase ==
  ASSUME NEW n \in Nat
  PROVE  BaseOf(n + 2) = IF ~IsA(n + 1, {2, 4}) THEN BaseOf(n + 1)
                         ELSE IF Type(file[n + 1]) = 2 THEN Upper(file[n + 1]) * 16 ELSE 0
<1>1. CASE IsA(n + 1, {2, 4})
  <2>1. LastBase(n + 1, n + 2)
    BY <1>1 DEF LastBase
  <2>2. n + 2 \in Nat
    OBVIOUS
  <2> QED
    BY <1>1, <2>1, <2>2, BaseIs
<1>2. CASE ~IsA(n + 1, {2, 4})
  <2>1. \A k : LastBase(k, n + 1) <=> LastBase(k, n + 2)
    <3> SUFFICES ASSUME NEW k  PROVE LastBase(k, n + 1) <=> LastBase(k, n + 2)
      OBVIOUS
    <3>1. ASSUME LastBase(k, n + 1)  PROVE LastBase(k, n + 2)
      <4>1. k \in 1..n /\ IsA(k, {2, 4}) /\ \A j \in (k + 1)..n : ~IsA(j, {2, 4})
        BY <3>1 DEF LastBase
      <4>2. \A j \in (k + 1)..(n + 1) : j = n + 1 \/ j \in (k + 1)..n
        BY <4>1
      <4>3. k \in 1..(n + 1) /\ n + 2 - 1 = n + 1
        BY <4>1
      <4> QED
        BY <1>2, <4>1, <4>2, <4>3 DEF LastBase
    <3>2. ASSUME LastBase(k, n + 2)  PROVE LastBase(k, n + 1)
      <4>1. k \in 1..(n + 1) /\ IsA(k, {2, 4}) /\ \A j \in (k + 1)..(n + 1) : ~IsA(j, {2, 4})
        BY <3>2 DEF LastBase
      <4>2. k # n + 1
        BY <1>2, <4>1
      <4>3. k \in 1..n /\ \A j \in (k + 1)..n : j \in (k + 1)..(n + 1)
        BY <4>1, <4>2
      <4>4. n + 1 - 1 = n
        OBVIOUS
      <4> QED
        BY <4>1, <4>3, <4>4 DEF LastBase
    <3> QED
      BY <3>1, <3>2
  <2>2. CASE \E k : LastBase(k, n + 1)
    <3>1. PICK k : LastBase(k, n + 1)
      BY <2>2
    <3>2. LastBase(k, n + 2)
      BY <2>1, <3>1
    <3>3. n + 1 \in Nat /\ n + 2 \in Nat
      OBVIOUS
    <3> QED
      BY <1>2, <3>1, <3>2, <3>3, BaseIs
  <2>3. CASE \A k : ~LastBase(k, n + 1)
    <3>1. \A k : ~LastBase(k, n + 2)
      BY <2>1, <2>3
    <3> QED
      BY <1>2, <2>3, <3>1, NoBase
  <2> QED
    BY <2>2, <2>3
<1> QED
  BY <1>1, <1>2

LEMMA BaseAtStart == BaseOf(1) = 0
<1>1. \A k : ~LastBase(k, 1)
  BY DEF LastBase
<1> QED
  BY <1>1, NoBase
-----------------------------------------------------------------------------
\* No step changes the file, nor what it says.
LEMMA SameFile ==
  ASSUME file' = file
  PROVE  /\ \A i : BaseOf(i)' = BaseOf(i) /\ First(i)' = First(i) /\ End(i)' = End(i)
         /\ \A i, types : IsA(i, types)' <=> IsA(i, types)
         /\ \A i, a : (Covers(i, a)' <=> Covers(i, a)) /\ ByteAt(i, a)' = ByteAt(i, a)
         /\ \A i : Sound(i)' <=> Sound(i)
<1>1. \A i : BaseOf(i)' = BaseOf(i)
  BY DEF BaseOf, LastBase, IsA, Type, Upper
<1>2. \A i : First(i)' = First(i) /\ End(i)' = End(i)
  BY <1>1 DEF First, End, Offset, Count
<1>3. \A i, types : IsA(i, types)' <=> IsA(i, types)
  BY DEF IsA, Type
<1>4. \A i, a : (Covers(i, a)' <=> Covers(i, a)) /\ ByteAt(i, a)' = ByteAt(i, a)
  BY <1>2 DEF Covers, ByteAt
<1>5. \A i : Sound(i)' <=> Sound(i)
  BY <1>2, <1>3 DEF Sound, Count
<1> QED
  BY <1>1, <1>2, <1>3, <1>4, <1>5

\* A line without data says nothing of the memory.
LEMMA NoDataLine ==
  ASSUME file' = file, at \in Nat,
         at' = at \/ (at' = at + 1 /\ ~IsA(at + 1, {0})),
         UNCHANGED <<mem, size, lowest, saw_data>>,
         MemInv, ExtentInv
  PROVE  MemInv' /\ ExtentInv'
<1>1. DataLines' = DataLines
  <2>1. \A i : IsA(i, {0})' <=> IsA(i, {0})
    BY SameFile
  <2>2. \A i : i \in 1..at' /\ IsA(i, {0}) <=> i \in 1..at /\ IsA(i, {0})
    OBVIOUS
  <2>3. \A i : i \in DataLines' <=> i \in DataLines
    BY <2>1, <2>2 DEF DataLines
  <2> QED
    BY <2>3
<1>2. \A i, a : (Covers(i, a)' <=> Covers(i, a)) /\ ByteAt(i, a)' = ByteAt(i, a)
  BY SameFile
<1>3. \A a : (Covered(a)' <=> Covered(a)) /\ (Says(a, mem[a])' <=> Says(a, mem[a]))
  BY <1>1, <1>2 DEF Covered, Says
<1>4. \A a : Held(a)' <=> Held(a)
  BY <1>3 DEF Held
<1>5. MemInv'
  BY <1>4 DEF MemInv
<1>6. \A i : First(i)' = First(i) /\ End(i)' = End(i)
  BY SameFile
<1>7. ExtentInv'
  BY <1>1, <1>6 DEF ExtentInv
<1> QED
  BY <1>5, <1>7
\* A data record covers the memory it writes, and nothing else changes.
LEMMA DataStep ==
  ASSUME IhexTypeOK, DataRecord, MemInv, ExtentInv, base = BaseOf(at + 1)
  PROVE  MemInv' /\ ExtentInv' /\ size' <= AddrLimit /\ size' \in Nat
         /\ lowest' \in Nat /\ lowest' <= AddrLimit
         /\ mem' \in [0..(size' - 1) -> Byte \cup {NoByte}]
         /\ End(at + 1) <= AddrLimit
<1> DEFINE n    == at + 1
           addr == base + Offset(Line)
           end  == addr + Count(Line)
<1>1. /\ file \in Files /\ at \in Nat /\ at < Len(file) /\ at \in 0..Len(file)
      /\ base \in Nat /\ size \in Nat /\ size <= AddrLimit /\ lowest \in Nat /\ AddrLimit \in Nat
      /\ n \in 1..Len(file)
  BY FileLength, FilesAssumption DEF IhexTypeOK, DataRecord, ReadLine, NoLowest
<1>2. /\ Line.kind = "record" /\ Type(Line) = 0
      /\ Len(Line.bytes) = Count(Line) + 5
      /\ end <= AddrLimit
  BY <1>1, SoundLine DEF DataRecord
<1>3. /\ Line.bytes \in Seq(Byte) /\ Count(Line) \in Nat /\ Offset(Line) \in Nat
  <2>1. Line = file[n]
    BY DEF Line
  <2>2. file[n].bytes \in Seq(Byte) /\ Count(file[n]) \in Byte /\ Offset(file[n]) \in Nat
    BY <1>1, <1>2, <2>1, RecordLine
  <2> QED
    BY <2>1, <2>2, ByteIsNat
<1>4. addr \in Nat /\ end \in Nat /\ addr <= end
  BY <1>1, <1>3
<1>5. First(n) = addr /\ End(n) = end
  BY DEF First, End, Line
<1>6. /\ file' = file /\ at' = n /\ mem' = Stored(addr, end, Data(Line))
      /\ size' = Grown(end) /\ lowest' = IF addr < lowest THEN addr ELSE lowest
      /\ saw_data' = TRUE
  BY DEF DataRecord, ReadLine
<1> HIDE DEF addr, end
<1>7. size' \in Nat /\ end <= size' /\ size <= size' /\ size' \in {size, end} /\ size' <= AddrLimit
  BY <1>1, <1>2, <1>4, <1>6 DEF Grown
<1>8. lowest' \in Nat /\ lowest' <= addr /\ lowest' <= lowest /\ lowest' \in {lowest, addr} /\ lowest' <= AddrLimit
  BY <1>1, <1>2, <1>4, <1>6
<1>9. \A a \in addr..(end - 1) : Data(Line)[a - addr + 1] = ByteAt(n, a)
                                 /\ Data(Line)[a - addr + 1] \in Byte
  <2> SUFFICES ASSUME NEW a \in addr..(end - 1)
               PROVE  Data(Line)[a - addr + 1] = ByteAt(n, a) /\ Data(Line)[a - addr + 1] \in Byte
    OBVIOUS
  <2> DEFINE b == Line.bytes
             k == a - addr + 1
  <2>1. k \in 1..Count(Line) /\ k + 4 \in 1..Len(b)
    BY <1>2, <1>3, <1>4 DEF end
  <2>2. Data(Line)[k] = b[k + 4]
    <3> DEFINE m == 4 + Count(Line)
    <3>1. m \in Int /\ \A i \in 5..m : i \in 1..Len(b)
      BY <1>2, <1>3
    <3>2. \A i \in 5..m : b[i] \in Byte
      BY <1>3, <3>1, ElementOfSeq
    <3>3. \A i \in 1..(m - 5 + 1) : SubSeq(b, 5, m)[i] = b[5 + i - 1]
      <4> HIDE DEF b, m
      <4> QED
        BY <3>1, <3>2, SubSeqProperties
    <3>4. k \in 1..(m - 5 + 1) /\ 5 + k - 1 = k + 4
      BY <1>3, <1>4, <2>1
    <3>5. SubSeq(b, 5, m)[k] = b[k + 4]
      <4> HIDE DEF b, m, k
      <4> QED
        BY <3>3, <3>4
    <3> QED
      BY <3>5 DEF Data
  <2>3. ByteAt(n, a) = b[k + 4]
    <3>1. ByteAt(n, a) = b[5 + a - addr]
      BY <1>5 DEF ByteAt, Line
    <3>2. 5 + a - addr = k + 4
      BY <1>4
    <3> QED
      BY <3>1, <3>2
  <2>4. b[k + 4] \in Byte
    BY <1>3, <2>1, ElementOfSeq
  <2> QED
    BY <2>2, <2>3, <2>4
<1>10. \A a \in 0..(size' - 1) :
         mem'[a] = IF a \in addr..(end - 1) THEN Data(Line)[a - addr + 1]
                   ELSE IF a < size THEN mem[a] ELSE NoByte
  BY <1>6 DEF Stored
<1>11. \A i : i \in DataLines' <=> i \in DataLines \/ i = n
  <2>1. \A i : IsA(i, {0})' <=> IsA(i, {0})
    BY <1>6, SameFile
  <2>2. IsA(n, {0})
    BY <1>2 DEF IsA, Line
  <2>3. \A i : i \in 1..n <=> i \in 1..at \/ i = n
    BY <1>1
  <2> QED
    BY <1>6, <2>1, <2>2, <2>3 DEF DataLines
<1>12. \A i, a : (Covers(i, a)' <=> Covers(i, a)) /\ ByteAt(i, a)' = ByteAt(i, a)
  BY <1>6, SameFile
<1>13. \A i : First(i)' = First(i) /\ End(i)' = End(i)
  BY <1>6, SameFile
<1>14. \A i \in DataLines : i \in Nat /\ i < n /\ First(i) \in Nat /\ End(i) \in Int
  <2> SUFFICES ASSUME NEW i \in DataLines
               PROVE  i \in Nat /\ i < n /\ First(i) \in Nat /\ End(i) \in Int
    OBVIOUS
  <2>1. i \in Nat /\ i < n /\ i \in 1..Len(file) /\ file[i].kind = "record"
    BY <1>1 DEF DataLines, IsA
  <2>2. Count(file[i]) \in Nat
    BY <1>1, <2>1, RecordLine, ByteIsNat
  <2>3. First(i) \in Nat
    BY DEF ExtentInv
  <2> QED
    BY <2>1, <2>2, <2>3 DEF End
<1>15. \A a \in 0..(size' - 1) : Covers(n, a) <=> a \in addr..(end - 1)
  BY <1>4, <1>5, <1>7 DEF Covers
<1>16. MemInv'
  <2> SUFFICES ASSUME NEW a \in 0..(size' - 1)  PROVE Held(a)'
    BY DEF MemInv
  <2>1. CASE a \in addr..(end - 1)
    <3>1. Covers(n, a)
      BY <1>15, <2>1
    <3>2. mem'[a] = ByteAt(n, a) /\ mem'[a] \in Byte
      BY <1>9, <1>10, <2>1
    <3>3. Covered(a)'
      BY <1>11, <1>12, <3>1 DEF Covered
    <3>4. \A j \in DataLines' : j <= n
      BY <1>1, <1>11, <1>14
    <3>5. Says(a, mem[a])'
      BY <1>11, <1>12, <3>1, <3>2, <3>4 DEF Says
    <3> QED
      BY <3>2, <3>3, <3>5 DEF Held
  <2>2. CASE a \notin addr..(end - 1)
    <3>1. ~Covers(n, a)
      BY <1>15, <2>2
    <3>2. mem'[a] = IF a < size THEN mem[a] ELSE NoByte
      BY <1>10, <2>2
    <3>3. Covered(a)' <=> Covered(a)
      BY <1>11, <1>12, <3>1 DEF Covered
    <3>4. \A v : Says(a, v)' <=> Says(a, v)
      BY <1>11, <1>12, <3>1 DEF Says
    <3>5. CASE a < size
      <4>1. Held(a) /\ mem'[a] = mem[a]
        BY <1>1, <1>7, <3>2, <3>5 DEF MemInv
      <4> QED
        BY <3>3, <3>4, <4>1 DEF Held
    <3>6. CASE ~(a < size)
      <4>1. \A i \in DataLines : ~Covers(i, a)
        BY <1>1, <1>7, <1>14, <3>6 DEF ExtentInv, Covers
      <4>2. ~Covered(a)
        BY <4>1 DEF Covered
      <4> QED
        BY <3>2, <3>3, <3>6, <4>2 DEF Held
    <3> QED
      BY <3>5, <3>6
  <2> QED
    BY <2>1, <2>2
<1>17. ExtentInv'
  <2>1. \A i \in DataLines' : First(i)' \in Nat /\ End(i)' <= size' /\ lowest' <= First(i)'
    <3> SUFFICES ASSUME NEW i \in DataLines'
                 PROVE  First(i) \in Nat /\ End(i) <= size' /\ lowest' <= First(i)
      BY <1>13
    <3>1. CASE i = n
      BY <1>4, <1>5, <1>7, <1>8, <3>1
    <3>2. CASE i \in DataLines
      <4>1. First(i) \in Nat /\ End(i) <= size /\ lowest <= First(i)
        BY <3>2 DEF ExtentInv
      <4> QED
        BY <1>1, <1>7, <1>8, <1>14, <3>2, <4>1
    <3> QED
      BY <1>11, <3>1, <3>2
  <2>2. \E i \in DataLines' : End(i)' = size'
    <3>1. CASE size' = end
      BY <1>5, <1>11, <1>13, <3>1
    <3>2. CASE size' = size /\ size # end
      <4>1. size # 0
        BY <1>4, <1>7, <3>2
      <4>2. PICK i \in DataLines : End(i) = size
        BY <4>1 DEF ExtentInv, IhexTypeOK
      <4> QED
        BY <1>11, <1>13, <3>2, <4>2
    <3> QED
      BY <1>7, <3>1, <3>2
  <2>3. \E i \in DataLines' : lowest' = First(i)'
    <3>1. CASE lowest' = addr
      BY <1>5, <1>11, <1>13, <3>1
    <3>2. CASE lowest' = lowest /\ saw_data
      <4>1. PICK i \in DataLines : lowest = First(i)
        BY <3>2 DEF ExtentInv
      <4> QED
        BY <1>11, <1>13, <3>2, <4>1
    <3>3. CASE ~saw_data
      <4>1. lowest = AddrLimit + 1 /\ addr <= AddrLimit
        BY <1>1, <1>2, <1>4, <3>3 DEF ExtentInv, NoLowest
      <4>2. lowest' = addr
        BY <1>1, <1>4, <1>6, <4>1
      <4> QED
        BY <3>1, <4>2
    <3> QED
      BY <1>8, <3>1, <3>2, <3>3
  <2> QED
    BY <1>6, <2>1, <2>2, <2>3 DEF ExtentInv
<1>18. mem' \in [0..(size' - 1) -> Byte \cup {NoByte}]
  <2>1. \A a \in 0..(size' - 1) : mem'[a] \in Byte \cup {NoByte}
    <3> SUFFICES ASSUME NEW a \in 0..(size' - 1)  PROVE mem'[a] \in Byte \cup {NoByte}
      OBVIOUS
    <3>1. a < size => mem[a] \in Byte \cup {NoByte}
      BY <1>1, <1>7 DEF IhexTypeOK
    <3> QED
      BY <1>9, <1>10, <3>1
  <2>2. size' = Grown(end)
    BY <1>6
  <2>3. mem' = [a \in 0..(size' - 1) |-> mem'[a]]
    BY <1>6, <2>2 DEF Stored
  <2> QED
    BY <2>1, <2>3
<1> QED
  BY <1>2, <1>5, <1>7, <1>8, <1>16, <1>17, <1>18
-----------------------------------------------------------------------------
LEMMA SoundStep ==
  ASSUME file' = file, at \in Nat, at' = at + 1, SoundInv, Sound(at + 1)
  PROVE  SoundInv'
<1>1. \A i \in 1..at' : Sound(i)
  <2>1. \A i \in 1..(at + 1) : i \in 1..at \/ i = at + 1
    OBVIOUS
  <2> QED
    BY <2>1 DEF SoundInv
<1> QED
  BY <1>1, SameFile DEF SoundInv

LEMMA BaseStep ==
  ASSUME file' = file, at \in Nat, at' = at + 1
  PROVE  BaseOf(at + 1)' = IF ~IsA(at + 1, {2, 4}) THEN BaseOf(at + 1)
                           ELSE IF Type(file[at + 1]) = 2 THEN Upper(file[at + 1]) * 16 ELSE 0
<1>1. \A i : BaseOf(i)' = BaseOf(i)
  BY SameFile
<1>2. BaseOf(at + 1)' = BaseOf(at + 2)
  <2>1. BaseOf(at' + 1) = BaseOf(at + 2)
    <3>1. at' + 1 = at + 2
      OBVIOUS
    <3> QED
      BY <3>1
  <2>2. BaseOf(at + 1)' = BaseOf(at' + 1)
    BY DEF BaseOf, LastBase, IsA, Type, Upper
  <2> QED
    BY <2>1, <2>2
<1> QED
  BY <1>2, NextBase

LEMMA IhexInitInv == IhexInit => IhexInv
<1> SUFFICES ASSUME IhexInit  PROVE IhexInv
  OBVIOUS
<1>1. /\ file \in Files /\ at = 0 /\ base = 0 /\ size = 0 /\ lowest = NoLowest
      /\ saw_data = FALSE /\ mem = [a \in {} |-> NoByte]
      /\ result \in {Refused("Empty"), Running}
  BY DEF IhexInit
<1>2. IhexTypeOK
  <2>1. 0..(size - 1) = {}
    BY <1>1
  <2>2. mem \in [0..(size - 1) -> Byte \cup {NoByte}]
    BY <1>1, <2>1
  <2>3. result.kind \in {"running", "refused", "image"}
    BY <1>1 DEF Refused, Running
  <2>4. Len(file) \in Nat /\ AddrLimit \in Nat
    BY <1>1, FileLength, FilesAssumption
  <2>5. at \in 0..Len(file) /\ base \in Nat /\ size \in 0..AddrLimit
    BY <1>1, <2>4
  <2>6. lowest \in 0..NoLowest
    BY <1>1, <2>4 DEF NoLowest
  <2>7. file \in Files /\ saw_data \in BOOLEAN
    BY <1>1
  <2> QED
    BY <2>2, <2>3, <2>5, <2>6, <2>7 DEF IhexTypeOK
<1>3. DataLines = {} /\ 1..at = {}
  BY <1>1 DEF DataLines
<1>4. MemInv /\ ExtentInv /\ SoundInv
  BY <1>1, <1>3 DEF MemInv, ExtentInv, SoundInv
<1>5. ImageInv
  BY <1>1 DEF ImageInv, Refused, Running
<1>6. base = BaseOf(at + 1)
  BY <1>1, BaseAtStart
<1> QED
  BY <1>2, <1>4, <1>5, <1>6 DEF IhexInv, ReadInv

LEMMA IhexNextInv == IhexInv /\ [IhexNext]_ihex_vars => IhexInv'
<1> SUFFICES ASSUME IhexInv, [IhexNext]_ihex_vars  PROVE IhexInv'
  OBVIOUS
<1>1. IhexTypeOK
  BY DEF IhexInv
<1>2. /\ file \in Files /\ Len(file) \in Nat /\ at \in Nat /\ at \in 0..Len(file)
      /\ base \in Nat /\ size \in Nat /\ AddrLimit \in Nat
  BY <1>1, FileLength, FilesAssumption DEF IhexTypeOK
<1>3. ASSUME result = Running  PROVE ReadInv
  BY <1>3 DEF IhexInv, Running
<1>4. ASSUME ReadLine
      PROVE  /\ result = Running /\ at' = at + 1 /\ at < Len(file) /\ at' \in 0..Len(file)
             /\ at + 1 \in 1..Len(file)
  BY <1>2, <1>4 DEF ReadLine
<1>5. ASSUME file' = file, NEW types, ReadLine, IsSound(types), 0 \notin types  PROVE Sound(at + 1)
  <2>1. /\ Line.kind = "record" /\ Type(Line) # 0
        /\ Len(Line.bytes) = Count(Line) + 5 /\ Checksum(Line.bytes) = 0
    BY <1>2, <1>4, <1>5, SoundLine
  <2> QED
    BY <2>1 DEF Sound, IsA, Line
<1>6. ASSUME PassOver  PROVE IhexInv'
  <2>1. /\ ReadLine /\ (Line = Blank \/ IsSound({3, 5})) /\ result' = result
        /\ UNCHANGED <<file, base, mem, size, lowest, saw_data>>
    BY <1>6 DEF PassOver
  <2>2. ~IsA(at + 1, {0}) /\ ~IsA(at + 1, {2, 4})
    <3>1. CASE Line = Blank
      BY <3>1 DEF IsA, Line, Blank
    <3>2. CASE IsSound({3, 5})
      BY <3>2 DEF IsA, IsSound, Line
    <3> QED
      BY <2>1, <3>1, <3>2
  <2>3. Sound(at + 1)
    <3>1. CASE Line = Blank
      BY <3>1 DEF Sound, Line
    <3>2. CASE IsSound({3, 5})
      BY <1>5, <2>1, <3>2
    <3> QED
      BY <2>1, <3>1, <3>2
  <2>4. ReadInv
    BY <1>3, <1>4, <2>1
  <2>5. MemInv' /\ ExtentInv'
    BY <1>2, <1>4, <2>1, <2>2, <2>4, NoDataLine DEF ReadInv
  <2>6. SoundInv'
    BY <1>2, <1>4, <2>1, <2>3, <2>4, SoundStep DEF ReadInv
  <2>7. base' = BaseOf(at + 1)'
    BY <1>2, <1>4, <2>1, <2>2, <2>4, BaseStep DEF ReadInv
  <2>8. ImageInv'
    BY <1>4, <2>1 DEF ImageInv, Running
  <2>9. IhexTypeOK'
    BY <1>1, <1>4, <2>1 DEF IhexTypeOK
  <2> QED
    BY <2>5, <2>6, <2>7, <2>8, <2>9 DEF IhexInv, ReadInv
<1>7. ASSUME Refuse  PROVE IhexInv'
  <2>1. /\ ReadLine /\ UNCHANGED <<file, base, mem, size, lowest, saw_data>>
        /\ result'.kind = "refused"
    BY <1>7 DEF Refuse, Refused
  <2> QED
    BY <1>1, <1>4, <2>1 DEF IhexInv, IhexTypeOK
<1>8. ASSUME DataRecord  PROVE IhexInv'
  <2>1. /\ ReadLine /\ IsSound({0}) /\ UNCHANGED <<file, base, result>> /\ saw_data' = TRUE
    BY <1>8 DEF DataRecord
  <2>2. ReadInv
    BY <1>3, <1>4, <2>1
  <2>3. /\ MemInv' /\ ExtentInv' /\ size' <= AddrLimit /\ size' \in Nat
        /\ lowest' \in Nat /\ lowest' <= AddrLimit
        /\ mem' \in [0..(size' - 1) -> Byte \cup {NoByte}]
        /\ End(at + 1) <= AddrLimit
    BY <1>1, <1>8, <2>2, DataStep DEF ReadInv
  <2>4. /\ Line.kind = "record" /\ Type(Line) = 0
        /\ Len(Line.bytes) = Count(Line) + 5 /\ Checksum(Line.bytes) = 0
    BY <1>2, <1>4, <2>1, SoundLine
  <2>5. Sound(at + 1)
    BY <2>3, <2>4 DEF Sound, Line
  <2>6. SoundInv'
    BY <1>2, <1>4, <2>1, <2>2, <2>5, SoundStep DEF ReadInv
  <2>7. ~IsA(at + 1, {2, 4})
    BY <2>4 DEF IsA, Line
  <2>8. base' = BaseOf(at + 1)'
    BY <1>2, <1>4, <2>1, <2>2, <2>7, BaseStep DEF ReadInv
  <2>9. ImageInv'
    BY <1>4, <2>1 DEF ImageInv, Running
  <2>10. IhexTypeOK'
    <3>1. file' \in Files /\ base' \in Nat /\ at' \in 0..Len(file')
      BY <1>2, <1>4, <2>1
    <3>2. size' \in 0..AddrLimit
      BY <1>2, <2>3
    <3>3. lowest' \in 0..NoLowest
      BY <1>2, <2>3 DEF NoLowest
    <3>4. mem' \in [0..(size' - 1) -> Byte \cup {NoByte}]
      BY <2>3
    <3>5. saw_data' \in BOOLEAN /\ result'.kind \in {"running", "refused", "image"}
      BY <1>1, <2>1 DEF IhexTypeOK
    <3> QED
      BY <3>1, <3>2, <3>3, <3>4, <3>5 DEF IhexTypeOK, NoLowest
  <2> QED
    BY <2>3, <2>6, <2>8, <2>9, <2>10 DEF IhexInv, ReadInv
<1>9. ASSUME BaseRecord  PROVE IhexInv'
  <2>1. /\ ReadLine /\ IsSound({2, 4}) /\ UNCHANGED <<file, mem, size, lowest, saw_data, result>>
        /\ base' = IF Type(Line) = 2 THEN Upper(Line) * 16 ELSE 0
    BY <1>9 DEF BaseRecord
  <2>2. ReadInv
    BY <1>3, <1>4, <2>1
  <2>3. /\ Line.kind = "record" /\ Type(Line) \in {2, 4}
        /\ Len(Line.bytes) = Count(Line) + 5 /\ Count(Line) = 2
    BY <1>2, <1>4, <2>1, SoundLine
  <2>4. IsA(at + 1, {2, 4}) /\ ~IsA(at + 1, {0})
    BY <2>3 DEF IsA, Line
  <2>5. MemInv' /\ ExtentInv'
    BY <1>2, <1>4, <2>1, <2>2, <2>4, NoDataLine DEF ReadInv
  <2>6. SoundInv'
    <3>1. Sound(at + 1)
      BY <1>5, <2>1
    <3> QED
      BY <1>2, <1>4, <2>1, <2>2, <3>1, SoundStep DEF ReadInv
  <2>7. base' = BaseOf(at + 1)'
    BY <1>2, <1>4, <2>1, <2>4, BaseStep DEF Line
  <2>8. base' \in Nat
    <3>1. file[at + 1].kind = "record" /\ Len(file[at + 1].bytes) >= 6
      BY <2>3 DEF Line
    <3>2. Upper(file[at + 1]) \in Nat
      BY <1>2, <1>4, <2>1, <3>1, RecordLine
    <3> QED
      BY <2>1, <3>2 DEF Line
  <2>9. ImageInv'
    BY <1>4, <2>1 DEF ImageInv, Running
  <2>10. IhexTypeOK'
    BY <1>1, <1>4, <2>1, <2>8 DEF IhexTypeOK
  <2> QED
    BY <2>5, <2>6, <2>7, <2>9, <2>10 DEF IhexInv, ReadInv
<1>10. ASSUME EndOfFile  PROVE IhexInv'
  <2>1. /\ UNCHANGED <<file, base, mem, size, lowest, saw_data>> /\ result = Running
        /\ result' = Outcome
        /\ (ReadLine /\ IsSound({1})) \/ (at' = at /\ at = Len(file))
    BY <1>10 DEF EndOfFile, ReadLine
  <2>2. ReadInv
    BY <1>3, <2>1
  <2>3. (at' = at + 1 /\ ReadLine /\ IsSound({1})) \/ at' = at
    BY <1>4, <2>1
  <2>4. IsSound({1}) => ~IsA(at + 1, {0}) /\ ~IsA(at + 1, {2, 4})
    BY DEF IsA, IsSound, Line
  <2>5. MemInv' /\ ExtentInv'
    BY <1>2, <2>1, <2>2, <2>3, <2>4, NoDataLine DEF ReadInv
  <2>6. SoundInv' /\ base' = BaseOf(at + 1)'
    <3>1. CASE at' = at + 1 /\ ReadLine /\ IsSound({1})
      <4>1. Sound(at + 1)
        BY <1>5, <2>1, <3>1
      <4>2. SoundInv'
        BY <1>2, <2>1, <2>2, <3>1, <4>1, SoundStep DEF ReadInv
      <4> QED
        BY <1>2, <2>1, <2>2, <2>4, <3>1, <4>2, BaseStep DEF ReadInv
    <3>2. CASE at' = at
      <4>1. SoundInv'
        BY <2>1, <2>2, <3>2, SameFile DEF ReadInv, SoundInv
      <4>2. BaseOf(at + 1)' = BaseOf(at + 1)
        BY <2>1, <3>2 DEF BaseOf, LastBase, IsA, Type, Upper
      <4> QED
        BY <2>1, <2>2, <4>1, <4>2 DEF ReadInv
    <3> QED
      BY <2>3, <3>1, <3>2
  <2>7. ImageInv'
    <3>1. CASE ~saw_data \/ size = 0
      BY <2>1, <3>1 DEF Outcome, ImageInv, Refused
    <3>2. CASE saw_data /\ size # 0
      <4>1. result' = Image([a \in 0..(size - 1) |-> IF mem[a] = NoByte THEN 0 ELSE mem[a]],
                            lowest, Cardinality({a \in 0..(size - 1) : mem[a] = NoByte}))
        BY <2>1, <3>2 DEF Outcome
      <4> QED
        BY <2>1, <3>2, <4>1 DEF ImageInv
    <3> QED
      BY <3>1, <3>2
  <2>8. IhexTypeOK'
    <3>1. result'.kind \in {"running", "refused", "image"}
      BY <2>1 DEF Outcome, Refused, Image
    <3>2. at' \in 0..Len(file)
      BY <1>2, <1>4, <2>3
    <3> QED
      BY <1>1, <2>1, <3>1, <3>2 DEF IhexTypeOK
  <2> QED
    BY <2>5, <2>6, <2>7, <2>8 DEF IhexInv, ReadInv
<1>11. ASSUME UNCHANGED ihex_vars  PROVE IhexInv'
  <2>1. UNCHANGED <<file, at, base, mem, size, lowest, saw_data, result>>
    BY <1>11 DEF ihex_vars
  <2>2. IhexTypeOK'
    BY <1>1, <2>1 DEF IhexTypeOK
  <2>3. ASSUME ReadInv  PROVE ReadInv'
    <3>1. MemInv' /\ ExtentInv'
      BY <1>2, <2>1, <2>3, NoDataLine DEF ReadInv
    <3>2. SoundInv'
      BY <2>1, <2>3, SameFile DEF ReadInv, SoundInv
    <3>3. BaseOf(at + 1)' = BaseOf(at + 1)
      BY <2>1 DEF BaseOf, LastBase, IsA, Type, Upper
    <3>4. ImageInv'
      BY <2>1, <2>3 DEF ReadInv, ImageInv
    <3> QED
      BY <2>1, <2>3, <3>1, <3>2, <3>3, <3>4 DEF ReadInv
  <2> QED
    BY <2>1, <2>2, <2>3 DEF IhexInv
<1> QED
  BY <1>6, <1>7, <1>8, <1>9, <1>10, <1>11 DEF IhexNext

-----------------------------------------------------------------------------
\* The invariant holds of every file the reader may be given (ihex.rs 71-168).
THEOREM IhexInvariant == IhexSpec => []IhexInv
BY IhexInitInv, IhexNextInv, PTL DEF IhexSpec

\* Memory, size and lowest address keep their ranges: no record is written past
\* the address limit, and no index of mem is past its end (ihex.rs 115-124).
THEOREM IhexTypeCorrect == IhexSpec => []IhexTypeOK
<1>1. IhexInv => IhexTypeOK
  BY DEF IhexInv
<1> QED
  BY <1>1, IhexInvariant, PTL

\* The image of an accepted file is what its records say (ihex.rs 112-167).
THEOREM ImageIsRight == IhexSpec => []ImageIsWhatTheRecordsSay
<1>1. IhexInv => ImageIsWhatTheRecordsSay
  <2> SUFFICES ASSUME IhexInv, result.kind = "image"
               PROVE  /\ DOMAIN result.bytes = 0..(size - 1)
                      /\ \A a \in 0..(size - 1) : IF Covered(a) THEN Says(a, result.bytes[a])
                                                                ELSE result.bytes[a] = 0
                      /\ \A i \in DataLines : End(i) <= size /\ result.lowest_addr <= First(i)
                      /\ \E i \in DataLines : End(i) = size
                      /\ \E i \in DataLines : result.lowest_addr = First(i)
                      /\ result.gap_bytes = Cardinality({a \in 0..(size - 1) : ~Covered(a)})
    BY DEF ImageIsWhatTheRecordsSay
  <2>1. MemInv /\ ExtentInv /\ ImageInv
    BY DEF IhexInv, ReadInv
  <2>2. /\ saw_data
        /\ result.bytes = [a \in 0..(size - 1) |-> IF mem[a] = NoByte THEN 0 ELSE mem[a]]
        /\ result.lowest_addr = lowest
        /\ result.gap_bytes = Cardinality({a \in 0..(size - 1) : mem[a] = NoByte})
    BY <2>1 DEF ImageInv, Image
  <2>3. \A a \in 0..(size - 1) : Held(a) /\ (mem[a] = NoByte <=> ~Covered(a))
    <3>1. NoByte \notin Byte
      BY DEF NoByte, Byte
    <3> QED
      BY <2>1, <3>1 DEF MemInv, Held
  <2>4. {a \in 0..(size - 1) : mem[a] = NoByte} = {a \in 0..(size - 1) : ~Covered(a)}
    BY <2>3
  <2>5. \A a \in 0..(size - 1) : IF Covered(a) THEN Says(a, result.bytes[a])
                                               ELSE result.bytes[a] = 0
    BY <2>2, <2>3 DEF Held
  <2> QED
    BY <2>1, <2>2, <2>4, <2>5 DEF ExtentInv
<1> QED
  BY <1>1, IhexInvariant, PTL

\* No damaged record has a part in an image (ihex.rs 82-107, 116).
THEOREM OnlySound == IhexSpec => []OnlySoundRecordsCount
<1>1. IhexInv => OnlySoundRecordsCount
  BY DEF IhexInv, ReadInv, SoundInv, Sound, OnlySoundRecordsCount
<1> QED
  BY <1>1, IhexInvariant, PTL
=============================================================================
