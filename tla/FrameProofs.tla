---------------------------- MODULE FrameProofs ----------------------------
(***************************************************************************)
(* src/frame.rs, for all frames, all byte streams, all chunkings and every *)
(* MAX_LEN_FIELD a u16 can hold.                                           *)
(*                                                                         *)
(* The codec: the checksum, the bytes of an encoding, that decode undoes   *)
(* encode and accepts nothing else, and that no single damaged byte gets   *)
(* past it.  The receiver: its bookkeeping, and that what it hands out is  *)
(* the left-to-right reading of the bytes it has used up.                  *)
(*                                                                         *)
(* A recursive function is the CHOOSE of a function that satisfies its     *)
(* equation.  What such a function computes is proved in two steps: that   *)
(* one exists, by induction over how far it is defined, and what any       *)
(* function with that equation is, by induction over its argument.  Both   *)
(* inductions are about sets of numbers (AllNaturals).                     *)
(***************************************************************************)
EXTENDS FrameLine, Receiver, SequenceTheorems, WellFoundedInduction, TLAPS

-----------------------------------------------------------------------------
(* Induction.                                                              *)

LEMMA LeastOf ==
  ASSUME NEW T \in SUBSET Nat, T # {}
  PROVE  \E m \in T : \A n \in T : m <= n
<1>1. PICK m \in T : \A n \in T : ~(<<n, m>> \in OpToRel(<, Nat))
  BY NatLessThanWellFounded, WFMin
<1>2. ASSUME NEW n \in T  PROVE m <= n
  <2>1. m \in Nat /\ n \in Nat
    OBVIOUS
  <2>2. ~(n < m)
    BY <1>1, <2>1 DEF OpToRel
  <2> QED  BY <2>1, <2>2
<1> QED
  BY <1>2

LEMMA AllNaturals ==
  ASSUME NEW T \in SUBSET Nat, 0 \in T, \A n \in T : n + 1 \in T
  PROVE  \A n \in Nat : n \in T
<1> SUFFICES ASSUME Nat \ T # {}  PROVE FALSE
  OBVIOUS
<1>1. PICK m \in Nat \ T : \A n \in Nat \ T : m <= n
  <2>1. Nat \ T \in SUBSET Nat
    OBVIOUS
  <2> QED  BY <2>1, LeastOf, Zenon
<1>2. m # 0 /\ m - 1 \in Nat
  OBVIOUS
<1>3. m - 1 \in T
  BY <1>1, <1>2
<1>4. (m - 1) + 1 = m
  BY <1>2
<1> QED
  BY <1>1, <1>3, <1>4

-----------------------------------------------------------------------------
(* The checksum.                                                           *)

LEMMA ByteSum ==
  ASSUME NEW p \in Byte, NEW q \in Byte, NEW z \in Byte
  PROVE  /\ (p + q) % 256 \in Byte
         /\ (((p + z) % 256) + q) % 256 = (((p + q) % 256) + z) % 256
         /\ (p + q) % 256 = (p + z) % 256 => q = z
         /\ (p + q) % 256 = p => q = 0
<1>1. p \in 0..255 /\ q \in 0..255 /\ z \in 0..255
  BY DEF Byte
<1>2. (p + q) % 256 \in 0..255
  BY <1>1
<1>3. (((p + z) % 256) + q) % 256 = (((p + q) % 256) + z) % 256
  <2>1. \A v \in 0..510 : v % 256 = IF v < 256 THEN v ELSE v - 256
    OBVIOUS
  <2>2. /\ (p + z) % 256 = IF p + z < 256 THEN p + z ELSE (p + z) - 256
        /\ (p + q) % 256 = IF p + q < 256 THEN p + q ELSE (p + q) - 256
    BY <1>1, <2>1
  <2> DEFINE u == (p + z) % 256   v == (p + q) % 256
  <2> HIDE DEF u, v
  <2>3. /\ (u + q) % 256 = IF u + q < 256 THEN u + q ELSE (u + q) - 256
        /\ (v + z) % 256 = IF v + z < 256 THEN v + z ELSE (v + z) - 256
    <3>1. u \in 0..255 /\ v \in 0..255
      BY <1>1, <2>2 DEF u, v
    <3> QED  BY <1>1, <2>1, <3>1
  <2> QED  BY <1>1, <2>2, <2>3 DEF u, v
<1>4. (p + q) % 256 = (p + z) % 256 => q = z
  <2>1. \A v \in 0..510 : v % 256 = IF v < 256 THEN v ELSE v - 256
    OBVIOUS
  <2>2. /\ (p + z) % 256 = IF p + z < 256 THEN p + z ELSE (p + z) - 256
        /\ (p + q) % 256 = IF p + q < 256 THEN p + q ELSE (p + q) - 256
    BY <1>1, <2>1
  <2> QED  BY <1>1, <2>2
<1>5. (p + q) % 256 = p => q = 0
  BY <1>1
<1> QED
  BY <1>1, <1>2, <1>3, <1>4, <1>5 DEF Byte

LEMMA ByteShift ==
  ASSUME NEW p \in Byte, NEW q \in 1..255
  PROVE  (p + q) % 256 \in Byte /\ (p + q) % 256 # p
<1>1. p \in 0..255 /\ q \in 0..255 /\ q # 0
  BY DEF Byte
<1>2. (p + q) % 256 \in 0..255
  BY <1>1
<1>3. (p + q) % 256 = p => q = 0
  BY <1>1
<1> QED
  BY <1>1, <1>2, <1>3 DEF Byte

SumsUpto(n, sum, body) ==
  sum = [i \in 0..n |-> IF i = 0 THEN 0 ELSE (sum[i - 1] + body[i]) % 256]

LEMMA SumsExist ==
  ASSUME NEW body \in Seq(Byte)
  PROVE  \A n \in Nat : \E sum : SumsUpto(n, sum, body)
<1> DEFINE T == {n \in Nat : \E sum : SumsUpto(n, sum, body)}
<1>1. 0 \in T
  <2> DEFINE g == [i \in 0..0 |-> 0]
  <2>1. SumsUpto(0, g, body)
    BY DEF SumsUpto
  <2> QED  BY <2>1
<1>2. ASSUME NEW n \in T  PROVE n + 1 \in T
  <2>1. PICK g : SumsUpto(n, g, body)
    OBVIOUS
  <2> DEFINE h == [i \in 0..(n + 1) |-> IF i = 0 THEN 0 ELSE (g[i - 1] + body[i]) % 256]
  <2>2. \A i \in 0..n : g[i] = h[i]
    BY <2>1 DEF SumsUpto
  <2>3. SumsUpto(n + 1, h, body)
    <3>1. \A i \in 0..(n + 1) : i # 0 => i - 1 \in 0..n
      OBVIOUS
    <3>2. \A i \in 0..(n + 1) : i # 0 => g[i - 1] = h[i - 1]
      BY <2>2, <3>1, Zenon
    <3>3. h = [i \in 0..(n + 1) |-> IF i = 0 THEN 0 ELSE (h[i - 1] + body[i]) % 256]
      BY <3>2
    <3> QED  BY <3>3 DEF SumsUpto
  <2> QED  BY <2>3
<1> HIDE DEF T
<1>3. \A n \in Nat : n \in T
  <2>1. T \in SUBSET Nat
    BY DEF T
  <2> QED  BY <1>1, <1>2, <2>1, AllNaturals
<1> QED
  BY <1>3 DEF T

\* What sum[Len(body)] is, one byte after another.
Sums(sum, body) ==
  /\ sum[0] = 0
  /\ \A i \in 1..Len(body) : sum[i] = (sum[i - 1] + body[i]) % 256
  /\ \A i \in 0..Len(body) : sum[i] \in Byte

LEMMA ChecksumUnfolds ==
  ASSUME NEW body \in Seq(Byte)
  PROVE  \E sum : Sums(sum, body) /\ Checksum(body) = sum[Len(body)]
<1> DEFINE sum == CHOOSE s : SumsUpto(Len(body), s, body)
<1>0. Len(body) \in Nat
  OBVIOUS
<1>1. SumsUpto(Len(body), sum, body)
  BY <1>0, SumsExist
<1>2. Checksum(body) = sum[Len(body)]
  BY DEF Checksum, SumsUpto
<1> HIDE DEF sum
<1>3. sum[0] = 0 /\ \A i \in 1..Len(body) : sum[i] = (sum[i - 1] + body[i]) % 256
  BY <1>0, <1>1 DEF SumsUpto
<1>4. \A i \in 0..Len(body) : sum[i] \in Byte
  <2> DEFINE T == {i \in Nat : i <= Len(body) => sum[i] \in Byte}
  <2>1. 0 \in T
    BY <1>3 DEF Byte
  <2>2. ASSUME NEW i \in T  PROVE i + 1 \in T
    <3> SUFFICES ASSUME i + 1 <= Len(body)  PROVE sum[i + 1] \in Byte
      OBVIOUS
    <3>1. i + 1 \in 1..Len(body) /\ (i + 1) - 1 = i
      BY <1>0
    <3>2. sum[i + 1] = (sum[i] + body[i + 1]) % 256
      BY <1>3, <3>1
    <3>3. sum[i] \in Byte /\ body[i + 1] \in Byte
      BY <1>0, <3>1
    <3> QED  BY <3>2, <3>3, ByteSum
  <2> HIDE DEF T
  <2>3. \A i \in Nat : i \in T
    <3>1. T \in SUBSET Nat
      BY DEF T
    <3> QED  BY <2>1, <2>2, <3>1, AllNaturals
  <2> QED  BY <1>0, <2>3 DEF T
<1>5. Sums(sum, body)
  BY <1>3, <1>4 DEF Sums
<1> QED
  BY <1>2, <1>5

LEMMA ChecksumIsByte ==
  ASSUME NEW body \in Seq(Byte)
  PROVE  Checksum(body) \in Byte
<1>1. PICK sum : Sums(sum, body) /\ Checksum(body) = sum[Len(body)]
  BY ChecksumUnfolds
<1> QED
  BY <1>1 DEF Sums

\* t is s with x put in at place i.
Inserted(t, s, i, x) ==
  /\ s \in Seq(Byte) /\ t \in Seq(Byte) /\ Len(t) = Len(s) + 1
  /\ i \in 1..Len(t) /\ t[i] = x
  /\ \A j \in 1..(i - 1) : t[j] = s[j]
  /\ \A j \in i..Len(s) : t[j + 1] = s[j]

\* One byte more adds just that byte, wherever it is put.
LEMMA InsertedSum ==
  ASSUME NEW s, NEW t, NEW i, NEW x, Inserted(t, s, i, x)
  PROVE  Checksum(t) = (Checksum(s) + x) % 256
<1>0. /\ s \in Seq(Byte) /\ t \in Seq(Byte) /\ Len(t) = Len(s) + 1 /\ Len(s) \in Nat
      /\ i \in 1..(Len(s) + 1) /\ t[i] = x
  BY DEF Inserted
<1>1. PICK a : Sums(a, s) /\ Checksum(s) = a[Len(s)]
  BY <1>0, ChecksumUnfolds
<1>2. PICK b : Sums(b, t) /\ Checksum(t) = b[Len(t)]
  BY <1>0, ChecksumUnfolds
<1>3. x \in Byte
  BY <1>0
<1> DEFINE T == {j \in Nat : j <= Len(t) => b[j] = IF j < i THEN a[j] ELSE (a[j - 1] + x) % 256}
<1>4. 0 \in T
  BY <1>0, <1>1, <1>2 DEF Sums
<1>5. ASSUME NEW j \in T  PROVE j + 1 \in T
  <2> SUFFICES ASSUME j + 1 <= Len(t)
               PROVE  b[j + 1] = IF j + 1 < i THEN a[j + 1] ELSE (a[(j + 1) - 1] + x) % 256
    OBVIOUS
  <2>1. j \in Nat /\ j + 1 \in 1..Len(t) /\ j + 1 <= Len(s) + 1 /\ (j + 1) - 1 = j
    BY <1>0
  <2>2. b[j] = IF j < i THEN a[j] ELSE (a[j - 1] + x) % 256
    BY <2>1
  <2> HIDE DEF T
  <2>3. b[j + 1] = (b[j] + t[j + 1]) % 256
    BY <1>2, <2>1 DEF Sums
  <2>4. CASE j + 1 < i
    <3>1. j + 1 \in 1..(i - 1) /\ j + 1 \in 1..Len(s)
      BY <1>0, <2>1, <2>4
    <3>2. t[j + 1] = s[j + 1]
      BY <3>1 DEF Inserted
    <3>3. a[j + 1] = (a[j] + s[j + 1]) % 256
      BY <1>1, <2>1, <3>1 DEF Sums
    <3>4. b[j] = a[j]
      BY <1>0, <2>1, <2>2, <2>4
    <3> QED  BY <2>3, <2>4, <3>2, <3>3, <3>4
  <2>5. CASE j + 1 = i
    <3>1. b[j] = a[j] /\ t[j + 1] = x
      BY <1>0, <2>1, <2>2, <2>5
    <3> QED  BY <1>0, <2>1, <2>3, <2>5, <3>1
  <2>6. CASE j + 1 > i
    <3>1. j \in i..Len(s) /\ j \in 1..Len(s) /\ j - 1 \in 0..Len(s) /\ ~(j < i) /\ ~(j + 1 < i)
      BY <1>0, <2>1, <2>6
    <3>2. t[j + 1] = s[j]
      BY <3>1 DEF Inserted
    <3>3. a[j] = (a[j - 1] + s[j]) % 256 /\ a[j - 1] \in Byte
      BY <1>1, <3>1 DEF Sums
    <3>4. b[j] = (a[j - 1] + x) % 256
      BY <2>2, <3>1
    <3>5. s[j] \in Byte
      BY <1>0, <3>1
    <3>6. (((a[j - 1] + x) % 256) + s[j]) % 256 = (((a[j - 1] + s[j]) % 256) + x) % 256
      BY <1>3, <3>3, <3>5, ByteSum
    <3>7. b[j + 1] = (b[j] + s[j]) % 256
      BY <2>3, <3>2
    <3>8. b[j + 1] = (((a[j - 1] + s[j]) % 256) + x) % 256
      BY <3>4, <3>6, <3>7
    <3>9. b[j + 1] = (a[j] + x) % 256
      BY <3>3, <3>8
    <3> QED  BY <2>1, <3>1, <3>9
  <2> QED  BY <1>0, <2>1, <2>4, <2>5, <2>6
<1> HIDE DEF T
<1>6. \A j \in Nat : j \in T
  <2>1. T \in SUBSET Nat
    BY DEF T
  <2> QED  BY <1>4, <1>5, <2>1, AllNaturals
<1>7. Len(t) \in T
  BY <1>0, <1>6
<1>8. b[Len(t)] = IF Len(t) < i THEN a[Len(t)] ELSE (a[Len(t) - 1] + x) % 256
  BY <1>0, <1>7 DEF T
<1>9. ~(Len(t) < i) /\ Len(t) - 1 = Len(s)
  BY <1>0
<1> QED
  BY <1>1, <1>2, <1>8, <1>9

-----------------------------------------------------------------------------
(* The bytes of an encoding, and what decode tests.                        *)

Body(f) == <<DirByte[f.dir], LenField(f) \div 256, LenField(f) % 256, f.cmd>> \o f.payload

DirCodes == {DirByte[d] : d \in Dir}

\* What the u16 cast leaves of a length.
Wrapped(k) == k % 65536

\* decode's tests, in one conjunction; n is the number of bytes.
Sound(s, n) ==
  /\ n >= FrameOverhead
  /\ s[1] = Magic[1] /\ s[2] = Magic[2]
  /\ BigEndian(s[4], s[5]) = Wrapped(n - 2)
  /\ s[n] = Terminator
  /\ s[n - 1] = Checksum(SubSeq(s, 3, n - 2))
  /\ s[3] \in DirCodes

\* The frame decode builds of bytes that pass.
Contents(s) ==
  [dir     |-> CHOOSE d \in {e \in Dir : DirByte[e] = s[3]} : TRUE,
   cmd     |-> s[6],
   payload |-> SubSeq(s, 7, Len(s) - 2)]

LEMMA DirBytes ==
  /\ \A d \in Dir : DirByte[d] \in DirCodes /\ DirByte[d] \in Byte
  /\ \A d, e \in Dir : DirByte[d] = DirByte[e] => d = e
  /\ \A c \in DirCodes : \E d \in Dir : DirByte[d] = c
<1>1. /\ Dir = {"HostToMcu", "McuToHost"}
      /\ DirByte["HostToMcu"] = 106 /\ DirByte["McuToHost"] = 104
  BY SMT DEF Dir, DirByte
<1>2. 106 \in Byte /\ 104 \in Byte
  BY SMT DEF Byte
<1>3. \A d \in Dir : DirByte[d] \in Byte
  BY <1>1, <1>2, SMT
<1>4. \A d, e \in Dir : DirByte[d] = DirByte[e] => d = e
  BY <1>1, SMT
<1> QED
  BY <1>3, <1>4, Zenon DEF DirCodes

LEMMA MagicBytes ==
  /\ Magic = <<Magic[1], Magic[2]>> /\ Magic \in Seq(Byte) /\ Len(Magic) = 2
  /\ Magic[1] \in Byte /\ Magic[2] \in Byte
  /\ Magic[1] # Magic[2] /\ Magic[2] \notin DirCodes /\ 0 \notin DirCodes
<1>1. Magic[1] = 70 /\ Magic[2] = 185 /\ Magic = <<Magic[1], Magic[2]>>
  BY SMT DEF Magic
<1>2. 70 \in Byte /\ 185 \in Byte
  BY SMT DEF Byte
<1>3. Magic[1] \in Byte /\ Magic[2] \in Byte
  BY <1>1, <1>2, SMT
<1> DEFINE m1 == Magic[1]   m2 == Magic[2]
<1>4. <<m1, m2>> \in Seq(Byte) /\ Len(<<m1, m2>>) = 2
  <2> HIDE DEF m1, m2
  <2> SUFFICES ASSUME m1 \in Byte, m2 \in Byte
               PROVE  <<m1, m2>> \in Seq(Byte) /\ Len(<<m1, m2>>) = 2
    BY <1>3, Zenon DEF m1, m2
  <2> QED  BY SMT
<1>5. DirCodes = {104, 106}
  BY SMT DEF DirCodes, Dir, DirByte
<1>6. Magic[1] # Magic[2] /\ Magic[2] \notin DirCodes /\ 0 \notin DirCodes
  BY <1>1, <1>5, SMT
<1>7. Magic \in Seq(Byte) /\ Len(Magic) = 2
  BY <1>1, <1>4, Zenon
<1> QED
  BY <1>1, <1>3, <1>6, <1>7, Zenon

LEMMA WordIs ==
  /\ \A k \in Word : k \in Nat /\ k < 65536
  /\ \A k \in Nat : k < 65536 => k \in Word
<1> DEFINE m == 65535
<1>1. m \in Nat /\ \A k \in Nat : k <= m <=> k < 65536
  BY SMT
<1>2. Word = 0..m
  BY DEF Word
<1> HIDE DEF m
<1>3. \A k : k \in 0..m <=> k \in Nat /\ k <= m
  BY <1>1, SMT
<1>4. \A k : k \in Word <=> k \in Nat /\ k <= m
  BY <1>2, <1>3, Zenon
<1>5. ASSUME NEW k \in Nat  PROVE k <= m <=> k < 65536
  BY <1>1, SMT
<1> QED
  BY <1>4, <1>5, SMT

LEMMA WordBytes ==
  ASSUME NEW l \in Word
  PROVE  l \div 256 \in Byte /\ l % 256 \in Byte /\ BigEndian(l \div 256, l % 256) = l
<1> DEFINE q == l \div 256   m == l % 256
<1>1. l \in Nat /\ l < 65536
  BY WordIs
<1>2. q \in Int /\ m \in 0..255 /\ l = 256 * q + m
  BY <1>1, SMT
<1> HIDE DEF q, m
<1>3. q \in 0..255
  BY <1>1, <1>2, SMT
<1>4. BigEndian(q, m) = l
  BY <1>2, SMT DEF BigEndian
<1>5. q \in Byte /\ m \in Byte
  BY <1>2, <1>3 DEF Byte
<1> QED
  BY <1>4, <1>5, Zenon DEF q, m

LEMMA BytesOfWord ==
  ASSUME NEW hi \in Byte, NEW lo \in Byte
  PROVE  /\ BigEndian(hi, lo) \in Word
         /\ BigEndian(hi, lo) \div 256 = hi /\ BigEndian(hi, lo) % 256 = lo
<1>1. hi \in 0..255 /\ lo \in 0..255
  BY DEF Byte
<1>2. \A x \in 0..255, y \in 0..255 : (x * 256 + y) \div 256 = x /\ (x * 256 + y) % 256 = y
  OBVIOUS
<1>3. hi * 256 + lo \in Word
  BY <1>1, WordIs, SMT
<1>4. /\ (hi * 256 + lo) \div 256 = hi
      /\ (hi * 256 + lo) % 256 = lo
  BY <1>1, <1>2
<1>5. BigEndian(hi, lo) = hi * 256 + lo
  BY DEF BigEndian
<1> QED
  BY <1>3, <1>4, <1>5

LEMMA WrappedIs ==
  /\ \A k \in Nat : Wrapped(k) \in Word
  /\ \A l \in Word : Wrapped(l) = l
BY WordIs, SMT DEF Wrapped

LEMMA LengthIsWord ==
  ASSUME NEW f \in FrameType
  PROVE  /\ LenField(f) \in Word /\ LenField(f) = Wrapped(Len(f.payload) + 6)
         /\ f.payload \in Seq(Byte) /\ Len(f.payload) \in Nat
         /\ f.cmd \in Byte /\ f.dir \in Dir
<1>1. f.payload \in Seq(Byte) /\ f.cmd \in Byte /\ f.dir \in Dir
  BY DEF FrameType
<1>2. WireLen(f) - 2 = Len(f.payload) + 6 /\ Len(f.payload) \in Nat /\ Len(f.payload) + 6 \in Nat
  BY <1>1 DEF WireLen, FrameOverhead
<1>3. LenField(f) = Wrapped(WireLen(f) - 2)
  BY DEF LenField, Wrapped
<1> QED
  BY <1>1, <1>2, <1>3, WrappedIs, Zenon

LEMMA Joined ==
  ASSUME NEW s \in Seq(Byte), NEW t \in Seq(Byte)
  PROVE  /\ s \o t \in Seq(Byte) /\ Len(s \o t) = Len(s) + Len(t)
         /\ \A i \in 1..Len(s) : (s \o t)[i] = s[i]
         /\ \A i \in 1..Len(t) : (s \o t)[Len(s) + i] = t[i]
OBVIOUS

LEMMA Cut ==
  ASSUME NEW s \in Seq(Byte), NEW a \in Nat, NEW l \in Nat, a + l <= Len(s)
  PROVE  /\ SubSeq(s, a + 1, a + l) \in Seq(Byte) /\ Len(SubSeq(s, a + 1, a + l)) = l
         /\ \A i \in 1..l : SubSeq(s, a + 1, a + l)[i] = s[a + i]
OBVIOUS

LEMMA BodyIs ==
  ASSUME NEW f \in FrameType
  PROVE  /\ Body(f) \in Seq(Byte) /\ Len(Body(f)) = Len(f.payload) + 4
         /\ Body(f)[1] = DirByte[f.dir]
         /\ Body(f)[2] = LenField(f) \div 256 /\ Body(f)[3] = LenField(f) % 256
         /\ Body(f)[4] = f.cmd
         /\ \A i \in 1..Len(f.payload) : Body(f)[4 + i] = f.payload[i]
<1> DEFINE a == DirByte[f.dir]   b == LenField(f) \div 256   c == LenField(f) % 256
           h == <<a, b, c, f.cmd>>   p == f.payload
<1>1. a \in Byte /\ b \in Byte /\ c \in Byte /\ f.cmd \in Byte /\ p \in Seq(Byte)
  BY LengthIsWord, WordBytes, DirBytes
<1> HIDE DEF a, b, c, p
<1>2. h \in Seq(Byte) /\ Len(h) = 4 /\ h[1] = a /\ h[2] = b /\ h[3] = c /\ h[4] = f.cmd
  BY <1>1
<1> HIDE DEF h
<1>3. /\ h \o p \in Seq(Byte) /\ Len(h \o p) = Len(p) + 4
      /\ \A i \in 1..4 : (h \o p)[i] = h[i]
      /\ \A i \in 1..Len(p) : (h \o p)[4 + i] = p[i]
  <2>1. Len(p) + 4 = 4 + Len(p)
    BY <1>1
  <2>2. /\ h \o p \in Seq(Byte) /\ Len(h \o p) = Len(h) + Len(p)
        /\ \A i \in 1..Len(h) : (h \o p)[i] = h[i]
        /\ \A i \in 1..Len(p) : (h \o p)[Len(h) + i] = p[i]
    BY <1>1, <1>2, Joined, Zenon
  <2>3. Len(h) = 4
    BY <1>2
  <2> QED  BY <2>1, <2>2, <2>3, Zenon
<1>4. Body(f) = h \o p
  BY DEF Body, h, a, b, c, p
<1> QED
  BY <1>2, <1>3, <1>4 DEF a, b, c, p

\* e is the encoding of f, byte by byte.
Encoding(e, f) ==
  /\ e \in Seq(Byte) /\ Len(e) = Len(f.payload) + 8
  /\ e[1] = Magic[1] /\ e[2] = Magic[2]
  /\ e[3] = DirByte[f.dir]
  /\ e[4] = LenField(f) \div 256 /\ e[5] = LenField(f) % 256
  /\ e[6] = f.cmd
  /\ \A i \in 1..Len(f.payload) : e[6 + i] = f.payload[i]
  /\ e[Len(e) - 1] = Checksum(SubSeq(e, 3, Len(e) - 2))
  /\ e[Len(e)] = Terminator
  /\ SubSeq(e, 3, Len(e) - 2) = Body(f)

LEMMA EncodeIs ==
  ASSUME NEW f \in FrameType
  PROVE  Encoding(Encode(f), f)
<1> DEFINE p == f.payload   b == Body(f)   c == Checksum(b)   e == Encode(f)
           l == Len(b)   n == l + 4
<1>1. b \in Seq(Byte) /\ l \in Nat /\ l = Len(p) + 4 /\ p \in Seq(Byte)
  BY BodyIs, LengthIsWord
<1>2. c \in Byte /\ Terminator \in Byte
  <2>1. c \in Byte
    BY <1>1, ChecksumIsByte
  <2>2. Terminator \in Byte
    BY SMT DEF Byte, Terminator
  <2> QED  BY <2>1, <2>2
<1>3. e = (Magic \o b) \o <<c, Terminator>>
  BY DEF Encode, Body
<1> HIDE DEF b, c, e, p
<1> DEFINE x == Magic \o b
<1>4. x \in Seq(Byte) /\ Len(x) = l + 2 /\ x[1] = Magic[1] /\ x[2] = Magic[2] /\ \A i \in 1..l : x[2 + i] = b[i]
  <2>1. /\ x \in Seq(Byte) /\ Len(x) = Len(Magic) + Len(b)
        /\ \A i \in 1..Len(Magic) : x[i] = Magic[i]
        /\ \A i \in 1..Len(b) : x[Len(Magic) + i] = b[i]
    BY <1>1, MagicBytes, Joined, Zenon
  <2> HIDE DEF x, l
  <2> QED  BY <1>1, <2>1, MagicBytes DEF l
<1> HIDE DEF x
<1>5. /\ e \in Seq(Byte) /\ Len(e) = n /\ \A i \in 1..(l + 2) : e[i] = x[i]
      /\ e[n - 1] = c /\ e[n] = Terminator
  <2>1. e = x \o <<c, Terminator>>
    BY <1>3 DEF x
  <2> QED  BY <1>1, <1>2, <1>4, <2>1
<1>6. e[1] = Magic[1] /\ e[2] = Magic[2] /\ \A i \in 1..l : e[2 + i] = b[i]
  <2>1. 1 \in 1..(l + 2) /\ 2 \in 1..(l + 2) /\ \A i \in 1..l : 2 + i \in 1..(l + 2)
    BY <1>1
  <2>2. e[1] = x[1] /\ e[2] = x[2] /\ \A i \in 1..l : e[2 + i] = x[2 + i]
    BY <1>5, <2>1, Zenon
  <2> QED  BY <1>4, <2>2, Zenon
<1>7. SubSeq(e, 3, Len(e) - 2) = b
  <2> DEFINE m == SubSeq(e, 3, Len(e) - 2)
  <2>1. Len(e) - 2 = l + 2
    BY <1>1, <1>5
  <2>2. m \in Seq(Byte) /\ Len(m) = l /\ \A i \in 1..l : m[i] = e[2 + i]
    BY <1>1, <1>5, <2>1
  <2>3. \A i \in 1..l : m[i] = b[i]
    BY <1>6, <2>2
  <2> HIDE DEF m
  <2>4. m = b
    BY <1>1, <2>2, <2>3, SeqEqual, Zenon
  <2> QED  BY <2>4 DEF m
<1>8. /\ e[3] = DirByte[f.dir] /\ e[4] = LenField(f) \div 256 /\ e[5] = LenField(f) % 256
      /\ e[6] = f.cmd /\ \A i \in 1..Len(p) : e[6 + i] = p[i]
  <2>1. /\ b[1] = DirByte[f.dir] /\ b[2] = LenField(f) \div 256 /\ b[3] = LenField(f) % 256
        /\ b[4] = f.cmd /\ \A i \in 1..Len(p) : b[4 + i] = p[i]
    BY BodyIs DEF b, p
  <2>2. /\ e[2 + 1] = b[1] /\ e[2 + 2] = b[2] /\ e[2 + 3] = b[3] /\ e[2 + 4] = b[4]
        /\ \A i \in 1..Len(p) : e[2 + (4 + i)] = b[4 + i]
    <3>1. 1 \in 1..l /\ 2 \in 1..l /\ 3 \in 1..l /\ 4 \in 1..l /\ \A i \in 1..Len(p) : 4 + i \in 1..l
      BY <1>1
    <3> QED  BY <1>6, <3>1, Zenon
  <2>3. \A i \in 1..Len(p) : 2 + (4 + i) = 6 + i
    BY <1>1
  <2>4. 2 + 1 = 3 /\ 2 + 2 = 4 /\ 2 + 3 = 5 /\ 2 + 4 = 6
    OBVIOUS
  <2> QED  BY <2>1, <2>2, <2>3, <2>4, Zenon
<1>9. Len(e) = Len(p) + 8
  BY <1>1, <1>5
<1> QED
  BY <1>5, <1>6, <1>7, <1>8, <1>9 DEF Encoding, b, c, e, p

LEMMA DecodeIs ==
  ASSUME NEW s \in Seq(Byte)
  PROVE  /\ Decode(s).ok \in BOOLEAN
         /\ Decode(s).ok <=> Sound(s, Len(s))
         /\ Decode(s).ok => Decode(s) = Decoded(Contents(s))
<1> DEFINE n == Len(s)   dirs == {d \in Dir : DirByte[d] = s[3]}
           magic == SubSeq(s, 1, 2) = Magic
<1>1. n \in Nat
  OBVIOUS
<1>2. n >= FrameOverhead => (magic <=> s[1] = Magic[1] /\ s[2] = Magic[2])
  <2> SUFFICES ASSUME n >= 8  PROVE magic <=> s[1] = Magic[1] /\ s[2] = Magic[2]
    BY DEF FrameOverhead
  <2> DEFINE t == SubSeq(s, 1, 2)
  <2>1. t \in Seq(Byte) /\ Len(t) = 2 /\ t[1] = s[1] /\ t[2] = s[2]
    BY <1>1
  <2>2. Magic \in Seq(Byte) /\ Len(Magic) = 2
    BY MagicBytes
  <2> HIDE DEF t
  <2>3. (t[1] = Magic[1] /\ t[2] = Magic[2]) => t = Magic
    <3>1. (t[1] = Magic[1] /\ t[2] = Magic[2]) => \A i \in 1..2 : t[i] = Magic[i]
      OBVIOUS
    <3> QED  BY <2>1, <2>2, <3>1, SeqEqual, Zenon
  <2>4. t = Magic <=> s[1] = Magic[1] /\ s[2] = Magic[2]
    BY <2>1, <2>2, <2>3
  <2> QED  BY <2>4 DEF t
<1>3. dirs # {} <=> s[3] \in DirCodes
  BY DirBytes, Zenon
<1> DEFINE short == n < FrameOverhead
           length == BigEndian(s[4], s[5]) = Wrapped(n - 2)
           end == s[n] = Terminator
           sum == s[n - 1] = Checksum(SubSeq(s, 3, n - 2))
<1>4. Decode(s) = IF short THEN Fault("TooShort")
                  ELSE IF ~magic THEN Fault("BadMagic")
                  ELSE IF ~length THEN Fault("BadLength")
                  ELSE IF ~end THEN Fault("BadTerminator")
                  ELSE IF ~sum THEN Fault("BadChecksum")
                  ELSE IF dirs = {} THEN Fault("BadDir")
                  ELSE Decoded(Contents(s))
  BY DEF Decode, Contents, Wrapped
<1>5. \A x : Fault(x).ok = FALSE /\ Decoded(x).ok = TRUE
  BY DEF Fault, Decoded
<1>6. Sound(s, n) <=> ~short /\ s[1] = Magic[1] /\ s[2] = Magic[2] /\ length /\ end /\ sum /\ s[3] \in DirCodes
  BY <1>1 DEF Sound, FrameOverhead
<1>7. Sound(s, n) <=> ~short /\ magic /\ length /\ end /\ sum /\ dirs # {}
  <2>1. ~short => n >= FrameOverhead
    BY <1>1 DEF FrameOverhead
  <2> HIDE DEF short, magic, length, end, sum, dirs
  <2> QED  BY <1>2, <1>3, <1>6, <2>1, Zenon
<1> HIDE DEF short, magic, length, end, sum, dirs
<1>8. CASE Sound(s, n)
  <2>1. Decode(s) = Decoded(Contents(s))
    BY <1>4, <1>7, <1>8, Zenon
  <2> QED  BY <1>5, <1>8, <2>1, Zenon
<1>9. CASE ~Sound(s, n)
  <2>1. \E x : Decode(s) = Fault(x)
    BY <1>4, <1>7, <1>9, Zenon
  <2> QED  BY <1>5, <1>9, <2>1, Zenon
<1> QED
  BY <1>8, <1>9

-----------------------------------------------------------------------------
(* decode undoes encode, and nothing else passes it.                       *)

LEMMA EncodingIsSound ==
  ASSUME NEW f \in FrameType, NEW e, Encoding(e, f)
  PROVE  Sound(e, Len(e)) /\ Contents(e) = f
<1> DEFINE n == Len(e)   p == f.payload   m == SubSeq(e, 7, n - 2)
<1>1. /\ p \in Seq(Byte) /\ Len(p) \in Nat /\ f.dir \in Dir /\ f.cmd \in Byte
      /\ LenField(f) \in Word /\ LenField(f) = Wrapped(Len(p) + 6)
  BY LengthIsWord
<1>2. /\ e \in Seq(Byte) /\ n = Len(p) + 8 /\ e[1] = Magic[1] /\ e[2] = Magic[2] /\ e[3] = DirByte[f.dir]
      /\ e[4] = LenField(f) \div 256 /\ e[5] = LenField(f) % 256 /\ e[6] = f.cmd
      /\ \A i \in 1..Len(p) : e[6 + i] = p[i]
      /\ e[n] = Terminator /\ e[n - 1] = Checksum(SubSeq(e, 3, n - 2))
  BY DEF Encoding
<1>3. Sound(e, n)
  <2>1. n >= FrameOverhead /\ n - 2 = Len(p) + 6
    BY <1>1, <1>2 DEF FrameOverhead
  <2>2. BigEndian(e[4], e[5]) = LenField(f)
    BY <1>1, <1>2, WordBytes, Zenon
  <2>3. e[3] \in DirCodes
    BY <1>1, <1>2, DirBytes, Zenon
  <2> QED  BY <1>1, <1>2, <2>1, <2>2, <2>3, Zenon DEF Sound
<1>4. m = p
  <2>1. m \in Seq(Byte) /\ Len(m) = Len(p) /\ \A i \in 1..Len(p) : m[i] = e[6 + i]
    <3>1. n - 2 = 6 + Len(p) /\ 6 + Len(p) <= Len(e) /\ 6 + 1 = 7
      BY <1>1, <1>2
    <3>2. m = SubSeq(e, 6 + 1, 6 + Len(p)) /\ 6 \in Nat
      BY <3>1
    <3> HIDE DEF m
    <3>3. /\ SubSeq(e, 6 + 1, 6 + Len(p)) \in Seq(Byte)
          /\ Len(SubSeq(e, 6 + 1, 6 + Len(p))) = Len(p)
          /\ \A i \in 1..Len(p) : SubSeq(e, 6 + 1, 6 + Len(p))[i] = e[6 + i]
      BY <1>1, <1>2, <3>1, <3>2, Cut
    <3> QED  BY <3>2, <3>3
  <2>2. \A i \in 1..Len(m) : m[i] = p[i]
    BY <1>2, <2>1
  <2> HIDE DEF m
  <2> QED  BY <1>1, <2>1, <2>2, SeqEqual, Zenon
<1>5. (CHOOSE d \in {x \in Dir : DirByte[x] = e[3]} : TRUE) = f.dir
  <2>1. \A x \in Dir : DirByte[x] = e[3] <=> x = f.dir
    <3>1. f.dir \in Dir /\ e[3] = DirByte[f.dir]
      BY <1>1, <1>2
    <3> QED  BY <3>1, DirBytes, Zenon
  <2>2. {x \in Dir : DirByte[x] = e[3]} = {f.dir}
    BY <1>1, <2>1
  <2> QED  BY <2>2
<1>6. Contents(e) = [dir |-> f.dir, cmd |-> f.cmd, payload |-> p]
  BY <1>2, <1>4, <1>5 DEF Contents
<1>7. f = [dir |-> f.dir, cmd |-> f.cmd, payload |-> p]
  BY DEF FrameType
<1> QED
  BY <1>3, <1>6, <1>7, Zenon

\* Frame::decode returns the frame Frame::encode was given (frame.rs 105-152).
THEOREM RoundTrip ==
  ASSUME NEW f \in FrameType
  PROVE  Encode(f) \in Seq(Byte) /\ Decode(Encode(f)) = Decoded(f)
<1>1. Encoding(Encode(f), f)
  BY EncodeIs
<1>2. Encode(f) \in Seq(Byte)
  BY <1>1 DEF Encoding
<1>3. Sound(Encode(f), Len(Encode(f))) /\ Contents(Encode(f)) = f
  BY <1>1, EncodingIsSound, Zenon
<1> QED
  BY <1>2, <1>3, DecodeIs, Zenon

LEMMA SoundContents ==
  ASSUME NEW s \in Seq(Byte), Sound(s, Len(s))
  PROVE  /\ Contents(s) \in FrameType
         /\ DirByte[Contents(s).dir] = s[3] /\ Contents(s).cmd = s[6]
         /\ Len(Contents(s).payload) = Len(s) - 8
         /\ \A i \in 1..(Len(s) - 8) : Contents(s).payload[i] = s[6 + i]
<1> DEFINE n == Len(s)   f == Contents(s)   m == SubSeq(s, 7, n - 2)
<1>1. n \in Nat /\ n >= 8 /\ s[3] \in DirCodes
  BY DEF Sound, FrameOverhead
<1>2. m \in Seq(Byte) /\ Len(m) = n - 8 /\ \A i \in 1..(n - 8) : m[i] = s[6 + i]
  <2>1. 6 + 1 = 7 /\ 6 + (n - 8) = n - 2 /\ n - 8 \in Nat /\ 6 \in Nat /\ n - 2 <= n
    BY <1>1
  <2>2. 6 + (n - 8) <= Len(s)
    BY <2>1
  <2>3. /\ SubSeq(s, 6 + 1, 6 + (n - 8)) \in Seq(Byte) /\ Len(SubSeq(s, 6 + 1, 6 + (n - 8))) = n - 8
        /\ \A i \in 1..(n - 8) : SubSeq(s, 6 + 1, 6 + (n - 8))[i] = s[6 + i]
    BY <2>1, <2>2, Cut, Zenon
  <2> QED  BY <2>1, <2>3, Zenon
<1> DEFINE dirs == {x \in Dir : DirByte[x] = s[3]}   d == CHOOSE x \in dirs : TRUE
<1>3. d \in Dir /\ DirByte[d] = s[3]
  <2>1. \E x : x \in dirs
    BY <1>1, DirBytes, Zenon
  <2>2. d \in dirs
    BY <2>1
  <2> QED  BY <2>2
<1>4. s[6] \in Byte
  BY <1>1
<1>5. f = [dir |-> d, cmd |-> s[6], payload |-> m]
  BY DEF Contents
<1> HIDE DEF d, m, f
<1>6. f \in FrameType /\ f.dir = d /\ f.cmd = s[6] /\ f.payload = m
  BY <1>2, <1>3, <1>4, <1>5 DEF FrameType
<1> QED
  BY <1>2, <1>3, <1>6 DEF f

LEMMA SoundIsEncoding ==
  ASSUME NEW s \in Seq(Byte), Sound(s, Len(s))
  PROVE  Encode(Contents(s)) = s
<1> DEFINE n == Len(s)   f == Contents(s)   e == Encode(f)   p == f.payload
           b == Body(f)   t == SubSeq(s, 3, n - 2)
<1>1. /\ n \in Nat /\ n >= 8 /\ s[1] = Magic[1] /\ s[2] = Magic[2] /\ BigEndian(s[4], s[5]) = Wrapped(n - 2)
      /\ s[n] = Terminator /\ s[n - 1] = Checksum(t)
  BY DEF Sound, FrameOverhead
<1>2. /\ f \in FrameType /\ DirByte[f.dir] = s[3] /\ f.cmd = s[6] /\ Len(p) = n - 8
      /\ \A i \in 1..(n - 8) : p[i] = s[6 + i]
  BY SoundContents
<1>3. s[4] \in Byte /\ s[5] \in Byte
  BY <1>1
<1>4. LenField(f) = BigEndian(s[4], s[5])
  <2>1. LenField(f) = Wrapped(Len(p) + 6)
    BY <1>2, LengthIsWord
  <2>2. Len(p) + 6 = n - 2
    BY <1>1, <1>2
  <2> QED  BY <1>1, <2>1, <2>2, Zenon
<1>5. LenField(f) \div 256 = s[4] /\ LenField(f) % 256 = s[5]
  <2>1. BigEndian(s[4], s[5]) \div 256 = s[4] /\ BigEndian(s[4], s[5]) % 256 = s[5]
    BY <1>3, BytesOfWord
  <2> HIDE DEF f
  <2> QED  BY <1>4, <2>1
<1>6. Encoding(e, f)
  BY <1>2, EncodeIs, Zenon
<1>7. /\ e \in Seq(Byte) /\ Len(e) = Len(p) + 8 /\ e[1] = Magic[1] /\ e[2] = Magic[2] /\ e[3] = s[3]
      /\ e[4] = s[4] /\ e[5] = s[5] /\ e[6] = s[6] /\ \A i \in 1..Len(p) : e[6 + i] = p[i]
      /\ e[Len(e)] = Terminator /\ e[Len(e) - 1] = Checksum(SubSeq(e, 3, Len(e) - 2))
      /\ SubSeq(e, 3, Len(e) - 2) = b
  BY <1>2, <1>5, <1>6, Zenon DEF Encoding
<1> HIDE DEF f, e, p, b
<1>8. Len(e) = n
  BY <1>1, <1>2, <1>7
<1>9. \A i \in 1..(n - 2) : e[i] = s[i]
  <2> TAKE i \in 1..(n - 2)
  <2>1. CASE i \in 1..6
    <3>1. i = 1 \/ i = 2 \/ i = 3 \/ i = 4 \/ i = 5 \/ i = 6
      BY <2>1
    <3>2. e[1] = s[1] /\ e[2] = s[2] /\ e[3] = s[3] /\ e[4] = s[4] /\ e[5] = s[5] /\ e[6] = s[6]
      BY <1>1, <1>7, Zenon
    <3> QED  BY <3>1, <3>2, Zenon
  <2>2. CASE ~(i \in 1..6)
    <3>1. i - 6 \in 1..(n - 8) /\ 6 + (i - 6) = i
      BY <1>1, <2>2
    <3>2. p[i - 6] = s[i] /\ e[i] = p[i - 6]
      BY <1>2, <1>7, <3>1
    <3> QED  BY <3>2
  <2> QED  BY <2>1, <2>2
<1>10. t = b
  <2>1. /\ t \in Seq(Byte) /\ Len(t) = n - 4 /\ \A i \in 1..(n - 4) : t[i] = s[2 + i]
    BY <1>1
  <2> DEFINE u == SubSeq(e, 3, n - 2)
  <2>2. u \in Seq(Byte) /\ Len(u) = n - 4 /\ \A i \in 1..(n - 4) : u[i] = e[2 + i]
    BY <1>1, <1>7, <1>8
  <2>3. \A i \in 1..(n - 4) : 2 + i \in 1..(n - 2)
    BY <1>1
  <2> HIDE DEF t, u
  <2>4. \A i \in 1..(n - 4) : t[i] = u[i]
    BY <1>9, <2>1, <2>2, <2>3, Zenon
  <2>5. t = u
    BY <2>1, <2>2, <2>4, SeqEqual, Zenon
  <2>6. u = b
    BY <1>7, <1>8 DEF u
  <2> QED  BY <2>5, <2>6
<1>11. e[n - 1] = s[n - 1] /\ e[n] = s[n]
  <2>1. SubSeq(e, 3, Len(e) - 2) = t
    BY <1>7, <1>10
  <2>2. e[n] = Terminator /\ e[n - 1] = Checksum(t)
    BY <1>7, <1>8, <2>1, Zenon
  <2> QED  BY <1>1, <2>2, Zenon
<1>12. \A i \in 1..n : e[i] = s[i]
  <2> TAKE i \in 1..n
  <2>1. i \in 1..(n - 2) \/ i = n - 1 \/ i = n
    BY <1>1
  <2> QED  BY <1>9, <1>11, <2>1
<1>13. e = s
  BY <1>7, <1>8, <1>12, SeqEqual, Zenon
<1> QED
  BY <1>13 DEF e, f

\* What Frame::decode accepts re-encodes to the same bytes: it accepts nothing
\* but the output of Frame::encode (frame.rs 105-152).
THEOREM OnlyEncodings ==
  ASSUME NEW s \in Seq(Byte), Decode(s).ok
  PROVE  Decode(s).frame \in FrameType /\ Encode(Decode(s).frame) = s
<1>1. Sound(s, Len(s)) /\ Decode(s) = Decoded(Contents(s))
  BY DecodeIs
<1>2. Decode(s).frame = Contents(s)
  BY <1>1 DEF Decoded
<1>3. Contents(s) \in FrameType
  BY <1>1, SoundContents
<1> QED
  BY <1>1, <1>2, <1>3, SoundIsEncoding

-----------------------------------------------------------------------------
(* One damaged byte: the three ways to damage one, as bytes put in.        *)

LEMMA LostIs ==
  ASSUME NEW e \in Seq(Byte), NEW i \in 1..Len(e)
  PROVE  Inserted(e, Lost(e, i), i, e[i])
<1> DEFINE l == SubSeq(e, 1, i - 1)   r == SubSeq(e, i + 1, Len(e))   s == Lost(e, i)
<1>1. i \in Nat /\ i - 1 \in Nat /\ Len(e) \in Nat /\ Len(e) - i \in Nat
  OBVIOUS
<1>2. l \in Seq(Byte) /\ Len(l) = i - 1 /\ \A j \in 1..(i - 1) : l[j] = e[j]
  BY <1>1
<1>3. r \in Seq(Byte) /\ Len(r) = Len(e) - i /\ \A j \in 1..(Len(e) - i) : r[j] = e[i + j]
  BY <1>1
<1> HIDE DEF l, r
<1>4. /\ l \o r \in Seq(Byte) /\ Len(l \o r) = Len(l) + Len(r)
      /\ \A j \in 1..Len(l) : (l \o r)[j] = l[j]
      /\ \A j \in 1..Len(r) : (l \o r)[Len(l) + j] = r[j]
  BY <1>2, <1>3, Joined, Zenon
<1>5. s = l \o r
  BY DEF Lost, l, r
<1> HIDE DEF s
<1>6. s \in Seq(Byte) /\ Len(e) = Len(s) + 1
  <2>1. Len(s) = Len(l) + Len(r) /\ s \in Seq(Byte)
    BY <1>4, <1>5, Zenon
  <2> QED  BY <1>1, <1>2, <1>3, <2>1
<1>7. \A j \in 1..(i - 1) : e[j] = s[j]
  BY <1>2, <1>4, <1>5, Zenon
<1>8. ASSUME NEW j \in i..Len(s)  PROVE e[j + 1] = s[j]
  <2> DEFINE k == j - (i - 1)
  <2>1. k \in 1..Len(r) /\ Len(l) + k = j /\ i + k = j + 1
    BY <1>1, <1>2, <1>3, <1>6
  <2> HIDE DEF k
  <2>2. (l \o r)[Len(l) + k] = r[k]
    BY <1>4, <2>1, Zenon
  <2>3. r[k] = e[i + k]
    BY <1>3, <2>1
  <2> QED  BY <1>5, <2>1, <2>2, <2>3, Zenon
<1> QED
  BY <1>6, <1>7, <1>8 DEF Inserted, s

LEMMA AlteredIs ==
  ASSUME NEW e \in Seq(Byte), NEW i \in 1..Len(e), NEW d \in 1..255
  PROVE  /\ Inserted(Altered(e, i, d), Lost(e, i), i, (e[i] + d) % 256)
         /\ (e[i] + d) % 256 # e[i]
<1> DEFINE s == Lost(e, i)   t == Altered(e, i, d)   x == (e[i] + d) % 256
<1>1. e[i] \in Byte
  OBVIOUS
<1>2. x \in Byte /\ x # e[i]
  BY <1>1, ByteShift
<1>3. t = [e EXCEPT ![i] = x]
  BY DEF Altered
<1> HIDE DEF x, t
<1>4. t \in Seq(Byte) /\ Len(t) = Len(e) /\ t[i] = x /\ \A j \in 1..Len(e) : j # i => t[j] = e[j]
  BY <1>2, <1>3
<1>5. /\ s \in Seq(Byte) /\ Len(e) = Len(s) + 1 /\ \A j \in 1..(i - 1) : e[j] = s[j]
      /\ \A j \in i..Len(s) : e[j + 1] = s[j]
  BY LostIs DEF Inserted
<1> HIDE DEF s
<1>6. ASSUME NEW j \in 1..(i - 1)  PROVE t[j] = s[j]
  <2>1. j \in 1..Len(e) /\ j # i
    OBVIOUS
  <2> QED  BY <1>4, <1>5, <2>1
<1>7. ASSUME NEW j \in i..Len(s)  PROVE t[j + 1] = s[j]
  <2>1. j + 1 \in 1..Len(e) /\ j + 1 # i
    BY <1>5
  <2> QED  BY <1>4, <1>5, <2>1
<1>8. Inserted(t, s, i, x)
  BY <1>4, <1>5, <1>6, <1>7 DEF Inserted
<1> QED
  BY <1>2, <1>8 DEF s, t, x

LEMMA RepeatedIs ==
  ASSUME NEW e \in Seq(Byte), NEW i \in 1..Len(e)
  PROVE  Inserted(Repeated(e, i), e, i + 1, e[i])
<1> DEFINE l == SubSeq(e, 1, i)   r == SubSeq(e, i, Len(e))   t == Repeated(e, i)
<1>1. i \in Nat /\ i - 1 \in Nat /\ Len(e) \in Nat /\ Len(e) - i \in Nat
  OBVIOUS
<1>2. l \in Seq(Byte) /\ Len(l) = i /\ \A j \in 1..i : l[j] = e[j]
  BY <1>1
<1>3. /\ r \in Seq(Byte) /\ Len(r) = (Len(e) - i) + 1
      /\ \A j \in 1..((Len(e) - i) + 1) : r[j] = e[(i - 1) + j]
  BY <1>1
<1> HIDE DEF l, r
<1>4. /\ l \o r \in Seq(Byte) /\ Len(l \o r) = Len(l) + Len(r)
      /\ \A j \in 1..Len(l) : (l \o r)[j] = l[j]
      /\ \A j \in 1..Len(r) : (l \o r)[Len(l) + j] = r[j]
  BY <1>2, <1>3, Joined, Zenon
<1>5. t = l \o r
  BY DEF Repeated, l, r
<1> HIDE DEF t
<1>6. t \in Seq(Byte) /\ Len(t) = Len(e) + 1 /\ i + 1 \in 1..Len(t)
  <2>1. Len(t) = Len(l) + Len(r) /\ t \in Seq(Byte)
    BY <1>4, <1>5, Zenon
  <2> QED  BY <1>1, <1>2, <1>3, <2>1
<1>7. \A j \in 1..i : t[j] = e[j]
  BY <1>2, <1>4, <1>5, Zenon
<1>8. ASSUME NEW j \in i..Len(e)  PROVE t[j + 1] = e[j]
  <2> DEFINE k == (j + 1) - i
  <2>1. k \in 1..((Len(e) - i) + 1) /\ k \in 1..Len(r) /\ Len(l) + k = j + 1 /\ (i - 1) + k = j
    BY <1>1, <1>2, <1>3
  <2> HIDE DEF k
  <2>2. (l \o r)[Len(l) + k] = r[k]
    BY <1>4, <2>1, Zenon
  <2>3. r[k] = e[(i - 1) + k]
    BY <1>3, <2>1
  <2> QED  BY <1>5, <2>1, <2>2, <2>3, Zenon
<1>9. t[i + 1] = e[i] /\ \A j \in 1..((i + 1) - 1) : t[j] = e[j]
  <2>1. i \in i..Len(e) /\ (i + 1) - 1 = i
    BY <1>1
  <2> QED  BY <1>7, <1>8, <2>1
<1>10. \A j \in (i + 1)..Len(e) : t[j + 1] = e[j]
  BY <1>1, <1>8
<1> QED
  BY <1>6, <1>9, <1>10 DEF Inserted, t

\* A byte put in between the magic and the checksum adds to the body's sum.
LEMMA BodySum ==
  ASSUME NEW s, NEW t, NEW i, NEW x, Inserted(t, s, i, x), i >= 3, i < Len(s)
  PROVE  /\ Checksum(SubSeq(s, 3, Len(s) - 2)) \in Byte /\ x \in Byte
         /\ Checksum(SubSeq(t, 3, Len(t) - 2))
              = (Checksum(SubSeq(s, 3, Len(s) - 2)) + x) % 256
<1> DEFINE n == Len(s)   u == SubSeq(s, 3, n - 2)   v == SubSeq(t, 3, Len(t) - 2)
<1>1. /\ s \in Seq(Byte) /\ t \in Seq(Byte) /\ n \in Nat /\ Len(t) = n + 1 /\ i \in Nat
      /\ t[i] = x /\ i \in 1..(n + 1) /\ n > 3
      /\ \A j \in 1..(i - 1) : t[j] = s[j]
      /\ \A j \in i..n : t[j + 1] = s[j]
  BY DEF Inserted
<1>2. u \in Seq(Byte) /\ Len(u) = n - 4 /\ \A j \in 1..(n - 4) : u[j] = s[2 + j]
  <2>1. n - 4 \in Nat /\ 2 + (n - 4) <= n /\ 2 + (n - 4) = n - 2 /\ 2 + 1 = 3
    BY <1>1
  <2>2. /\ SubSeq(s, 2 + 1, 2 + (n - 4)) \in Seq(Byte) /\ Len(SubSeq(s, 2 + 1, 2 + (n - 4))) = n - 4
        /\ \A j \in 1..(n - 4) : SubSeq(s, 2 + 1, 2 + (n - 4))[j] = s[2 + j]
    BY <1>1, <2>1, Cut
  <2> QED  BY <2>1, <2>2, Zenon
<1>3. v \in Seq(Byte) /\ Len(v) = n - 3 /\ \A j \in 1..(n - 3) : v[j] = t[2 + j]
  BY <1>1
<1> HIDE DEF u, v
<1>4. i - 2 \in 1..(n - 3) /\ Len(v) = Len(u) + 1 /\ x \in Byte
  BY <1>1, <1>2, <1>3
<1>5. v[i - 2] = x
  <2>1. 2 + (i - 2) = i
    BY <1>1
  <2> QED  BY <1>1, <1>3, <1>4, <2>1
<1>6. ASSUME NEW j \in 1..((i - 2) - 1)  PROVE v[j] = u[j]
  <2>1. j \in 1..(n - 3) /\ j \in 1..(n - 4) /\ 2 + j \in 1..(i - 1)
    BY <1>1
  <2> QED  BY <1>1, <1>2, <1>3, <2>1
<1>7. ASSUME NEW j \in (i - 2)..Len(u)  PROVE v[j + 1] = u[j]
  <2>1. j + 1 \in 1..(n - 3) /\ j \in 1..(n - 4) /\ 2 + j \in i..n /\ 2 + (j + 1) = (2 + j) + 1
    BY <1>1, <1>2
  <2> QED  BY <1>1, <1>2, <1>3, <2>1
<1>8. Inserted(v, u, i - 2, x)
  BY <1>2, <1>3, <1>4, <1>5, <1>6, <1>7 DEF Inserted
<1>9. Checksum(v) = (Checksum(u) + x) % 256
  BY <1>8, InsertedSum
<1>10. Checksum(u) \in Byte
  BY <1>2, ChecksumIsByte
<1> QED
  BY <1>4, <1>9, <1>10 DEF u, v

\* How LEN tells a frame from one that is a byte longer.
NextIs(u, v) == (u = 65535 /\ v = 0) \/ (u # 65535 /\ v = u + 1)

LEMMA WrappedNext ==
  ASSUME NEW k \in Nat
  PROVE  Wrapped(k) \in Word /\ NextIs(Wrapped(k), Wrapped(k + 1))
BY WordIs, SMT DEF Wrapped, NextIs

LEMMA NextWord ==
  ASSUME NEW u \in Word, NEW v, NextIs(u, v), NEW a \in Byte, NEW b \in Byte
  PROVE  /\ v # u
         /\ ~(BigEndian(0, a) = v /\ BigEndian(a, b) = u)
         /\ ~(BigEndian(a, 0) = v /\ BigEndian(a, b) = u)
         /\ ~(BigEndian(0, a) = u /\ BigEndian(0, 0) = v)
<1>1. u \in Int /\ u >= 0 /\ v \in Int /\ (v = 0 \/ v = u + 1) /\ (v = 0 => u >= 65535)
  BY WordIs, SMT DEF NextIs
<1>2. a \in 0..255 /\ b \in 0..255
  BY DEF Byte
<1>3. /\ BigEndian(0, a) = a /\ BigEndian(0, 0) = 0 /\ BigEndian(a, 0) = 256 * a
      /\ BigEndian(a, b) = 256 * a + b
  BY <1>2 DEF BigEndian
<1>4. v # u
  BY <1>1, SMT
<1>5. ~(a = v /\ 256 * a + b = u)
  BY <1>1, <1>2, SMT
<1>6. ~(256 * a = v /\ 256 * a + b = u)
  BY <1>1, <1>2, SMT
<1>7. ~(a = u /\ 0 = v)
  BY <1>1, <1>2, SMT
<1> QED
  BY <1>3, <1>4, <1>5, <1>6, <1>7

-----------------------------------------------------------------------------
(* One damaged byte is always noticed.                                     *)

LEMMA SoundIs ==
  ASSUME NEW s \in Seq(Byte), Sound(s, Len(s))
  PROVE  /\ Len(s) \in Nat /\ Len(s) >= 8 /\ s[1] = Magic[1] /\ s[2] = Magic[2] /\ s[3] \in DirCodes
         /\ BigEndian(s[4], s[5]) = Wrapped(Len(s) - 2)
         /\ s[Len(s)] = Terminator
         /\ s[Len(s) - 1] = Checksum(SubSeq(s, 3, Len(s) - 2))
         /\ \A i \in 1..Len(s) : s[i] \in Byte
BY DEF Sound, FrameOverhead

LEMMA AlteredIsUnsound ==
  ASSUME NEW e \in Seq(Byte), Sound(e, Len(e)), NEW i \in 1..Len(e), NEW d \in 1..255
  PROVE  Altered(e, i, d) \in Seq(Byte) /\ ~Sound(Altered(e, i, d), Len(Altered(e, i, d)))
<1> DEFINE w == Altered(e, i, d)   u == Lost(e, i)   x == (e[i] + d) % 256   n == Len(e)
<1>1. Inserted(e, u, i, e[i]) /\ Inserted(w, u, i, x) /\ x # e[i]
  <2>1. Inserted(e, u, i, e[i])
    BY LostIs
  <2>2. Inserted(w, u, i, x) /\ x # e[i]
    BY AlteredIs
  <2> QED  BY <2>1, <2>2
<1> HIDE DEF w, u, x
<1>2. /\ w \in Seq(Byte) /\ Len(w) = n /\ Len(u) = n - 1 /\ w[i] # e[i] /\ n \in Nat
      /\ \A j \in 1..n : j # i => w[j] = e[j]
  <2>1. /\ u \in Seq(Byte) /\ Len(u) \in Nat /\ n = Len(u) + 1 /\ w \in Seq(Byte)
        /\ Len(w) = Len(u) + 1 /\ w[i] = x /\ n \in Nat
    BY <1>1 DEF Inserted
  <2>2. ASSUME NEW j \in 1..n, j # i  PROVE w[j] = e[j]
    <3>1. CASE j < i
      <4>1. j \in 1..(i - 1)
        BY <3>1
      <4> QED  BY <1>1, <4>1 DEF Inserted
    <3>2. CASE ~(j < i)
      <4>1. j - 1 \in i..Len(u) /\ (j - 1) + 1 = j
        BY <2>1, <2>2, <3>2
      <4>2. w[(j - 1) + 1] = u[j - 1] /\ e[(j - 1) + 1] = u[j - 1]
        BY <1>1, <4>1, Zenon DEF Inserted
      <4> QED  BY <4>1, <4>2, Zenon
    <3> QED  BY <3>1, <3>2
  <2> QED  BY <1>1, <2>1, <2>2
<1>3. ASSUME Sound(w, Len(w))  PROVE FALSE
  <2>1. /\ n >= 8 /\ e[1] = w[1] /\ e[2] = w[2] /\ e[n] = w[n]
    BY <1>2, <1>3, SoundIs
  <2>2. i >= 3 /\ i # n
    <3>1. i # 1 /\ i # 2 /\ i # n
      BY <1>2, <2>1, Zenon
    <3> QED  BY <3>1
  <2>3. CASE i = n - 1
    <3> DEFINE bw == SubSeq(w, 3, n - 2)   be == SubSeq(e, 3, n - 2)
    <3>1. n - 4 \in Nat /\ 2 + 1 = 3 /\ 2 + (n - 4) = n - 2 /\ n - 2 <= n
      BY <1>2, <2>1
    <3>2. /\ bw \in Seq(Byte) /\ Len(bw) = n - 4 /\ \A j \in 1..(n - 4) : bw[j] = w[2 + j]
          /\ be \in Seq(Byte) /\ Len(be) = n - 4 /\ \A j \in 1..(n - 4) : be[j] = e[2 + j]
      <4>1. 2 \in Nat /\ n - 4 \in Nat /\ 2 + (n - 4) <= Len(w) /\ 2 + (n - 4) <= Len(e)
        BY <1>2, <2>1
      <4>2. bw = SubSeq(w, 2 + 1, 2 + (n - 4)) /\ be = SubSeq(e, 2 + 1, 2 + (n - 4))
        BY <3>1, Zenon
      <4>3. /\ bw \in Seq(Byte) /\ Len(bw) = n - 4
            /\ \A j \in 1..(n - 4) : bw[j] = w[2 + j]
        <5> HIDE DEF bw
        <5> QED  BY <1>2, <4>1, <4>2, Cut, Zenon
      <4>4. /\ be \in Seq(Byte) /\ Len(be) = n - 4
            /\ \A j \in 1..(n - 4) : be[j] = e[2 + j]
        <5> HIDE DEF be
        <5> QED  BY <4>1, <4>2, Cut, Zenon
      <4> QED  BY <4>3, <4>4
    <3>3. \A j \in 1..(n - 4) : 2 + j \in 1..n /\ 2 + j # i
      BY <1>2, <2>1, <2>3
    <3> HIDE DEF bw, be
    <3>4. \A j \in 1..(n - 4) : bw[j] = be[j]
      BY <1>2, <3>2, <3>3
    <3>5. bw = be
      BY <3>2, <3>4, SeqEqual, Zenon
    <3>6. w[n - 1] = Checksum(bw) /\ e[n - 1] = Checksum(be)
      BY <1>2, <1>3, SoundIs DEF bw, be
    <3> QED  BY <1>2, <2>3, <3>5, <3>6
  <2>4. CASE i # n - 1
    <3>1. i < Len(u) /\ n - 1 # i /\ n - 1 \in 1..n
      BY <1>2, <2>1, <2>2, <2>4
    <3> DEFINE cu == Checksum(SubSeq(u, 3, Len(u) - 2))
    <3>2. /\ Checksum(SubSeq(w, 3, n - 2)) = (cu + x) % 256 /\ cu \in Byte /\ x \in Byte
          /\ Checksum(SubSeq(e, 3, n - 2)) = (cu + e[i]) % 256 /\ e[i] \in Byte
      <4>1. /\ cu \in Byte /\ x \in Byte
            /\ Checksum(SubSeq(w, 3, Len(w) - 2)) = (cu + x) % 256
        BY <1>1, <2>2, <3>1, BodySum
      <4>2. /\ e[i] \in Byte
            /\ Checksum(SubSeq(e, 3, Len(e) - 2)) = (cu + e[i]) % 256
        BY <1>1, <2>2, <3>1, BodySum
      <4> QED  BY <1>2, <4>1, <4>2
    <3> HIDE DEF cu
    <3>3. Checksum(SubSeq(w, 3, n - 2)) = Checksum(SubSeq(e, 3, n - 2))
      <4>1. w[n - 1] = Checksum(SubSeq(w, 3, n - 2)) /\ e[n - 1] = Checksum(SubSeq(e, 3, n - 2))
        BY <1>2, <1>3, SoundIs
      <4> QED  BY <1>2, <3>1, <4>1
    <3>4. e[i] = x
      <4>1. (cu + x) % 256 = (cu + e[i]) % 256
        BY <3>2, <3>3
      <4> QED  BY <3>2, <4>1, ByteSum
    <3> QED  BY <1>1, <3>4
  <2> QED  BY <2>3, <2>4
<1> QED
  BY <1>2, <1>3 DEF w

\* If a byte is put into bytes that decode and the result decodes too, the place
\* is after LEN or the byte is 0.
LEMMA InsertedIsUnsound ==
  ASSUME NEW s, NEW t, NEW i, NEW x, Inserted(t, s, i, x),
         Sound(s, Len(s)), Sound(t, Len(t))
  PROVE  i \in 1..5 /\ (i >= 3 => x = 0)
<1> DEFINE n == Len(s)
<1>1. /\ s \in Seq(Byte) /\ t \in Seq(Byte) /\ Len(t) = n + 1
      /\ i \in 1..Len(t) /\ \A j \in 1..(i - 1) : t[j] = s[j]
      /\ \A j \in i..n : t[j + 1] = s[j]
  BY DEF Inserted
<1>2. /\ n \in Nat /\ n >= 8 /\ BigEndian(s[4], s[5]) = Wrapped(n - 2)
      /\ s[n - 1] = Checksum(SubSeq(s, 3, n - 2))
  BY <1>1, SoundIs
<1>3. /\ BigEndian(t[4], t[5]) = Wrapped(Len(t) - 2)
      /\ t[Len(t) - 1] = Checksum(SubSeq(t, 3, Len(t) - 2))
  BY <1>1, SoundIs
<1>4. n - 2 \in Nat /\ Len(t) - 2 = (n - 2) + 1 /\ Len(t) - 1 = n
  BY <1>1, <1>2
<1>5. i <= 5
  <2> SUFFICES ASSUME ~(i <= 5)  PROVE FALSE
    BY <1>1
  <2>1. 4 \in 1..(i - 1) /\ 5 \in 1..(i - 1)
    BY <1>1
  <2>2. t[4] = s[4] /\ t[5] = s[5]
    BY <1>1, <2>1
  <2>3. Wrapped((n - 2) + 1) = Wrapped(n - 2)
    BY <1>2, <1>3, <1>4, <2>2, Zenon
  <2>4. Wrapped(n - 2) \in Word /\ NextIs(Wrapped(n - 2), Wrapped((n - 2) + 1))
    BY <1>4, WrappedNext
  <2>5. 0 \in Byte
    BY DEF Byte
  <2> QED  BY <2>3, <2>4, <2>5, NextWord, Zenon
<1>6. ASSUME i >= 3  PROVE x = 0
  <2> DEFINE c == Checksum(SubSeq(s, 3, n - 2))
  <2>1. i < n /\ n - 1 \in i..n /\ (n - 1) + 1 = n
    BY <1>1, <1>2, <1>5
  <2>2. t[n] = s[n - 1]
    BY <1>1, <2>1
  <2>3. /\ c \in Byte /\ x \in Byte
        /\ Checksum(SubSeq(t, 3, Len(t) - 2)) = (c + x) % 256
    BY <1>6, <2>1, BodySum
  <2> HIDE DEF c
  <2>4. (c + x) % 256 = c
    <3>1. t[n] = Checksum(SubSeq(t, 3, Len(t) - 2)) /\ s[n - 1] = c
      BY <1>2, <1>3, <1>4 DEF c
    <3> QED  BY <2>2, <2>3, <3>1
  <2> QED  BY <2>3, <2>4, ByteSum
<1> QED
  BY <1>1, <1>2, <1>5, <1>6

LEMMA LostIsUnsound ==
  ASSUME NEW e \in Seq(Byte), Sound(e, Len(e)), NEW i \in 1..Len(e)
  PROVE  Lost(e, i) \in Seq(Byte) /\ ~Sound(Lost(e, i), Len(Lost(e, i)))
<1> DEFINE w == Lost(e, i)   n == Len(w)
<1>1. Inserted(e, w, i, e[i])
  BY LostIs
<1> HIDE DEF w
<1>2. /\ w \in Seq(Byte) /\ Len(e) = n + 1 /\ \A j \in 1..(i - 1) : e[j] = w[j]
      /\ \A j \in i..n : e[j + 1] = w[j]
  BY <1>1 DEF Inserted
<1>3. ASSUME Sound(w, n)  PROVE FALSE
  <2>1. i \in 1..5 /\ (i >= 3 => e[i] = 0)
    BY <1>1, <1>3, InsertedIsUnsound
  <2>2. /\ n \in Nat /\ n >= 8 /\ w[1] = Magic[1] /\ w[2] = Magic[2] /\ w[3] \in DirCodes
        /\ BigEndian(w[4], w[5]) = Wrapped(n - 2) /\ \A j \in 1..n : w[j] \in Byte
    BY <1>2, <1>3, SoundIs
  <2>3. /\ e[1] = Magic[1] /\ e[2] = Magic[2] /\ e[3] \in DirCodes
        /\ BigEndian(e[4], e[5]) = Wrapped(Len(e) - 2)
    BY SoundIs
  <2>4. CASE i = 1
    <3>1. 1 \in i..n /\ 1 + 1 = 2
      BY <2>2, <2>4
    <3> QED  BY <1>2, <2>2, <2>3, <3>1, MagicBytes, Zenon
  <2>5. CASE i = 2
    <3>1. 2 \in i..n /\ 2 + 1 = 3
      BY <2>2, <2>5
    <3> QED  BY <1>2, <2>2, <2>3, <3>1, MagicBytes, Zenon
  <2>6. CASE i = 3
    <3>1. e[3] = 0
      BY <2>1, <2>6
    <3> QED  BY <2>3, <3>1, MagicBytes, Zenon
  <2>7. /\ n - 2 \in Nat /\ Len(e) - 2 = (n - 2) + 1 /\ w[4] \in Byte /\ w[5] \in Byte
        /\ Wrapped(n - 2) \in Word /\ NextIs(Wrapped(n - 2), Wrapped((n - 2) + 1))
    <3>1. n - 2 \in Nat /\ Len(e) - 2 = (n - 2) + 1 /\ w[4] \in Byte /\ w[5] \in Byte
      BY <1>2, <2>2
    <3> QED  BY <3>1, WrappedNext
  <2>8. CASE i = 4
    <3>1. 4 \in i..n /\ 4 + 1 = 5
      BY <2>2, <2>8
    <3>2. e[5] = w[4] /\ e[4] = 0
      BY <1>2, <2>1, <2>8, <3>1
    <3>3. /\ BigEndian(0, w[4]) = Wrapped((n - 2) + 1)
          /\ BigEndian(w[4], w[5]) = Wrapped(n - 2)
      BY <2>2, <2>3, <2>7, <3>2, Zenon
    <3> QED  BY <2>7, <3>3, NextWord, Zenon
  <2>9. CASE i = 5
    <3>1. 4 \in 1..(i - 1)
      BY <2>9
    <3>2. e[4] = w[4] /\ e[5] = 0
      BY <1>2, <2>1, <2>9, <3>1
    <3>3. /\ BigEndian(w[4], 0) = Wrapped((n - 2) + 1)
          /\ BigEndian(w[4], w[5]) = Wrapped(n - 2)
      BY <2>2, <2>3, <2>7, <3>2, Zenon
    <3> QED  BY <2>7, <3>3, NextWord, Zenon
  <2> QED  BY <2>1, <2>4, <2>5, <2>6, <2>8, <2>9
<1> QED
  BY <1>2, <1>3 DEF w

LEMMA RepeatedIsUnsound ==
  ASSUME NEW e \in Seq(Byte), Sound(e, Len(e)), NEW i \in 1..Len(e)
  PROVE  Repeated(e, i) \in Seq(Byte) /\ ~Sound(Repeated(e, i), Len(Repeated(e, i)))
<1> DEFINE w == Repeated(e, i)   n == Len(e)
<1>1. Inserted(w, e, i + 1, e[i])
  BY RepeatedIs
<1> HIDE DEF w
<1>2. /\ w \in Seq(Byte) /\ Len(w) = n + 1 /\ \A j \in 1..((i + 1) - 1) : w[j] = e[j]
      /\ \A j \in (i + 1)..n : w[j + 1] = e[j]
  BY <1>1 DEF Inserted
<1>3. ASSUME Sound(w, Len(w))  PROVE FALSE
  <2>1. i + 1 \in 1..5 /\ (i + 1 >= 3 => e[i] = 0)
    BY <1>1, <1>3, InsertedIsUnsound
  <2>2. /\ w[1] = Magic[1] /\ w[2] = Magic[2] /\ w[3] \in DirCodes
        /\ BigEndian(w[4], w[5]) = Wrapped(Len(w) - 2)
    BY <1>2, <1>3, SoundIs, Zenon
  <2>3. /\ n \in Nat /\ n >= 8 /\ e[1] = Magic[1] /\ e[2] = Magic[2] /\ e[3] \in DirCodes
        /\ BigEndian(e[4], e[5]) = Wrapped(n - 2) /\ \A j \in 1..n : e[j] \in Byte
    BY SoundIs
  <2>4. w[i + 1] = e[i]
    BY <1>1 DEF Inserted
  <2>5. i # 1 /\ i # 2
    <3>1. i = 1 => i + 1 = 2
      OBVIOUS
    <3>2. i = 2 => i + 1 = 3
      OBVIOUS
    <3> QED  BY <2>2, <2>3, <2>4, <3>1, <3>2, MagicBytes, Zenon
  <2>6. i = 3 \/ i = 4
    BY <2>1, <2>5
  <2>7. e[i] = 0
    BY <2>1, <2>6
  <2>8. CASE i = 3
    <3>1. e[3] = 0
      BY <2>7, <2>8
    <3> QED  BY <2>3, <3>1, MagicBytes, Zenon
  <2>9. CASE i = 4
    <3>1. 4 \in 1..((i + 1) - 1) /\ i + 1 = 5
      BY <2>9
    <3>2. w[4] = 0 /\ w[5] = 0 /\ e[4] = 0
      <4>1. w[4] = e[4]
        BY <1>2, <3>1
      <4>2. w[5] = e[4]
        BY <2>4, <2>9, <3>1
      <4> QED  BY <2>7, <2>9, <4>1, <4>2
    <3>3. /\ n - 2 \in Nat /\ Len(w) - 2 = (n - 2) + 1 /\ e[5] \in Byte
      BY <1>2, <2>3
    <3>4. Wrapped(n - 2) \in Word /\ NextIs(Wrapped(n - 2), Wrapped((n - 2) + 1))
      BY <3>3, WrappedNext
    <3>5. BigEndian(0, e[5]) = Wrapped(n - 2) /\ BigEndian(0, 0) = Wrapped((n - 2) + 1)
      BY <2>2, <2>3, <3>2, <3>3, Zenon
    <3> QED  BY <3>3, <3>4, <3>5, NextWord, Zenon
  <2> QED  BY <2>6, <2>8, <2>9
<1> QED
  BY <1>2, <1>3 DEF w

-----------------------------------------------------------------------------
(* The line.                                                               *)

\* w is e with one byte damaged.
Damaged(w, e) ==
  \E i \in 1..Len(e) :
    (\E d \in Deltas : w = Altered(e, i, d)) \/ w = Lost(e, i) \/ w = Repeated(e, i)

FrameLineInv ==
  /\ frame \in FrameType /\ wire \in Seq(Byte) /\ faults \in Nat
  /\ faults = 0 => wire = Encode(frame)
  /\ faults = 1 => Damaged(wire, Encode(frame))

LEMMA DamagedIsBytes ==
  ASSUME NEW e \in Seq(Byte), NEW w, Damaged(w, e)
  PROVE  w \in Seq(Byte)
<1>1. Deltas \subseteq 1..255
  BY FrameLineAssumption
<1>2. PICK i \in 1..Len(e) :
        (\E d \in Deltas : w = Altered(e, i, d)) \/ w = Lost(e, i) \/ w = Repeated(e, i)
  BY DEF Damaged
<1>3. CASE \E d \in Deltas : w = Altered(e, i, d)
  <2>1. PICK d \in 1..255 : w = Altered(e, i, d)
    BY <1>1, <1>3
  <2> QED  BY <2>1, AlteredIs DEF Inserted
<1>4. CASE w = Lost(e, i)
  BY <1>4, LostIs DEF Inserted
<1>5. CASE w = Repeated(e, i)
  BY <1>5, RepeatedIs DEF Inserted
<1> QED
  BY <1>2, <1>3, <1>4, <1>5

LEMMA DamagedIsUnsound ==
  ASSUME NEW e \in Seq(Byte), Sound(e, Len(e)), NEW w, Damaged(w, e)
  PROVE  ~Sound(w, Len(w))
<1>1. Deltas \subseteq 1..255
  BY FrameLineAssumption
<1>2. PICK i \in 1..Len(e) :
        (\E d \in Deltas : w = Altered(e, i, d)) \/ w = Lost(e, i) \/ w = Repeated(e, i)
  BY DEF Damaged
<1>3. CASE \E d \in Deltas : w = Altered(e, i, d)
  <2>1. PICK d \in 1..255 : w = Altered(e, i, d)
    BY <1>1, <1>3
  <2> QED  BY <2>1, AlteredIsUnsound, Zenon
<1>4. CASE w = Lost(e, i)
  BY <1>4, LostIsUnsound, Zenon
<1>5. CASE w = Repeated(e, i)
  BY <1>5, RepeatedIsUnsound, Zenon
<1> QED
  BY <1>2, <1>3, <1>4, <1>5

LEMMA FrameLineInvariant == LineSpec => []FrameLineInv
<1>1. LineInit => FrameLineInv
  <2> SUFFICES ASSUME LineInit  PROVE FrameLineInv
    OBVIOUS
  <2>1. frame \in FrameType /\ wire = Encode(frame) /\ faults = 0
    BY FrameLineAssumption DEF LineInit
  <2>2. wire \in Seq(Byte)
    BY <2>1, RoundTrip
  <2> QED  BY <2>1, <2>2 DEF FrameLineInv
<1>2. FrameLineInv /\ [LineNext]_wire_vars => FrameLineInv'
  <2> SUFFICES ASSUME FrameLineInv, [LineNext]_wire_vars  PROVE FrameLineInv'
    OBVIOUS
  <2>1. CASE LineNext
    <3>1. Damaged(wire', wire) /\ faults' = faults + 1 /\ frame' = frame
      BY <2>1 DEF LineNext, Alter, Lose, Repeat, Damage, Damaged
    <3>2. wire' \in Seq(Byte)
      BY <3>1, DamagedIsBytes DEF FrameLineInv
    <3>3. /\ faults \in Nat /\ faults' \in Nat /\ faults' # 0 /\ (faults' = 1 => faults = 0)
      BY <3>1 DEF FrameLineInv
    <3> QED  BY <3>1, <3>2, <3>3 DEF FrameLineInv
  <2>2. CASE UNCHANGED wire_vars
    BY <2>2 DEF wire_vars, FrameLineInv, Damaged
  <2> QED  BY <2>1, <2>2
<1> QED
  BY <1>1, <1>2, PTL DEF LineSpec

\* frame.rs 109-152: what encode wrote decodes to the frame it was written from,
\* and any one byte of it altered, lost or repeated on the way is an error.
THEOREM DetectsOneFault == LineSpec => []OneFaultIsDetected
<1>1. FrameLineInv => OneFaultIsDetected
  <2> SUFFICES ASSUME FrameLineInv  PROVE OneFaultIsDetected
    OBVIOUS
  <2>1. /\ Encode(frame) \in Seq(Byte) /\ Decode(Encode(frame)) = Decoded(frame)
    BY RoundTrip DEF FrameLineInv
  <2>2. Sound(Encode(frame), Len(Encode(frame)))
    <3>1. Decode(Encode(frame)).ok
      BY <2>1 DEF Decoded
    <3> QED  BY <2>1, <3>1, DecodeIs
  <2>3. faults = 0 => Decode(wire) = Decoded(frame)
    BY <2>1 DEF FrameLineInv
  <2>4. ASSUME faults = 1  PROVE ~Decode(wire).ok
    <3>1. Damaged(wire, Encode(frame)) /\ wire \in Seq(Byte)
      BY <2>4 DEF FrameLineInv
    <3>2. ~Sound(wire, Len(wire))
      BY <2>1, <2>2, <3>1, DamagedIsUnsound
    <3> QED  BY <3>1, <3>2, DecodeIs
  <2> QED  BY <2>3, <2>4 DEF OneFaultIsDetected
<1> QED
  BY <1>1, FrameLineInvariant, PTL

\* However many bytes the line damaged, what decode accepts is an encoding, the
\* one it re-encodes to (the corpus test of tests/replay.rs 33-58).
THEOREM AcceptsEncodings == LineSpec => []AcceptsOnlyEncodings
<1>1. FrameLineInv => AcceptsOnlyEncodings
  <2> SUFFICES ASSUME FrameLineInv, Decode(wire).ok
               PROVE  Decode(wire).frame \in FrameType /\ Encode(Decode(wire).frame) = wire
    BY DEF AcceptsOnlyEncodings
  <2>1. wire \in Seq(Byte)
    BY DEF FrameLineInv
  <2> QED  BY <2>1, OnlyEncodings
<1> QED
  BY <1>1, FrameLineInvariant, PTL

LEMMA LimitIsInt == MaxLenField \in Word /\ MaxLenField \in Int /\ MaxLenField >= 6
BY MaxLenFieldAssumption, WordIs, SMT DEF MinLenField

-----------------------------------------------------------------------------
(* The frames in a run of bytes, by their offset.                          *)

Run(s, a, n) == SubSeq(s, a + 1, a + n)

FrameAt(s, a, n) ==
  /\ n \in 8..(MaxLenField + 2)
  /\ a + n <= Len(s)
  /\ Sound(Run(s, a, n), n)

LEMMA RunIs ==
  ASSUME NEW s \in Seq(Byte), NEW a \in Nat, NEW n \in Nat, a + n <= Len(s)
  PROVE  /\ Run(s, a, n) \in Seq(Byte) /\ Len(Run(s, a, n)) = n
         /\ \A i \in 1..n : Run(s, a, n)[i] = s[a + i]
BY Cut DEF Run

LEMMA LimitedWord ==
  ASSUME NEW n \in 8..(MaxLenField + 2)
  PROVE  n \in Nat /\ n >= 8 /\ n - 2 \in Word
<1>1. MaxLenField \in Int
  BY LimitIsInt
<1> QED
  BY <1>1, MaxLenFieldAssumption, WordIs, SMT

LEMMA FrameAtIs ==
  ASSUME NEW s \in Seq(Byte), NEW a \in Nat, NEW n, FrameAt(s, a, n)
  PROVE  /\ n \in Nat /\ n >= 8 /\ n \in 8..(MaxLenField + 2) /\ a + n <= Len(s) /\ a < Len(s)
         /\ s[a + 1] = Magic[1] /\ s[a + 2] = Magic[2]
         /\ BigEndian(s[a + 4], s[a + 5]) = n - 2
<1>1. n \in Nat /\ n >= 8 /\ n - 2 \in Word /\ a + n <= Len(s)
  BY LimitedWord DEF FrameAt
<1> DEFINE w == Run(s, a, n)
<1>2. w \in Seq(Byte) /\ Len(w) = n /\ \A i \in 1..n : w[i] = s[a + i]
  BY <1>1, RunIs
<1>3. Sound(w, Len(w))
  BY <1>2 DEF FrameAt
<1> HIDE DEF w
<1>4. w[1] = Magic[1] /\ w[2] = Magic[2] /\ BigEndian(w[4], w[5]) = Wrapped(n - 2)
  BY <1>2, <1>3, SoundIs
<1>5. w[1] = s[a + 1] /\ w[2] = s[a + 2] /\ w[4] = s[a + 4] /\ w[5] = s[a + 5]
  <2>1. 1 \in 1..n /\ 2 \in 1..n /\ 4 \in 1..n /\ 5 \in 1..n
    BY <1>1
  <2> QED  BY <1>2, <2>1
<1>6. Wrapped(n - 2) = n - 2
  BY <1>1, WrappedIs
<1>7. a < Len(s)
  BY <1>1
<1>8. n \in 8..(MaxLenField + 2)
  BY DEF FrameAt
<1> QED
  BY <1>1, <1>4, <1>5, <1>6, <1>7, <1>8, Zenon

LEMMA OneFrameSize ==
  ASSUME NEW s \in Seq(Byte), NEW a \in Nat, NEW n, NEW m, FrameAt(s, a, n), FrameAt(s, a, m)
  PROVE  n = m
<1>1. BigEndian(s[a + 4], s[a + 5]) = n - 2 /\ n \in Nat
  BY FrameAtIs
<1>2. BigEndian(s[a + 4], s[a + 5]) = m - 2 /\ m \in Nat
  BY FrameAtIs
<1> QED
  BY <1>1, <1>2

\* The promise's frames, those whose bytes are an encoding, are the ones whose
\* bytes decode.
LEMMA FrameIff ==
  ASSUME NEW s \in Seq(Byte), NEW a \in Nat, NEW n \in Int
  PROVE  IsFrame(s, a + 1, n) <=> FrameAt(s, a, n)
<1> DEFINE w == Run(s, a, n)   p == SubSeq(s, (a + 1) + 6, (a + 1) + n - 3)
           f(d) == [dir |-> d, cmd |-> s[(a + 1) + 5], payload |-> p]
<1>1. n - 2 \in MinLenField..MaxLenField <=> n \in 8..(MaxLenField + 2)
  BY LimitIsInt, SMT DEF MinLenField
<1>2. (a + 1) + n - 1 = a + n /\ (a + 1) + n - 3 = (a + 6) + (n - 8)
      /\ (a + 1) + 6 = (a + 6) + 1 /\ (a + 1) + 5 = a + 6
  OBVIOUS
<1>3. IsFrame(s, a + 1, n) <=> /\ n \in 8..(MaxLenField + 2) /\ a + n <= Len(s)
                               /\ s[a + 1] = Magic[1] /\ \E d \in Dir : w = Encode(f(d))
  BY <1>1, <1>2, Zenon DEF IsFrame, Run
<1> SUFFICES ASSUME n \in 8..(MaxLenField + 2), a + n <= Len(s)
             PROVE  Sound(w, n) <=> s[a + 1] = Magic[1] /\ \E d \in Dir : w = Encode(f(d))
  BY <1>3 DEF FrameAt
<1>4. n \in Nat /\ n >= 8
  BY LimitedWord
<1>5. w \in Seq(Byte) /\ Len(w) = n /\ \A i \in 1..n : w[i] = s[a + i]
  BY <1>4, RunIs
<1>6. p \in Seq(Byte) /\ Len(p) = n - 8 /\ \A i \in 1..(n - 8) : p[i] = s[(a + 6) + i]
  <2>1. a + 6 \in Nat /\ n - 8 \in Nat /\ (a + 6) + (n - 8) <= Len(s)
    BY <1>4
  <2>2. p = Run(s, a + 6, n - 8)
    BY <1>2, Zenon DEF Run
  <2> QED  BY <2>1, <2>2, RunIs
<1>7. w[6] = s[(a + 1) + 5] /\ s[(a + 1) + 5] \in Byte /\ w[1] = s[a + 1]
  <2>1. 6 \in 1..n /\ 1 \in 1..n
    BY <1>4
  <2>2. w[6] = s[a + 6] /\ w[6] \in Byte /\ w[1] = s[a + 1]
    BY <1>5, <2>1
  <2> QED  BY <1>2, <2>2, Zenon
<1>8. \A d \in Dir : f(d) \in FrameType
  BY <1>6, <1>7 DEF FrameType
<1>9. ASSUME Sound(w, n)  PROVE s[a + 1] = Magic[1] /\ \E d \in Dir : w = Encode(f(d))
  <2>1. Sound(w, Len(w))
    BY <1>5, <1>9
  <2>2. /\ Encode(Contents(w)) = w /\ Contents(w) \in FrameType /\ Contents(w).cmd = w[6]
        /\ Contents(w).payload \in Seq(Byte) /\ Contents(w).dir \in Dir
        /\ Len(Contents(w).payload) = n - 8 /\ \A i \in 1..(n - 8) : Contents(w).payload[i] = w[6 + i]
    <3>1. Encode(Contents(w)) = w
      BY <1>5, <2>1, SoundIsEncoding
    <3>2. /\ Contents(w) \in FrameType /\ Contents(w).cmd = w[6]
          /\ Len(Contents(w).payload) = n - 8
          /\ \A i \in 1..(n - 8) : Contents(w).payload[i] = w[6 + i]
      BY <1>5, <2>1, SoundContents
    <3>3. Contents(w).payload \in Seq(Byte) /\ Contents(w).dir \in Dir
      BY <3>2, LengthIsWord
    <3> QED  BY <3>1, <3>2, <3>3
  <2>3. w[1] = Magic[1]
    BY <1>5, <2>1, SoundIs
  <2> HIDE DEF w, p
  <2>4. \A i \in 1..(n - 8) : Contents(w).payload[i] = p[i]
    <3> TAKE i \in 1..(n - 8)
    <3>1. 6 + i \in 1..n /\ a + (6 + i) = (a + 6) + i
      BY <1>4
    <3> QED  BY <1>5, <1>6, <2>2, <3>1
  <2>5. Contents(w).payload = p
    <3> DEFINE q == Contents(w).payload
    <3>1. q \in Seq(Byte) /\ p \in Seq(Byte) /\ Len(q) = Len(p)
      BY <1>6, <2>2
    <3>2. \A i \in 1..Len(q) : q[i] = p[i]
      BY <2>2, <2>4
    <3> HIDE DEF q
    <3>3. q = p
      BY <3>1, <3>2, SeqEqual, Zenon
    <3> QED  BY <3>3 DEF q
  <2>6. Contents(w) = f(Contents(w).dir)
    <3>1. Contents(w) = [dir |-> Contents(w).dir, cmd |-> Contents(w).cmd, payload |-> Contents(w).payload]
      BY <2>2 DEF FrameType
    <3> QED  BY <1>7, <2>2, <2>5, <3>1
  <2> QED  BY <1>7, <2>2, <2>3, <2>6
<1>10. ASSUME NEW d \in Dir, w = Encode(f(d))  PROVE Sound(w, n)
  <2>1. Encoding(w, f(d))
    BY <1>8, <1>10, EncodeIs
  <2>2. Sound(w, Len(w))
    BY <1>8, <2>1, EncodingIsSound
  <2> QED  BY <1>5, <2>2
<1> QED
  BY <1>9, <1>10

LEMMA SizesAt ==
  ASSUME NEW s \in Seq(Byte), NEW a \in Nat, a < Len(s)
  PROVE  /\ \A n : FrameAt(s, a, n) => FrameSizes(s, a + 1) = {n} /\ Min(FrameSizes(s, a + 1)) = n
         /\ (\A n : ~FrameAt(s, a, n)) => FrameSizes(s, a + 1) = {}
<1>1. \A n \in Int : IsFrame(s, a + 1, n) <=> FrameAt(s, a, n)
  BY FrameIff
<1>2. FrameSizes(s, a + 1) = {n \in 8..(Len(s) - (a + 1) + 1) : IsFrame(s, a + 1, n)}
  BY DEF FrameSizes, FrameOverhead
<1>3. ASSUME NEW n, FrameAt(s, a, n)
      PROVE  FrameSizes(s, a + 1) = {n} /\ Min(FrameSizes(s, a + 1)) = n
  <2>1. n \in Nat /\ n >= 8 /\ a + n <= Len(s)
    BY <1>3, FrameAtIs
  <2>2. n \in 8..(Len(s) - (a + 1) + 1) /\ n \in Int /\ \A m \in 8..(Len(s) - (a + 1) + 1) : m \in Int
    BY <2>1
  <2>3. n \in FrameSizes(s, a + 1)
    BY <1>1, <1>2, <1>3, <2>2
  <2>4. \A m \in FrameSizes(s, a + 1) : m = n
    <3> TAKE m \in FrameSizes(s, a + 1)
    <3>1. FrameAt(s, a, m)
      BY <1>1, <1>2, <2>2
    <3> QED  BY <1>3, <3>1, OneFrameSize, Zenon
  <2>5. FrameSizes(s, a + 1) = {n}
    BY <2>3, <2>4
  <2>6. Min({n}) = n
    BY <2>1 DEF Min
  <2> QED  BY <2>5, <2>6
<1>4. ASSUME \A n : ~FrameAt(s, a, n)  PROVE FrameSizes(s, a + 1) = {}
  <2>1. \A m \in 8..(Len(s) - (a + 1) + 1) : m \in Int
    OBVIOUS
  <2> QED  BY <1>1, <1>2, <1>4, <2>1
<1> QED
  BY <1>3, <1>4

-----------------------------------------------------------------------------
(* The reading of a run of bytes, offset by offset.                        *)

Seen == [frames : Seq(FrameType), noise : Seq(Byte)]

\* Reading's recursion, one step of it: g is the reading from the later offsets.
ReadStep(s, g, p) ==
  IF p > Len(s) THEN [frames |-> <<>>, noise |-> <<>>]
  ELSE IF FrameSizes(s, p) # {}
  THEN LET n == Min(FrameSizes(s, p))
           f == Decode(SubSeq(s, p, p + n - 1)).frame
       IN  [g[p + n] EXCEPT !.frames = <<f>> \o @]
  ELSE [g[p + 1] EXCEPT !.noise = <<s[p]>> \o @]

Scans(s, g) == g = [p \in 1..(Len(s) + 1) |-> ReadStep(s, g, p)]
Scan(s) == CHOOSE g : Scans(s, g)
From(s, a) == Scan(s)[a + 1]

LEMMA ReadingIs ==
  ASSUME NEW s
  PROVE  Reading(s) = From(s, 0)
<1>1. Reading(s) = Scan(s)[1]
  BY DEF Reading, Scan, Scans, ReadStep
<1>2. 0 + 1 = 1
  OBVIOUS
<1> QED
  BY <1>1, <1>2 DEF From

\* What a step makes of the readings g from the later offsets.
StepsTo(s, g, a, r) ==
  /\ r \in Seen
  /\ a = Len(s) => r.frames = <<>> /\ r.noise = <<>>
  /\ a < Len(s) =>
       /\ \A n : FrameAt(s, a, n) =>
            /\ r.frames = <<Decode(Run(s, a, n)).frame>> \o g[(a + n) + 1].frames
            /\ r.noise = g[(a + n) + 1].noise
       /\ (\A n : ~FrameAt(s, a, n)) =>
            /\ r.frames = g[(a + 1) + 1].frames
            /\ r.noise = <<s[a + 1]>> \o g[(a + 1) + 1].noise

LEMMA FramedRun ==
  ASSUME NEW s \in Seq(Byte), NEW a \in Nat, NEW n, FrameAt(s, a, n)
  PROVE  Decode(Run(s, a, n)).ok /\ Decode(Run(s, a, n)).frame \in FrameType
<1>1. n \in Nat /\ a + n <= Len(s)
  BY FrameAtIs
<1>2. Run(s, a, n) \in Seq(Byte) /\ Len(Run(s, a, n)) = n
  BY <1>1, RunIs
<1>3. Decode(Run(s, a, n)).ok
  BY <1>2, DecodeIs DEF FrameAt
<1> QED
  BY <1>2, <1>3, OnlyEncodings

LEMMA StepIs ==
  ASSUME NEW s \in Seq(Byte), NEW a \in 0..Len(s), NEW g,
         \A b \in (a + 1)..Len(s) : g[b + 1] \in Seen
  PROVE  StepsTo(s, g, a, ReadStep(s, g, a + 1))
<1> DEFINE r == ReadStep(s, g, a + 1)   sizes == FrameSizes(s, a + 1)
<1>0. a \in Nat /\ Len(s) \in Nat
  OBVIOUS
<1>1. CASE a = Len(s)
  <2>1. r = [frames |-> <<>>, noise |-> <<>>]
    BY <1>0, <1>1 DEF ReadStep
  <2> HIDE DEF r
  <2>2. <<>> \in Seq(FrameType) /\ <<>> \in Seq(Byte) /\ ~(a < Len(s))
    BY <1>1
  <2>3. r \in Seen /\ r.frames = <<>> /\ r.noise = <<>>
    BY <2>1, <2>2 DEF Seen
  <2> QED  BY <2>2, <2>3, Zenon DEF StepsTo, r
<1>2. CASE a < Len(s) /\ \E n : FrameAt(s, a, n)
  <2>1. PICK n : FrameAt(s, a, n)
    BY <1>2
  <2>2. n \in Nat /\ n >= 8 /\ a + n <= Len(s)
    BY <2>1, FrameAtIs
  <2>3. sizes # {} /\ Min(sizes) = n
    BY <1>0, <1>2, <2>1, SizesAt
  <2> DEFINE f == Decode(Run(s, a, n)).frame   t == g[(a + n) + 1]
  <2>4. (a + 1) + n = (a + n) + 1 /\ (a + 1) + n - 1 = a + n /\ ~(a + 1 > Len(s))
    BY <1>0, <1>2, <2>2
  <2>5. t \in Seen
    <3>1. a + n \in (a + 1)..Len(s)
      BY <1>0, <2>2
    <3> QED  BY <3>1
  <2>6. r = [t EXCEPT !.frames = <<f>> \o @]
    <3> HIDE DEF sizes
    <3>1. r = [g[(a + 1) + Min(sizes)] EXCEPT
                 !.frames = <<Decode(SubSeq(s, a + 1, (a + 1) + Min(sizes) - 1)).frame>> \o @]
      BY <2>3, <2>4 DEF ReadStep, sizes
    <3> QED  BY <2>3, <2>4, <3>1 DEF Run
  <2>7. f \in FrameType
    BY <1>0, <2>1, FramedRun
  <2> HIDE DEF f, t, r
  <2>8. t.frames \in Seq(FrameType) /\ t.noise \in Seq(Byte)
        /\ t = [frames |-> t.frames, noise |-> t.noise]
    BY <2>5 DEF Seen
  <2>9. r.frames = <<f>> \o t.frames /\ r.noise = t.noise /\ r = [frames |-> r.frames, noise |-> r.noise]
    BY <2>6, <2>8
  <2>10. <<f>> \o t.frames \in Seq(FrameType)
    BY <2>7, <2>8
  <2>11. r \in Seen
    BY <2>8, <2>9, <2>10 DEF Seen
  <2>12. \A m : FrameAt(s, a, m) => m = n
    BY <1>0, <2>1, OneFrameSize
  <2>13. a # Len(s)
    BY <1>2
  <2> QED  BY <2>1, <2>9, <2>11, <2>12, <2>13, Zenon DEF StepsTo, f, t, r
<1>3. CASE a < Len(s) /\ \A n : ~FrameAt(s, a, n)
  <2>1. sizes = {}
    BY <1>0, <1>3, SizesAt
  <2> DEFINE t == g[(a + 1) + 1]
  <2>2. t \in Seen
    <3>1. a + 1 \in (a + 1)..Len(s)
      BY <1>0, <1>3
    <3> QED  BY <3>1
  <2>3. r = [t EXCEPT !.noise = <<s[a + 1]>> \o @]
    <3>1. ~(a + 1 > Len(s))
      BY <1>0, <1>3
    <3> QED  BY <2>1, <3>1 DEF ReadStep
  <2>4. s[a + 1] \in Byte
    <3>1. a + 1 \in 1..Len(s)
      BY <1>0, <1>3
    <3> QED  BY <3>1
  <2> HIDE DEF t, r
  <2>5. t.frames \in Seq(FrameType) /\ t.noise \in Seq(Byte)
        /\ t = [frames |-> t.frames, noise |-> t.noise]
    BY <2>2 DEF Seen
  <2>6. /\ r.noise = <<s[a + 1]>> \o t.noise /\ r.frames = t.frames
        /\ r = [frames |-> r.frames, noise |-> r.noise]
    BY <2>3, <2>5
  <2>7. <<s[a + 1]>> \o t.noise \in Seq(Byte)
    BY <2>4, <2>5
  <2>8. r \in Seen
    BY <2>5, <2>6, <2>7 DEF Seen
  <2>9. a # Len(s)
    BY <1>3
  <2> QED  BY <1>3, <2>6, <2>8, <2>9, Zenon DEF StepsTo, t, r
<1> QED
  BY <1>0, <1>1, <1>2, <1>3

LEMMA SameStep ==
  ASSUME NEW s \in Seq(Byte), NEW a \in 0..Len(s), NEW g, NEW h,
         \A b \in (a + 1)..Len(s) : g[b + 1] \in Seen /\ h[b + 1] = g[b + 1]
  PROVE  ReadStep(s, h, a + 1) = ReadStep(s, g, a + 1)
<1> DEFINE q == ReadStep(s, g, a + 1)   r == ReadStep(s, h, a + 1)
<1>0. a \in Nat /\ Len(s) \in Nat
  OBVIOUS
<1>1. StepsTo(s, g, a, q)
  BY StepIs
<1>2. StepsTo(s, h, a, r)
  BY StepIs
<1> HIDE DEF q, r
<1>3. q.frames = r.frames /\ q.noise = r.noise
  <2>1. CASE a = Len(s)
    BY <1>1, <1>2, <2>1, Zenon DEF StepsTo
  <2>2. CASE a < Len(s) /\ \E n : FrameAt(s, a, n)
    <3>1. PICK n : FrameAt(s, a, n)
      BY <2>2
    <3>2. a + n \in (a + 1)..Len(s)
      <4>1. n \in Nat /\ n >= 8 /\ a + n <= Len(s)
        BY <1>0, <3>1, FrameAtIs
      <4> QED  BY <1>0, <4>1
    <3>3. h[(a + n) + 1] = g[(a + n) + 1]
      BY <3>2
    <3>4. /\ q.frames = <<Decode(Run(s, a, n)).frame>> \o g[(a + n) + 1].frames
          /\ q.noise = g[(a + n) + 1].noise
      BY <1>1, <2>2, <3>1, Zenon DEF StepsTo
    <3>5. /\ r.frames = <<Decode(Run(s, a, n)).frame>> \o h[(a + n) + 1].frames
          /\ r.noise = h[(a + n) + 1].noise
      BY <1>2, <2>2, <3>1, Zenon DEF StepsTo
    <3> QED  BY <3>3, <3>4, <3>5, Zenon
  <2>3. CASE a < Len(s) /\ \A n : ~FrameAt(s, a, n)
    <3>1. a + 1 \in (a + 1)..Len(s)
      BY <1>0, <2>3
    <3>2. h[(a + 1) + 1] = g[(a + 1) + 1]
      BY <3>1
    <3>3. q.frames = g[(a + 1) + 1].frames /\ q.noise = <<s[a + 1]>> \o g[(a + 1) + 1].noise
      BY <1>1, <2>3, Zenon DEF StepsTo
    <3>4. r.frames = h[(a + 1) + 1].frames /\ r.noise = <<s[a + 1]>> \o h[(a + 1) + 1].noise
      BY <1>2, <2>3, Zenon DEF StepsTo
    <3> QED  BY <3>2, <3>3, <3>4, Zenon
  <2> QED  BY <1>0, <2>1, <2>2, <2>3
<1>4. q \in Seen /\ r \in Seen
  BY <1>1, <1>2 DEF StepsTo
<1>5. q = [frames |-> q.frames, noise |-> q.noise] /\ r = [frames |-> r.frames, noise |-> r.noise]
  BY <1>4 DEF Seen
<1>6. q = r
  BY <1>3, <1>5, Zenon
<1> QED
  BY <1>6 DEF q, r

\* g is the reading from offset a on.
ReadFrom(s, g, a) == \A b \in a..Len(s) : g[b + 1] = ReadStep(s, g, b + 1) /\ g[b + 1] \in Seen

LEMMA ReadsFurther ==
  ASSUME NEW s \in Seq(Byte), NEW a \in 0..Len(s), a > 0, NEW g, ReadFrom(s, g, a)
  PROVE  \E h : ReadFrom(s, h, a - 1)
<1> DEFINE c == a - 1
           h == [p \in 1..(Len(s) + 1) |-> IF p = a THEN ReadStep(s, g, a) ELSE g[p]]
<1>1. c \in 0..Len(s) /\ c + 1 = a /\ Len(s) \in Nat /\ a \in Nat
  OBVIOUS
<1>2. \A b \in a..Len(s) : h[b + 1] = g[b + 1] /\ g[b + 1] \in Seen
  <2> TAKE b \in a..Len(s)
  <2>1. b + 1 \in 1..(Len(s) + 1) /\ b + 1 # a
    BY <1>1
  <2> QED  BY <2>1 DEF ReadFrom
<1>3. h[a] = ReadStep(s, g, a)
  <2>1. a \in 1..(Len(s) + 1)
    BY <1>1
  <2> QED  BY <2>1
<1> HIDE DEF h, c
<1>4. ASSUME NEW b \in c..Len(s)  PROVE h[b + 1] = ReadStep(s, h, b + 1) /\ h[b + 1] \in Seen
  <2>1. b \in 0..Len(s) /\ \A d \in (b + 1)..Len(s) : d \in a..Len(s)
    BY <1>1
  <2>2. \A d \in (b + 1)..Len(s) : g[d + 1] \in Seen /\ h[d + 1] = g[d + 1]
    BY <1>2, <2>1
  <2>3. ReadStep(s, h, b + 1) = ReadStep(s, g, b + 1)
    BY <2>1, <2>2, SameStep
  <2>4. CASE b = c
    <3>1. StepsTo(s, g, b, ReadStep(s, g, b + 1))
      BY <2>1, <2>2, StepIs
    <3>2. ReadStep(s, g, b + 1) \in Seen
      BY <3>1 DEF StepsTo
    <3> QED  BY <1>1, <1>3, <2>3, <2>4, <3>2
  <2>5. CASE b # c
    <3>1. b \in a..Len(s)
      BY <1>1, <2>5
    <3>2. g[b + 1] = ReadStep(s, g, b + 1)
      BY <3>1 DEF ReadFrom
    <3> QED  BY <1>2, <2>3, <3>1, <3>2
  <2> QED  BY <2>4, <2>5
<1>5. ReadFrom(s, h, c)
  BY <1>4 DEF ReadFrom
<1> QED
  BY <1>5 DEF c

LEMMA ScanExists ==
  ASSUME NEW s \in Seq(Byte)
  PROVE  \E g : Scans(s, g)
<1> DEFINE l == Len(s)
           T == {k \in Nat : k <= l => \E g : ReadFrom(s, g, l - k)}
<1>0. l \in Nat
  OBVIOUS
<1>1. 0 \in T
  <2> DEFINE g == [p \in 1..(l + 1) |-> ReadStep(s, <<>>, l + 1)]
  <2>1. \A h : ReadStep(s, h, l + 1) = [frames |-> <<>>, noise |-> <<>>]
    BY <1>0 DEF ReadStep
  <2>2. [frames |-> <<>>, noise |-> <<>>] \in Seen
    BY DEF Seen
  <2>3. l + 1 \in 1..(l + 1)
    BY <1>0
  <2>4. g[l + 1] = ReadStep(s, g, l + 1) /\ g[l + 1] \in Seen
    BY <2>1, <2>2, <2>3
  <2> HIDE DEF g
  <2>5. \A b \in (l - 0)..l : b = l
    BY <1>0
  <2>6. ReadFrom(s, g, l - 0)
    BY <2>4, <2>5 DEF ReadFrom
  <2> QED  BY <2>6
<1>2. ASSUME NEW k \in T  PROVE k + 1 \in T
  <2> SUFFICES ASSUME k + 1 <= l  PROVE \E g : ReadFrom(s, g, l - (k + 1))
    OBVIOUS
  <2>1. k \in Nat /\ k <= l /\ l - k \in 0..l /\ l - k > 0 /\ (l - k) - 1 = l - (k + 1)
    BY <1>0
  <2>2. PICK g : ReadFrom(s, g, l - k)
    BY <2>1
  <2>3. \E h : ReadFrom(s, h, (l - k) - 1)
    BY <2>1, <2>2, ReadsFurther
  <2> QED  BY <2>1, <2>3
<1> HIDE DEF T
<1>3. \A k \in Nat : k \in T
  <2>1. T \in SUBSET Nat
    BY DEF T
  <2> QED  BY <1>1, <1>2, <2>1, AllNaturals
<1>4. PICK g : ReadFrom(s, g, 0)
  <2>1. l \in T /\ l - l = 0
    BY <1>0, <1>3
  <2> QED  BY <1>0, <2>1 DEF T
<1> DEFINE h == [p \in 1..(l + 1) |-> g[p]]
<1>5. \A b \in 0..l : h[b + 1] = g[b + 1] /\ g[b + 1] \in Seen /\ g[b + 1] = ReadStep(s, g, b + 1)
  <2> TAKE b \in 0..l
  <2>1. b + 1 \in 1..(l + 1)
    BY <1>0
  <2> QED  BY <1>4, <2>1 DEF ReadFrom
<1>6. ASSUME NEW p \in 1..(l + 1)  PROVE h[p] = ReadStep(s, h, p)
  <2> DEFINE b == p - 1
  <2>1. b \in 0..l /\ b + 1 = p /\ \A d \in (b + 1)..l : d \in 0..l
    BY <1>0
  <2> HIDE DEF h, b
  <2>2. \A d \in (b + 1)..l : g[d + 1] \in Seen /\ h[d + 1] = g[d + 1]
    BY <1>5, <2>1
  <2>3. ReadStep(s, h, b + 1) = ReadStep(s, g, b + 1)
    BY <2>1, <2>2, SameStep
  <2> QED  BY <1>5, <2>1, <2>3
<1>7. h = [p \in 1..(l + 1) |-> ReadStep(s, h, p)]
  <2>1. h = [p \in 1..(l + 1) |-> h[p]]
    OBVIOUS
  <2> HIDE DEF h
  <2> QED  BY <1>6, <2>1
<1> HIDE DEF h
<1>8. Scans(s, h)
  BY <1>7 DEF Scans
<1> QED
  BY <1>8

\* The reading from offset a, from the readings of the offsets after it.
Reads(s, a) ==
  /\ From(s, a) \in Seen
  /\ a = Len(s) => From(s, a).frames = <<>> /\ From(s, a).noise = <<>>
  /\ a < Len(s) =>
       /\ \A n : FrameAt(s, a, n) =>
            /\ From(s, a).frames = <<Decode(Run(s, a, n)).frame>> \o From(s, a + n).frames
            /\ From(s, a).noise = From(s, a + n).noise
       /\ (\A n : ~FrameAt(s, a, n)) =>
            /\ From(s, a).frames = From(s, a + 1).frames
            /\ From(s, a).noise = <<s[a + 1]>> \o From(s, a + 1).noise

LEMMA ScanIs ==
  ASSUME NEW s \in Seq(Byte)
  PROVE  \A a \in 0..Len(s) : Reads(s, a)
<1> DEFINE l == Len(s)   g == Scan(s)
<1>0. l \in Nat
  OBVIOUS
<1>1. Scans(s, g)
  BY ScanExists DEF Scan
<1> HIDE DEF g
<1>2. \A a \in 0..l : g[a + 1] = ReadStep(s, g, a + 1)
  <2> TAKE a \in 0..l
  <2>1. a + 1 \in 1..(l + 1)
    BY <1>0
  <2>2. g = [p \in 1..(l + 1) |-> ReadStep(s, g, p)]
    BY <1>1 DEF Scans
  <2> DEFINE G(p) == ReadStep(s, g, p)
  <2>3. g = [p \in 1..(l + 1) |-> G(p)]
    BY <2>2
  <2> HIDE DEF G
  <2>4. g[a + 1] = G(a + 1)
    BY <2>1, <2>3
  <2> QED  BY <2>4 DEF G
<1> DEFINE T == {k \in Nat : k <= l => \A b \in (l - k)..l : g[b + 1] \in Seen}
<1>3. 0 \in T
  <2>1. \A b \in (l - 0)..l : b = l
    BY <1>0
  <2>2. l \in 0..Len(s) /\ \A b \in (l + 1)..Len(s) : g[b + 1] \in Seen
    BY <1>0
  <2>3. StepsTo(s, g, l, ReadStep(s, g, l + 1))
    BY <2>2, StepIs
  <2>4. g[l + 1] \in Seen
    BY <1>2, <2>2, <2>3 DEF StepsTo
  <2> QED  BY <2>1, <2>4
<1>4. ASSUME NEW k \in T  PROVE k + 1 \in T
  <2> SUFFICES ASSUME k + 1 <= l, NEW b \in (l - (k + 1))..l  PROVE g[b + 1] \in Seen
    OBVIOUS
  <2>1. k \in Nat /\ k <= l /\ b \in 0..l /\ \A d \in (b + 1)..l : d \in (l - k)..l
    BY <1>0
  <2>2. \A d \in (b + 1)..Len(s) : g[d + 1] \in Seen
    BY <2>1
  <2> HIDE DEF T
  <2>3. StepsTo(s, g, b, ReadStep(s, g, b + 1))
    BY <2>1, <2>2, StepIs
  <2> QED  BY <1>2, <2>1, <2>3 DEF StepsTo
<1> HIDE DEF T
<1>5. \A k \in Nat : k \in T
  <2>1. T \in SUBSET Nat
    BY DEF T
  <2> QED  BY <1>3, <1>4, <2>1, AllNaturals
<1>6. \A b \in 0..l : g[b + 1] \in Seen
  <2>1. l \in T /\ l - l = 0
    BY <1>0, <1>5
  <2> QED  BY <1>0, <2>1 DEF T
<1>7. ASSUME NEW a \in 0..l  PROVE Reads(s, a)
  <2>1. \A d \in (a + 1)..l : d \in 0..l
    OBVIOUS
  <2>2. \A d \in (a + 1)..Len(s) : g[d + 1] \in Seen
    BY <1>6, <2>1
  <2>3. StepsTo(s, g, a, g[a + 1])
    BY <1>2, <2>2, StepIs
  <2>4. \A b : g[b + 1] = From(s, b)
    BY DEF From, g
  <2> QED  BY <2>3, <2>4, Zenon DEF StepsTo, Reads
<1> QED
  BY <1>7

LEMMA TakeIs ==
  ASSUME NEW s \in Seq(Byte), NEW k \in 0..Len(s)
  PROVE  /\ Take(s, k) \in Seq(Byte) /\ Len(Take(s, k)) = k
         /\ \A i \in 1..k : Take(s, k)[i] = s[i]
BY DEF Take

\* Only the end of a prefix can hide a frame.
LEMMA FramesOfPrefix ==
  ASSUME NEW s \in Seq(Byte), NEW e \in 0..Len(s), NEW a \in Nat, NEW n
  PROVE  /\ FrameAt(Take(s, e), a, n) <=> FrameAt(s, a, n) /\ a + n <= e
         /\ n \in Nat /\ a + n <= e => Run(Take(s, e), a, n) = Run(s, a, n)
<1> DEFINE t == Take(s, e)
<1>1. t \in Seq(Byte) /\ Len(t) = e /\ \A i \in 1..e : t[i] = s[i]
  BY TakeIs
<1> HIDE DEF t
<1>2. ASSUME n \in Nat, a + n <= e  PROVE Run(t, a, n) = Run(s, a, n)
  <2>1. /\ Run(t, a, n) \in Seq(Byte) /\ Len(Run(t, a, n)) = n
        /\ \A i \in 1..n : Run(t, a, n)[i] = t[a + i]
    BY <1>1, <1>2, RunIs
  <2>2. /\ Run(s, a, n) \in Seq(Byte) /\ Len(Run(s, a, n)) = n
        /\ \A i \in 1..n : Run(s, a, n)[i] = s[a + i]
    <3>1. a + n <= Len(s)
      BY <1>2
    <3> QED  BY <1>2, <3>1, RunIs
  <2>3. \A i \in 1..n : a + i \in 1..e
    BY <1>2
  <2>4. \A i \in 1..n : Run(t, a, n)[i] = Run(s, a, n)[i]
    BY <1>1, <2>1, <2>2, <2>3
  <2> QED  BY <2>1, <2>2, <2>4, SeqEqual, Zenon
<1>3. ASSUME FrameAt(t, a, n)  PROVE FrameAt(s, a, n) /\ a + n <= e
  <2>1. n \in Nat /\ a + n <= e
    BY <1>1, <1>3, FrameAtIs
  <2>2. a + n <= Len(s) /\ Run(t, a, n) = Run(s, a, n)
    BY <1>2, <2>1
  <2> QED  BY <1>3, <2>1, <2>2, Zenon DEF FrameAt
<1>4. ASSUME FrameAt(s, a, n), a + n <= e  PROVE FrameAt(t, a, n)
  <2>1. n \in Nat
    BY <1>4, FrameAtIs
  <2>2. a + n <= Len(t) /\ Run(t, a, n) = Run(s, a, n)
    BY <1>1, <1>2, <1>4, <2>1
  <2> QED  BY <1>4, <2>2, Zenon DEF FrameAt
<1> QED
  BY <1>2, <1>3, <1>4 DEF t

\* g and z are the frames and the noise of the first c bytes, however many more
\* of s are read after them.
Told(s, c, g, z) ==
  /\ g \in Seq(FrameType) /\ z \in Seq(Byte)
  /\ \A e \in c..Len(s) :
       /\ From(Take(s, e), 0).frames = g \o From(Take(s, e), c).frames
       /\ From(Take(s, e), 0).noise = z \o From(Take(s, e), c).noise

LEMMA PrefixReads ==
  ASSUME NEW s \in Seq(Byte), NEW e \in 0..Len(s), NEW c \in 0..e
  PROVE  Reads(Take(s, e), c) /\ Len(Take(s, e)) = e
<1>1. Take(s, e) \in Seq(Byte) /\ Len(Take(s, e)) = e
  BY TakeIs
<1> QED
  BY <1>1, ScanIs

LEMMA SeenIs ==
  ASSUME NEW r \in Seen
  PROVE  r.frames \in Seq(FrameType) /\ r.noise \in Seq(Byte)
BY DEF Seen

LEMMA ToldNothing ==
  ASSUME NEW s \in Seq(Byte)
  PROVE  Told(s, 0, <<>>, <<>>)
<1>1. ASSUME NEW e \in 0..Len(s)
      PROVE  /\ From(Take(s, e), 0).frames = <<>> \o From(Take(s, e), 0).frames
             /\ From(Take(s, e), 0).noise = <<>> \o From(Take(s, e), 0).noise
  <2>1. From(Take(s, e), 0) \in Seen
    <3>1. 0 \in 0..e
      OBVIOUS
    <3> QED  BY <3>1, PrefixReads, Zenon DEF Reads
  <2> QED  BY <2>1, SeenIs
<1> QED
  BY <1>1 DEF Told

LEMMA ToldReading ==
  ASSUME NEW s \in Seq(Byte), NEW c \in 0..Len(s), NEW g, NEW z, Told(s, c, g, z)
  PROVE  Reading(Take(s, c)).frames = g /\ Reading(Take(s, c)).noise = z
<1>1. c \in c..Len(s) /\ c \in 0..c
  OBVIOUS
<1>2. From(Take(s, c), c).frames = <<>> /\ From(Take(s, c), c).noise = <<>>
  BY <1>1, PrefixReads DEF Reads
<1>3. /\ From(Take(s, c), 0).frames = g \o <<>> /\ From(Take(s, c), 0).noise = z \o <<>>
      /\ g \in Seq(FrameType) /\ z \in Seq(Byte)
  BY <1>1, <1>2 DEF Told
<1>4. g \o <<>> = g /\ z \o <<>> = z
  BY <1>3
<1> QED
  BY <1>3, <1>4, ReadingIs, Zenon

Glued(u, v, z) == (u \o v) \o z = u \o (v \o z)

LEMMA Glue ==
  ASSUME NEW T, NEW u \in Seq(T), NEW v \in Seq(T), NEW z \in Seq(T)
  PROVE  Glued(u, v, z)
BY ConcatAssociative DEF Glued

Regroups(u, x, v) ==
  /\ u \o (<<x>> \o v) = Append(u, x) \o v
  /\ u \o Append(v, x) = Append(u \o v, x)

LEMMA Regroup ==
  ASSUME NEW T, NEW u \in Seq(T), NEW x \in T, NEW v \in Seq(T)
  PROVE  Regroups(u, x, v)
<1> DEFINE y == <<x>>
<1>1. Append(u, x) \in Seq(T) /\ y \in Seq(T) /\ u \o v \in Seq(T)
  OBVIOUS
<1>2. Append(u, x) = u \o y /\ Append(v, x) = v \o y
  BY AppendIsConcat
<1>3. Append(u \o v, x) = (u \o v) \o y
  BY <1>1, AppendIsConcat
<1> HIDE DEF y
<1>4. u \o (y \o v) = (u \o y) \o v
  <2>1. Glued(u, y, v)
    BY <1>1, Glue, Zenon
  <2> QED  BY <2>1, Zenon DEF Glued
<1>5. (u \o v) \o y = u \o (v \o y)
  <2>1. Glued(u, v, y)
    BY <1>1, Glue, Zenon
  <2> QED  BY <2>1, Zenon DEF Glued
<1>6. u \o (y \o v) = Append(u, x) \o v
  BY <1>2, <1>4, Zenon
<1>7. u \o Append(v, x) = Append(u \o v, x)
  BY <1>2, <1>3, <1>5, Zenon
<1> QED
  BY <1>6, <1>7, Zenon DEF Regroups, y

LEMMA RegroupBytes ==
  ASSUME NEW u \in Seq(Byte), NEW x \in Byte, NEW v \in Seq(Byte)
  PROVE  /\ u \o (<<x>> \o v) = Append(u, x) \o v
         /\ u \o Append(v, x) = Append(u \o v, x)
<1>1. Regroups(u, x, v)
  BY Regroup, Zenon
<1> QED
  BY <1>1 DEF Regroups

LEMMA RegroupFrames ==
  ASSUME NEW u \in Seq(FrameType), NEW x \in FrameType, NEW v \in Seq(FrameType)
  PROVE  u \o (<<x>> \o v) = Append(u, x) \o v
<1>1. Regroups(u, x, v)
  BY Regroup, Zenon
<1> QED
  BY <1>1 DEF Regroups

LEMMA ToldNoise ==
  ASSUME NEW s \in Seq(Byte), NEW c \in Nat, c < Len(s), NEW g, NEW z, Told(s, c, g, z),
         \A n : ~FrameAt(s, c, n)
  PROVE  Told(s, c + 1, g, Append(z, s[c + 1]))
<1>1. s[c + 1] \in Byte /\ g \in Seq(FrameType) /\ z \in Seq(Byte)
  <2>1. c + 1 \in 1..Len(s)
    OBVIOUS
  <2> QED  BY <2>1 DEF Told
<1>2. ASSUME NEW e \in (c + 1)..Len(s)
      PROVE  /\ From(Take(s, e), 0).frames = g \o From(Take(s, e), c + 1).frames
             /\ From(Take(s, e), 0).noise = Append(z, s[c + 1]) \o From(Take(s, e), c + 1).noise
  <2> DEFINE t == Take(s, e)
  <2>1. e \in 0..Len(s) /\ e \in c..Len(s) /\ c \in 0..e /\ c + 1 \in 0..e /\ c < e /\ c + 1 \in 1..e
    OBVIOUS
  <2>2. t \in Seq(Byte) /\ Len(t) = e /\ t[c + 1] = s[c + 1]
    BY <2>1, TakeIs
  <2>3. \A n : ~FrameAt(t, c, n)
    BY <2>1, FramesOfPrefix
  <2>4. Reads(t, c) /\ Reads(t, c + 1)
    BY <2>1, PrefixReads
  <2> HIDE DEF t
  <2>5. /\ From(t, c).frames = From(t, c + 1).frames
        /\ From(t, c).noise = <<s[c + 1]>> \o From(t, c + 1).noise
        /\ From(t, c + 1).noise \in Seq(Byte)
    <3>1. From(t, c + 1) \in Seen
      BY <2>4 DEF Reads
    <3>2. c < Len(t)
      BY <2>1, <2>2
    <3> QED  BY <2>2, <2>3, <2>4, <3>1, <3>2, SeenIs, Zenon DEF Reads
  <2>6. From(t, 0).frames = g \o From(t, c).frames /\ From(t, 0).noise = z \o From(t, c).noise
    BY <2>1 DEF Told, t
  <2>7. z \o (<<s[c + 1]>> \o From(t, c + 1).noise) = Append(z, s[c + 1]) \o From(t, c + 1).noise
    BY <1>1, <2>5, RegroupBytes
  <2> QED  BY <2>5, <2>6, <2>7, Zenon DEF t
<1>3. Append(z, s[c + 1]) \in Seq(Byte)
  BY <1>1
<1> QED
  BY <1>1, <1>2, <1>3, Zenon DEF Told

LEMMA ToldFrame ==
  ASSUME NEW s \in Seq(Byte), NEW c \in Nat, NEW g, NEW z, Told(s, c, g, z),
         NEW n, FrameAt(s, c, n)
  PROVE  Told(s, c + n, Append(g, Decode(Run(s, c, n)).frame), z)
<1> DEFINE f == Decode(Run(s, c, n)).frame
<1>1. n \in Nat /\ n >= 8 /\ c + n <= Len(s)
  BY FrameAtIs
<1>2. f \in FrameType /\ g \in Seq(FrameType) /\ z \in Seq(Byte)
  BY FramedRun DEF Told
<1>3. ASSUME NEW e \in (c + n)..Len(s)
      PROVE  /\ From(Take(s, e), 0).frames = Append(g, f) \o From(Take(s, e), c + n).frames
             /\ From(Take(s, e), 0).noise = z \o From(Take(s, e), c + n).noise
  <2> DEFINE t == Take(s, e)
  <2>1. e \in 0..Len(s) /\ e \in c..Len(s) /\ c \in 0..e /\ c + n \in 0..e /\ c < e /\ c + n <= e
    BY <1>1
  <2>2. Len(t) = e
    BY <2>1, TakeIs
  <2>3. FrameAt(t, c, n) /\ Run(t, c, n) = Run(s, c, n)
    BY <1>1, <2>1, FramesOfPrefix
  <2>4. Reads(t, c) /\ Reads(t, c + n)
    BY <2>1, PrefixReads
  <2> HIDE DEF t
  <2>5. /\ From(t, c).frames = <<f>> \o From(t, c + n).frames
        /\ From(t, c).noise = From(t, c + n).noise
        /\ From(t, c + n).frames \in Seq(FrameType)
    <3>1. From(t, c + n) \in Seen
      BY <2>4 DEF Reads
    <3>2. c < Len(t)
      BY <2>1, <2>2
    <3>3. /\ From(t, c).frames = <<Decode(Run(t, c, n)).frame>> \o From(t, c + n).frames
          /\ From(t, c).noise = From(t, c + n).noise
      BY <2>3, <2>4, <3>2, Zenon DEF Reads
    <3> QED  BY <2>3, <3>1, <3>3, SeenIs, Zenon
  <2>6. From(t, 0).frames = g \o From(t, c).frames /\ From(t, 0).noise = z \o From(t, c).noise
    BY <2>1 DEF Told, t
  <2> HIDE DEF f
  <2>7. g \o (<<f>> \o From(t, c + n).frames) = Append(g, f) \o From(t, c + n).frames
    BY <1>2, <2>5, RegroupFrames
  <2> QED  BY <2>5, <2>6, <2>7, Zenon DEF t
<1> HIDE DEF f
<1>4. Append(g, f) \in Seq(FrameType)
  BY <1>2
<1>5. Told(s, c + n, Append(g, f), z)
  BY <1>2, <1>3, <1>4, Zenon DEF Told
<1> QED
  BY <1>5 DEF f

LEMMA ToldRun ==
  ASSUME NEW s \in Seq(Byte), NEW c \in Nat, NEW g, NEW z, Told(s, c, g, z),
         NEW k \in Nat, c + k <= Len(s),
         \A j \in 0..(k - 1) : \A n : ~FrameAt(s, c + j, n)
  PROVE  Told(s, c + k, g, z \o Run(s, c, k))
<1>0. z \in Seq(Byte) /\ Len(s) \in Nat
  BY DEF Told
<1> DEFINE T == {j \in Nat : j <= k => Told(s, c + j, g, z \o Run(s, c, j))}
<1>1. 0 \in T
  <2>1. Run(s, c, 0) = <<>>
    <3>1. c + 0 <= Len(s)
      BY <1>0
    <3>2. Run(s, c, 0) \in Seq(Byte) /\ Len(Run(s, c, 0)) = 0
      BY <3>1, RunIs
    <3> QED  BY <3>2
  <2>2. z \o <<>> = z /\ c + 0 = c
    BY <1>0
  <2> QED  BY <2>1, <2>2
<1>2. ASSUME NEW j \in T  PROVE j + 1 \in T
  <2> SUFFICES ASSUME j + 1 <= k  PROVE Told(s, c + (j + 1), g, z \o Run(s, c, j + 1))
    OBVIOUS
  <2>1. /\ j \in Nat /\ j <= k /\ j \in 0..(k - 1) /\ c + j \in Nat /\ c + j < Len(s)
        /\ (c + j) + 1 = c + (j + 1) /\ c + j <= Len(s) /\ c + (j + 1) <= Len(s) /\ j + 1 \in Nat
    BY <1>0
  <2>2. Told(s, c + j, g, z \o Run(s, c, j))
    BY <2>1
  <2>3. Told(s, (c + j) + 1, g, Append(z \o Run(s, c, j), s[(c + j) + 1]))
    BY <2>1, <2>2, ToldNoise
  <2> DEFINE u == Run(s, c, j)   v == Run(s, c, j + 1)   x == s[(c + j) + 1]
  <2>4. u \in Seq(Byte) /\ Len(u) = j /\ \A i \in 1..j : u[i] = s[c + i]
    BY <2>1, RunIs
  <2>5. v \in Seq(Byte) /\ Len(v) = j + 1 /\ \A i \in 1..(j + 1) : v[i] = s[c + i]
    BY <2>1, RunIs
  <2>6. x \in Byte /\ x = s[c + (j + 1)]
    <3>1. (c + j) + 1 \in 1..Len(s)
      BY <1>0, <2>1
    <3> QED  BY <2>1, <3>1
  <2> HIDE DEF u, v, x
  <2>7. v = Append(u, x)
    <3>1. Append(u, x) \in Seq(Byte) /\ Len(Append(u, x)) = j + 1
      BY <2>4, <2>6
    <3>2. \A i \in 1..(j + 1) : Append(u, x)[i] = v[i]
      <4> TAKE i \in 1..(j + 1)
      <4>1. CASE i = j + 1
        BY <2>4, <2>5, <2>6, <4>1
      <4>2. CASE i # j + 1
        <5>1. i \in 1..j
          BY <2>1, <4>2
        <5>2. Append(u, x)[i] = u[i]
          BY <2>4, <5>1
        <5> QED  BY <2>4, <2>5, <5>1, <5>2
      <4> QED  BY <4>1, <4>2
    <3> QED  BY <2>5, <3>1, <3>2, SeqEqual, Zenon
  <2>8. Append(z \o u, x) = z \o v
    BY <1>0, <2>4, <2>6, <2>7, RegroupBytes
  <2> QED  BY <2>1, <2>3, <2>8 DEF u, v, x
<1> HIDE DEF T
<1>3. \A j \in Nat : j \in T
  <2>1. T \in SUBSET Nat
    BY DEF T
  <2> QED  BY <1>1, <1>2, <2>1, AllNaturals
<1>4. k \in T
  BY <1>3
<1> QED
  BY <1>4 DEF T

\* b is the unread end of the first f bytes of the line.
Unread(b, f) ==
  /\ b \in Seq(Byte) /\ Len(b) <= f
  /\ \A i \in 1..Len(b) : b[i] = stream[(f - Len(b)) + i]

\* Nothing can be made of b before more bytes arrive.
Settled(b) == ~Droppable(b) /\ ~Complete(b)

ReceiverInv ==
  /\ stream \in Seq(Byte) /\ fed \in 0..Len(stream)
  /\ Unread(buf, fed)
  /\ ret = NeedMore => Settled(buf)
  /\ reported \in Seq(Byte) /\ discarded \in Seq(Byte)
  /\ Told(stream, fed - Len(buf), got, reported \o discarded)

-----------------------------------------------------------------------------
(* Dropping and taking.                                                    *)

LEMMA DropIs ==
  ASSUME NEW s \in Seq(Byte), NEW k \in 0..Len(s)
  PROVE  /\ Drop(s, k) \in Seq(Byte) /\ Len(Drop(s, k)) = Len(s) - k
         /\ \A i \in 1..(Len(s) - k) : Drop(s, k)[i] = s[k + i]
BY DEF Drop

LEMMA SmallerOfTwo ==
  ASSUME NEW l \in Nat
  PROVE  Min({2, l}) \in 0..2 /\ Min({2, l}) <= l
<1> DEFINE m == IF l < 2 THEN l ELSE 2
<1>1. m \in {2, l} /\ \A y \in {2, l} : m <= y
  OBVIOUS
<1>2. \A x \in {2, l} : (\A y \in {2, l} : x <= y) => x = m
  OBVIOUS
<1>3. m \in 0..2 /\ m <= l
  OBVIOUS
<1> HIDE DEF m
<1>4. Min({2, l}) = m
  BY <1>1, <1>2 DEF Min
<1> QED
  BY <1>3, <1>4

LEMMA DroppedUnread ==
  ASSUME NEW b, NEW f \in Nat, Unread(b, f), NEW k \in 0..Len(b)
  PROVE  Unread(Drop(b, k), f)
<1>1. b \in Seq(Byte) /\ Len(b) \in Nat /\ Len(b) <= f
  BY DEF Unread
<1>2. /\ Drop(b, k) \in Seq(Byte) /\ Len(Drop(b, k)) = Len(b) - k
      /\ \A i \in 1..(Len(b) - k) : Drop(b, k)[i] = b[k + i]
  BY <1>1, DropIs
<1>3. ASSUME NEW i \in 1..(Len(b) - k)
      PROVE  Drop(b, k)[i] = stream[(f - (Len(b) - k)) + i]
  <2>1. k + i \in 1..Len(b) /\ (f - (Len(b) - k)) + i = (f - Len(b)) + (k + i)
    BY <1>1
  <2>2. b[k + i] = stream[(f - Len(b)) + (k + i)]
    BY <2>1 DEF Unread
  <2> QED  BY <1>2, <2>1, <2>2
<1> QED
  BY <1>1, <1>2, <1>3 DEF Unread

\* hunt always stops: at the first byte that may not be dropped, or at the end.
LEMMA HuntStops ==
  ASSUME NEW b \in Seq(Byte)
  PROVE  /\ HuntOffset(b) \in 0..Len(b) /\ ~Droppable(Drop(b, HuntOffset(b)))
         /\ \A j \in 0..(HuntOffset(b) - 1) : Droppable(Drop(b, j))
<1> DEFINE T == {k \in 0..Len(b) : ~Droppable(Drop(b, k))}
<1>1. T \subseteq Nat /\ Len(b) \in T
  <2>1. Drop(b, Len(b)) = <<>>
    BY DropIs
  <2> QED  BY <2>1 DEF Droppable
<1>2. PICK m \in T : \A n \in T : m <= n
  <2> HIDE DEF T
  <2> QED  BY <1>1, LeastOf, Zenon
<1>3. Min(T) \in T /\ \A n \in T : Min(T) <= n
  <2> HIDE DEF T
  <2> QED  BY <1>2 DEF Min
<1>4. HuntOffset(b) = Min(T)
  BY DEF HuntOffset
<1>5. \A j \in 0..(HuntOffset(b) - 1) : j \in 0..Len(b) /\ ~(HuntOffset(b) <= j)
  BY <1>3, <1>4
<1> QED
  BY <1>3, <1>4, <1>5

\* A header that is not dropped has a length in the receiver's range.
LEMMA KeptHeader ==
  ASSUME NEW b \in Seq(Byte), ~Droppable(b), Len(b) >= 5
  PROVE  FrameLen(b) \in FrameOverhead..(MaxLenField + 2)
<1>1. Plausible(b)
  BY DEF Droppable
<1>2. FrameLen(b) = Declared(b) + 2 /\ Declared(b) \in MinLenField..MaxLenField
  BY <1>1 DEF FrameLen, Plausible
<1> DEFINE d == Declared(b)   f == FrameLen(b)
<1>3. f = d + 2 /\ d \in 6..MaxLenField
  BY <1>2 DEF MinLenField
<1> HIDE DEF d, f
<1>4. f \in 8..(MaxLenField + 2)
  BY <1>3, LimitIsInt
<1> QED
  BY <1>4 DEF f, FrameOverhead

-----------------------------------------------------------------------------
(* next_frame, case by case: what is left in the buffer.                   *)

LEMMA NextFrameLeaves ==
  ASSUME buf \in Seq(Byte), NextFrame
  PROVE  \/ ret' = NeedMore /\ Settled(buf') /\ \E k \in 0..Len(buf) : buf' = Drop(buf, k)
         \/ ret' # NeedMore /\ \E k \in 1..Len(buf) : buf' = Drop(buf, k)
<1> DEFINE k == HuntOffset(buf)   rest == Drop(buf, k)   n == FrameLen(rest)
<1>1. k \in 0..Len(buf) /\ ~Droppable(rest)
  BY HuntStops
<1>2. rest \in Seq(Byte) /\ Len(rest) = Len(buf) - k
  BY <1>1, DropIs
<1>3. Complete(rest) => n \in 1..Len(rest) /\ Len(rest) >= 5
  BY <1>1, <1>2, KeptHeader DEF Complete, FrameOverhead
<1>4. \/ ~Complete(rest) /\ buf' = rest /\ ret' = NeedMore
      \/ Complete(rest) /\ buf' = Drop(rest, n) /\ ret' = SomeOk
      \/ /\ Complete(rest) /\ buf' = PutBack(rest, n)
         /\ \E error : ret' = SomeErr(error)
  BY DEF NextFrame
<1>5. SomeOk # NeedMore /\ \A error : SomeErr(error) # NeedMore
  BY DEF SomeOk, NeedMore, SomeErr
<1>6. \A j \in 1..Len(rest) : Drop(rest, j) = Drop(buf, k + j) /\ k + j \in 1..Len(buf)
  <2> TAKE j \in 1..Len(rest)
  <2>1. k + j \in 0..Len(buf) /\ k + j \in 1..Len(buf) /\ j \in 0..Len(rest)
    BY <1>1, <1>2
  <2>2. /\ Drop(rest, j) \in Seq(Byte) /\ Len(Drop(rest, j)) = Len(rest) - j
        /\ \A i \in 1..(Len(rest) - j) : Drop(rest, j)[i] = rest[j + i]
    BY <1>2, <2>1, DropIs
  <2>3. /\ Drop(buf, k + j) \in Seq(Byte) /\ Len(Drop(buf, k + j)) = Len(buf) - (k + j)
        /\ \A i \in 1..(Len(buf) - (k + j)) : Drop(buf, k + j)[i] = buf[(k + j) + i]
    BY <2>1, DropIs
  <2>4. \A i \in 1..(Len(buf) - k) : rest[i] = buf[k + i]
    BY <1>1, DropIs
  <2>5. Len(rest) - j = Len(buf) - (k + j)
    BY <1>1, <1>2
  <2>6. ASSUME NEW i \in 1..(Len(rest) - j)
        PROVE  Drop(rest, j)[i] = Drop(buf, k + j)[i]
    <3>1. j + i \in 1..(Len(buf) - k) /\ (k + j) + i = k + (j + i)
      BY <1>1, <1>2
    <3> HIDE DEF k, rest
    <3> QED  BY <2>2, <2>3, <2>4, <2>5, <3>1
  <2> HIDE DEF k, rest
  <2> QED  BY <2>1, <2>2, <2>3, <2>5, <2>6, SeqEqual, Zenon
<1> HIDE DEF k, rest, n
<1>7. CASE ~Complete(rest) /\ buf' = rest /\ ret' = NeedMore
  BY <1>1, <1>7 DEF Settled, rest
<1>8. CASE Complete(rest) /\ buf' = Drop(rest, n) /\ ret' = SomeOk
  BY <1>3, <1>5, <1>6, <1>8
<1>9. CASE /\ Complete(rest) /\ buf' = PutBack(rest, n)
           /\ \E error : ret' = SomeErr(error)
  <2>1. 1 \in 1..Len(rest) /\ buf' = Drop(rest, 1) /\ ret' # NeedMore
    BY <1>2, <1>3, <1>5, <1>9 DEF PutBack
  <2> QED  BY <1>6, <2>1
<1> QED
  BY <1>4, <1>7, <1>8, <1>9

LEMMA FeedAppends ==
  ASSUME ReceiverInv, Feed
  PROVE  fed' \in 0..Len(stream) /\ Unread(buf', fed')
<1>1. PICK n \in 1..(Len(stream) - fed) :
        buf' = buf \o SubSeq(stream, fed + 1, fed + n) /\ fed' = fed + n
  BY DEF Feed
<1>2. stream \in Seq(Byte) /\ fed \in Nat /\ fed + n \in 0..Len(stream)
  BY <1>1 DEF ReceiverInv
<1> DEFINE more == SubSeq(stream, fed + 1, fed + n)
<1>3. more \in Seq(Byte) /\ Len(more) = n /\ \A i \in 1..n : more[i] = stream[fed + i]
  BY <1>2
<1>4. /\ buf \in Seq(Byte) /\ Len(buf) \in Nat /\ Len(buf) <= fed
      /\ \A i \in 1..Len(buf) : buf[i] = stream[(fed - Len(buf)) + i]
  BY DEF ReceiverInv, Unread
<1> HIDE DEF more
<1>5. buf' = buf \o more
  BY <1>1 DEF more
<1>6. /\ buf' \in Seq(Byte) /\ Len(buf') = Len(buf) + n
      /\ \A i \in 1..(Len(buf) + n) :
           buf'[i] = IF i <= Len(buf) THEN buf[i] ELSE more[i - Len(buf)]
  <2>1. /\ buf \o more \in Seq(Byte) /\ Len(buf \o more) = Len(buf) + Len(more)
        /\ \A i \in 1..(Len(buf) + Len(more)) :
             (buf \o more)[i] = IF i <= Len(buf) THEN buf[i] ELSE more[i - Len(buf)]
    BY <1>3, <1>4, ConcatProperties, Zenon
  <2>2. Len(more) = n
    BY <1>3
  <2> QED  BY <1>5, <2>1, <2>2, Zenon
<1>7. ASSUME NEW i \in 1..(Len(buf) + n)
      PROVE  buf'[i] = stream[((fed + n) - (Len(buf) + n)) + i]
  <2>1. ((fed + n) - (Len(buf) + n)) + i = (fed - Len(buf)) + i
    BY <1>2, <1>4
  <2>2. CASE i <= Len(buf)
    BY <1>4, <1>6, <2>1, <2>2
  <2>3. CASE ~(i <= Len(buf))
    <3>1. i - Len(buf) \in 1..n /\ fed + (i - Len(buf)) = (fed - Len(buf)) + i
      BY <1>2, <1>4, <2>3
    <3>2. more[i - Len(buf)] = stream[fed + (i - Len(buf))]
      BY <1>3, <3>1
    <3> QED  BY <1>6, <2>1, <2>3, <3>1, <3>2
  <2> QED  BY <2>2, <2>3
<1>8. /\ fed' = fed + n /\ fed' \in 0..Len(stream) /\ Len(buf') = Len(buf) + n
      /\ Len(buf') <= fed' /\ fed' - Len(buf') = (fed + n) - (Len(buf) + n)
  BY <1>1, <1>2, <1>4, <1>6
<1>9. \A i \in 1..Len(buf') : buf'[i] = stream[(fed' - Len(buf')) + i]
  BY <1>7, <1>8, Zenon
<1> QED
  BY <1>6, <1>8, <1>9, Zenon DEF Unread

-----------------------------------------------------------------------------
(* next_frame, case by case: what it tells of the bytes it uses up.        *)

LEMMA DroppedIsNoFrame ==
  ASSUME NEW b, NEW f \in Nat, Unread(b, f), f <= Len(stream), stream \in Seq(Byte), Droppable(b)
  PROVE  \A n : ~FrameAt(stream, f - Len(b), n)
<1> SUFFICES ASSUME NEW n, FrameAt(stream, f - Len(b), n)  PROVE FALSE
  OBVIOUS
<1> DEFINE a == f - Len(b)
<1>1. /\ b \in Seq(Byte) /\ Len(b) \in Nat /\ a \in Nat /\ b # <<>> /\ Len(b) >= 1
      /\ \A i \in 1..Len(b) : b[i] = stream[a + i]
  <2>1. /\ b \in Seq(Byte) /\ Len(b) \in Nat /\ Len(b) <= f /\ b # <<>>
        /\ \A i \in 1..Len(b) : b[i] = stream[(f - Len(b)) + i]
    BY DEF Unread, Droppable
  <2> QED  BY <2>1
<1> HIDE DEF a
<1>2. /\ n \in 8..(MaxLenField + 2) /\ stream[a + 1] = Magic[1] /\ stream[a + 2] = Magic[2]
      /\ BigEndian(stream[a + 4], stream[a + 5]) = n - 2
  BY <1>1, FrameAtIs DEF a
<1>3. b[1] = Magic[1]
  BY <1>1, <1>2
<1>4. Len(b) >= 2 => b[2] = Magic[2]
  BY <1>1, <1>2
<1>5. Len(b) >= 5 => Plausible(b)
  <2> SUFFICES ASSUME Len(b) >= 5  PROVE Plausible(b)
    OBVIOUS
  <2>1. b[4] = stream[a + 4] /\ b[5] = stream[a + 5]
    BY <1>1
  <2>2. Declared(b) = n - 2
    BY <1>2, <2>1, Zenon DEF Declared
  <2>3. n - 2 \in 6..MaxLenField
    BY <1>2, LimitIsInt
  <2> QED  BY <2>2, <2>3, Zenon DEF Plausible, MinLenField
<1> QED
  BY <1>3, <1>4, <1>5, Zenon DEF Droppable

\* The first k unread bytes hold no frame's beginning: they are noise.
LEMMA ToldDropped ==
  ASSUME ReceiverInv, NEW k \in 0..Len(buf), Told(stream, fed - Len(buf), got, reported \o discarded),
         \A j \in 0..(k - 1) : \A n : ~FrameAt(stream, (fed - Len(buf)) + j, n)
  PROVE  Told(stream, fed - Len(Drop(buf, k)), got, reported \o (discarded \o Take(buf, k)))
<1> DEFINE c == fed - Len(buf)
<1>1. /\ stream \in Seq(Byte) /\ fed \in 0..Len(stream) /\ buf \in Seq(Byte) /\ Len(buf) \in Nat
      /\ c \in Nat /\ c + k <= Len(stream) /\ k \in Nat
      /\ \A i \in 1..Len(buf) : buf[i] = stream[c + i]
      /\ reported \in Seq(Byte) /\ discarded \in Seq(Byte)
  <2>1. /\ stream \in Seq(Byte) /\ fed \in 0..Len(stream) /\ buf \in Seq(Byte) /\ Len(buf) \in Nat
        /\ Len(buf) <= fed /\ reported \in Seq(Byte) /\ discarded \in Seq(Byte)
        /\ \A i \in 1..Len(buf) : buf[i] = stream[(fed - Len(buf)) + i]
    BY DEF ReceiverInv, Unread
  <2>2. c \in Nat /\ c + k <= Len(stream) /\ k \in Nat
    BY <2>1
  <2> QED  BY <2>1, <2>2, Zenon
<1>2. Len(Drop(buf, k)) = Len(buf) - k /\ fed - (Len(buf) - k) = c + k
  <2>1. Len(Drop(buf, k)) = Len(buf) - k
    BY <1>1, DropIs
  <2> QED  BY <1>1, <2>1
<1> HIDE DEF c
<1>3. Told(stream, c + k, got, (reported \o discarded) \o Run(stream, c, k))
  BY <1>1, ToldRun DEF c
<1>4. Run(stream, c, k) = Take(buf, k)
  <2>1. /\ Run(stream, c, k) \in Seq(Byte) /\ Len(Run(stream, c, k)) = k
        /\ \A i \in 1..k : Run(stream, c, k)[i] = stream[c + i]
    BY <1>1, RunIs
  <2>2. /\ Take(buf, k) \in Seq(Byte) /\ Len(Take(buf, k)) = k
        /\ \A i \in 1..k : Take(buf, k)[i] = buf[i]
    BY <1>1, TakeIs
  <2>3. \A i \in 1..k : i \in 1..Len(buf)
    BY <1>1
  <2>4. \A i \in 1..k : Run(stream, c, k)[i] = Take(buf, k)[i]
    BY <1>1, <2>1, <2>2, <2>3, Zenon
  <2> QED  BY <2>1, <2>2, <2>4, SeqEqual, Zenon
<1>5. (reported \o discarded) \o Take(buf, k) = reported \o (discarded \o Take(buf, k))
  <2> DEFINE t == Take(buf, k)
  <2>1. t \in Seq(Byte) /\ reported \in Seq(Byte) /\ discarded \in Seq(Byte)
    BY <1>1, TakeIs
  <2>2. Glued(reported, discarded, t)
    BY <2>1, Glue, Zenon
  <2> QED  BY <2>2, Zenon DEF Glued
<1> QED
  BY <1>2, <1>3, <1>4, <1>5, Zenon

\* next_frame drops the first k bytes and then takes nothing, one byte or a frame.
Passes(k) ==
  LET c == fed - Len(buf)
  IN  /\ \A j \in 0..(k - 1) : Droppable(Drop(buf, j))
      /\ \/ fed - Len(buf') = c + k
         \/ Complete(Drop(buf, k)) /\ fed - Len(buf') = (c + k) + 1
         \/ /\ Complete(Drop(buf, k))
            /\ \E n : FrameAt(stream, c + k, n) /\ fed - Len(buf') = (c + k) + n

LEMMA NextFrameReads ==
  ASSUME ReceiverInv, NextFrame
  PROVE  /\ Told(stream, fed - Len(buf'), got', reported \o discarded')
         /\ discarded' \in Seq(Byte)
         /\ \E k \in 0..Len(buf) : Passes(k)
<1> DEFINE c == fed - Len(buf)   k == HuntOffset(buf)   rest == Drop(buf, k)   n == FrameLen(rest)
           d == Decode(Take(rest, n))
<1>0. Told(stream, fed - Len(buf), got, reported \o discarded)
  BY DEF ReceiverInv
<1>1. /\ stream \in Seq(Byte) /\ fed \in 0..Len(stream) /\ fed \in Nat /\ buf \in Seq(Byte)
      /\ Len(buf) \in Nat /\ Len(buf) <= fed /\ c \in Nat /\ Unread(buf, fed)
      /\ discarded \in Seq(Byte) /\ fed <= Len(stream)
  <2>1. /\ stream \in Seq(Byte) /\ fed \in 0..Len(stream) /\ buf \in Seq(Byte) /\ Len(buf) \in Nat
        /\ Len(buf) <= fed /\ Unread(buf, fed) /\ discarded \in Seq(Byte)
    BY DEF ReceiverInv, Unread
  <2> QED  BY <2>1
<1>2. /\ k \in 0..Len(buf) /\ ~Droppable(rest) /\ \A j \in 0..(k - 1) : Droppable(Drop(buf, j))
  BY <1>1, HuntStops
<1>3. rest \in Seq(Byte) /\ Len(rest) = Len(buf) - k /\ fed - Len(rest) = c + k /\ Unread(rest, fed)
  <2>1. rest \in Seq(Byte) /\ Len(rest) = Len(buf) - k
    BY <1>1, <1>2, DropIs
  <2>2. Unread(rest, fed)
    BY <1>1, <1>2, DroppedUnread
  <2>3. fed - (Len(buf) - k) = c + k
    BY <1>1, <1>2
  <2> QED  BY <2>1, <2>2, <2>3
<1>4. \A j \in 0..(k - 1) : \A m : ~FrameAt(stream, c + j, m)
  <2> TAKE j \in 0..(k - 1)
  <2>1. j \in 0..Len(buf) /\ Droppable(Drop(buf, j))
    BY <1>1, <1>2
  <2>2. Unread(Drop(buf, j), fed) /\ Len(Drop(buf, j)) = Len(buf) - j
    BY <1>1, <2>1, DroppedUnread, DropIs
  <2>3. fed - Len(Drop(buf, j)) = c + j
    BY <1>1, <2>1, <2>2
  <2>4. \A m : ~FrameAt(stream, fed - Len(Drop(buf, j)), m)
    BY <1>1, <2>1, <2>2, DroppedIsNoFrame
  <2> QED  BY <2>3, <2>4, Zenon
<1>5. Complete(rest) => n \in 8..(MaxLenField + 2) /\ n \in Nat /\ n \in 0..Len(rest) /\ n >= 8 /\ Len(rest) >= 5
  <2> SUFFICES ASSUME Complete(rest)
               PROVE  n \in 8..(MaxLenField + 2) /\ n \in Nat /\ n \in 0..Len(rest) /\ n >= 8 /\ Len(rest) >= 5
    OBVIOUS
  <2>1. n \in 8..(MaxLenField + 2)
    BY <1>2, <1>3, KeptHeader DEF Complete, FrameOverhead
  <2>2. n \in Nat /\ n >= 8
    BY <2>1, LimitedWord
  <2> QED  BY <1>3, <2>1, <2>2 DEF Complete
<1>6. \/ /\ ~Complete(rest) /\ buf' = rest /\ got' = got
         /\ discarded' = discarded \o Take(buf, k)
      \/ /\ Complete(rest) /\ d.ok /\ buf' = Drop(rest, n) /\ got' = Append(got, d.frame)
         /\ discarded' = discarded \o Take(buf, k)
      \/ /\ Complete(rest) /\ ~d.ok /\ buf' = Drop(rest, 1) /\ got' = got
         /\ discarded' = discarded \o Take(buf, k + 1)
  BY DEF NextFrame, PutBack, DiscardedByError
<1>7. Told(stream, fed - Len(rest), got, reported \o (discarded \o Take(buf, k)))
  BY <1>0, <1>2, <1>4, ToldDropped
<1>8. /\ discarded \o Take(buf, k) \in Seq(Byte)
      /\ k + 1 <= Len(buf) => discarded \o Take(buf, k + 1) \in Seq(Byte)
  <2>1. Take(buf, k) \in Seq(Byte) /\ (k + 1 <= Len(buf) => Take(buf, k + 1) \in Seq(Byte))
    <3>1. k + 1 <= Len(buf) => k + 1 \in 0..Len(buf)
      BY <1>1, <1>2
    <3> QED  BY <1>1, <1>2, <3>1, TakeIs
  <2> HIDE DEF k
  <2> QED  BY <1>1, <2>1
<1>9. Complete(rest) => /\ Take(rest, n) = Run(stream, c + k, n) /\ Take(rest, n) \in Seq(Byte)
                        /\ Len(Take(rest, n)) = n /\ c + k \in Nat /\ (c + k) + n <= Len(stream)
                        /\ Declared(rest) = BigEndian(stream[(c + k) + 4], stream[(c + k) + 5])
  <2> SUFFICES ASSUME Complete(rest)
               PROVE  /\ Take(rest, n) = Run(stream, c + k, n) /\ Take(rest, n) \in Seq(Byte)
                      /\ Len(Take(rest, n)) = n /\ c + k \in Nat /\ (c + k) + n <= Len(stream)
                      /\ Declared(rest) = BigEndian(stream[(c + k) + 4], stream[(c + k) + 5])
    OBVIOUS
  <2>1. c + k \in Nat /\ (c + k) + n <= Len(stream)
    <3>1. /\ c \in Nat /\ k \in Nat /\ Len(rest) \in Nat /\ n \in Nat /\ n <= Len(rest)
          /\ fed \in Nat /\ Len(stream) \in Nat /\ fed <= Len(stream)
          /\ fed - Len(rest) = c + k
      BY <1>1, <1>2, <1>3, <1>5
    <3> HIDE DEF c, n, rest
    <3> QED  BY <3>1
  <2>2. /\ Take(rest, n) \in Seq(Byte) /\ Len(Take(rest, n)) = n
        /\ \A i \in 1..n : Take(rest, n)[i] = rest[i]
    BY <1>3, <1>5, TakeIs
  <2>3. /\ Run(stream, c + k, n) \in Seq(Byte) /\ Len(Run(stream, c + k, n)) = n
        /\ \A i \in 1..n : Run(stream, c + k, n)[i] = stream[(c + k) + i]
    BY <1>1, <1>5, <2>1, RunIs
  <2>4. \A i \in 1..Len(rest) : rest[i] = stream[(c + k) + i]
    BY <1>3, Zenon DEF Unread
  <2>5. \A i \in 1..n : i \in 1..Len(rest)
    BY <1>3, <1>5
  <2>6. \A i \in 1..n : Take(rest, n)[i] = Run(stream, c + k, n)[i]
    BY <2>2, <2>3, <2>4, <2>5, Zenon
  <2>7. Take(rest, n) = Run(stream, c + k, n)
    BY <2>2, <2>3, <2>6, SeqEqual, Zenon
  <2>8. Declared(rest) = BigEndian(stream[(c + k) + 4], stream[(c + k) + 5])
    <3>1. 4 \in 1..Len(rest) /\ 5 \in 1..Len(rest)
      BY <1>3, <1>5
    <3> QED  BY <2>4, <3>1, Zenon DEF Declared
  <2> QED  BY <2>1, <2>2, <2>7, <2>8, Zenon
<1>13. ASSUME \/ fed - Len(buf') = c + k
              \/ Complete(rest) /\ fed - Len(buf') = (c + k) + 1
              \/ Complete(rest) /\ \E m : FrameAt(stream, c + k, m) /\ fed - Len(buf') = (c + k) + m
       PROVE  \E j \in 0..Len(buf) : Passes(j)
  <2>1. Passes(k)
    BY <1>2, <1>13, Zenon DEF Passes
  <2> QED  BY <1>2, <2>1, Zenon
<1> HIDE DEF c, k, rest
<1>10. CASE /\ ~Complete(rest) /\ buf' = rest /\ got' = got
            /\ discarded' = discarded \o Take(buf, k)
  <2>1. fed - Len(buf') = c + k
    BY <1>3, <1>10, Zenon
  <2> QED  BY <1>7, <1>8, <1>10, <1>13, <2>1, Zenon
<1>11. CASE /\ Complete(rest) /\ d.ok /\ buf' = Drop(rest, n) /\ got' = Append(got, d.frame)
            /\ discarded' = discarded \o Take(buf, k)
  <2>1. FrameAt(stream, c + k, n)
    <3>1. Sound(Take(rest, n), n)
      BY <1>9, <1>11, DecodeIs
    <3> QED  BY <1>5, <1>9, <1>11, <3>1, Zenon DEF FrameAt
  <2>2. Told(stream, (c + k) + n, Append(got, Decode(Run(stream, c + k, n)).frame),
             reported \o (discarded \o Take(buf, k)))
    <3>1. Told(stream, c + k, got, reported \o (discarded \o Take(buf, k)))
      BY <1>3, <1>7, Zenon
    <3> QED  BY <1>1, <1>9, <1>11, <2>1, <3>1, ToldFrame, Zenon
  <2>3. fed - Len(buf') = (c + k) + n
    <3>1. Len(Drop(rest, n)) = Len(rest) - n
      BY <1>3, <1>5, <1>11, DropIs
    <3>2. fed - (Len(rest) - n) = (fed - Len(rest)) + n
      BY <1>1, <1>3, <1>5, <1>11
    <3> QED  BY <1>3, <1>11, <3>1, <3>2, Zenon
  <2>4. got' = Append(got, Decode(Run(stream, c + k, n)).frame)
    BY <1>9, <1>11, Zenon
  <2>5. \E j \in 0..Len(buf) : Passes(j)
    BY <1>11, <1>13, <2>1, <2>3, Zenon
  <2> QED  BY <1>8, <1>11, <2>2, <2>3, <2>4, <2>5, Zenon
<1>12. CASE /\ Complete(rest) /\ ~d.ok /\ buf' = Drop(rest, 1) /\ got' = got
            /\ discarded' = discarded \o Take(buf, k + 1)
  <2>1. \A m : ~FrameAt(stream, c + k, m)
    <3> SUFFICES ASSUME NEW m, FrameAt(stream, c + k, m)  PROVE FALSE
      OBVIOUS
    <3>1. BigEndian(stream[(c + k) + 4], stream[(c + k) + 5]) = m - 2 /\ m \in Nat
      BY <1>1, <1>9, <1>12, FrameAtIs
    <3>2. n = (m - 2) + 2
      BY <1>9, <1>12, <3>1, Zenon DEF FrameLen
    <3>3. n = m
      BY <3>1, <3>2
    <3>4. Sound(Take(rest, n), Len(Take(rest, n)))
      BY <1>9, <1>12, <3>3, Zenon DEF FrameAt
    <3> QED  BY <1>9, <1>12, <3>4, DecodeIs
  <2>2. k + 1 \in 0..Len(buf) /\ k + 1 <= Len(buf) /\ (k + 1) - 1 = k /\ 1 \in 0..Len(rest)
    BY <1>1, <1>2, <1>3, <1>5, <1>12
  <2>3. \A j \in 0..((k + 1) - 1) : \A m : ~FrameAt(stream, c + j, m)
    <3> TAKE j \in 0..((k + 1) - 1)
    <3>1. j \in 0..(k - 1) \/ j = k
      BY <1>2, <2>2
    <3> QED  BY <1>4, <2>1, <3>1, Zenon
  <2>4. Told(stream, fed - Len(Drop(buf, k + 1)), got, reported \o (discarded \o Take(buf, k + 1)))
    BY <1>0, <2>2, <2>3, ToldDropped DEF c
  <2>5. Len(Drop(buf, k + 1)) = Len(buf')
    <3>1. Len(Drop(buf, k + 1)) = Len(buf) - (k + 1)
      BY <1>1, <2>2, DropIs
    <3>2. Len(buf') = Len(rest) - 1
      BY <1>3, <1>12, <2>2, DropIs
    <3>3. Len(buf) - (k + 1) = (Len(buf) - k) - 1
      BY <1>1, <1>2
    <3> QED  BY <1>3, <3>1, <3>2, <3>3, Zenon
  <2>6. fed - Len(buf') = (c + k) + 1
    <3>1. Len(buf') = Len(rest) - 1
      BY <1>3, <1>12, <2>2, DropIs
    <3>2. fed - (Len(rest) - 1) = (fed - Len(rest)) + 1
      BY <1>1, <1>3
    <3> QED  BY <1>3, <3>1, <3>2, Zenon
  <2>7. \E j \in 0..Len(buf) : Passes(j)
    BY <1>12, <1>13, <2>6, Zenon
  <2> QED  BY <1>8, <1>12, <2>2, <2>4, <2>5, <2>7, Zenon
<1> QED
  BY <1>6, <1>10, <1>11, <1>12, Zenon

-----------------------------------------------------------------------------
LEMMA ReceiverInvariant == Spec => []ReceiverInv
<1>1. Init => ReceiverInv
  <2> SUFFICES ASSUME Init  PROVE ReceiverInv
    OBVIOUS
  <2>1. /\ stream \in Seq(Byte) /\ fed = 0 /\ buf = <<>> /\ discarded = <<>> /\ reported = <<>>
        /\ got = <<>> /\ ret # NeedMore
    BY StreamsAssumption DEF Init, NotCalled, NeedMore
  <2>2. Len(<<>>) = 0 /\ 0 - 0 = 0 /\ <<>> \o <<>> = <<>> /\ <<>> \in Seq(Byte)
    OBVIOUS
  <2>3. Told(stream, fed - Len(buf), got, reported \o discarded)
    BY <2>1, <2>2, ToldNothing, Zenon
  <2>4. fed \in 0..Len(stream) /\ Unread(buf, fed)
    BY <2>1 DEF Unread
  <2> QED  BY <2>1, <2>2, <2>3, <2>4, Zenon DEF ReceiverInv
<1>2. ReceiverInv /\ [Next]_vars => ReceiverInv'
  <2> SUFFICES ASSUME ReceiverInv, [Next]_vars  PROVE ReceiverInv'
    OBVIOUS
  <2>1. CASE Feed
    <3>1. /\ stream' = stream /\ ret' # NeedMore /\ discarded' = discarded /\ reported' = reported
          /\ got' = got
      BY <2>1 DEF Feed, NotCalled, NeedMore
    <3>2. fed' \in 0..Len(stream) /\ Unread(buf', fed')
      BY <2>1, FeedAppends
    <3>3. fed' - Len(buf') = fed - Len(buf)
      <4>1. PICK n \in 1..(Len(stream) - fed) :
              buf' = buf \o SubSeq(stream, fed + 1, fed + n) /\ fed' = fed + n
        BY <2>1 DEF Feed
      <4>2. buf \in Seq(Byte) /\ stream \in Seq(Byte) /\ fed \in 0..Len(stream) /\ Len(buf) \in Nat
        BY DEF ReceiverInv, Unread
      <4>3. SubSeq(stream, fed + 1, fed + n) \in Seq(Byte) /\ Len(SubSeq(stream, fed + 1, fed + n)) = n
        BY <4>2
      <4>4. Len(buf') = Len(buf) + n
        BY <4>1, <4>2, <4>3, ConcatProperties, Zenon
      <4> QED  BY <4>1, <4>2, <4>4
    <3>4. Unread(buf, fed)' <=> Unread(buf', fed')
      BY <3>1 DEF Unread
    <3> QED  BY <3>1, <3>2, <3>3, <3>4, Zenon DEF ReceiverInv
  <2>2. CASE NextFrame
    <3>1. stream' = stream /\ fed' = fed
      BY <2>2 DEF NextFrame
    <3>2. buf \in Seq(Byte) /\ fed \in Nat /\ Unread(buf, fed)
      BY DEF ReceiverInv, Unread
    <3>3. \E k \in 0..Len(buf) : buf' = Drop(buf, k)
      BY <2>2, <3>2, NextFrameLeaves
    <3>4. ret' = NeedMore => Settled(buf')
      BY <2>2, <3>2, NextFrameLeaves
    <3>5. Unread(buf', fed)
      BY <3>2, <3>3, DroppedUnread
    <3>6. Unread(buf, fed)' /\ (ret' = NeedMore => Settled(buf)')
      BY <3>1, <3>4, <3>5 DEF Unread, Settled
    <3>7. /\ Told(stream, fed - Len(buf'), got', reported \o discarded')
          /\ discarded' \in Seq(Byte)
      BY <2>2, NextFrameReads DEF ReceiverInv
    <3>8. reported' = reported /\ reported \in Seq(Byte)
      BY <2>2 DEF NextFrame, ReceiverInv
    <3>9. fed \in 0..Len(stream) /\ stream \in Seq(Byte)
      BY DEF ReceiverInv
    <3>10. NeedMore' = NeedMore
      BY DEF NeedMore
    <3>11. Told(stream', fed' - Len(buf'), got', reported' \o discarded')
      BY <3>1, <3>7, <3>8, Zenon
    <3> QED  BY <3>1, <3>6, <3>7, <3>8, <3>9, <3>10, <3>11, Zenon DEF ReceiverInv
  <2>3. CASE TakeDiscarded
    <3>1. /\ stream' = stream /\ fed' = fed /\ buf' = buf /\ ret' = ret /\ got' = got
          /\ reported' = reported \o discarded /\ discarded' = <<>>
      BY <2>3 DEF TakeDiscarded
    <3>2. reported \o discarded \in Seq(Byte) /\ <<>> \in Seq(Byte)
      BY DEF ReceiverInv
    <3>3. (reported \o discarded) \o <<>> = reported \o discarded
      BY <3>2, ConcatEmptySeq, Zenon
    <3>4. Told(stream', fed' - Len(buf'), got', reported' \o discarded')
      BY <3>1, <3>3, Zenon DEF ReceiverInv
    <3> QED  BY <3>1, <3>2, <3>4 DEF ReceiverInv, Unread, Settled
  <2>4. CASE UNCHANGED vars
    BY <2>4 DEF vars, ReceiverInv, Unread, Settled
  <2> QED  BY <2>1, <2>2, <2>3, <2>4 DEF Next
<1> QED
  BY <1>1, <1>2, PTL DEF Spec

\* The buffer is always the unread tail of what was fed, whatever is put back
\* behind a bad run (frame.rs 295-299).
THEOREM KeepsTheOrder == Spec => []NothingReordered
<1>1. ReceiverInv => NothingReordered
  <2> SUFFICES ASSUME ReceiverInv  PROVE NothingReordered
    OBVIOUS
  <2> DEFINE read == fed - Len(buf)   line == Take(stream, fed)
  <2>1. /\ stream \in Seq(Byte) /\ fed \in 0..Len(stream) /\ buf \in Seq(Byte)
        /\ read \in 0..fed
        /\ \A i \in 1..Len(buf) : buf[i] = stream[read + i]
    BY DEF ReceiverInv, Unread
  <2>2. line \in Seq(Byte) /\ Len(line) = fed /\ \A i \in 1..fed : line[i] = stream[i]
    BY <2>1 DEF Take
  <2> HIDE DEF line
  <2>3. /\ Drop(line, read) \in Seq(Byte) /\ Len(Drop(line, read)) = fed - read
        /\ \A i \in 1..(fed - read) : Drop(line, read)[i] = line[read + i]
    BY <2>1, <2>2, DropIs
  <2>4. fed - read = Len(buf)
    BY <2>1
  <2>5. ASSUME NEW i \in 1..Len(buf)  PROVE Drop(line, read)[i] = buf[i]
    <3>1. read + i \in 1..fed
      BY <2>1
    <3> QED  BY <2>1, <2>2, <2>3, <2>4, <3>1
  <2>6. buf = Drop(line, read)
    BY <2>1, <2>3, <2>4, <2>5, SeqEqual, Zenon
  <2> QED  BY <2>6 DEF NothingReordered, line
<1> QED
  BY <1>1, ReceiverInvariant, PTL

\* After a None the buffer holds the start of a frame and less than one maximal
\* frame, so it cannot grow without bound (frame.rs 269-341).
THEOREM HoldsLittle == Spec => []HoldsOnlyAnUnfinishedFrame
<1>1. ReceiverInv => HoldsOnlyAnUnfinishedFrame
  <2> SUFFICES ASSUME ReceiverInv, ret = NeedMore
               PROVE  /\ Len(buf) < MaxLenField + 2
                      /\ IsPrefix(Take(buf, Min({2, Len(buf)})), Magic)
                      /\ Len(buf) >= 5 => Plausible(buf) /\ Len(buf) < Declared(buf) + 2
    BY DEF HoldsOnlyAnUnfinishedFrame
  <2>1. buf \in Seq(Byte) /\ Len(buf) \in Nat /\ ~Droppable(buf) /\ ~Complete(buf)
    BY DEF ReceiverInv, Unread, Settled
  <2>2. Len(buf) >= 5 => Plausible(buf) /\ Len(buf) < Declared(buf) + 2
    <3> SUFFICES ASSUME Len(buf) >= 5
                 PROVE  Plausible(buf) /\ Len(buf) < Declared(buf) + 2
      OBVIOUS
    <3>1. Plausible(buf)
      BY <2>1 DEF Droppable
    <3>2. FrameLen(buf) = Declared(buf) + 2 /\ Declared(buf) \in Int
      BY <3>1 DEF FrameLen, Plausible, MinLenField
    <3>3. ~(Len(buf) >= FrameLen(buf))
      BY <2>1 DEF Complete
    <3> QED  BY <2>1, <3>1, <3>2, <3>3
  <2>3. Len(buf) < MaxLenField + 2
    <3> DEFINE d == Declared(buf)   l == Len(buf)
    <3>1. l \in Nat /\ (l >= 5 => d \in 6..MaxLenField /\ l < d + 2)
      BY <2>1, <2>2 DEF Plausible, MinLenField
    <3> HIDE DEF d, l
    <3>2. l < MaxLenField + 2
      BY <3>1, LimitIsInt
    <3> QED  BY <3>2 DEF l
  <2>4. IsPrefix(Take(buf, Min({2, Len(buf)})), Magic)
    <3> DEFINE m == Min({2, Len(buf)})   t == Take(buf, m)   u == Take(Magic, m)
    <3>1. m \in 0..2 /\ m <= Len(buf)
      BY <2>1, SmallerOfTwo
    <3>2. (m >= 1 => buf[1] = Magic[1]) /\ (m >= 2 => buf[2] = Magic[2])
      <4> HIDE DEF m
      <4>1. Len(buf) >= 1 => buf # <<>>
        OBVIOUS
      <4>2. Len(buf) >= 1 => buf[1] = Magic[1] /\ (Len(buf) >= 2 => buf[2] = Magic[2])
        BY <2>1, <4>1 DEF Droppable
      <4> QED  BY <2>1, <3>1, <4>2
    <3> HIDE DEF m
    <3>3. t \in Seq(Byte) /\ Len(t) = m /\ \A i \in 1..m : t[i] = buf[i]
      BY <2>1, <3>1, TakeIs
    <3>4. Magic \in Seq(Byte) /\ Len(Magic) = 2
      BY MagicBytes
    <3>5. u \in Seq(Byte) /\ Len(u) = m /\ \A i \in 1..m : u[i] = Magic[i]
      <4>1. m \in 0..Len(Magic)
        BY <3>1, <3>4
      <4> QED  BY <3>4, <4>1, TakeIs, Zenon
    <3>6. Take(t, m) = t
      BY <3>3 DEF Take
    <3> HIDE DEF t, u
    <3>7. Len(t) = Len(u) /\ \A i \in 1..Len(t) : t[i] = u[i]
      <4>1. \A i \in 1..m : t[i] = Magic[i]
        BY <3>1, <3>2, <3>3
      <4> QED  BY <3>3, <3>5, <4>1
    <3>8. t = u
      BY <3>3, <3>5, <3>7, SeqEqual, Zenon
    <3>9. IsPrefix(t, Magic)
      <4>1. SubSeq(t, 1, Len(t)) = t /\ SubSeq(Magic, 1, Len(t)) = u
        BY <3>3, <3>6 DEF Take, u
      <4> QED  BY <3>1, <3>3, <3>4, <3>8, <4>1 DEF IsPrefix
    <3> QED  BY <3>9 DEF t, m
  <2> QED  BY <2>2, <2>3, <2>4
<1> QED
  BY <1>1, ReceiverInvariant, PTL

\* What is told of the consumed bytes is their reading.
LEMMA ConsumedIsRead ==
  ASSUME ReceiverInv
  PROVE  /\ Reading(Consumed).frames = got
         /\ Reading(Consumed).noise = reported \o discarded
<1>1. stream \in Seq(Byte) /\ fed - Len(buf) \in 0..Len(stream)
  BY DEF ReceiverInv, Unread
<1>2. Told(stream, fed - Len(buf), got, reported \o discarded)
  BY DEF ReceiverInv
<1> QED
  BY <1>1, <1>2, ToldReading, Zenon DEF Consumed

\* For every stream, chunking and order of calls: the frames next_frame has
\* handed out are those a left-to-right reading of the consumed bytes finds, so
\* re-hunting after a failed check (frame.rs 284-299) loses and invents none.
THEOREM DeliversFrames == Spec => []DeliversWhatWasSent
<1>1. ReceiverInv => DeliversWhatWasSent
  BY ConsumedIsRead DEF DeliversWhatWasSent
<1> QED
  BY <1>1, ReceiverInvariant, PTL

\* ... and take_discarded (frame.rs 263-267) has reported, or has still to
\* report, every other consumed byte once and in order.
THEOREM AccountsForNoise == Spec => []AccountsForEveryByte
<1>1. ReceiverInv => AccountsForEveryByte
  BY ConsumedIsRead DEF AccountsForEveryByte
<1> QED
  BY <1>1, ReceiverInvariant, PTL

\* Every Some(..) has used up a byte and a None repeats until more is fed, so the
\* loops of driver.rs 197 and 297 end.
THEOREM CallsAdvance == Spec => EveryCallAdvances
<1> DEFINE Advances == NextFrame => /\ ret' # NeedMore => Len(buf') < Len(buf)
                                    /\ ret = NeedMore => ret' = NeedMore /\ buf' = buf
<1>1. ReceiverInv /\ [Next]_vars => [Advances]_vars
  <2> SUFFICES ASSUME ReceiverInv, NextFrame
               PROVE  /\ ret' # NeedMore => Len(buf') < Len(buf)
                      /\ ret = NeedMore => ret' = NeedMore /\ buf' = buf
    OBVIOUS
  <2>1. buf \in Seq(Byte) /\ Len(buf) \in Nat
    BY DEF ReceiverInv, Unread
  <2>2. ret' # NeedMore => Len(buf') < Len(buf)
    <3> SUFFICES ASSUME ret' # NeedMore  PROVE Len(buf') < Len(buf)
      OBVIOUS
    <3>1. PICK k \in 1..Len(buf) : buf' = Drop(buf, k)
      BY <2>1, NextFrameLeaves
    <3>2. Len(Drop(buf, k)) = Len(buf) - k
      BY <2>1, <3>1, DropIs
    <3> QED  BY <2>1, <3>1, <3>2
  <2>3. ASSUME ret = NeedMore  PROVE ret' = NeedMore /\ buf' = buf
    <3>1. ~Droppable(buf) /\ ~Complete(buf)
      BY <2>3 DEF ReceiverInv, Settled
    <3>2. Drop(buf, 0) = buf
      BY <2>1 DEF Drop
    <3>3. HuntOffset(buf) = 0
      <4> DEFINE T == {k \in 0..Len(buf) : ~Droppable(Drop(buf, k))}
      <4>1. 0 \in T /\ T \subseteq Nat
        BY <2>1, <3>1, <3>2
      <4>2. \A x \in T : (\A y \in T : x <= y) => x = 0
        BY <4>1
      <4>3. \A y \in T : 0 <= y
        BY <4>1
      <4> HIDE DEF T
      <4>4. Min(T) = 0
        BY <4>1, <4>2, <4>3 DEF Min
      <4> QED  BY <4>4 DEF HuntOffset, T
    <3> QED  BY <3>1, <3>2, <3>3 DEF NextFrame
  <2> QED  BY <2>2, <2>3
<1> QED
  BY <1>1, ReceiverInvariant, PTL DEF Spec, EveryCallAdvances
=============================================================================
