------------------------------- MODULE Frame -------------------------------
(***************************************************************************)
(* The 46 B9 ... 16 frame codec of src/frame.rs, as pure operators.        *)
(*                                                                         *)
(*   46 B9 | DIR | LEN (2, big endian) | CMD | payload ... | CKSM | 16     *)
(*                                                                         *)
(* LEN counts everything but the two magic bytes; CKSM is the sum of DIR   *)
(* to the last payload byte, mod 256.  Nothing here is recursive in the    *)
(* RECURSIVE sense, so the modules above it can be proved about.           *)
(***************************************************************************)
EXTENDS Integers, Sequences

Byte == 0..255
Word == 0..65535

Magic         == <<70, 185>>      \* 0x46 0xB9
DirByte       == [HostToMcu |-> 106, McuToHost |-> 104]   \* 0x6A, 0x68
Terminator    == 22               \* 0x16
FrameOverhead == 8
MinLenField   == 6

Dir == DOMAIN DirByte
FrameType == [dir : Dir, cmd : Byte, payload : Seq(Byte)]

HostFrame(cmd, payload) == [dir |-> "HostToMcu", cmd |-> cmd, payload |-> payload]
McuFrame(cmd, payload)  == [dir |-> "McuToHost", cmd |-> cmd, payload |-> payload]

WireLen(f) == Len(f.payload) + FrameOverhead

\* `(self.wire_len() - 2) as u16`: the cast wraps.
LenField(f) == (WireLen(f) - 2) % 65536

BigEndian(hi, lo) == hi * 256 + lo

\* Mutant: the sum starts at the length instead of the direction byte.
ChecksumFromTheLength(body) ==
  LET sum[i \in 0..Len(body)] == IF i <= 1 THEN 0 ELSE (sum[i - 1] + body[i]) % 256
  IN  sum[Len(body)]

\* A u8 accumulator with wrapping_add.
Checksum(body) ==
  LET sum[i \in 0..Len(body)] == IF i = 0 THEN 0 ELSE (sum[i - 1] + body[i]) % 256
  IN  sum[Len(body)]

Encode(f) ==
  LET body == <<DirByte[f.dir], LenField(f) \div 256, LenField(f) % 256, f.cmd>> \o f.payload
  IN  Magic \o body \o <<Checksum(body), Terminator>>

(***************************************************************************)
(* Frame::decode.  The tests are made in this order, and the first one     *)
(* that fails names the error.                                             *)
(***************************************************************************)
DecodeErrors == {"TooShort", "BadMagic", "BadLength", "BadTerminator", "BadChecksum", "BadDir"}

Fault(error)  == [ok |-> FALSE, error |-> error]
Decoded(f)    == [ok |-> TRUE, frame |-> f]

\* Mutant: the direction byte is taken over without Dir::from_byte's check.
DecodeAnyDir(bytes) ==
  LET n == Len(bytes)
  IN  IF n < FrameOverhead                          THEN Fault("TooShort")
      ELSE IF SubSeq(bytes, 1, 2) # Magic           THEN Fault("BadMagic")
      ELSE IF BigEndian(bytes[4], bytes[5]) # (n - 2) % 65536
                                                    THEN Fault("BadLength")
      ELSE IF bytes[n] # Terminator                 THEN Fault("BadTerminator")
      ELSE IF bytes[n - 1] # Checksum(SubSeq(bytes, 3, n - 2))
                                                    THEN Fault("BadChecksum")
      ELSE Decoded([dir |-> IF bytes[3] = DirByte["HostToMcu"] THEN "HostToMcu"
                            ELSE IF bytes[3] = DirByte["McuToHost"] THEN "McuToHost"
                            ELSE "Unknown",
                    cmd |-> bytes[6], payload |-> SubSeq(bytes, 7, n - 2)])

Decode(bytes) ==
  LET n    == Len(bytes)
      body == SubSeq(bytes, 3, n - 2)
      dirs == {d \in Dir : DirByte[d] = bytes[3]}
  IN  IF n < FrameOverhead                          THEN Fault("TooShort")
      ELSE IF SubSeq(bytes, 1, 2) # Magic           THEN Fault("BadMagic")
      ELSE IF BigEndian(bytes[4], bytes[5]) # (n - 2) % 65536
                                                    THEN Fault("BadLength")
      ELSE IF bytes[n] # Terminator                 THEN Fault("BadTerminator")
      ELSE IF bytes[n - 1] # Checksum(body)         THEN Fault("BadChecksum")
      ELSE IF dirs = {}                             THEN Fault("BadDir")
      ELSE Decoded([dir     |-> CHOOSE d \in dirs : TRUE,
                    cmd     |-> bytes[6],
                    payload |-> SubSeq(bytes, 7, n - 2)])

\* Frame::is_echo_of: the request byte for byte, with only DIR swapped.
IsEchoOf(reply, req) ==
  /\ reply.dir = "McuToHost"
  /\ req.dir = "HostToMcu"
  /\ reply.cmd = req.cmd
  /\ reply.payload = req.payload
=============================================================================
