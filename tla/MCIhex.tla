------------------------------- MODULE MCIhex -------------------------------
(* Files of up to four lines below an address limit of 40 bytes: records     *)
(* that overlap, leave gaps, end at the limit and beyond it, move the base   *)
(* and back, and every way a line can be wrong.                              *)
EXTENDS Ihex

\* A record with a right checksum.
Rec(off, type, data) ==
  LET head == <<Len(data), off \div 256, off % 256, type>> \o data
  IN  Record(head \o <<(256 - Checksum(head)) % 256>>)

Eof == Rec(0, 1, <<>>)

Lines ==
  { Blank, Malformed, Eof,
    Rec(0, 0, <<1, 2, 3>>), Rec(2, 0, <<9, 8>>), Rec(6, 0, <<7>>),
    Rec(39, 0, <<5>>), Rec(39, 0, <<5, 6>>), Rec(256, 0, <<4>>),
    Rec(0, 0, <<>>), Rec(9, 0, <<>>),
    Rec(0, 2, <<0, 1>>), Rec(0, 2, <<1, 0>>), Rec(0, 2, <<1>>),
    Rec(0, 4, <<0, 0>>), Rec(0, 4, <<0, 1>>),
    Rec(0, 3, <<0, 0, 1, 2>>), Rec(0, 6, <<>>),
    Record(<<1, 0, 0, 0, 1, 2>>),          \* a wrong sum
    Record(<<2, 0, 0, 0, 1, 253>>) }       \* a count that disagrees

MCFiles == UNION {[1..n -> Lines] : n \in 0..3}
           \cup {<<a, b, c, Eof>> : a, b, c \in Lines}
=============================================================================
