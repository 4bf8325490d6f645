----------------------------- MODULE NetParsers -----------------------------
(***************************************************************************)
(* util/parser.cc and the class InternetChecksum of util/util.cc: how      *)
(* headers are read from bytes and turned into bytes.  A header is a       *)
(* record, and its layout says which field takes how many bytes; parsing   *)
(* and serialising walk over the layout as the code does field by field.   *)
(*                                                                         *)
(* A field of one or two bytes is a number and one of four a pair of       *)
(* 16-bit halves, since TLC counts only to 2^31; one of six bytes, an      *)
(* Ethernet address, is the array that the code keeps.                     *)
(***************************************************************************)
EXTENDS Integers, Sequences, TLC

Byte == 0 .. 255

\* The constructor of a NetParser.
NetParser(buffer) == [buffer |-> buffer, error |-> "NoError"]

Prefix(s, n) == SubSeq(s, 1, n)
Suffix(s, n) == SubSeq(s, n + 1, Len(s))

check_size(p, n) == IF n > Len(p.buffer) THEN [p EXCEPT !.error = "PacketTooShort"] ELSE p

remove_prefix(p, n) ==
  LET q == check_size(p, n)
  IN  IF q.error # "NoError" THEN q ELSE [q EXCEPT !.buffer = Suffix(@, n)]

\* What the bytes of a field stand for, and back.
Value(b) ==
  CASE Len(b) = 1 -> b[1]
    [] Len(b) = 2 -> b[1] * 256 + b[2]
    [] Len(b) = 4 -> <<b[1] * 256 + b[2], b[3] * 256 + b[4]>>
    [] OTHER -> b

BytesOf(v, n) ==
  CASE n = 1 -> <<v % 256>>
    [] n = 2 -> <<(v \div 256) % 256, v % 256>>
    [] n = 4 -> <<v[1] \div 256, v[1] % 256, v[2] \div 256, v[2] % 256>>
    [] OTHER -> v

\* u8, u16 and u32 of n bytes that start behind the first `at`: zero once the
\* data has run out.
parse_int(buffer, at, n) ==
  Value(IF at + n > Len(buffer) THEN [i \in 1 .. n |-> 0] ELSE SubSeq(buffer, at + 1, at + n))

\* The fields of a layout, a sequence of names and sizes, from the i-th on.
RECURSIVE FieldsFrom(_, _, _, _)
FieldsFrom(buffer, layout, i, at) ==
  IF i > Len(layout) THEN <<>>
  ELSE (layout[i][1] :> parse_int(buffer, at, layout[i][2]))
       @@ FieldsFrom(buffer, layout, i + 1, at + layout[i][2])

\* The header, and the parser after its `length` bytes; nobody looks at what is
\* left in the parser when they were not there.
ParseFields(p, layout, length) ==
  [p |-> remove_prefix(p, length), h |-> FieldsFrom(p.buffer, layout, 1, 0)]

RECURSIVE UnparseFields(_, _)
UnparseFields(h, layout) ==
  IF layout = <<>> THEN <<>>
  ELSE BytesOf(h[Head(layout)[1]], Head(layout)[2]) \o UnparseFields(h, Tail(layout))

\* Bit number n of v, and its weight.
Bit(v, n) == (v \div 2 ^ n) % 2 = 1
Flag(b, n) == IF b THEN 2 ^ n ELSE 0

-----------------------------------------------------------------------------
\* InternetChecksum: the constructor, add and value.  The sum stays below 2^32.
NewChecksum(initial_sum) == [sum |-> initial_sum, parity |-> FALSE]

\* What the bytes from the i-th on add to the sum; the first of two is the high one.
RECURSIVE BytesSum(_, _, _)
BytesSum(data, i, low) ==
  IF i > Len(data) THEN 0
  ELSE (IF low THEN data[i] ELSE data[i] * 256) + BytesSum(data, i + 1, ~low)

add(check, data) ==
  [sum    |-> check.sum + BytesSum(data, 1, check.parity),
   parity |-> IF Len(data) % 2 = 1 THEN ~check.parity ELSE check.parity]

\* One turn of the loop in value; two turns are enough for 32 bits, and a
\* number of 16 bits stays what it is.
Carried(n) == (n \div 65536) + (n % 65536)

value(check) == 65535 - Carried(Carried(check.sum))
=============================================================================
