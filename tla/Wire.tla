-------------------------------- MODULE Wire --------------------------------
(***************************************************************************)
(* Bytes and how they are read: crates/mapi-proto/src/wire/writer.rs and   *)
(* wire/reader.rs, with the loops and branches every structure above them  *)
(* is read by.                                                             *)
(*                                                                         *)
(* A byte is a number below 256.  What is written is a sequence of bytes.  *)
(* What is read is described by a layout, a sequence of items, and comes   *)
(* out as the fields the reader keeps, each the bytes it had on the wire;  *)
(* a field that is read into a variable named _ is skipped.                *)
(*                                                                         *)
(* Abstractions.  A character is one byte of a UTF-8 or ANSI string and    *)
(* one unit of a UTF-16 one, where a surrogate is an error; a value wider  *)
(* than 32 bits has its low four bytes first and zeros after them.         *)
(***************************************************************************)
EXTENDS Integers, Sequences
LOCAL INSTANCE SequencesExt

CONSTANTS
    MaxByte,        \* u8::MAX and
    MaxWord         \* u16::MAX, as what the size of a field may come to

ASSUME SizeAssumption == MaxByte \in 1..255 /\ MaxWord \in MaxByte..65535

-----------------------------------------------------------------------------
(* Writing *)

Zeros(n) == [i \in 1..n |-> 0]

U8(v)  == <<v>>
U16(v) == <<v % 256, v \div 256>>
U32(v) == U16(v % 65536) \o U16(v \div 65536)
U64(v) == U32(v) \o Zeros(4)
Guid(v) == <<v>> \o Zeros(15)

\* What stands where nothing can be written: no byte is as large.
Unencodable == <<256>>

Encodable(bytes) == \A i \in DOMAIN bytes : bytes[i] < 256

AsciiZ(chars)  == chars \o <<0>>
Units(chars)   == FlattenSeq([i \in DOMAIN chars |-> U16(chars[i])])
Utf16Z(chars)  == Units(chars) \o U16(0)

\* u16::try_from(..).unwrap_or(u16::MAX), and the same where the error is returned.
Saturated(n) == U16(IF n > MaxWord THEN MaxWord ELSE n)
Counted(n)   == IF n > MaxWord THEN Unencodable ELSE U16(n)

-----------------------------------------------------------------------------
(* The items of a layout *)

Keep(n)         == [is |-> "keep", width |-> n]
Skip(n)         == [is |-> "skip", width |-> n]
AsciiText       == [is |-> "ascii"]
Utf16Text       == [is |-> "utf16"]
TableText(width, limit) == [is |-> "table", width |-> width, limit |-> limit]
Bytes(width)    == [is |-> "bytes", width |-> width]          \* a count, then that many bytes
Within(width, unit) == [is |-> "within", width |-> width, unit |-> unit]    \* a count, then text in it
EachAfter(width, gap, of) == [is |-> "each", width |-> width, gap |-> gap, of |-> of]
Each(width, of) == EachAfter(width, 0, of)
Repeat(n, of)   == [is |-> "repeat", n |-> n, of |-> of]
Switch(on)      == [is |-> "switch", on |-> on]               \* a byte that chooses what follows
Tagged(on)      == [is |-> "tagged", on |-> on]               \* a property tag whose type does
Sized(of)       == [is |-> "sized", of |-> of]                \* a size the rest must fill exactly

\* A byte that is tested against zero.
Flag(then) == Switch([b \in 0..255 |-> IF b = 0 THEN << >> ELSE then])

-----------------------------------------------------------------------------
(* Reading *)

\* Where the reader stands and what it has kept.  Truncated, Unterminated and every other error end
\* the reading.
Reading(at, kept) == [ok |-> TRUE, at |-> at, kept |-> kept]
Refused           == [ok |-> FALSE, at |-> 0, kept |-> << >>]

Rest(buf, at)    == SubSeq(buf, at + 1, Len(buf))
Part(buf, at, n) == SubSeq(buf, at + 1, at + n)

\* Reader::take, for a field that is kept.
Take(buf, r, n) ==
    IF r.at + n > Len(buf) THEN Refused ELSE Reading(r.at + n, Append(r.kept, Part(buf, r.at, n)))

\* A count of one, two or four bytes; one of 65536 or more is more than any buffer has left.
Number(bytes) ==
    LET at(i) == IF i \in DOMAIN bytes THEN bytes[i] ELSE 0
    IN  IF at(3) + at(4) > 0 THEN 65536 ELSE at(1) + 256 * at(2)

LastKept(r) == r.kept[Len(r.kept)]

\* How many units of so many bytes stand before the first that is zero, if one is.
Terminator(buf, at, width) ==
    LET unit(n) == Part(buf, at + n * width, width)
        ends == {n \in 0..((Len(buf) - at) \div width - 1) : unit(n) = Zeros(width)}
    IN  IF ends = {} THEN -1 ELSE CHOOSE n \in ends : \A m \in ends : n <= m

\* So many units, and whether they make up a string: one with a surrogate in it does not.
Chars(buf, at, width, n) == [i \in 1..n |-> Number(Part(buf, at + (i - 1) * width, width))]
IsText(buf, at, width, n) == width = 1 \/ \A i \in 1..n : buf[at + 2 * i] \notin 216..223

\* Reader::ascii_z, bytes_z and utf16_z.
TakeText(buf, r, width) ==
    LET n == Terminator(buf, r.at, width)
    IN  IF n < 0 \/ ~IsText(buf, r.at, width, n) THEN Refused
        ELSE Reading(r.at + (n + 1) * width, Append(r.kept, Chars(buf, r.at, width, n)))

RECURSIVE ReadItem(_, _, _)

\* The items one after the other, up to the first that cannot be read.
ReadFrom(buf, r, layout) ==
    FoldLeft(LAMBDA s, item : IF s.ok THEN ReadItem(buf, s, item) ELSE s, r, layout)

ReadRepeated(buf, r, n, of) ==
    FoldLeft(LAMBDA s, i : IF s.ok THEN ReadFrom(buf, s, of) ELSE s, r, [i \in 1..n |-> i])

\* The text of a field of so many bytes: up to its NUL, or all of it.  A name too long to be written
\* is not read either.
ReadWithin(buf, r, width, unit) ==
    LET size == Take(buf, r, width)
        n == Number(LastKept(size))
        field == Part(buf, size.at, n) \o Zeros(unit)
        text == TakeText(field, Reading(0, << >>), unit)
    IN  IF ~size.ok \/ size.at + n > Len(buf) \/ n % unit # 0 \/ ~text.ok
           \/ (unit = 2 /\ 2 * Len(LastKept(text)) + 2 > MaxByte) THEN Refused
        ELSE Reading(size.at + n, Append(r.kept, LastKept(text)))

ReadItem(buf, r, item) ==
    CASE item.is = "keep"   -> Take(buf, r, item.width)
      [] item.is = "skip"   -> [Take(buf, r, item.width) EXCEPT !.kept = r.kept]
      [] item.is = "ascii"  -> TakeText(buf, r, 1)
      [] item.is = "utf16"  -> TakeText(buf, r, 2)
      [] item.is = "table"  -> LET text == TakeText(buf, r, item.width)
                               IN  IF ~text.ok THEN Refused
                                   ELSE [text EXCEPT !.kept = Append(@,
                                            IF Len(LastKept(text)) >= item.limit THEN <<1>> ELSE <<0>>)]
      [] item.is = "bytes"  -> LET size == Take(buf, r, item.width)
                               IN  IF ~size.ok THEN Refused
                                   ELSE Take(buf, [size EXCEPT !.kept = r.kept], Number(LastKept(size)))
      [] item.is = "within" -> ReadWithin(buf, r, item.width, item.unit)
      [] item.is = "each"   -> LET count == Take(buf, r, item.width)
                               IN  IF ~count.ok \/ count.at + item.gap > Len(buf)
                                      \/ Number(LastKept(count)) > Len(buf) THEN Refused
                                   ELSE ReadRepeated(buf, [count EXCEPT !.at = @ + item.gap],
                                                     Number(LastKept(count)), item.of)
      [] item.is = "repeat" -> ReadRepeated(buf, r, item.n, item.of)
      [] item.is = "switch" -> LET on == Take(buf, r, 1)
                               IN  IF ~on.ok \/ LastKept(on)[1] \notin DOMAIN item.on THEN Refused
                                   ELSE ReadFrom(buf, on, item.on[LastKept(on)[1]])
      [] item.is = "tagged" -> LET tag == Take(buf, r, 4)
                                   type == Number(SubSeq(LastKept(tag), 1, 2))
                               IN  IF ~tag.ok \/ type \notin DOMAIN item.on THEN Refused
                                   ELSE ReadFrom(buf, tag, item.on[type])
      [] item.is = "sized"  -> LET size == Take(buf, r, 2)
                                   end == size.at + Number(LastKept(size))
                                   inside == ReadFrom(SubSeq(buf, 1, end), [size EXCEPT !.kept = r.kept],
                                                      item.of)
                               IN  IF ~size.ok \/ end > Len(buf) \/ inside.at # end THEN Refused
                                   ELSE inside

\* A whole structure, from its first byte.
Read(buf, layout) == ReadFrom(buf, Reading(0, << >>), layout)
=============================================================================
