----------------------------- MODULE Serializer -----------------------------
(* How values become bytes and bytes become values.  Three codecs meet: Marshal and
   Unmarshal (backend/utils/serializer.go), which follow the fields of a struct and
   their tags, the older Serializer of the same file, which writes and reads one
   value at a time, and the client's Serializer (frontend mixi/net/serializer.cpp).

   A byte has Radix values, 256 in the code: with a smaller one the limits of the
   length prefixes are within reach.                                            *)
EXTENDS Integers, SequencesExt

CONSTANT Radix  \* values of a byte

ASSUME RadixAssumption == Radix \in Nat \ {0, 1}

-----------------------------------------------------------------------------
(* Fields: unsigned numbers of some bytes, truth values, byte strings behind a
   length, and lists of strings behind a count.                                 *)
Uint(width)       == [kind |-> "uint", width |-> width]
Bool              == [kind |-> "bool"]
Bytes(head)       == [kind |-> "bytes", head |-> head]
List(count, head) == [kind |-> "list", count |-> count, head |-> head]

U8     == Uint(1)
Head8  == Bytes(1)
Head16 == Bytes(2)

-----------------------------------------------------------------------------
(* Writing *)

(* How many numbers there are of so many bytes. *)
Span(width) ==
    LET span[i \in 0..width] == IF i = 0 THEN 1 ELSE Radix * span[i - 1]
    IN  span[width]

(* Little end first, on both sides. *)
LittleEndian(n, width) == [i \in 1..width |-> (n \div Span(i - 1)) % Radix]

(* Slip: the limit itself is let through. *)
Fits_OffByOne(length, head) == length <= Span(head)

(* What a length prefix can carry. *)
Fits(length, head) == length < Span(head)

Prefixed(s, head) == LittleEndian(Len(s), head) \o s

(* A truth value is all ones or none.  The client writes it as two bytes. *)
BoolBytes(writer, b) ==
    LittleEndian(IF b THEN Radix - 1 ELSE 0, IF writer = "client" THEN 2 ELSE 1)

CanWrite(f, v) ==
    CASE f.kind \in {"uint", "bool"} -> TRUE
      [] f.kind = "bytes" -> Fits(Len(v), f.head)
      [] f.kind = "list"  -> /\ Fits(Len(v), f.count)
                             /\ \A i \in DOMAIN v : Fits(Len(v[i]), f.head)

Written(writer, f, v) ==
    CASE f.kind = "uint"  -> LittleEndian(v, f.width)
      [] f.kind = "bool"  -> BoolBytes(writer, v)
      [] f.kind = "bytes" -> Prefixed(v, f.head)
      [] f.kind = "list"  -> LittleEndian(Len(v), f.count)
                             \o FlattenSeq([i \in DOMAIN v |-> Prefixed(v[i], f.head)])

(* An error ends Marshal and the writing of a fatal error, an exception that of the
   client.  SendUserInfo alone drops the error, but see Fill.                   *)
Refused(fields, content) == \E i \in DOMAIN fields : ~ CanWrite(fields[i], content[i])

Encoded(writer, fields, content) ==
    FlattenSeq([i \in DOMAIN fields |-> Written(writer, fields[i], content[i])])

-----------------------------------------------------------------------------
(* Reading a value off the bytes s at a position: what came of it (ok, or how the
   reader failed), the value, and the position behind it.                       *)

Failure(reader, at) ==
    [end |-> IF reader = "Serializer" THEN "panic" ELSE "error", val |-> << >>, at |-> at]

Number(s) ==
    LET number[i \in 0..Len(s)] ==
            IF i = 0 THEN 0 ELSE number[i - 1] + s[i] * Span(i - 1)
    IN  number[Len(s)]

(* The old Serializer slices beyond the end before it compares lengths; a single
   byte it does check for.                                                      *)
ReadUint(reader, s, at, width) ==
    IF at + width <= Len(s)
    THEN [end |-> "ok", val |-> Number(SubSeq(s, at + 1, at + width)), at |-> at + width]
    ELSE IF width = 1 THEN [end |-> "error", val |-> 0, at |-> at]
    ELSE Failure(reader, at)

(* Unmarshal takes no other byte than the two it knows. *)
ReadBool(reader, s, at) ==
    LET r == ReadUint(reader, s, at, 1)
    IN  [end |-> IF reader = "Unmarshal" /\ r.val \notin {0, Radix - 1} THEN "error"
                 ELSE r.end,
         val |-> r.val # 0, at |-> r.at]

(* Slip: a string that is cut short is taken as it is. *)
ReadBytes_Short(reader, s, at, head) ==
    LET n == ReadUint(reader, s, at, head)
    IN  IF n.end # "ok" THEN n
        ELSE [end |-> "ok",
              val |-> SubSeq(s, n.at + 1, IF n.at + n.val <= Len(s) THEN n.at + n.val ELSE Len(s)),
              at |-> n.at + n.val]

(* The old Serializer takes a length that is not there for an empty string. *)
ReadBytes(reader, s, at, head) ==
    LET n == ReadUint(reader, s, at, head)
    IN  IF n.end = "error" /\ reader = "Serializer"
          THEN [end |-> "ok", val |-> << >>, at |-> at]
        ELSE IF n.end # "ok" THEN n
        ELSE IF n.at + n.val <= Len(s)
          THEN [end |-> "ok", val |-> SubSeq(s, n.at + 1, n.at + n.val), at |-> n.at + n.val]
        ELSE Failure(reader, n.at)

(* What was read so far, r, and what came of the next value. *)
With(r, q) ==
    IF r.end # "ok" THEN r
    ELSE [end |-> q.end, at |-> q.at,
          val |-> IF q.end = "ok" THEN Append(r.val, q.val) ELSE r.val]

ReadList(reader, s, at, f) ==
    LET n     == ReadUint(reader, s, at, f.count)
        count == IF n.end = "ok" THEN n.val ELSE 0
        More(r) == With(r, ReadBytes(reader, s, r.at, f.head))
        read[i \in 0..count] ==
            IF i = 0 THEN [end |-> n.end, val |-> << >>, at |-> n.at] ELSE More(read[i - 1])
    IN  read[count]

ReadField(reader, s, at, f) ==
    CASE f.kind = "uint"  -> ReadUint(reader, s, at, f.width)
      [] f.kind = "bool"  -> ReadBool(reader, s, at)
      [] f.kind = "bytes" -> ReadBytes(reader, s, at, f.head)
      [] f.kind = "list"  -> ReadList(reader, s, at, f)

(* One field after the other, until one fails. *)
ReadFields(reader, s, start, fields) ==
    LET More(r, f) == With(r, ReadField(reader, s, r.at, f))
        read[i \in 0..Len(fields)] ==
            IF i = 0 THEN [end |-> "ok", at |-> start, val |-> << >>]
            ELSE More(read[i - 1], fields[i])
    IN  read[Len(fields)]
=============================================================================
