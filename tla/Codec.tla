-------------------------------- MODULE Codec --------------------------------
(* The messages of the protocol, each written by one codec and read by another:
   nothing but the two lists of fields makes them agree.                        *)
EXTENDS Serializer

CONSTANTS
    Numbers,  \* width -> the numbers tried for a field of that width
    Strings,  \* the strings tried
    Lists,    \* the lists of strings tried
    MaxCut    \* bound: bytes a message may be short of

ASSUME CodecAssumption ==
    /\ \A width \in {1, 4, 8} : Numbers[width] \subseteq 0..Span(width) - 1
    /\ Strings \subseteq Seq(0..Radix - 1) /\ Lists \subseteq Seq(Seq(0..Radix - 1))
    /\ MaxCut \in Nat

-----------------------------------------------------------------------------
(* C_YouJoinRoom, the answer to a join. *)
RoomFields == <<Bool, Head8, U8, Head8, Head8, List(1, 1), U8, Bool, U8, U8, Head8>>

(* Who writes a message, who reads it, and the fields each of them goes through.
   Where the client takes a list apart by hand it does what List does.          *)
Protocol ==
    [you_join  |-> [writer |-> "Marshal", writes |-> RoomFields,
                    reader |-> "client", reads |-> RoomFields],
     other_join |-> [writer |-> "Marshal", writes |-> <<Head8, U8>>,
                    reader |-> "client", reads |-> <<Head8, U8>>],
     leave     |-> [writer |-> "Marshal", writes |-> <<Head8>>,
                    reader |-> "client", reads |-> <<Head8>>],
     start     |-> [writer |-> "Marshal", writes |-> <<Head8>>,
                    reader |-> "client", reads |-> <<Head8>>],
     placed    |-> [writer |-> "Serializer", writes |-> <<U8>>,
                    reader |-> "client", reads |-> <<U8>>],
     user_info |-> [writer |-> "Serializer",
                    writes |-> <<Head8, Uint(4), Uint(4), Uint(4), Uint(4), Uint(8)>>,
                    reader |-> "client",
                    reads  |-> <<Head8, Uint(4), Uint(4), Uint(4), Uint(4), Uint(4)>>],
     chat      |-> [writer |-> "Marshal", writes |-> <<Uint(8), Head8, Head16>>,
                    reader |-> "client", reads |-> <<Uint(8), Head8, Head16>>],
     denied    |-> [writer |-> "Serializer", writes |-> <<Bool>>,
                    reader |-> "client", reads |-> <<Bool>>],
     over      |-> [writer |-> "Serializer", writes |-> <<U8>>,
                    reader |-> "client", reads |-> <<U8, Bool>>],
     fatal     |-> [writer |-> "Serializer", writes |-> <<Uint(4), Head8>>,
                    reader |-> "client", reads |-> <<Uint(4), Head8>>],
     join      |-> [writer |-> "client", writes |-> <<U8, Head8, Head16, U8>>,
                    reader |-> "Unmarshal", reads |-> <<U8, Head8, Head16, U8>>],
     stone     |-> [writer |-> "client", writes |-> <<U8, U8>>,
                    reader |-> "Serializer", reads |-> <<U8, U8>>],
     ask_info  |-> [writer |-> "client", writes |-> <<Head8>>,
                    reader |-> "Serializer", reads |-> <<Head8>>],
     agree     |-> [writer |-> "client", writes |-> <<Bool>>,
                    reader |-> "Serializer", reads |-> <<Bool>>],
     say       |-> [writer |-> "client", writes |-> <<Head16>>,
                    reader |-> "Unmarshal", reads |-> <<Head16>>]]

-----------------------------------------------------------------------------
(* One message on its way *)

VARIABLES
    name,     \* which message of the protocol
    values,   \* what its sender put into the fields
    raw,      \* the bytes under way
    whole,    \* none of them are missing
    stage,    \* new, refused, sent, and how the reader ended: ok, error, panic
    out       \* the fields read

codecVars == <<name, values, raw, whole, stage, out>>

Format == Protocol[name]

CodecInit ==
    /\ name \in DOMAIN Protocol
    /\ values = << >> /\ raw = << >> /\ whole = TRUE
    /\ stage = "new" /\ out = << >>

FieldValues(f) ==
    CASE f.kind = "uint"  -> Numbers[f.width]
      [] f.kind = "bool"  -> BOOLEAN
      [] f.kind = "bytes" -> Strings
      [] f.kind = "list"  -> Lists

(* The sender sets the next field.  A join that failed is answered by denied, and
   the name of a user, which came in behind one byte of length, fits behind one. *)
Fill(v) ==
    /\ stage = "new" /\ Len(values) < Len(Format.writes)
    /\ values = << >> /\ name = "you_join" => v = TRUE
    /\ values = << >> /\ name = "user_info" => Len(v) < Radix
    /\ values' = Append(values, v)
    /\ UNCHANGED <<name, raw, whole, stage, out>>

Encode ==
    /\ stage = "new" /\ Len(values) = Len(Format.writes)
    /\ IF Refused(Format.writes, values)
       THEN stage' = "refused" /\ UNCHANGED raw
       ELSE stage' = "sent" /\ raw' = Encoded(Format.writer, Format.writes, values)
    /\ UNCHANGED <<name, values, whole, out>>

(* A peer that has an older idea of the message sends less of it. *)
Shorten(missing) ==
    /\ stage = "sent" /\ whole
    /\ missing <= Len(raw)
    /\ raw' = SubSeq(raw, 1, Len(raw) - missing)
    /\ whole' = FALSE
    /\ UNCHANGED <<name, values, stage, out>>

Decode ==
    LET result == ReadFields(Format.reader, raw, 0, Format.reads)
    IN  /\ stage = "sent"
        /\ stage' = result.end
        /\ out' = result.val
        /\ UNCHANGED <<name, values, raw, whole>>

CodecNext ==
    \/ /\ Len(values) < Len(Format.writes)
       /\ \E v \in FieldValues(Format.writes[Len(values) + 1]) : Fill(v)
    \/ Encode
    \/ \E missing \in 1..MaxCut : Shorten(missing)
    \/ Decode

CodecSpec == CodecInit /\ [][CodecNext]_codecVars
-----------------------------------------------------------------------------
(* Properties *)

(* The number a client cannot take: the server writes the time a user has played with
   eight bytes (send.go, WriteUint64(user.GameDuration)), and the client reads four
   (server_game_room.cpp, uint32_t of user.h).                                  *)
Overlong(i) == name = "user_info" /\ i = 6 /\ values[i] >= Span(4)

(* Unless its sender refuses to write it, a message comes out of its reader, who goes
   through a list of fields of its own, as what was put in, at the limits of every
   number and prefix.  Two disagreements of the lists are left out: the end of a game is
   written as one byte and read as two, and the client loses the front of an overlong
   duration.                                                                    *)
Understood ==
    whole /\ name # "over" /\ stage \in {"ok", "error", "panic"} =>
        /\ stage = "ok"
        /\ Len(out) = Len(values)
        /\ \A i \in DOMAIN out : out[i] = values[i] \/ Overlong(i)

(* A message that lacks its end is not taken for a whole one by Unmarshal or the
   client, wherever it stops, unless the reader never wanted the end.  (The old
   Serializer of the server takes a missing string for an empty one.)           *)
CutNoticed ==
    ~ whole /\ Format.reads = Format.writes /\ Format.reader # "Serializer" => stage # "ok"
=============================================================================
