-------------------------------- MODULE Codec --------------------------------
(***************************************************************************)
(* The binary format of include/messages.hpp: what Serializable writes for *)
(* each struct, and what it reads back.  A byte is a digit to base Radix   *)
(* (256 in the program), so a uint32_t has Radix^4 values and an int64_t   *)
(* Radix^8.  A string is the sequence of its bytes, an ErrorCode a number. *)
(***************************************************************************)
EXTENDS Integers, Sequences, SequencesExt

CONSTANT Radix

\* A byte has more than two values: the types of packets fit into a uint32_t.
ASSUME RadixAssumption == Radix \in Nat /\ Radix > 2

\* How many values a uint32_t has.
Word == Radix * Radix * Radix * Radix

-----------------------------------------------------------------------------
(***************************************************************************)
(* The fields of every struct, in the order of its fields().               *)
(***************************************************************************)

\* An Entry is that of ChatListResponse or of HistoryResponse: two strings and an int64.
Fields ==
    [AuthRequest |-> <<"string", "string">>, LogoutRequest |-> <<"string">>,
     AuthResponse |-> <<"string", "error">>, TokenVerifyRequest |-> <<"string">>,
     TokenVerifyResponse |-> <<"error">>, ChatSendRequest |-> <<"string", "string">>,
     ChatIncoming |-> <<"string", "string">>, ChatResponse |-> <<"error">>,
     FileUploadRequest |-> <<"string", "string", "string">>, FileUploadResponse |-> <<"error">>,
     FileDownloadRequest |-> <<"string", "string">>, FileDownloadResponse |-> <<"string", "error">>,
     FriendRequest |-> <<"string", "string">>, FriendResponse |-> <<"error">>,
     FriendListRequest |-> <<"string">>,
     FriendListResponse |-> <<"vector<string>", "vector<string>", "error">>,
     DirectMessageRequest |-> <<"string", "string", "string">>,
     DirectMessageIncoming |-> <<"string", "string", "int64">>,
     DirectMessageResponse |-> <<"error">>, ChatListRequest |-> <<"string">>,
     ChatListResponse |-> <<"vector<Entry>", "error">>, HistoryRequest |-> <<"string", "string">>,
     HistoryResponse |-> <<"vector<Entry>", "error">>]

-----------------------------------------------------------------------------
(***************************************************************************)
(* Writing.                                                                *)
(***************************************************************************)

\* The bytes of the uint32_t whose value is v or, if v is not that small, of its low part.
pack_ui32(v) ==
    LET v1 == v \div Radix
        v2 == v1 \div Radix
        v3 == v2 \div Radix
    IN  <<v3 % Radix, v2 % Radix, v1 % Radix, v % Radix>>

\* The high and the low half.  The shifts of pack_i64 write a negative value in two's
\* complement.
pack_i64(v) == pack_ui32(v \div Word) \o pack_ui32(v)

pack(data) == pack_ui32(Len(data)) \o data

\* Serializer of the types without elements.
SerializePlain(kind, v) ==
    CASE kind = "string" -> pack(v)
      [] kind = "int64"  -> pack_i64(v)
      [] kind = "error"  -> pack_ui32(v)

SerializeEntry(v) == pack(v[1]) \o pack(v[2]) \o pack_i64(v[3])

\* Serializer of a field: a vector is its size and its elements, an element that is
\* a struct is packed.
Serialize(kind, v) ==
    CASE kind = "vector<string>" ->
            pack_ui32(Len(v)) \o FlattenSeq([i \in DOMAIN v |-> pack(v[i])])
      [] kind = "vector<Entry>" ->
            pack_ui32(Len(v)) \o FlattenSeq([i \in DOMAIN v |-> pack(SerializeEntry(v[i]))])
      [] OTHER -> SerializePlain(kind, v)

\* Serializable::serialize of a struct with these values.
serialize(struct, vs) ==
    LET kinds == Fields[struct]
    IN  FlattenSeq([i \in DOMAIN kinds |-> Serialize(kinds[i], vs[i])])

-----------------------------------------------------------------------------
(***************************************************************************)
(* Reading.  A reader carries the values read so far and the offset; an    *)
(* exception leaves it failed.                                             *)
(***************************************************************************)

Reading(values, offset) == [values |-> values, offset |-> offset, failed |-> FALSE]
Reader == Reading(<< >>, 0)
Took(rd, n, v) == Reading(Append(rd.values, v), rd.offset + n)
Failed(rd) == [values |-> rd.values, offset |-> rd.offset, failed |-> TRUE]

\* The number that four bytes stand for.
Number(b) == ((b[1] * Radix + b[2]) * Radix + b[3]) * Radix + b[4]

\* A wrong unpack_i64: the value is taken as unsigned.
SignedNot(v) == v

\* The bits of an int64_t as a number.
Signed(v) == IF v >= (Word * Word) \div 2 THEN v - Word * Word ELSE v

\* The n bytes at an offset.  The caller has checked that they are there, but
\* for the size of a vector: what memcpy finds behind the body is `junk`.
At(body, offset, n, junk) ==
    [i \in 1..n |-> IF offset + i <= Len(body) THEN body[offset + i] ELSE junk]

Beyond(rd, body, n) == rd.offset + n > Len(body)

unpack_ui32(rd, body) ==
    IF Beyond(rd, body, 4) THEN Failed(rd) ELSE Took(rd, 4, Number(At(body, rd.offset, 4, 0)))

unpack_i64(rd, body) ==
    LET bytes == At(body, rd.offset, 8, 0)
        bits == Number(bytes) * Word + Number([i \in 1..4 |-> bytes[4 + i]])
    IN  IF Beyond(rd, body, 8) THEN Failed(rd) ELSE Took(rd, 8, Signed(bits))

\* A wrong bounds check: only the length is looked for, the value may be cut short.
TooShortForLength(rd, body) == Beyond(rd, body, 4)

\* The two bounds checks of unpack and unpackBytes.
TooShort(rd, body) ==
    Beyond(rd, body, 4) \/ Beyond(rd, body, 4 + Number(At(body, rd.offset, 4, 0)))

\* The bytes behind a length.
Packed(rd, body) == At(body, rd.offset + 4, Number(At(body, rd.offset, 4, 0)), 0)

unpack(rd, body) ==
    IF TooShort(rd, body) THEN Failed(rd)
    ELSE Took(rd, 4 + Number(At(body, rd.offset, 4, 0)), Packed(rd, body))

DeserializePlain(rd, body, kind) ==
    IF rd.failed THEN rd
    ELSE CASE kind = "string" -> unpack(rd, body)
           [] kind = "int64"  -> unpack_i64(rd, body)
           [] kind = "error"  -> unpack_ui32(rd, body)

\* A struct inside a vector: its bytes, read with a reader of their own.
DeserializeEntry(rd, body) ==
    LET bytes == Packed(rd, body)
        first == DeserializePlain(Reader, bytes, "string")
        second == DeserializePlain(first, bytes, "string")
        third == DeserializePlain(second, bytes, "int64")
    IN  IF rd.failed \/ TooShort(rd, body) THEN Failed(rd)
        ELSE IF third.failed THEN Failed(rd)
        ELSE Took(rd, 4 + Number(At(body, rd.offset, 4, 0)), third.values)

DeserializeElement(rd, body, kind) ==
    IF kind = "vector<string>" THEN DeserializePlain(rd, body, "string")
    ELSE DeserializeEntry(rd, body)

\* Serializer<vector>: the size is read without a check, then so many elements.
DeserializeVector(rd, body, kind, junk) ==
    LET size == Number(At(body, rd.offset, 4, junk))
        upTo[i \in 0..size] ==
            IF i = 0 THEN Reading(<< >>, rd.offset + 4)
            ELSE LET before == upTo[i - 1]
                 IN  IF before.failed THEN before ELSE DeserializeElement(before, body, kind)
    IN  IF rd.failed \/ upTo[size].failed THEN Failed(rd)
        ELSE Took(rd, upTo[size].offset - rd.offset, upTo[size].values)

Deserialize(rd, body, kind, junk) ==
    IF kind \in {"vector<string>", "vector<Entry>"} THEN DeserializeVector(rd, body, kind, junk)
    ELSE DeserializePlain(rd, body, kind)

\* Serializable::deserialize, with the byte that is found behind the body.
deserialize(struct, body, junk) ==
    LET kinds == Fields[struct]
        upTo[i \in 0..Len(kinds)] ==
            IF i = 0 THEN Reader ELSE Deserialize(upTo[i - 1], body, kinds[i], junk)
    IN  upTo[Len(kinds)]

-----------------------------------------------------------------------------
(***************************************************************************)
(* The values that the format can express: those of the types of the       *)
(* fields, with lengths and sizes that are a uint32_t.                     *)
(***************************************************************************)

Byte == 0..(Radix - 1)
Text == {s \in Seq(Byte) : Len(s) < Word}
Int64 == (-((Word * Word) \div 2))..(((Word * Word) \div 2) - 1)
Entries == {v \in Text \X Text \X Int64 : Len(SerializeEntry(v)) < Word}

Values(kind) ==
    CASE kind = "string" -> Text
      [] kind = "int64"  -> Int64
      [] kind = "error"  -> 0..(Word - 1)
      [] kind = "vector<string>" -> {v \in Seq(Text) : Len(v) < Word}
      [] kind = "vector<Entry>"  -> {v \in Seq(Entries) : Len(v) < Word}

\* A value for each field, and a body whose length fits into the header of a packet.
Expressible(struct, vs) ==
    LET kinds == Fields[struct]
    IN  /\ vs = [i \in DOMAIN kinds |-> vs[i]]
        /\ \A i \in DOMAIN kinds : vs[i] \in Values(kinds[i])
        /\ Len(serialize(struct, vs)) < Word

\* No proper prefix of a body that was written is read as a struct: it is refused with
\* an exception, whatever lies behind it in memory when a vector's size is read.
PrefixesRefused(struct, vs) ==
    LET body == serialize(struct, vs)
    IN  \A n \in 0..(Len(body) - 1) : \A junk \in {0, 1} :
            deserialize(struct, SubSeq(body, 1, n), junk).failed
=============================================================================
