------------------------------ MODULE TxParser ------------------------------
(***************************************************************************)
(* The serialization of a transaction (transaction/serialize.c) and its    *)
(* parser (transaction/deserialize.c), one step per field: nonce, address, *)
(* value, length of the memo as a varint, memo.  A word is WordLen bytes,  *)
(* the first one most significant; a varint has its last byte most         *)
(* significant.                                                            *)
(***************************************************************************)
EXTENDS Integers, SequencesExt

CONSTANTS
    ByteMod,       \* 256
    WordLen,       \* 8, the bytes of a uint64_t
    AddressLen,    \* ADDRESS_LEN
    Prefix,        \* 0xFD, the first byte that is not itself a length
    Widths,        \* <<2, 4, 8>>, bytes of the length after 0xFD, 0xFE, 0xFF
    MaxTxLen,      \* MAX_TX_LEN
    MaxMemoLen,    \* MAX_MEMO_LEN
    AsciiMod,      \* 0x80
    SizeMod,       \* 2^32: a size_t of the device, where lengths have 64 bits
    Inputs,        \* buffers received
    Transactions,  \* transactions a client serializes
    Nothing        \* no transaction

Bytes == 0 .. ByteMod - 1

-----------------------------------------------------------------------------
(* Numbers and bytes.                                                      *)

\* The number n with the bytes b after it, one by one.
Appended(n, b) ==
    LET v[k \in 0 .. Len(b)] == IF k = 0 THEN n ELSE v[k - 1] * ByteMod + b[k]
    IN  v[Len(b)]

\* The least number that does not fit in w bytes: one, and w zeros.
Power(w) == Appended(1, [k \in 1 .. w |-> 0])

BigEndian(b) == Appended(0, b)
LittleEndian(b) == BigEndian(Reverse(b))
BigEndianBytes(n, w) == [k \in 1 .. w |-> (n \div Power(w - k)) % ByteMod]
LittleEndianBytes(n, w) == Reverse(BigEndianBytes(n, w))

ASSUME TxAssumption ==
    /\ \A n \in {Prefix, WordLen, AddressLen, MaxTxLen, MaxMemoLen, SizeMod} : n \in Nat
    /\ ByteMod = Prefix + 3 /\ AsciiMod \in Bytes
    /\ MaxTxLen < SizeMod
    /\ Widths \in [1 .. 3 -> Nat \ {0}] /\ Widths[1] < Widths[2] /\ Widths[2] < Widths[3]
    /\ Inputs \subseteq Seq(Bytes)
    /\ Transactions \subseteq
           [nonce : 0 .. Power(WordLen) - 1, to : [1 .. AddressLen -> Bytes],
            value : 0 .. Power(WordLen) - 1,
            memo  : {m \in Seq(Bytes) : Len(m) < Power(Widths[3])}]

\* varint_write: the length itself, or the shortest of the three longer forms.
LongVarint(n) ==
    LET f == CHOOSE f \in 1 .. 3 :
                /\ n < Power(Widths[f])
                /\ \A g \in 1 .. f - 1 : n >= Power(Widths[g])
    IN  <<Prefix + f - 1>> \o LittleEndianBytes(n, Widths[f])

VarintBytes(n) == IF n < Prefix THEN <<n>> ELSE LongVarint(n)

\* What transaction_serialize writes; its refusals, of a buffer too short and of
\* a varint it cannot write, are left out.
Serialize(t) ==
    BigEndianBytes(t.nonce, WordLen) \o t.to \o BigEndianBytes(t.value, WordLen)
        \o VarintBytes(Len(t.memo)) \o t.memo

-----------------------------------------------------------------------------
VARIABLES
    buf,        \* the buffer to parse
    sent,       \* the transaction it is the serialization of, if any
    offset,     \* buf->offset
    field,      \* the next field, or the status that is returned
    nonce, to, value, memo_len, memo,   \* of the transaction_t; to, memo point into buf
    lengthRead  \* a length of the memo was in the buffer (a history)

tx == <<nonce, to, value, memo_len, memo>>
vars == <<buf, sent, offset, field, tx, lengthRead>>

Fields == {"size", "nonce", "to", "value", "memo_len", "memo", "encoding", "end"}

Statuses == {"ok", "nonceError", "toError", "valueError", "memoLengthError", "memoError",
             "encodingError", "lengthError"}

TypeOK ==
    /\ buf \in Seq(Bytes)
    /\ sent \in Transactions \cup {Nothing}
    /\ offset \in 0 .. Len(buf)
    /\ field \in Fields \cup Statuses
    /\ nonce \in Nat /\ value \in Nat /\ memo_len \in Nat
    /\ to \in 0 .. Len(buf) /\ memo \in 0 .. Len(buf)
    /\ lengthRead \in BOOLEAN

Parsing(b) ==
    /\ buf = b
    /\ offset = 0 /\ field = "size"
    /\ nonce = 0 /\ to = 0 /\ value = 0 /\ memo_len = 0 /\ memo = 0
    /\ lengthRead = FALSE

Init ==
    \/ \E b \in Inputs : Parsing(b) /\ sent = Nothing
    \/ \E t \in Transactions : Parsing(Serialize(t)) /\ sent = t

-----------------------------------------------------------------------------
(* Readers of the SDK.                                                     *)

CanRead(n) == Len(buf) - offset >= n
Ahead(n) == SubSeq(buf, offset + 1, offset + n)

\* varint_read: the bytes of the varint ahead, any of the four forms being taken.
VarintSize ==
    IF Ahead(1)[1] < Prefix THEN 1 ELSE 1 + Widths[Ahead(1)[1] - Prefix + 1]
CanReadVarint == CanRead(1) /\ CanRead(VarintSize)

\* Mutant: the longer forms are read from the most significant byte.
VarintBigEndian ==
    IF VarintSize = 1 THEN Ahead(1)[1] ELSE BigEndian(Tail(Ahead(VarintSize)))

Varint == IF VarintSize = 1 THEN Ahead(1)[1] ELSE LittleEndian(Tail(Ahead(VarintSize)))

-----------------------------------------------------------------------------
(* transaction_deserialize.                                                *)

Go(n, next) == offset' = offset + n /\ field' = next /\ UNCHANGED <<buf, sent>>

\* A field of n bytes, or the status that says it is not there.
Read(f, n, next, error) ==
    /\ field = f
    /\ IF CanRead(n) THEN Go(n, next) ELSE Go(0, error)
    /\ UNCHANGED lengthRead

\* A test on what was read.
Test(f, passed, next, error) ==
    /\ field = f
    /\ Go(0, IF passed THEN next ELSE error)
    /\ UNCHANGED <<tx, lengthRead>>

CheckSize == Test("size", Len(buf) <= MaxTxLen, "nonce", "lengthError")

\* buffer_read_u64: zero when the bytes are not there.
Word == IF CanRead(WordLen) THEN BigEndian(Ahead(WordLen)) ELSE 0

ReadNonce ==
    /\ Read("nonce", WordLen, "to", "nonceError")
    /\ nonce' = Word
    /\ UNCHANGED <<to, value, memo_len, memo>>

\* Mutant: the address is skipped without looking whether it is there.
SkipToUnchecked ==
    /\ field = "to"
    /\ Go(AddressLen, "value")
    /\ to' = offset
    /\ UNCHANGED <<nonce, value, memo_len, memo, lengthRead>>

SkipTo ==
    /\ Read("to", AddressLen, "value", "toError")
    /\ to' = offset
    /\ UNCHANGED <<nonce, value, memo_len, memo>>

ReadValue ==
    /\ Read("value", WordLen, "memo_len", "valueError")
    /\ value' = Word
    /\ UNCHANGED <<nonce, to, memo_len, memo>>

\* buffer_read_varint gives zero when it fails; an error needs both a failure
\* and a length over the limit.
ReadMemoLen ==
    /\ field = "memo_len"
    /\ lengthRead' = CanReadVarint
    /\ memo_len' = (IF CanReadVarint THEN Varint ELSE 0)
    /\ Go(IF CanReadVarint THEN VarintSize ELSE 0,
          IF ~lengthRead' /\ memo_len' > MaxMemoLen THEN "memoLengthError" ELSE "memo")
    /\ UNCHANGED <<nonce, to, value, memo>>

\* buffer_seek_cur takes a size_t.
SkipMemo ==
    /\ Read("memo", memo_len % SizeMod, "encoding", "memoError")
    /\ memo' = offset
    /\ UNCHANGED <<nonce, to, value, memo_len>>

MemoBytes == SubSeq(buf, memo + 1, memo + memo_len)

IsAscii(b) == \A k \in DOMAIN b : b[k] < AsciiMod

\* transaction_utils_check_encoding, over memo_len bytes.  Those past the buffer
\* are other memory: either answer.
EncodingIsRight ==
    IF memo + memo_len <= Len(buf) THEN {IsAscii(MemoBytes)} ELSE BOOLEAN

CheckEncoding ==
    \E right \in EncodingIsRight : Test("encoding", right, "end", "encodingError")

\* Mutant: bytes after the memo are accepted.
EndAnyway == Test("end", TRUE, "ok", "lengthError")

End == Test("end", offset = Len(buf), "ok", "lengthError")

Next ==
    \/ CheckSize \/ ReadNonce \/ SkipTo \/ ReadValue
    \/ ReadMemoLen \/ SkipMemo \/ CheckEncoding \/ End

Spec == Init /\ [][Next]_vars

-----------------------------------------------------------------------------
(* Properties.                                                             *)

Parsed == [nonce |-> nonce, to |-> SubSeq(buf, to + 1, to + AddressLen), value |-> value,
           memo  |-> MemoBytes]

\* A transaction that a client serializes is parsed to its own fields when it is
\* short enough and its memo is ASCII, and refused otherwise.
RoundTrip ==
    sent # Nothing /\ field \in Statuses =>
        /\ (field = "ok") <=>
                Len(buf) <= MaxTxLen /\ \A k \in DOMAIN sent.memo : sent.memo[k] < AsciiMod
        /\ field = "ok" => Parsed = sent

\* What is accepted with a length that was read, and that a size_t holds, ends
\* with its memo, in ASCII; it is the serialization of what was parsed, unless
\* its length is written in a longer form than it needs.
AcceptedIsExact ==
    field = "ok" /\ lengthRead /\ memo_len < SizeMod =>
        /\ memo + memo_len = Len(buf)
        /\ \A k \in memo + 1 .. Len(buf) : buf[k] < AsciiMod
        /\ Serialize(Parsed) = buf \/ Len(Serialize(Parsed)) < Len(buf)

\* An accepted transaction has the field memo_len, of "1-9" bytes.
\* Not so: README, section 5.
LengthIsPresent == field = "ok" => lengthRead

\* An accepted memo, of a length that a size_t holds, is of at most MAX_MEMO_LEN
\* bytes, "510 - ADDRESS_LEN - 2*SIZE(U64) - SIZE(MAX_VARINT)".
\* Not so: README, section 5.
MemoIsBounded == field = "ok" /\ memo_len < SizeMod => memo_len <= MaxMemoLen

=============================================================================
