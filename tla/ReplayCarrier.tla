--------------------------- MODULE ReplayCarrier ---------------------------
(***************************************************************************)
(* The binary carrier of the replay plane (storage.ts): requests, outcomes *)
(* and terminals are kept as the hexadecimal text of one carried value,    *)
(* history entries and witnesses as the bytes of one, under a prefix that  *)
(* says which of the two they are.                                         *)
(*                                                                         *)
(* A byte is one of Base; numbers of several bytes have a width.  A text   *)
(* is a sequence of UTF-16 units: those below LeadByte take one byte, a    *)
(* byte order mark and the replacement character take two, and a lone      *)
(* surrogate has no encoding of its own.                                   *)
(***************************************************************************)
EXTENDS Naturals, SequencesExt, TLC

CONSTANTS Base,         \* values of a byte, a square of HexBase
          HexBase,
          CountWidth,   \* bytes of a count: 4
          FloatWidth,   \* bytes of a number: 8
          Carried,      \* values a program hands over
          Uncarried     \* nothing is handed over

ASSUME CarrierAssumption ==
    /\ HexBase \in Nat \ {0, 1, 2} /\ Base = HexBase * HexBase
    /\ CountWidth \in Nat \ {0} /\ FloatWidth \in Nat \ {0}

VARIABLE carried    \* the value that is handed over

LeadByte == Base - 3                \* the first of two bytes, followed by
MarkByte == Base - 2                \* this one, or by the last there is
Lone     == Base                    \* the units in the order `<` compares them
Mark     == Base + 1
Replaced == Base + 2

Value(is, text, items) == [is |-> is, text |-> text, items |-> items]
Plain(is)    == Value(is, <<>>, <<>>)
Item(key, v) == [key |-> key, value |-> v]

\* The tag each kind of value is written under.
Tags == <<"null", "false", "true", "number", "string", "array", "bytes", "bigint", "object">>
TagOf(is) == (CHOOSE t \in DOMAIN Tags : Tags[t] = is) - 1

Kinds == [history |-> 1, witness |-> 2]
CarrierMagic == <<4, 6, 1>>

-----------------------------------------------------------------------------
(* The writer.                                                             *)

Digits(n, width) == [i \in 1..width |-> (n \div Base ^ (width - i)) % Base]
MaxCount == Base ^ CountWidth - 1

Utf8(text) ==
    FlattenSeq([i \in DOMAIN text |->
        CASE text[i] < LeadByte -> <<text[i]>>
          [] text[i] = Mark     -> <<LeadByte, MarkByte>>
          [] OTHER              -> <<LeadByte, Base - 1>>])

\* Seeded fault: a text is framed by its length and not by that of its bytes.
FramedText(text) == Digits(Len(text), CountWidth) \o Utf8(text)

Framed(bytes) == Digits(Len(bytes), CountWidth) \o bytes

WriteString(text) == Framed(Utf8(text))

Before(s, t) ==
    \/ \E i \in DOMAIN s \cap DOMAIN t : SubSeq(s, 1, i - 1) = SubSeq(t, 1, i - 1) /\ s[i] < t[i]
    \/ Len(s) < Len(t) /\ s = SubSeq(t, 1, Len(s))

\* The entries of an object are written in the order of their keys.
Sorted(items) == SortSeq(items, LAMBDA a, b : Before(a.key, b.key))

\* What the writer refuses, wherever in the value it stands: numbers that are
\* not finite, what is none of the kinds, and lengths that fit no count.
RECURSIVE Writable(_)
Writable(v) ==
    /\ v.is \in Range(Tags)
    /\ v.is \in {"string", "bigint"} => Len(Utf8(v.text)) <= MaxCount
    /\ v.is = "bytes" => Len(v.text) <= MaxCount
    /\ Len(v.items) <= MaxCount
    /\ \A k \in DOMAIN v.items : /\ Len(Utf8(v.items[k].key)) <= MaxCount
                                 /\ Writable(v.items[k].value)

RECURSIVE WriteValue(_)
WriteValue(v) ==
    LET each(items, keyed) ==
            FlattenSeq([k \in DOMAIN items |->
                (IF keyed THEN WriteString(items[k].key) ELSE <<>>) \o WriteValue(items[k].value)])
        count == Digits(Len(v.items), CountWidth)
    IN  <<TagOf(v.is)>> \o
        CASE v.is = "number" -> Digits(v.text[1], FloatWidth)
          [] v.is \in {"string", "bigint"} -> WriteString(v.text)
          [] v.is = "bytes"  -> Framed(v.text)
          [] v.is = "array"  -> count \o each(v.items, FALSE)
          [] v.is = "object" -> count \o each(Sorted(v.items), TRUE)
          [] OTHER -> <<>>

-----------------------------------------------------------------------------
(* The reader, from an offset; a read that throws ends nowhere.            *)

Thrown(got) == [got |-> got, next |-> 0]
Got(got, next) == [got |-> got, next |-> next]
Threw(read) == read.next = 0

Number(digits) == FoldLeft(LAMBDA n, digit : n * Base + digit, 0, digits)

ReadRaw(bytes, at, length) ==
    IF at + length - 1 > Len(bytes) THEN Thrown(<<>>)
    ELSE Got(SubSeq(bytes, at, at + length - 1), at + length)

ReadCount(bytes, at) ==
    LET raw == ReadRaw(bytes, at, CountWidth)
    IN  IF Threw(raw) THEN Thrown(0) ELSE Got(Number(raw.got), raw.next)

ReadFramed(bytes, at) ==
    LET count == ReadCount(bytes, at)
    IN  IF Threw(count) THEN Thrown(<<>>) ELSE ReadRaw(bytes, count.next, count.got)

\* The fatal decoder throws on what is no UTF-8, and takes a mark at the
\* beginning of a text for a sign of the encoding.
IsUtf8(bytes) ==
    \A i \in DOMAIN bytes :
        /\ bytes[i] = LeadByte => i < Len(bytes) /\ bytes[i + 1] > LeadByte
        /\ bytes[i] > LeadByte => i > 1 /\ bytes[i - 1] = LeadByte

Units(bytes) ==
    FlattenSeq([i \in DOMAIN bytes |->
        CASE bytes[i] < LeadByte -> <<bytes[i]>>
          [] bytes[i] = LeadByte -> <<>>
          [] OTHER -> <<IF bytes[i] = MarkByte THEN Mark ELSE Replaced>>])

WithoutMark(text) == IF text # <<>> /\ Head(text) = Mark THEN Tail(text) ELSE text

ReadString(bytes, at) ==
    LET framed == ReadFramed(bytes, at)
    IN  IF Threw(framed) \/ ~IsUtf8(framed.got) THEN Thrown(<<>>)
        ELSE Got(WithoutMark(Units(framed.got)), framed.next)

\* A key that is read again defines its entry again, in the place it had.
Define(items, item) ==
    IF \E k \in DOMAIN items : items[k].key = item.key
    THEN [k \in DOMAIN items |-> IF items[k].key = item.key THEN item ELSE items[k]]
    ELSE Append(items, item)

ReadNumber(bytes, at) ==
    LET raw == ReadRaw(bytes, at, FloatWidth)
    IN  IF Threw(raw) THEN raw ELSE Got(<<Number(raw.got)>>, raw.next)

ReadText(is, bytes, at) ==
    LET read == CASE is = "number" -> ReadNumber(bytes, at)
                  [] is = "bytes"  -> ReadFramed(bytes, at)
                  [] OTHER         -> ReadString(bytes, at)
    IN  IF Threw(read) THEN Thrown(Plain("null")) ELSE Got(Value(is, read.got, <<>>), read.next)

RECURSIVE ReadValue(_, _), ReadItems(_, _, _, _)

TakeItem(bytes, key, value, left, items) ==
    IF Threw(value) THEN Thrown(Plain("null"))
    ELSE ReadItems(bytes, value.next, left - 1,
            [items EXCEPT !.items =
                IF items.is = "array" THEN Append(@, Item(key, value.got))
                ELSE Define(@, Item(key, value.got))])

TakeValue(bytes, key, left, items) ==
    IF Threw(key) THEN Thrown(Plain("null"))
    ELSE TakeItem(bytes, key.got, ReadValue(bytes, key.next), left, items)

ReadItems(bytes, at, left, items) ==
    IF left = 0 THEN Got(items, at)
    ELSE TakeValue(bytes, IF items.is = "array" THEN Got(<<>>, at) ELSE ReadString(bytes, at),
                   left, items)

ReadValue(bytes, at) ==
    LET is    == IF at > Len(bytes) \/ bytes[at] >= Len(Tags) THEN "none" ELSE Tags[bytes[at] + 1]
        count == ReadCount(bytes, at + 1)
    IN  CASE is = "none"   -> Thrown(Plain("null"))
          [] is \in {"number", "string", "bytes", "bigint"} -> ReadText(is, bytes, at + 1)
          [] is \in {"array", "object"} ->
             IF Threw(count) THEN Thrown(Plain("null"))
             ELSE ReadItems(bytes, count.next, count.got, Plain(is))
          [] OTHER -> Got(Plain(is), at + 1)

\* A value, and nothing after it.
ReadWhole(bytes, at) ==
    LET read == ReadValue(bytes, at)
    IN  IF read.next = Len(bytes) + 1 THEN read ELSE Thrown(Plain("null"))

-----------------------------------------------------------------------------
(* Stored values, and the carriers of histories and witnesses.             *)

EncodeHex(bytes) ==
    FlattenSeq([i \in DOMAIN bytes |-> <<bytes[i] \div HexBase, bytes[i] % HexBase>>])

DecodeHex(digits) ==
    [i \in 1..(Len(digits) \div 2) |-> digits[2 * i - 1] * HexBase + digits[2 * i]]

EncodeStoredValue(v) == EncodeHex(WriteValue(v))

DecodeStoredValue(digits) ==
    IF Len(digits) % 2 # 0 THEN Thrown(Plain("null")) ELSE ReadWhole(DecodeHex(digits), 1)

EncodeCarrier(kind, v) == CarrierMagic \o <<Kinds[kind]>> \o WriteValue(v)

DecodeCarrier(kind, bytes) ==
    IF IsPrefix(CarrierMagic \o <<Kinds[kind]>>, bytes)
    THEN ReadWhole(bytes, Len(CarrierMagic) + 2) ELSE Thrown(Plain("null"))

-----------------------------------------------------------------------------
(* Each value is carried by itself, before a session stores others.        *)

CarryInit == carried \in Carried
Carry     == carried # Uncarried /\ carried' = Uncarried

\* What becomes of the units no byte stands for.
Spelt(text) == [i \in DOMAIN text |-> IF text[i] = Lone THEN Replaced ELSE text[i]]

RECURSIVE Spelled(_), Kept(_), SameValue(_, _)
Spelled(v) ==
    [v EXCEPT !.text = IF v.is = "string" THEN Spelt(@) ELSE @,
              !.items = [k \in DOMAIN @ |-> Item(Spelt(@[k].key), Spelled(@[k].value))]]

KeptText(text) == WithoutMark(Spelt(text))

\* Of the entries that come back under one key, the last that was written.
Kept(v) ==
    LET last(k) == \A j \in DOMAIN v.items :
            v.is = "object" /\ KeptText(v.items[j].key) = KeptText(v.items[k].key)
                => ~Before(v.items[k].key, v.items[j].key)
        kept == SelectSeq([k \in DOMAIN v.items |-> k], last)
    IN  Value(v.is, IF v.is = "string" THEN KeptText(v.text) ELSE v.text,
              [k \in DOMAIN kept |-> Item(KeptText(v.items[kept[k]].key),
                                          Kept(v.items[kept[k]].value))])

\* Equal, whatever the order of the entries of an object.
SameValue(v, w) ==
    /\ v.is = w.is /\ v.text = w.text /\ Len(v.items) = Len(w.items)
    /\ \A k \in DOMAIN v.items : \E j \in DOMAIN w.items :
          /\ v.items[k].key = w.items[j].key /\ SameValue(v.items[k].value, w.items[j].value)
          /\ v.is = "array" => j = k

(***************************************************************************)
(* What the carrier takes it gives back: the value that was written, but   *)
(* for lone surrogates and a mark at the beginning of a text; a text with  *)
(* a digit or a byte too few or too many, or of the other kind, is         *)
(* refused.  And the text of a request stands for it: two values have one  *)
(* text only if they differ in lone surrogates at most, and have one       *)
(* whatever the order their entries were made in.                          *)
(***************************************************************************)
CarrierExact == carried # Uncarried /\ Writable(carried) => 
    LET text   == EncodeStoredValue(carried)
        bytes  == EncodeCarrier("history", carried)
        spoilt == {SubSeq(text, 1, k) : k \in 0..(Len(text) - 1)}
                  \cup {text \o <<digit>> : digit \in 0..(HexBase - 1)}
                  \cup {text \o <<digit, 0>> : digit \in 0..(HexBase - 1)}
        alien  == {<<"witness", bytes>>}
                  \cup {<<"history", SubSeq(bytes, 1, k)>> : k \in 0..(Len(bytes) - 1)}
    IN  /\ \A back \in {DecodeStoredValue(text)} :
              ~Threw(back) /\ SameValue(back.got, Kept(carried))
              /\ DecodeCarrier("history", bytes).got = back.got
        /\ \A other \in spoilt : Threw(DecodeStoredValue(other))
        /\ \A other \in alien : Threw(DecodeCarrier(other[1], other[2]))
        /\ \A other \in Carried : other # Uncarried /\ Writable(other) =>
              /\ SameValue(carried, other) => EncodeStoredValue(other) = text
              /\ EncodeStoredValue(other) = text => SameValue(Spelled(carried), Spelled(other))

=============================================================================
