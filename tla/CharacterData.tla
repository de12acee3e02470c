--------------------------- MODULE CharacterData ---------------------------
(***************************************************************************)
(* The character data of a Text node (src/unnamed/part_001 55-108): the   *)
(* value is a Go []byte, and SetData, DeleteData, ReplaceData, AppendData *)
(* and InsertData index it by byte.                                        *)
(*                                                                         *)
(* Bytes are abstracted to three: "a" and "b" stand for one-byte runes,   *)
(* "H" and "T" for the lead and continuation byte of the two-byte rune    *)
(* "é".  A byte sequence is read as text the way Go's string conversion   *)
(* reads it: a byte that is not part of a well-formed rune reads as the   *)
(* replacement rune "?".                                                   *)
(***************************************************************************)
EXTENDS Integers, Sequences, SequencesExt

CONSTANTS
    Args,       \* the rune sequences a client passes
    Offsets,    \* the rune offsets a client passes
    Counts,     \* the rune counts a client passes
    InitTexts,  \* the rune sequences a Text node may be created with
    MaxBytes    \* bound on the length of the value

\* value: text.value; ret: the error of the last call ("panic" when the
\* slice expression of the call is out of range); call: the client's last
\* call and its rune inputs, a history variable that changes no behaviour.
VARIABLES value, ret, call

vars == <<value, ret, call>>

Call(op, o, k, arg) == [op |-> op, o |-> o, k |-> k, arg |-> arg]
NoCall == Call("none", 0, 0, <<>>)

\* ---------------------------------------------------------------------
\* UTF-8 over the abstract bytes
\* ---------------------------------------------------------------------

RuneBytes(r) == IF r = "é" THEN <<"H", "T">> ELSE <<r>>

Encode(rs) == FlattenSeq([i \in 1 .. Len(rs) |-> RuneBytes(rs[i])])

\* string(value): decode runes, each ill-formed byte read as "?".
RECURSIVE Decode(_)
Decode(bs) ==
    IF bs = <<>> THEN <<>>
    ELSE IF bs[1] = "H" /\ Len(bs) > 1 /\ bs[2] = "T"
         THEN <<"é">> \o Decode(Tail(Tail(bs)))
         ELSE <<IF bs[1] \in {"H", "T"} THEN "?" ELSE bs[1]>> \o Decode(Tail(bs))

\* The byte offset of rune offset r of value; past the end a client's
\* offset keeps its distance from the end.
ByteOffset(v, r) ==
    LET d == Decode(v) IN
    IF r <= Len(d) THEN Len(Encode(SubSeq(d, 1, r))) ELSE Len(v) + r - Len(d)

ByteCount(v, o, k) ==
    IF k < 0 THEN k ELSE ByteOffset(v, o + k) - ByteOffset(v, o)

\* ---------------------------------------------------------------------
\* The methods of *text, on byte offsets and counts
\* ---------------------------------------------------------------------

Fail == ret' = "IndexSize" /\ UNCHANGED value
Panic == ret' = "panic" /\ UNCHANGED value
Done(v) == value' = v /\ ret' = "ok"

SetData(arg) == Done(arg)

\* Mutant: DeleteData keeping the last byte of the deleted range.
DeleteDataShort(o, k) ==
    IF k < 0 \/ o + k > Len(value) THEN Fail
    ELSE IF o < 0 THEN Panic
    ELSE Done(SubSeq(value, 1, o)
              \o SubSeq(value, o + k + (IF k > 0 THEN 0 ELSE 1), Len(value)))

\* append(t.value[:offset], t.value[offset+count:]...)
DeleteData(o, k) ==
    IF k < 0 \/ o + k > Len(value) THEN Fail
    ELSE IF o < 0 THEN Panic
    ELSE Done(SubSeq(value, 1, o) \o SubSeq(value, o + k + 1, Len(value)))

\* copy(t.value[offset:], arg[:count]): count bytes of arg overwrite the
\* value at offset; the rest of arg is dropped.
ReplaceData(o, k, arg) ==
    IF k < 0 \/ o + k > Len(value) \/ Len(arg) < k THEN Fail
    ELSE IF o < 0 THEN Panic
    ELSE Done([i \in 1 .. Len(value) |->
                 IF o < i /\ i <= o + k THEN arg[i - o] ELSE value[i]])

AppendData(arg) == Done(value \o arg)

\* Mutant: InsertData that also accepts the end of the value.
InsertDataAtEnd(o, arg) ==
    IF o >= 0 /\ o <= Len(value)
    THEN Done(SubSeq(value, 1, o) \o arg \o SubSeq(value, o + 1, Len(value)))
    ELSE Fail

InsertData(o, arg) ==
    IF o >= 0 /\ o < Len(value)
    THEN Done(SubSeq(value, 1, o) \o arg \o SubSeq(value, o + 1, Len(value)))
    ELSE Fail

\* ---------------------------------------------------------------------
\* Clients
\* ---------------------------------------------------------------------

Init == value \in {Encode(t) : t \in InitTexts} /\ ret = "ok" /\ call = NoCall

\* A client that follows the interface comments: it counts in runes, here
\* turned into the byte offsets of the same runes, and gives ReplaceData a
\* replacement as long as the replaced runes, in runes and in bytes.
ClientNext ==
    /\ \/ \E arg \in Args :
             SetData(Encode(arg)) /\ call' = Call("SetData", 0, 0, arg)
       \/ \E arg \in Args :
             AppendData(Encode(arg)) /\ call' = Call("AppendData", 0, 0, arg)
       \/ \E o \in Offsets, arg \in Args :
             /\ InsertData(ByteOffset(value, o), Encode(arg))
             /\ call' = Call("InsertData", o, 0, arg)
       \/ \E o \in Offsets, k \in Counts :
             /\ DeleteData(ByteOffset(value, o), ByteCount(value, o, k))
             /\ call' = Call("DeleteData", o, k, <<>>)
       \/ \E o \in Offsets, k \in Counts, arg \in Args :
             /\ Len(arg) = k /\ Len(Encode(arg)) = ByteCount(value, o, k)
             /\ ReplaceData(ByteOffset(value, o), ByteCount(value, o, k), Encode(arg))
             /\ call' = Call("ReplaceData", o, k, arg)
    /\ Len(value') <= MaxBytes

Spec == Init /\ [][ClientNext]_vars

\* The same client, with ReplaceData given a replacement of count runes
\* whose bytes differ in number from the replaced runes'.
ReplaceAnyNext ==
    \E arg \in Args, o \in Offsets, k \in Counts :
       /\ Len(arg) = k
       /\ ReplaceData(ByteOffset(value, o), ByteCount(value, o, k), Encode(arg))
       /\ call' = Call("ReplaceData", o, k, arg)

SpecReplaceAny == Init /\ [][ClientNext \/ ReplaceAnyNext]_vars

\* ---------------------------------------------------------------------
\* Properties
\* ---------------------------------------------------------------------

\* The value is well-formed UTF-8: every lead byte is followed by a
\* continuation byte and every continuation byte follows a lead byte, so
\* Data() returns the runes the calls put in.
ValidUTF8 ==
    \A i \in 1 .. Len(value) :
       /\ value[i] = "H" => i < Len(value) /\ value[i + 1] = "T"
       /\ value[i] = "T" => i > 1 /\ value[i - 1] = "H"

\* The byte-level methods implement the rune-level CharacterData of the
\* spec: reading the value as a string, every call of the client is a call
\* of AbstractText with the same rune offsets, count and argument.
Abstract == INSTANCE AbstractText WITH text <- Decode(value)

Refinement == Abstract!Spec
=============================================================================
