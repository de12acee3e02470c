---------------------------- MODULE AbstractText ----------------------------
(***************************************************************************)
(* What CharacterData promises (spec.md 3 and the interface comments of  *)
(* src/unnamed/part_001): the data is a sequence of runes, offsets and    *)
(* counts are in runes.  InsertData needs 0 <= offset < length;            *)
(* DeleteData and ReplaceData need count >= 0 and offset + count <=        *)
(* length; ReplaceData takes a replacement of exactly count runes.  A     *)
(* call outside these bounds fails with IndexSize and changes nothing.    *)
(***************************************************************************)
EXTENDS Integers, Sequences

CONSTANTS
    Args,     \* the rune sequences a client passes
    Offsets,  \* the offsets a client passes
    Counts    \* the counts a client passes

\* call records the operation and the inputs of the last call, so that a
\* step of an implementation is matched with the same operation here.
VARIABLES text, ret, call

vars == <<text, ret, call>>

Call(op, o, k, arg) == [op |-> op, o |-> o, k |-> k, arg |-> arg]
NoCall == Call("none", 0, 0, <<>>)

Fail == ret' = "IndexSize" /\ UNCHANGED text
Done(t) == text' = t /\ ret' = "ok"

\* text with runes o+1 .. o+k left out
Cut(t, o, k) == SubSeq(t, 1, o) \o SubSeq(t, o + k + 1, Len(t))

SetData(arg) == Done(arg)

AppendData(arg) == Done(text \o arg)

InsertData(o, arg) ==
    IF 0 <= o /\ o < Len(text)
    THEN Done(SubSeq(text, 1, o) \o arg \o SubSeq(text, o + 1, Len(text)))
    ELSE Fail

DeleteData(o, k) ==
    IF k < 0 \/ o < 0 \/ o + k > Len(text) THEN Fail ELSE Done(Cut(text, o, k))

ReplaceData(o, k, arg) ==
    IF k < 0 \/ o < 0 \/ o + k > Len(text) \/ Len(arg) # k
    THEN Fail
    ELSE Done(SubSeq(text, 1, o) \o arg \o SubSeq(text, o + k + 1, Len(text)))

Init == ret = "ok" /\ call = NoCall

Next ==
    \/ \E arg \in Args : SetData(arg) /\ call' = Call("SetData", 0, 0, arg)
    \/ \E arg \in Args : AppendData(arg) /\ call' = Call("AppendData", 0, 0, arg)
    \/ \E o \in Offsets, arg \in Args :
          InsertData(o, arg) /\ call' = Call("InsertData", o, 0, arg)
    \/ \E o \in Offsets, k \in Counts :
          DeleteData(o, k) /\ call' = Call("DeleteData", o, k, <<>>)
    \/ \E o \in Offsets, k \in Counts, arg \in Args :
          ReplaceData(o, k, arg) /\ call' = Call("ReplaceData", o, k, arg)

Spec == Init /\ [][Next]_vars
=============================================================================
