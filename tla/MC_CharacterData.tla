-------------------------- MODULE MC_CharacterData --------------------------
(* Small alphabets and offsets for CharacterData.                         *)
EXTENDS CharacterData

\* no runes, a one-byte rune, a two-byte rune
MCArgs == {<<>>, <<"b">>, <<"é">>}

\* rune offsets up to one past the longest text of MCMaxBytes bytes
MCOffsets == 0 .. 3

\* a negative count, nothing, one and two runes
MCCounts == -1 .. 2

\* a text holding a one-byte and a two-byte rune
MCInitTexts == {<<"a", "é">>}

MCMaxBytes == 5
=============================================================================
