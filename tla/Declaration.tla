---------------------------- MODULE Declaration ----------------------------
(***************************************************************************)
(* The parsing of an XML declaration's instruction text                   *)
(* (src/dom/declaration.go): kvPairs splits the text into whitespace-      *)
(* separated fields and returns, for each field of the form                *)
(* key="value" or key='value', the key followed by the value.  A text is   *)
(* a sequence of one-character strings; Go's 0-based slice indexes are     *)
(* shifted to TLA+'s 1-based ones.                                         *)
(***************************************************************************)
EXTENDS Naturals, Sequences, SequencesExt

\* unicode.IsSpace over the bytes of the texts, and the two quote characters.
Space == {" ", "\t", "\n"}
Quotes == {"\"", "'"}

\* bytes.Fields: the maximal runs of non-space bytes, in order.
RECURSIVE FieldsFrom(_, _)
FieldsFrom(s, cur) ==
    LET done == IF cur = <<>> THEN <<>> ELSE <<cur>> IN
    IF s = <<>> THEN done
    ELSE IF Head(s) \in Space THEN done \o FieldsFrom(Tail(s), <<>>)
    ELSE FieldsFrom(Tail(s), Append(cur, Head(s)))

Fields(s) == FieldsFrom(s, <<>>)

\* bytes.IndexRune: the 0-based index of the first c in s, or -1.
IndexRune(s, c) ==
    LET at == {i \in 1 .. Len(s) : s[i] = c} IN
    IF at = {} THEN -1 ELSE Min(at) - 1

\* Mutant: the value taken as v[1:idx], one byte short.
FieldPairShort(field) ==
    LET idx == IndexRune(field, "=")
        k == SubSeq(field, 1, idx)
        v == SubSeq(field, idx + 2, Len(field))
        q == IndexRune(Tail(v), v[1])
    IN IF idx = -1 \/ Len(v) = 0 \/ v[1] \notin Quotes \/ q = -1 THEN <<>>
       ELSE <<k, SubSeq(v, 2, q)>>

\* One turn of kvPairs' loop (declaration.go 45-53): k is field[:idx] and
\* v field[idx+1:]; a field with no "=", an empty v, a v that does not
\* start with a quote, or no second quote adds nothing; otherwise the pair
\* is k and v[1:idx+1], the bytes between the quotes.
FieldPair(field) ==
    LET idx == IndexRune(field, "=")
        k == SubSeq(field, 1, idx)
        v == SubSeq(field, idx + 2, Len(field))
        q == IndexRune(Tail(v), v[1])
    IN IF idx = -1 \/ Len(v) = 0 \/ v[1] \notin Quotes \/ q = -1 THEN <<>>
       ELSE <<k, SubSeq(v, 2, q + 1)>>

\* kvPairs: key, value, key, value, ... in field order.
kvPairs(input) ==
    LET fs == Fields(input) IN
    FlattenSeq([i \in 1 .. Len(fs) |-> FieldPair(fs[i])])

\* ---------------------------------------------------------------------
\* The reference: spec 4.2's description, stated by decomposing the text
\* rather than by scanning it.
\* ---------------------------------------------------------------------

\* A field starts at a non-space byte after a space or at the start, and
\* ends at a non-space byte before a space or at the end.
RefFields(s) ==
    LET idx == [i \in 1 .. Len(s) |-> i]
        starts == SelectSeq(idx, LAMBDA i : s[i] \notin Space
                                   /\ (i = 1 \/ s[i - 1] \in Space))
        ends == SelectSeq(idx, LAMBDA i : s[i] \notin Space
                                 /\ (i = Len(s) \/ s[i + 1] \in Space))
    IN [j \in 1 .. Len(starts) |-> SubSeq(s, starts[j], ends[j])]

\* f = k \o "=" \o q \o v \o q \o rest, where k holds no "=" and v no q:
\* the positions of that "=" and of the closing quote.
Splits(f) ==
    {ij \in (1 .. Len(f)) \X (1 .. Len(f)) :
        LET i == ij[1]  j == ij[2] IN
        /\ f[i] = "=" /\ \A m \in 1 .. i - 1 : f[m] # "="
        /\ i + 2 <= j /\ f[i + 1] \in Quotes /\ f[j] = f[i + 1]
        /\ \A m \in i + 2 .. j - 1 : f[m] # f[i + 1]}

RefPair(f) ==
    IF Splits(f) = {} THEN <<>>
    ELSE LET ij == CHOOSE x \in Splits(f) : TRUE
         IN <<SubSeq(f, 1, ij[1] - 1), SubSeq(f, ij[1] + 2, ij[2] - 1)>>

RefPairs(s) ==
    LET fs == RefFields(s) IN
    FlattenSeq([i \in 1 .. Len(fs) |-> RefPair(fs[i])])
=============================================================================
