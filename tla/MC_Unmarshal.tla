---------------------------- MODULE MC_Unmarshal ----------------------------
(* A Document root, four Element nodes and four Text nodes for the Builder *)
(* to create, and a Comment, a Declaration, a ProcInst and two attribute   *)
(* nodes for the one comment or instruction an input holds; names a and b, *)
(* texts t (no surrounding space) and w (whitespace only).  The one        *)
(* instruction texts are v: k='k' ="" k (two pairs, one with an empty    *)
(* key, and a field with no "="); u: k="'" k'= (a quote of the other kind *)
(* in a value, and an "=" with nothing after it); q: k'=''' =k ='k (a key *)
(* holding a quote, a quote after the closing one, a value that does not *)
(* start with a quote, and an unmatched quote).                           *)
(* The JSON documents: objects of up to two members    *)
(* whose values are a scalar, an object of one member or of none, or an   *)
(* array of up to two scalars or empty objects or an array nested in an    *)
(* array; top-level arrays of up to two scalars (of objects too, for the  *)
(* run that shows how the decoder loses them); a top-level string; and     *)
(* the input "null".  Four elements and four texts are enough for each.    *)
EXTENDS Unmarshal

CONSTANTS d, e1, e2, e3, e4, t1, t2, t3, t4, c1, x1, p1, a1, a2

MCNodes == {d, e1, e2, e3, e4, t1, t2, t3, t4, c1, x1, p1}
MCAttrNodes == {a1, a2}
MCNodeKind == (d :> "Document") @@ [x \in {e1, e2, e3, e4} |-> "Element"]
              @@ [x \in {t1, t2, t3, t4} |-> "Text"]
              @@ (c1 :> "Comment") @@ (x1 :> "Declaration") @@ (p1 :> "ProcInst")
              @@ [x \in MCAttrNodes |-> "Attribute"]

MCInstChars == ("v" :> <<"k", "=", "'", "k", "'", " ", "=", "\"", "\"", " ", "k">>)
               @@ ("u" :> <<"k", "=", "\"", "'", "\"", " ", "k", "'", "=">>)
               @@ ("q" :> <<"k", "'", "=", "'", "'", "'", " ", "=", "k", " ", "=", "'", "k">>)

UpTo2(X) == {<<>>} \cup {<<x>> : x \in X} \cup {<<x, y>> : x, y \in X}

Scalars == {[t |-> "str", s |-> "v"], [t |-> "null"]}
EmptyObj == [t |-> "obj", m |-> <<>>]
Obj(ks, vs) == [t |-> "obj", m |-> [i \in 1 .. Len(vs) |-> [k |-> ks[i], v |-> vs[i]]]]
Arr(es) == [t |-> "arr", e |-> es]

\* The values of members.
Values == Scalars \cup {EmptyObj} \cup {Obj(<<"a">>, <<s>>) : s \in Scalars}
          \cup {Arr(es) : es \in UpTo2(Scalars \cup {EmptyObj})}
          \cup {Arr(<<Arr(<<>>)>>)}

Trees == {Obj(<<"a", "b">>, vs) : vs \in UpTo2(Values)}
         \cup {Arr(es) : es \in UpTo2(Scalars)}
         \cup {[t |-> "str", s |-> "v"], [t |-> "null"]}

\* Each tree read to its end.
MCJsonDocs == {[tree |-> x, cut |-> Len(JTokens(x)), stop |-> "EOF"] : x \in Trees}

\* Each tree of at most one member, cut after any number of its tokens,
\* followed by stop: the end of the input or a syntax error.
MCJsonCut(stops) ==
    UNION {{[tree |-> x, cut |-> c, stop |-> s] :
              c \in 0 .. Len(JTokens(x)), s \in stops} :
           x \in {y \in Trees : y.t # "obj" \/ Len(y.m) < 2}}

\* Each tree read to its end, and the complete top-level arrays holding an
\* empty object: [{}], [{}, {}], and one beside a scalar.
TopArrays == {Arr(es) : es \in UpTo2(Scalars \cup {EmptyObj}) \ UpTo2(Scalars)}
MCJsonDocsTop == MCJsonDocs
                 \cup {[tree |-> x, cut |-> Len(JTokens(x)), stop |-> "EOF"] : x \in TopArrays}

MCJsonDocsSyntax == MCJsonCut({"SyntaxError"})
=============================================================================
