----------------------------- MODULE Unmarshal -----------------------------
(***************************************************************************)
(* Decoding and re-encoding a document: the token loop of                  *)
(* Unmarshaler.UnmarshalXML (src/dom/attr.go 281-311) feeds the tokens of  *)
(* an xml.Decoder to the Builder, which builds the tree in the node store; *)
(* on success the tree from the Builder's Root() is written back out by    *)
(* the Marshaler's treeOrder.                                              *)
(*                                                                         *)
(* The xml.Decoder is the environment: it returns any token that           *)
(* well-formed input can have next, or an error; io.EOF only when every   *)
(* element is closed (with an element open it returns "unexpected EOF").   *)
(*                                                                         *)
(* Or the front end is UnmarshalJSON (attr.go 313-326), whose JSONDecoder  *)
(* (module JsonDecoder) makes the Builder calls from a JSON document.      *)
(***************************************************************************)
EXTENDS JsonDecoder

CONSTANTS
    XmlTexts,    \* the character data the XML input holds
    XmlComments, \* the comments it holds
    PITarget,    \* the target of its processing instructions other than xml
    MaxMisc,     \* bound on its comments, instructions and directives
    MaxDepth,    \* bound on element nesting
    MaxTokens,   \* bound on the length of the input
    JsonDocs     \* the JSON inputs: [tree, cut, stop] records

\* phase: "decode" (the XML token loop), "json" (runJSDecoder), "marshal",
\* "walk" (treeOrder), "done"; open: the xml.Decoder's stack of open
\* elements; result: what Unmarshal returned; front: "xml" or "json".
VARIABLES front, phase, open, result, mstack, out, merr

M == INSTANCE Marshaler WITH Bound <- D!Bound

mvars == <<mstack, out, merr>>
vars == <<bvars, jvars, front, phase, open, result, mvars>>

\* d.Token(): the tokens well-formed input can have next.  Text never
\* follows text: the decoder returns a run of character data as one token.
\* The decoder accepts an xml instruction anywhere (it only reads its
\* version and encoding) and any directive.
Misc == {CommentTok(c) : c \in XmlComments}
        \cup {ProcInstTok(t, id) : t \in {"xml", PITarget}, id \in DOMAIN InstChars}
        \cup {DirectiveTok}
MiscTypes == {"comment", "procinst", "directive"}

XmlTokens ==
    (IF Len(open) < MaxDepth THEN {StartTok(nm) : nm \in Names} ELSE {})
    \cup (IF open = <<>> THEN {} ELSE {EndTok(Last(open))})
    \cup (IF input # <<>> /\ Last(input).type = "text" THEN {}
          ELSE {TextTok(cd) : cd \in XmlTexts})
    \cup (IF Len(SelectSeq(input, LAMBDA t : t.type \in MiscTypes)) < MaxMisc
          THEN Misc ELSE {})

\* The input "null": UnmarshalJSON returns nil before Begin.
IsNull(doc) == doc.tree.t = "null" /\ doc.cut = 1 /\ doc.stop = "EOF"

\* UnmarshalXML, or UnmarshalJSON of a document of JsonDocs.
Init ==
    /\ InitBuilder
    /\ open = <<>> /\ input = <<>> /\ pos = 1 /\ jstack = <<>>
    /\ pending = <<>> /\ jerr = "ok"
    /\ mstack = <<>> /\ out = <<>> /\ merr = "ok"
    /\ \/ /\ front = "xml"
          /\ jdoc = CHOOSE doc \in JsonDocs : TRUE
          /\ fn = "halt"
          /\ phase = IF Begin = "ok" THEN "decode" ELSE "done"
          /\ result = Begin
       \/ /\ front = "json"
          /\ jdoc \in JsonDocs
          /\ fn = "start"
          /\ phase = IF IsNull(jdoc) THEN "marshal"
                     ELSE IF Begin = "ok" THEN "json" ELSE "done"
          /\ result = IF IsNull(jdoc) THEN "ok" ELSE Begin

\* A turn of UnmarshalXML's loop that reads a token: the handler's error,
\* if any, is returned.
ReadToken ==
    /\ phase = "decode"
    /\ Len(input) < MaxTokens
    /\ \E tok \in XmlTokens :
          /\ Dispatch(tok)
          /\ input' = Append(input, tok)
          /\ open' = CASE tok.type = "start" -> Append(open, tok.v)
                       [] tok.type = "end" -> Front(open)
                       [] OTHER -> open
          /\ phase' = IF ret' = "ok" THEN "decode" ELSE "done"
          /\ result' = ret'
    /\ UNCHANGED <<front, mvars>> /\ UNCHANGED <<jdoc, pos, fn, jstack, jerr, pending>>

\* The turn where d.Token() fails: return td.End(err).
ReadError ==
    /\ phase = "decode"
    /\ \E err \in {"SyntaxError"} \cup (IF open = <<>> THEN {"EOF"} ELSE {}) :
          /\ result' = End(err)
          /\ phase' = IF End(err) = "ok" THEN "marshal" ELSE "done"
    /\ UNCHANGED <<front, bvars, jvars, open, mvars>>

\* A step of runJSDecoder: a turn of a state function or a Builder call.
JsonStep ==
    /\ phase = "json"
    /\ \/ jsDecodeStart \/ ObjectMember \/ ObjectEnd
       \/ ArrayElement \/ ArrayEnd \/ Deliver
    /\ UNCHANGED <<front, phase, open, result, mvars>>

\* The state function is nil: Run returns td.End(d.error), and
\* UnmarshalJSON td.End of that.
JsonEnd ==
    /\ phase = "json"
    /\ fn = "halt" /\ pending = <<>>
    /\ result' = End(End(jerr))
    /\ phase' = IF result' = "ok" THEN "marshal" ELSE "done"
    /\ UNCHANGED <<front, bvars, jvars, open, mvars>>

\* The caller marshals the Builder's Root().
Marshal ==
    /\ phase = "marshal"
    /\ M!BeginWalk(TopOf(cursor, D!Bound))
    /\ phase' = "walk"
    /\ UNCHANGED <<front, ret, cursor, jvars, open, result>>

Walk ==
    /\ phase = "walk"
    /\ M!encodeNodeValueStart \/ M!encodeNodeValueEnd
    /\ UNCHANGED <<front, ret, cursor, jvars, phase, open, result>>

WalkDone ==
    /\ phase = "walk"
    /\ ~M!Walking
    /\ phase' = "done"
    /\ UNCHANGED <<front, bvars, jvars, open, result, mvars>>

Next == ReadToken \/ ReadError \/ JsonStep \/ JsonEnd \/ Marshal \/ Walk \/ WalkDone

Spec == Init /\ [][Next]_vars

\* ---------------------------------------------------------------------
\* Properties
\* ---------------------------------------------------------------------

\* Marshal after a successful Unmarshal gives back the tokens the
\* TokenDecoder was given, as the Builder's options keep them, in the same
\* order (spec 8, round-trip): every element was linked under its parent
\* at its end tag, after its earlier siblings, and treeOrder's stack
\* visits the circular-tail lists head first.
RoundTrip ==
    phase = "done" /\ result = "ok" /\ merr = "ok" => out = Kept(input)

\* Unmarshal succeeds only with the Builder's cursor unwound to the root
\* (spec 7: end-of-stream is rejected when the cursor is not back at the
\* root).  About Builder.End, which takes io.EOF for success whatever the
\* cursor, and EndElement, which moves the cursor up.
UnwoundAtEnd ==
    phase \in {"marshal", "walk", "done"} /\ result = "ok" => cursor = Root

\* The names and values of a node's attributes, in list order, flattened.
AttrPairs(x) ==
    LET as == D!AttrSeq(x) IN
    FlattenSeq([i \in 1 .. Len(as) |-> <<value[as[i]].name, value[as[i]].value>>])

\* Every Declaration the Builder made carries, in list order, one
\* attribute per key="value" or key='value' field of its instruction text
\* (spec 4.2), named by the key and holding the bytes between the quotes:
\* about kvPairs' slices of v[1:] (declaration.go 43-57), newDeclaration's
\* pairing of pairs[2i] with pairs[2i+1] and its appendAttribute loop.
DeclarationAttrs ==
    \A x \in Nodes :
       NodeKind[x] = "Declaration" /\ value[x] # NoValue =>
          AttrPairs(x) = RefPairs(InstChars[value[x]])

\* The Builder calls of spec 4.4's mapping of a JSON value under key k: a
\* scalar is StartElement(k), CharData (null as ""), EndElement(k); an
\* object wraps the mapping of its members in k; an array repeats k once
\* per element.
RECURSIVE MapVal(_, _)
MapVal(k, x) ==
    LET members == FlattenSeq([i \in 1 .. Len(x.m) |-> MapVal(x.m[i].k, x.m[i].v)])
    IN CASE x.t = "obj" -> <<StartTok(k)>> \o members \o <<EndTok(k)>>
         [] x.t = "arr" -> FlattenSeq([i \in 1 .. Len(x.e) |-> MapVal(k, x.e[i])])
         [] OTHER -> <<StartTok(k), TextTok(IF x.t = "str" THEN x.s ELSE ""), EndTok(k)>>

\* A document: the members of a top-level object, the elements of a
\* top-level array under the empty key.
MapDoc(x) == CASE x.t = "obj" -> SubSeq(MapVal("", x), 2, Len(MapVal("", x)) - 1)
               [] x.t = "arr" -> MapVal("", x)
               [] OTHER -> <<>>

\* The input holds the whole value (what follows it is never read).
Complete(doc) == doc.cut = Len(JTokens(doc.tree))

\* When UnmarshalJSON returns nil, the document was read to its end and
\* the Builder was given exactly spec 4.4's mapping of it: a JSONDecoder
\* that stops early (an error swallowed, input cut short) or emits a call
\* out of order breaks it.
JsonMapping ==
    phase \in {"marshal", "walk", "done"} /\ result = "ok" /\ front = "json"
    => Complete(jdoc) /\ input = MapDoc(jdoc.tree)
=============================================================================
