----------------------------- MODULE YangDecode -----------------------------
(***************************************************************************)
(* The YANG Decoder fed by UnmarshalXML's token loop (src/dom/attr.go       *)
(* 283-311): the xml.Decoder returns any token well-formed input can have  *)
(* next, or an error; io.EOF only when every element is closed.            *)
(*                                                                         *)
(* Beside each handler the module records, per input token, what spec 4.6  *)
(* says of it (keep: whether it becomes a node, par: the input position of *)
(* the start tag of the node it goes under, 0 for the root) and the node   *)
(* the handler created (made).  sopen is the stack of open elements with   *)
(* the spec's verdict and schema entry for each.                           *)
(***************************************************************************)
EXTENDS SchemaDecoder

CONSTANTS
    Names,      \* element names the input holds
    Texts,      \* character data the input holds
    MaxDepth,   \* bound on element nesting
    MaxTokens,  \* bound on the length of the input
    MaxMisc,    \* bound on its comments, instructions and directives
    Fronts,     \* the entries: "UnmarshalXML" called directly, "XMLReader"
    InitializeArgs, \* the Unmarshaler's InitializeArgs: sequences of strings
    TopLevelText    \* whether the input has character data outside the root

VARIABLES phase, result, input, sopen, keep, par, made

dvars == <<node, ret, value, cursor, schema, stack, skip, errors, childname>>
vars == <<dvars, phase, result, input, sopen, keep, par, made>>

\* The TokenDecoder call for a token.
Dispatch(tok) ==
    CASE tok.type = "start" -> StartElement(tok.v)
      [] tok.type = "end" -> EndElement
      [] tok.type = "text" -> CharData(tok.v)
      [] tok.type = "comment" -> Comment
      [] tok.type = "procinst" -> ProcInst
      [] tok.type = "directive" -> Directive

Misc == {CommentTok("c"), ProcInstTok("p", "i"), DirectiveTok}

\* d.Token(): the tokens well-formed input can have next; never two texts
\* in a row.  Every comment, instruction or directive is one of Misc.
XmlTokens ==
    (IF Len(sopen) < MaxDepth THEN {StartTok(n) : n \in Names} ELSE {})
    \cup (IF sopen = <<>> THEN {} ELSE {EndTok(input[Last(sopen).idx].v)})
    \cup (IF (input # <<>> /\ Last(input).type = "text") \/ (sopen = <<>> /\ ~TopLevelText)
          THEN {} ELSE {TextTok(cd) : cd \in Texts})
    \cup (IF Len(SelectSeq(input, LAMBDA t : t.type \in {"comment", "procinst", "directive"})) < MaxMisc
          THEN Misc ELSE {})

\* Unmarshaler.tdInit: the InitializeArgs when they are a non-empty list
\* of pairs, else the arguments readerXML passes, which are none.
tdInit(args) ==
    IF Len(args) > 0 /\ Len(args) % 2 = 0 THEN Initialize("nil", args)
    ELSE Initialize("nil", <<>>)

\* XMLReader().ReadFrom runs tdInit and returns its error; UnmarshalXML
\* (called by ReadFrom, or directly) starts with Decoder.Begin: a non-nil
\* node cursor.
Init ==
    /\ InitDecoder
    /\ \E fr \in Fronts, args \in InitializeArgs :
          LET ini == IF fr = "XMLReader" THEN tdInit(args)
                     ELSE [err |-> FALSE, childname |-> "nil"]
          IN /\ childname = ini.childname
             /\ phase = IF ini.err \/ cursor = NIL THEN "done" ELSE "decode"
             /\ result = CASE ini.err -> "InitError"
                            [] cursor = NIL -> "NilCursor"
                            [] OTHER -> "ok"
    /\ input = <<>> /\ sopen = <<>> /\ keep = <<>> /\ par = <<>> /\ made = <<>>

\* Spec 4.6: an element is kept when its parent is and it names a data
\* child of the parent's entry (a top-level entry at the root) in the
\* right namespace; text is kept when its parent is.
ParentKept == sopen = <<>> \/ Last(sopen).keep
ParentEntry == IF sopen = <<>> THEN NoEntry ELSE Last(sopen).entry
\* Names resolve by the strategy the configuration selected (spec 4.6).
SpecCands(n) == IF ParentEntry = NoEntry THEN RootEntry(Lookup(n).name)
                ELSE dataChildOf(ParentEntry, n.local)
SpecKeep(n) == /\ ParentKept /\ Lookup(n).ok /\ SpecCands(n) # {}
               /\ \A c \in SpecCands(n) : Valid(Lookup(n).name, c)

Record(tok) ==
    LET i == Len(input) + 1
        k == CASE tok.type = "start" -> SpecKeep(tok.v)
               [] tok.type = "text" -> ParentKept
               [] OTHER -> FALSE
    IN /\ keep' = Append(keep, k)
       /\ par' = Append(par, IF sopen = <<>> THEN 0 ELSE Last(sopen).idx)
       /\ sopen' = CASE tok.type = "start" ->
                          Append(sopen, [idx |-> i, keep |-> k,
                                         entry |-> IF k THEN CHOOSE c \in SpecCands(tok.v) : TRUE
                                                   ELSE NoEntry])
                     [] tok.type = "end" -> Front(sopen)
                     [] OTHER -> sopen

\* The node this step created, NIL if none.
Created == IF \E x \in Nodes : value[x] = NoValue /\ value'[x] # NoValue
           THEN CHOOSE x \in Nodes : value[x] = NoValue /\ value'[x] # NoValue
           ELSE NIL

\* A turn of UnmarshalXML's loop that reads a token: the handler's error,
\* if any (a panic included), ends decoding.
ReadToken ==
    /\ phase = "decode"
    /\ Len(input) < MaxTokens
    /\ \E tok \in XmlTokens :
          /\ Dispatch(tok)
          /\ Record(tok)
          /\ input' = Append(input, tok)
          /\ made' = Append(made, Created)
          /\ phase' = IF ret' = "ok" THEN "decode" ELSE "done"
          /\ result' = ret'
          /\ UNCHANGED childname

\* The turn where d.Token() fails: return td.End(err).
ReadError ==
    /\ phase = "decode"
    /\ \E err \in {"SyntaxError"} \cup (IF sopen = <<>> THEN {"EOF"} ELSE {}) :
          result' = End(err)
    /\ phase' = "done"
    /\ UNCHANGED <<dvars, input, sopen, keep, par, made>>

Next == ReadToken \/ ReadError

Spec == Init /\ [][Next]_vars

\* ---------------------------------------------------------------------
\* Properties
\* ---------------------------------------------------------------------

ParentNode(i) == IF par[i] = 0 THEN Root ELSE made[par[i]]

\* Spec 4.6 and 8 (skip-and-continue): decoding never panics; a node is
\* created only for an element or text the spec keeps, under the node of
\* its enclosing element; and a successful decode created one for each.
\* About the restore closures, which must undo each descent (schema, node
\* and skip) exactly at its end tag, and CharData's use of them.
YangMapping ==
    /\ result # "panic"
    /\ \A i \in 1 .. Len(made) :
          made[i] # NIL => keep[i] /\ node[made[i]].parent = ParentNode(i)
    /\ phase = "done" /\ result = "ok" =>
          \A i \in 1 .. Len(keep) : keep[i] => made[i] # NIL
=============================================================================
