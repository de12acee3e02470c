------------------------------ MODULE Builder ------------------------------
(***************************************************************************)
(* Builder, the schema-less TokenDecoder of package dom (src/dom/attr.go), *)
(* over the node store of DomTree.  Its only state is the cursor (the      *)
(* embedded Node).  StartElement makes a new Element whose parent pointer  *)
(* is the cursor but which no list holds yet; EndElement appends it to     *)
(* that parent with AppendChild.  An element is linked at its end tag.     *)
(*                                                                         *)
(* Each handler is an action that sets ret to the error it returns.  This  *)
(* module has no specification of its own: Unmarshal drives it.            *)
(***************************************************************************)
EXTENDS Naturals, Sequences, SequencesExt, XmlToken, Declaration

CONSTANTS
    Nodes, AttrNodes, NodeKind, NIL,   \* the node store, as in DomTree
    Root,     \* the node NewBuilder is given
    Names,    \* element names
    Blank,    \* character data made of whitespace only
    Opts,     \* the Builder's options: a subset of {"TrimPCData", "WSPCData",
              \* "Comments", "Declaration", "ProcInst"}
    InstChars \* the bytes of each instruction text of the input

\* value: each node's value (an element's name, a text's or a comment's
\* bytes, an instruction's text, an attribute's [name, value]), NoValue
\* for the root and for nodes that no call has created yet.
\* cursor: un.Node.
VARIABLES node, ret, value, cursor

D == INSTANCE DomTree

NoValue == "none"

\* The node newStartElement or newText returns: one of the kind that no
\* call has created yet.
Fresh(k) == {x \in Nodes \ {Root} : NodeKind[x] = k /\ value[x] = NoValue}
NewNode(k) == CHOOSE x \in Fresh(k) : TRUE

InitBuilder ==
    /\ D!Init
    /\ value = [x \in D!AllNodes |-> NoValue]
    /\ cursor = Root

\* bytes.TrimSpace: texts are either blank or have no surrounding space.
Trim(cd) == IF cd \in Blank THEN "" ELSE cd

\* The text CharData appends, NoValue when it appends none.
Stored(cd) ==
    CASE cd = "" /\ "WSPCData" \notin Opts -> NoValue
      [] "TrimPCData" \notin Opts -> cd
      [] "WSPCData" \in Opts \/ Trim(cd) # "" -> Trim(cd)
      [] OTHER -> NoValue

\* Whether a Builder with these options keeps a token's node.
Keeps(t) ==
    CASE t.type = "text" -> Stored(t.v) # NoValue
      [] t.type = "comment" -> "Comments" \in Opts
      [] t.type = "procinst" /\ t.target = "xml" -> "Declaration" \in Opts
      [] t.type = "procinst" -> "ProcInst" \in Opts
      [] OTHER -> TRUE

\* The tokens a Builder with these options keeps, text as it is stored.
Kept(toks) ==
    LET st(t) == IF t.type = "text" THEN TextTok(Stored(t.v)) ELSE t
    IN [i \in 1 .. Len(SelectSeq(toks, Keeps)) |-> st(SelectSeq(toks, Keeps)[i])]

\* Begin: decoding may start at any non-nil cursor.
Begin == IF cursor = NIL THEN "NilCursor" ELSE "ok"

StartElement(nm) ==
    /\ Fresh("Element") # {}
    /\ LET n == NewNode("Element") IN
       /\ node' = [node EXCEPT ![n].parent = cursor]
       /\ value' = [value EXCEPT ![n] = nm]
       /\ cursor' = n
       /\ ret' = "ok"

\* A cursor with no parent pointer is an error; otherwise AppendChild,
\* and on success the cursor moves up to the parent.
EndElement ==
    LET p == node[cursor].parent IN
    IF p = NIL
    THEN ret' = "HierarchyRequest" /\ UNCHANGED <<node, value, cursor>>
    ELSE /\ D!AppendChild(p, cursor)
         /\ cursor' = IF ret' = "ok" THEN p ELSE cursor
         /\ UNCHANGED value

CharData(cd) ==
    IF ~D!allowInsertChild(NodeKind[cursor], "Text")
    THEN ret' = "HierarchyRequest" /\ UNCHANGED <<node, value, cursor>>
    ELSE IF Stored(cd) = NoValue
    THEN ret' = "ok" /\ UNCHANGED <<node, value, cursor>>
    ELSE /\ Fresh("Text") # {}
         /\ LET t == NewNode("Text") IN
            /\ D!AppendChild(cursor, t)
            /\ value' = [value EXCEPT ![t] = Stored(cd)]
            /\ UNCHANGED cursor

Unchanged == ret' = "ok" /\ UNCHANGED <<node, value, cursor>>
Refused == ret' = "HierarchyRequest" /\ UNCHANGED <<node, value, cursor>>

Comment(c) ==
    IF "Comments" \notin Opts THEN Unchanged
    ELSE IF ~D!allowInsertChild(NodeKind[cursor], "Comment") THEN Refused
    ELSE /\ Fresh("Comment") # {}
         /\ LET cm == NewNode("Comment") IN
            /\ D!AppendChild(cursor, cm)
            /\ value' = [value EXCEPT ![cm] = c]
            /\ UNCHANGED cursor

\* newDeclaration's loop: appendAttribute of each attribute of as to x.
RECURSIVE AttachAll(_, _, _)
AttachAll(st, as, x) ==
    IF as = <<>> THEN st
    ELSE AttachAll(D!appendAttributeIn(st, Head(as), x), Tail(as), x)

\* The [name, value] of each attribute newDeclaration makes from the pairs
\* kvPairs returns: pairs[2i-1] and pairs[2i] for i below len(pairs)/2.
DeclAttrs(id) ==
    LET pairs == kvPairs(InstChars[id]) IN
    [i \in 1 .. Len(pairs) \div 2 |-> [name |-> pairs[2 * i - 1],
                                       value |-> pairs[2 * i]]]

\* newDeclaration (declaration.go 29-38) and AppendChild: a Declaration
\* with its attributes, each a fresh attribute node, appended to the
\* cursor (whose kind ProcInst has already checked).
AddDeclaration(id) ==
    LET prs == DeclAttrs(id)
        free == {a \in AttrNodes : D!FreshAttr(a)}
    IN /\ Fresh("Declaration") # {}
       /\ Cardinality(free) >= Len(prs)
       /\ LET x == NewNode("Declaration")
              as == CHOOSE f \in [1 .. Len(prs) -> free] : IsInjective(f)
              st == AttachAll(node, as, x)
          IN /\ node' = D!appendNodeIn(st, x, cursor)
             /\ value' = [y \in DOMAIN value |->
                           IF y = x THEN id
                           ELSE IF y \in Range(as)
                                THEN prs[CHOOSE i \in DOMAIN as : as[i] = y]
                                ELSE value[y]]
             /\ ret' = "ok"
             /\ UNCHANGED cursor

\* The kind check comes before the option check: an instruction the
\* options discard still fails where its node could not go.
ProcInst(target, id) ==
    LET nt == IF target = "xml" THEN "Declaration" ELSE "ProcInst" IN
    IF ~D!allowInsertChild(NodeKind[cursor], nt) THEN Refused
    ELSE IF nt = "Declaration" /\ "Declaration" \in Opts THEN AddDeclaration(id)
    ELSE IF nt = "ProcInst" /\ "ProcInst" \in Opts
    THEN /\ Fresh("ProcInst") # {}
         /\ LET p == NewNode("ProcInst") IN
            /\ D!AppendChild(cursor, p)
            /\ value' = [value EXCEPT ![p] = id]
            /\ UNCHANGED cursor
    ELSE Unchanged

Directive == ret' = "TODO" /\ UNCHANGED <<node, value, cursor>>

\* End: io.EOF is normal completion, any other error is returned.
End(err) == IF err = "EOF" THEN "ok" ELSE err

\* The TokenDecoder call for a token.
Dispatch(tok) ==
    CASE tok.type = "start" -> StartElement(tok.v)
      [] tok.type = "end" -> EndElement
      [] tok.type = "text" -> CharData(tok.v)
      [] tok.type = "comment" -> Comment(tok.v)
      [] tok.type = "procinst" -> ProcInst(tok.target, tok.v)
      [] tok.type = "directive" -> Directive

\* Root(): the top of the parent chain from the cursor.
RECURSIVE TopOf(_, _)
TopOf(n, k) == IF k = 0 \/ node[n].parent = NIL THEN n
               ELSE TopOf(node[n].parent, k - 1)
=============================================================================
