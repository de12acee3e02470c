--------------------------- MODULE SchemaDecoder ---------------------------
(***************************************************************************)
(* Decoder of package datastore (src/datastore/decoder.go), the YANG        *)
(* TokenDecoder, over the node store of DomTree.  Its state: the schema    *)
(* cursor (NoEntry for nil: resolve against the modules' top-level         *)
(* entries), the node cursor, the skip flag, the stack of restore          *)
(* closures, and the recorded errors.  A restore closure is a record of    *)
(* what it captured: the old schema and node, and whether it clears skip.  *)
(*                                                                         *)
(* The schema is a constant tree of entries: Kind[e], the child map        *)
(* Dir[e] from local names to entries, and the namespace EntryNS[e];      *)
(* ModDir[ns] is the Dir of the module with namespace ns.  Names are       *)
(* [space, local] records as the xml.Decoder resolves them; the name       *)
(* lookup Initialize selects maps them to the schema's namespaces.         *)
(*                                                                         *)
(* Each handler is an action that sets ret to the error it returns, or to  *)
(* "panic" where the Go runtime panics (a pop of the empty stack, a call   *)
(* of the nil childname).                                                  *)
(***************************************************************************)
EXTENDS Naturals, Sequences, SequencesExt, XmlToken

CONSTANTS
    Nodes, AttrNodes, NodeKind, NIL,   \* the node store, as in DomTree
    Root,      \* the Document node the Decoder is given
    Entries,   \* the schema entries
    NoEntry,   \* the nil *yang.Entry
    Kind,      \* Kind[e]: "leaf", "dir", "choice", "case"
    Dir,       \* Dir[e]: local name -> child entry
    EntryNS,   \* EntryNS[e]: the namespace of e's module
    ModDir,    \* ModDir[ns]: local name -> top-level entry of module ns
    ModNS      \* ModNS[m]: the namespace of the module named m

\* value: each node's name or text, NoValue until created; schema: un.schema;
\* cursor: un.Node; stack: un.stack; skip: un.skip; errors: un.errors;
\* childname: un.childname, "nil" until Initialize sets it.
VARIABLES node, ret, value, cursor, schema, stack, skip, errors, childname

D == INSTANCE DomTree

\* Values are records: a name, [text |-> cd], or NoValue.
NoValue == [none |-> "none"]

\* dom.CreateElement / dom.CreateText: a node no call has created yet.
Fresh(k) == {x \in Nodes \ {Root} : NodeKind[x] = k /\ value[x] = NoValue}
NewNode(k) == CHOOSE x \in Fresh(k) : TRUE

InitDecoder ==
    /\ D!Init
    /\ value = [x \in D!AllNodes |-> NoValue]
    /\ cursor = Root /\ schema = NoEntry
    /\ stack = <<>> /\ skip = FALSE /\ errors = <<>>

\* The keys and values Initialize recognizes.
ConfigKeys == {"name.resolver", "mediatype", "format"}
JsonFormats == {"rfc7951", "application/yang-data+json", "json"}
XmlFormats == {"default", "rfc6020", "application/yang-data+xml", "xml"}

\* Initialize(kv...) on a Decoder whose childname is cn: its error and the
\* childname it leaves.  An odd number of arguments fails first.  The loop
\* keeps the value of the last recognized key ("" if none); childname is
\* set to rfc6020Lookup before the switch that rejects any other format,
\* the empty one included.
Initialize(cn, kv) ==
    LET is == {i \in 1 .. Len(kv) \div 2 : kv[2 * i - 1] \in ConfigKeys}
        format == IF is = {} THEN "" ELSE kv[2 * Max(is)]
    IN CASE Len(kv) % 2 # 0 -> [err |-> TRUE, childname |-> cn]
         [] format \in JsonFormats -> [err |-> FALSE, childname |-> "rfc7951"]
         [] format \in XmlFormats -> [err |-> FALSE, childname |-> "rfc6020"]
         [] OTHER -> [err |-> TRUE, childname |-> "rfc6020"]

\* The name lookups: rfc6020Lookup passes the name through; rfc7951Lookup
\* reads the namespace as a module name and replaces it by that module's
\* namespace, failing for an unknown module.
rfc6020Lookup(n) == [ok |-> TRUE, name |-> n]
rfc7951Lookup(n) ==
    CASE n.space = "" -> [ok |-> TRUE, name |-> n]
      [] n.space \in DOMAIN ModNS -> [ok |-> TRUE, name |-> [n EXCEPT !.space = ModNS[n.space]]]
      [] OTHER -> [ok |-> FALSE, name |-> n]
Lookup(n) == IF childname = "rfc7951" THEN rfc7951Lookup(n) ELSE rfc6020Lookup(n)

isData(e) == Kind[e] \in {"leaf", "dir", "anyxml", "anydata"}

\* e.Dir[l], when it is a data entry.
DataIn(e, l) == IF l \in DOMAIN Dir[e] /\ isData(Dir[e][l]) THEN {Dir[e][l]} ELSE {}

\* dataChild(e, n): the direct data child, else the first match of the
\* loop over e.Dir, whose order (a Go map's) varies from run to run: a
\* choice or case child's own match, else a match in one of its cases.
dataChildOf(e, l) ==
    IF DataIn(e, l) # {} THEN DataIn(e, l)
    ELSE UNION {IF Kind[ch] \in {"choice", "case"} /\ DataIn(ch, l) # {}
                THEN DataIn(ch, l)
                ELSE UNION {DataIn(cc, l) : cc \in {c \in Range(Dir[ch]) : Kind[c] = "case"}}
                : ch \in Range(Dir[e])}

\* Modules.RootEntry(n): the entry named n.Local of the module whose
\* namespace is n.Space.
RootEntry(n) ==
    IF n.space \in DOMAIN ModDir /\ n.local \in DOMAIN ModDir[n.space]
    THEN {ModDir[n.space][n.local]} ELSE {}

\* Decoder.dataChild(n): the candidates it may return; it fails when there
\* are none or, for a name with a namespace, the candidate's differs.
Candidates(n) == IF schema = NoEntry THEN RootEntry(n) ELSE dataChildOf(schema, n.local)
Valid(n, c) == n.space # "" => EntryNS[c] = n.space

Frame(clear) == [schema |-> schema, node |-> cursor, clear |-> clear]

\* Restore from a closure: schema and node, and skip if it clears it.
Restore(fr) ==
    /\ schema' = fr.schema /\ cursor' = fr.node
    /\ skip' = IF fr.clear THEN FALSE ELSE skip

\* A name that fails lookup: record the error, skip, push a closure that
\* clears skip.
Reject(n) ==
    /\ errors' = Append(errors, n)
    /\ skip' = TRUE
    /\ stack' = Append(stack, Frame(TRUE))
    /\ ret' = "ok"
    /\ UNCHANGED <<node, value, cursor, schema>>

\* un.childname is called first: nil (Initialize never ran) panics; a
\* failed lookup rejects.  Then the candidate dataChild returns decides:
\* none, or one in another namespace, rejects; a valid one creates an
\* element with the looked-up name unless skipping.
StartElement(n) ==
    LET r == Lookup(n)  nm == r.name IN
    \/ /\ childname = "nil"
       /\ ret' = "panic" /\ UNCHANGED <<node, value, cursor, schema, stack, skip, errors>>
    \/ /\ childname # "nil"
       /\ ~r.ok \/ Candidates(nm) = {} \/ \E c \in Candidates(nm) : ~Valid(nm, c)
       /\ Reject(n)
    \/ \E c \in Candidates(nm) :
          /\ childname # "nil" /\ r.ok /\ Valid(nm, c)
          /\ IF skip
             THEN /\ stack' = Append(stack, Frame(FALSE)) /\ ret' = "ok"
                  /\ UNCHANGED <<node, value, cursor, schema, skip>>
             ELSE /\ Fresh("Element") # {}
                  /\ LET e == NewNode("Element") IN
                     /\ D!AppendChild(cursor, e)
                     /\ value' = [value EXCEPT ![e] = nm]
                     /\ IF ret' = "ok"
                        THEN /\ schema' = c /\ cursor' = e
                             /\ stack' = Append(stack, Frame(FALSE))
                        ELSE UNCHANGED <<schema, cursor, stack>>
                  /\ UNCHANGED skip
          /\ UNCHANGED errors

\* un.stack.pop()(): the top closure runs; an empty stack panics.
EndElement ==
    IF stack = <<>>
    THEN ret' = "panic" /\ UNCHANGED <<node, value, cursor, schema, stack, skip, errors>>
    ELSE /\ Restore(Last(stack)) /\ stack' = Front(stack)
         /\ ret' = "ok" /\ UNCHANGED <<node, value, errors>>

\* Comment and ProcInst return nil; Directive returns errors.New("TODO").
Comment == ret' = "ok" /\ UNCHANGED <<node, value, cursor, schema, stack, skip, errors>>
ProcInst == ret' = "ok" /\ UNCHANGED <<node, value, cursor, schema, stack, skip, errors>>
Directive == ret' = "TODO" /\ UNCHANGED <<node, value, cursor, schema, stack, skip, errors>>

NotLeaf == schema = NoEntry \/ Kind[schema] # "leaf"

\* Skipping: nothing.  Otherwise record an error off a leaf, pop and push
\* back the top closure (panicking on an empty stack), append the text to
\* the node cursor, and run that closure.
CharData(cd) ==
    IF skip
    THEN ret' = "ok" /\ UNCHANGED <<node, value, cursor, schema, stack, skip, errors>>
    ELSE /\ errors' = IF NotLeaf THEN Append(errors, "NotLeaf") ELSE errors
         /\ IF stack = <<>>
            THEN ret' = "panic" /\ UNCHANGED <<node, value, cursor, schema, stack, skip>>
            ELSE /\ Fresh("Text") # {}
                 /\ LET t == NewNode("Text") IN
                    /\ D!AppendChild(cursor, t)
                    /\ value' = [value EXCEPT ![t] = [text |-> cd]]
                    /\ IF ret' = "ok" THEN Restore(Last(stack))
                       ELSE UNCHANGED <<schema, cursor, skip>>
                 /\ UNCHANGED stack

\* End: io.EOF is success when the node cursor has no parent.
End(err) ==
    IF err = "EOF" THEN IF node[cursor].parent = NIL THEN "ok" ELSE "UnexpectedEOF"
    ELSE err
=============================================================================
