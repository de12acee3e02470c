------------------------------ MODULE DomTree ------------------------------
(***************************************************************************)
(* The DOM node store of package dom: node.go, whose text is in          *)
(* src/dom/comment.go 30-638 (and, identical in every function modelled   *)
(* here, in src/unnamed/part_007).  The node record with its parent,      *)
(* firstChild, nextSib, prevSib and firstAttr pointers, and the public    *)
(* mutations AppendChild, PrependChild, InsertChildAfter,                 *)
(* InsertChildBefore, AppendAttribute, PrependAttribute,                  *)
(* InsertAttributeAfter and InsertAttributeBefore with the private list   *)
(* primitives they call.                                                  *)
(*                                                                         *)
(* Sibling lists are circular backwards only: the head's prevSib is the    *)
(* tail, the tail's nextSib is nil.  Every pointer write of the Go code is *)
(* one clause of an EXCEPT, in the code's order, so that aliasing between  *)
(* the nodes involved behaves as in the code.                              *)
(***************************************************************************)
EXTENDS Naturals, FiniteSets, Sequences, SequencesExt

CONSTANTS
    Nodes,      \* the non-attribute nodes a client holds
    AttrNodes,  \* attribute nodes, each created by newAttribute on one call
    NodeKind,   \* the kind of each node: its value's nodeType(), fixed
    NIL         \* the nil *node

AllNodes == Nodes \cup AttrNodes

Kinds == {"Document", "Element", "Text", "Comment", "ProcInst",
          "Declaration", "Fragment", "Attribute"}

ASSUME /\ NIL \notin AllNodes
       /\ NodeKind \in [AllNodes -> Kinds]
       /\ \A a \in AttrNodes : NodeKind[a] = "Attribute"

\* node (comment.go 102-109), minus value, which only NodeKind reads.
VARIABLES node, ret

vars == <<node, ret>>

Ptr == AllNodes \cup {NIL}
NodeRec == [parent : Ptr, firstChild : Ptr, nextSib : Ptr, prevSib : Ptr,
            firstAttr : Ptr]
Results == {"ok", "HierarchyRequest", "panic"}

Null == [parent |-> NIL, firstChild |-> NIL, nextSib |-> NIL,
         prevSib |-> NIL, firstAttr |-> NIL]

\* ---------------------------------------------------------------------
\* Navigation (read-only methods of *node)
\* ---------------------------------------------------------------------

Parent(n) == node[n].parent
FirstChild(n) == node[n].firstChild
LastChild(n) == IF node[n].firstChild = NIL THEN NIL
                ELSE node[node[n].firstChild].prevSib
NextSibling(n) == node[n].nextSib
\* a node whose prevSib has a next sibling is not the head of its list
\* Mutant: a PreviousSibling that returns the raw prevSib pointer, which is
\* the tail for the head of a list.
PreviousSiblingRaw(n) == node[n].prevSib
PreviousSibling(n) == IF node[node[n].prevSib].nextSib # NIL
                      THEN node[n].prevSib ELSE NIL
FirstAttribute(n) == node[n].firstAttr
LastAttribute(n) == IF node[n].firstAttr = NIL THEN NIL
                    ELSE node[node[n].firstAttr].prevSib

\* The forward walk of iterChildren/iterAttributes from a list head, cut
\* after k nodes so that a corrupted (cyclic) list still has a value.
RECURSIVE Walk(_, _)
Walk(x, k) == IF x = NIL \/ k = 0 THEN <<>>
              ELSE <<x>> \o Walk(node[x].nextSib, k - 1)

Bound == Cardinality(AllNodes) + 1
ChildSeq(p) == Walk(node[p].firstChild, Bound)
AttrSeq(p) == Walk(node[p].firstAttr, Bound)

RECURSIVE Ancestors(_, _)
Ancestors(n, k) == IF n = NIL \/ k = 0 THEN {}
                   ELSE {n} \cup Ancestors(node[n].parent, k - 1)

\* ---------------------------------------------------------------------
\* Kind rules
\* ---------------------------------------------------------------------

\* Mutant: allowInsertChild without the Declaration/DocumentType rule.
allowInsertChildNoDecl(pk, ck) ==
    pk \in {"Document", "Element"} /\ ck # "Document"

allowInsertChild(pk, ck) ==
    /\ pk \in {"Document", "Element"}
    /\ ck # "Document"
    /\ ck = "Declaration" => pk = "Document"

\* Mutant: allowInsertAttribute with the kind check dropped.
allowInsertAttributeAny(pk) == pk \in Kinds

allowInsertAttribute(pk) == pk \in {"Element", "Declaration"}

\* ---------------------------------------------------------------------
\* List primitives: each returns the new node function
\* ---------------------------------------------------------------------

\* Mutant: appendNode that forgets to move the head's tail pointer.
appendNodeStaleTail(c, p) ==
    LET head == node[p].firstChild IN
    IF head # NIL
    THEN LET tail == node[head].prevSib IN
         [node EXCEPT ![c].parent = p, ![tail].nextSib = c, ![c].prevSib = tail]
    ELSE [node EXCEPT ![c].parent = p, ![p].firstChild = c, ![c].prevSib = c]

\* appendNode on the node function st.
appendNodeIn(st, c, p) ==
    LET head == st[p].firstChild IN
    IF head # NIL
    THEN LET tail == st[head].prevSib IN
         [st EXCEPT ![c].parent = p, ![tail].nextSib = c,
                    ![c].prevSib = tail, ![head].prevSib = c]
    ELSE [st EXCEPT ![c].parent = p, ![p].firstChild = c, ![c].prevSib = c]

appendNode(c, p) == appendNodeIn(node, c, p)

prependNode(c, p) ==
    LET head == node[p].firstChild IN
    IF head # NIL
    THEN [node EXCEPT ![c].parent = p, ![c].prevSib = node[head].prevSib,
                      ![head].prevSib = c, ![c].nextSib = head,
                      ![p].firstChild = c]
    ELSE [node EXCEPT ![c].parent = p, ![c].prevSib = c, ![c].nextSib = NIL,
                      ![p].firstChild = c]

\* The code sets child.parent to before, not to before's parent, and takes
\* the "before is the head" branch only when before.prevSib is nil, which
\* a linked node never has: for the head it links the tail to the child.
insertNodeBefore(c, before) ==
    LET p == node[before].parent
        prev == node[before].prevSib
    IN IF prev # NIL
       THEN [node EXCEPT ![c].parent = before, ![prev].nextSib = c,
                         ![c].prevSib = prev, ![c].nextSib = before,
                         ![before].prevSib = c]
       ELSE [node EXCEPT ![c].parent = before,
                         ![node[p].firstChild].prevSib = c,
                         ![c].prevSib = prev, ![c].nextSib = before,
                         ![before].prevSib = c]

insertNodeAfter(c, after) ==
    LET p == node[after].parent
        next == node[after].nextSib
    IN IF next # NIL
       THEN [node EXCEPT ![c].parent = p, ![next].prevSib = c,
                         ![c].nextSib = next, ![c].prevSib = after,
                         ![after].nextSib = c]
       ELSE [node EXCEPT ![c].parent = p,
                         ![node[p].firstChild].prevSib = c,
                         ![c].nextSib = next, ![c].prevSib = after,
                         ![after].nextSib = c]

\* appendAttribute on the node function st, for callers that make several
\* calls in one step.
appendAttributeIn(st, a, p) ==
    LET head == st[p].firstAttr IN
    IF head # NIL
    THEN LET tail == st[head].prevSib IN
         [st EXCEPT ![tail].nextSib = a, ![a].prevSib = tail,
                    ![head].prevSib = a]
    ELSE [st EXCEPT ![p].firstAttr = a, ![a].prevSib = a]

appendAttribute(a, p) == appendAttributeIn(node, a, p)

prependAttribute(a, p) ==
    LET head == node[p].firstAttr IN
    IF head # NIL
    THEN [node EXCEPT ![a].prevSib = node[head].prevSib, ![head].prevSib = a,
                      ![a].nextSib = head, ![p].firstAttr = a]
    ELSE [node EXCEPT ![a].prevSib = a, ![a].nextSib = NIL, ![p].firstAttr = a]

\* ---------------------------------------------------------------------
\* Public mutations.  A failing call returns ErrHierarchyRequest and
\* writes nothing.
\* ---------------------------------------------------------------------

Fail == ret' = "HierarchyRequest" /\ UNCHANGED node
Done(new) == node' = new /\ ret' = "ok"

\* insertNodeAfter reads parent.firstChild.prevSib when after is the last
\* of its list (comment.go 482): a parent with no children, which only a
\* reference outside its parent's list can have, is a nil dereference,
\* reached after child.parent has been written.
AfterPanics(after) ==
    node[after].nextSib = NIL /\ node[node[after].parent].firstChild = NIL

AppendChild(n, c) ==
    \/ ~allowInsertChild(NodeKind[n], NodeKind[c]) /\ Fail
    \/ allowInsertChild(NodeKind[n], NodeKind[c]) /\ Done(appendNode(c, n))

PrependChild(n, c) ==
    \/ ~allowInsertChild(NodeKind[n], NodeKind[c]) /\ Fail
    \/ allowInsertChild(NodeKind[n], NodeKind[c]) /\ Done(prependNode(c, n))

InsertChildAfter(n, c, ref) ==
    \/ ~allowInsertChild(NodeKind[n], NodeKind[c]) /\ Fail
    \/ /\ allowInsertChild(NodeKind[n], NodeKind[c])
       /\ ref = NIL
       /\ Done(appendNode(c, n))
    \/ /\ allowInsertChild(NodeKind[n], NodeKind[c])
       /\ ref # NIL /\ node[ref].parent # n
       /\ Fail
    \/ /\ allowInsertChild(NodeKind[n], NodeKind[c])
       /\ ref # NIL /\ node[ref].parent = n
       /\ IF AfterPanics(ref)
          THEN node' = [node EXCEPT ![c].parent = n] /\ ret' = "panic"
          ELSE Done(insertNodeAfter(c, ref))

InsertChildBefore(n, c, ref) ==
    \/ ~allowInsertChild(NodeKind[n], NodeKind[c]) /\ Fail
    \/ /\ allowInsertChild(NodeKind[n], NodeKind[c])
       /\ ref = NIL
       /\ Done(prependNode(c, n))
    \/ /\ allowInsertChild(NodeKind[n], NodeKind[c])
       /\ ref # NIL /\ node[ref].parent # n
       /\ Fail
    \/ /\ allowInsertChild(NodeKind[n], NodeKind[c])
       /\ ref # NIL /\ node[ref].parent = n
       /\ Done(insertNodeBefore(c, ref))

AppendAttribute(n, a) ==
    \/ ~allowInsertAttribute(NodeKind[n]) /\ Fail
    \/ allowInsertAttribute(NodeKind[n]) /\ Done(appendAttribute(a, n))

PrependAttribute(n, a) ==
    \/ ~allowInsertAttribute(NodeKind[n]) /\ Fail
    \/ allowInsertAttribute(NodeKind[n]) /\ Done(prependAttribute(a, n))

\* after.Parent() is nil for every attribute: no primitive sets the parent
\* of an attribute node, so a non-nil reference always fails the check and
\* insertAttributeAfter/insertAttributeBefore are never reached.
InsertAttributeAfter(n, a, ref) ==
    \/ ~allowInsertAttribute(NodeKind[n]) /\ Fail
    \/ allowInsertAttribute(NodeKind[n]) /\ ref = NIL /\ Done(appendAttribute(a, n))
    \/ allowInsertAttribute(NodeKind[n]) /\ ref # NIL /\ node[ref].parent # n /\ Fail

InsertAttributeBefore(n, a, ref) ==
    \/ ~allowInsertAttribute(NodeKind[n]) /\ Fail
    \/ allowInsertAttribute(NodeKind[n]) /\ ref = NIL /\ Done(prependAttribute(a, n))
    \/ allowInsertAttribute(NodeKind[n]) /\ ref # NIL /\ node[ref].parent # n /\ Fail

\* The fragments of the client, and the elements that can host one.
Fragments == {f \in Nodes : NodeKind[f] = "Fragment"}
Elements == {e \in Nodes : NodeKind[e] = "Element"}

\* CreateDocumentFragment (comment.go 121-123) and newDocumentFragment
\* (part_002 91): a new node whose parent pointer is the host element and
\* which no list holds.  The host is an Element interface; nil panics.
CreateDocumentFragment(f, host) ==
    /\ node[f] = Null
    /\ node' = [node EXCEPT ![f].parent = host]
    /\ ret' = "ok"

\* SetHost (part_002 83-89) on a fragment CreateDocumentFragment returned
\* (its node is never nil): the parent pointer is overwritten, whatever
\* lists the fragment is in.
SetHost(f, host) ==
    /\ node' = [node EXCEPT ![f].parent = host]
    /\ ret' = "ok"

\* Host (part_002 76-81): the parent, when it is an Element.
Host(f) ==
    LET p == node[f].parent IN
    IF p # NIL /\ NodeKind[p] = "Element" THEN p ELSE NIL

\* ---------------------------------------------------------------------
\* The client
\* ---------------------------------------------------------------------

\* A node fresh from a Create* factory or never linked: no parent, no
\* sibling links.  A fresh attribute is one newAttribute has not yet linked.
Detached(c) == node[c].parent = NIL /\ node[c].prevSib = NIL
FreshAttr(a) == node[a].prevSib = NIL

\* A supported call: the child is detached, is not a fragment (spec 3:
\* fragments are children of nothing; allowInsertChild accepts them), and
\* is not n or an ancestor of n (the move checks of spec 4.1, which the
\* code leaves to the caller),
\* no reference is a fragment (whose host pointer passes the check that
\* the reference is a child of n), and no reference is a current sibling
\* for InsertChildBefore nor a
\* current attribute of n for the attribute inserts (paths that the runs
\* insert_before and attr_ref check separately).
Supported(n, c) ==
    Detached(c) /\ NodeKind[c] # "Fragment" /\ c \notin Ancestors(n, Bound)

ClientNext ==
    \/ \E n, c \in Nodes : Supported(n, c) /\ AppendChild(n, c)
    \/ \E n, c \in Nodes : Supported(n, c) /\ PrependChild(n, c)
    \/ \E n, c \in Nodes, ref \in (Nodes \ Fragments) \cup {NIL} :
          Supported(n, c) /\ InsertChildAfter(n, c, ref)
    \/ \E n, c \in Nodes, ref \in Nodes \cup {NIL} :
          Supported(n, c) /\ (ref # NIL => node[ref].parent # n)
          /\ InsertChildBefore(n, c, ref)
    \/ \E n \in Nodes, a \in AttrNodes : FreshAttr(a) /\ AppendAttribute(n, a)
    \/ \E n \in Nodes, a \in AttrNodes : FreshAttr(a) /\ PrependAttribute(n, a)
    \/ \E n \in Nodes, a \in AttrNodes, ref \in AttrNodes \cup {NIL} :
          FreshAttr(a) /\ ~Contains(AttrSeq(n), ref)
          /\ InsertAttributeAfter(n, a, ref)
    \/ \E n \in Nodes, a \in AttrNodes, ref \in AttrNodes \cup {NIL} :
          FreshAttr(a) /\ ~Contains(AttrSeq(n), ref)
          /\ InsertAttributeBefore(n, a, ref)
    \/ \E f \in Fragments, h \in Elements : CreateDocumentFragment(f, h)
    \/ \E f \in Fragments, h \in Elements :
          node[f].parent # NIL /\ SetHost(f, h)

Init == node = [x \in AllNodes |-> Null] /\ ret = "ok"

Spec == Init /\ [][ClientNext]_vars

\* ---------------------------------------------------------------------
\* Properties
\* ---------------------------------------------------------------------

\* Type: every field is a pointer, only Document and Element nodes own
\* children, only Element and Declaration nodes own attributes, and an
\* attribute node never has a parent or children.
TypeOK ==
    /\ node \in [AllNodes -> NodeRec]
    /\ ret \in Results
    /\ \A x \in AllNodes :
          /\ node[x].firstChild # NIL => NodeKind[x] \in {"Document", "Element"}
          /\ node[x].firstAttr # NIL => NodeKind[x] \in {"Element", "Declaration"}
    /\ \A a \in AttrNodes : node[a].parent = NIL /\ node[a].firstChild = NIL

\* A list from head is a proper circular-tail list: the forward walk ends
\* at nil without repeating a node, each node's prevSib is the node before
\* it, and the head's prevSib is the tail (spec 8, structural invariant).
ListWellFormed(head) ==
    LET s == Walk(head, Bound) IN
    /\ Len(s) < Bound
    /\ \A i, j \in 1..Len(s) : i # j => s[i] # s[j]
    /\ head # NIL => node[head].prevSib = s[Len(s)]
    /\ \A i \in 2..Len(s) : node[s[i]].prevSib = s[i - 1]

\* After any sequence of supported calls: every child list and attribute
\* list is well formed, every member of p's child list has parent p, and
\* a node is linked (prevSib # nil) exactly when it is in one list.
SiblingListsWellFormed ==
    /\ \A p \in Nodes : ListWellFormed(node[p].firstChild)
                        /\ ListWellFormed(node[p].firstAttr)
    /\ \A p \in Nodes : \A c \in ToSet(ChildSeq(p)) : node[c].parent = p
    /\ \A x \in AllNodes :
          node[x].prevSib # NIL <=>
             Cardinality({p \in Nodes : Contains(ChildSeq(p), x)
                                        \/ Contains(AttrSeq(p), x)}) = 1

\* The O(1) navigation methods, which read the circular tail pointer, give
\* the answer the forward walk gives: LastChild and LastAttribute are the
\* last of the list, and PreviousSibling is the node before (nil for the
\* head).
NavigationAgrees ==
    \A p \in Nodes :
       LET s == ChildSeq(p)
           as == AttrSeq(p)
       IN /\ LastChild(p) = (IF s = <<>> THEN NIL ELSE Last(s))
          /\ LastAttribute(p) = (IF as = <<>> THEN NIL ELSE Last(as))
          /\ \A i \in 1..Len(s) :
                PreviousSibling(s[i]) = (IF i = 1 THEN NIL ELSE s[i - 1])
          /\ \A i \in 1..Len(as) :
                PreviousSibling(as[i]) = (IF i = 1 THEN NIL ELSE as[i - 1])

\* The pointer store implements the abstract ordered tree: the lists read
\* forward from each head are the abstract children and attributes, and
\* Host reads a fragment's host from its parent pointer.
Abstract == INSTANCE AbstractTree
    WITH children <- [p \in Nodes |-> ChildSeq(p)],
         attrs <- [p \in Nodes |-> AttrSeq(p)],
         host <- [f \in Fragments |-> Host(f)]

\* Every supported call moves the ordered tree as spec 4.1 says it must.
Refinement == Abstract!Spec
\* ---------------------------------------------------------------------
\* Clients outside the supported one, for the violation runs
\* ---------------------------------------------------------------------

\* InsertChildBefore with a reference that is a child of n, the call the
\* method exists for.
BeforeSiblingNext ==
    \E n, c, ref \in Nodes :
       Supported(n, c) /\ node[ref].parent = n /\ InsertChildBefore(n, c, ref)

SpecInsertBefore == Init /\ [][ClientNext \/ BeforeSiblingNext]_vars

\* AppendChild with any node of the client, linked or not.
MoveNext == \E n, c \in Nodes : AppendChild(n, c)

SpecMove == Init /\ [][MoveNext]_vars

\* Attribute calls that spec 4.1 allows: n may own attributes, and the
\* reference, when there is one, is an attribute of n.
AllowedAttrNext ==
    \E n \in Nodes, a \in AttrNodes, ref \in AttrNodes :
       /\ FreshAttr(a) /\ allowInsertAttribute(NodeKind[n])
       /\ \/ AppendAttribute(n, a)
          \/ Contains(AttrSeq(n), ref) /\ InsertAttributeAfter(n, a, ref)
          \/ Contains(AttrSeq(n), ref) /\ InsertAttributeBefore(n, a, ref)

SpecAttrRef == Init /\ [][AllowedAttrNext]_vars

\* No node is its own ancestor: following parent pointers from any node
\* never comes back to it (spec 4.1: inserting a node into itself or into
\* a descendant is a HierarchyRequest; allowMove has the check and
\* AppendChild never calls it).
ParentsAcyclic ==
    \A y \in Nodes : y \notin Ancestors(node[y].parent, Bound)

\* An attribute call that spec 4.1 allows, InsertAttributeAfter and
\* InsertAttributeBefore with a reference among n's attributes included,
\* never returns HierarchyRequest.
AllowedAttrCallsSucceed == [][ret' = "ok"]_vars
=============================================================================
