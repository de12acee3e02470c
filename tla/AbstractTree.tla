---------------------------- MODULE AbstractTree ----------------------------
(***************************************************************************)
(* What the node store promises (spec.md 3, 4.1), with no pointers: every  *)
(* node owns an ordered sequence of children and, when it is an Element or *)
(* a Declaration, an ordered sequence of attributes.  A mutation that the  *)
(* kind rules forbid, or whose reference node is not in the list being     *)
(* mutated, fails with HierarchyRequest and changes nothing.  A           *)
(* DocumentFragment is in no list and reports a host Element (spec 3).    *)
(***************************************************************************)
EXTENDS Naturals, Sequences, SequencesExt

CONSTANTS Nodes, AttrNodes, NodeKind, NIL

VARIABLES children, attrs, host, ret

vars == <<children, attrs, host, ret>>

Fragments == {f \in Nodes : NodeKind[f] = "Fragment"}

\* spec 4.1 allowInsertChild and the attribute rule, stated on kinds.
MayHaveChild(pk, ck) ==
    /\ pk \in {"Document", "Element"}
    /\ ck # "Document"
    /\ ck = "Declaration" => pk = "Document"

MayHaveAttr(pk) == pk \in {"Element", "Declaration"}

\* Every operator below reads the tree ch (children) and at (attributes)
\* and relates it to the next tree ch2, at2: Next binds them once, which
\* keeps checking this specification against a refinement mapping cheap.

ParentOf(ch, c) ==
    IF \E p \in Nodes : Contains(ch[p], c)
    THEN CHOOSE p \in Nodes : Contains(ch[p], c)
    ELSE NIL

RECURSIVE Above(_, _, _)
Above(ch, n, k) ==
    IF n = NIL \/ k = 0 THEN {} ELSE {n} \cup Above(ch, ParentOf(ch, n), k - 1)

\* A node that may be inserted: in no list and not n itself or an ancestor of n.
Insertable(ch, n, c) ==
    ParentOf(ch, c) = NIL /\ c \notin Above(ch, n, Cardinality(Nodes))

Placed(at, a) == \E p \in Nodes : Contains(at[p], a)

IndexOf(s, e) == CHOOSE i \in 1..Len(s) : s[i] = e

Init ==
    /\ children = [n \in Nodes |-> <<>>]
    /\ attrs = [n \in Nodes |-> <<>>]
    /\ host = [f \in Fragments |-> NIL]
    /\ ret = "ok"

Fail(ch, at, ch2, at2) == ret' = "HierarchyRequest" /\ ch2 = ch /\ at2 = at

\* Insert c into n's children at position i (1 = first).
PutChild(ch, at, ch2, at2, n, c, i) ==
    ret' = "ok" /\ at2 = at /\ ch2 = [ch EXCEPT ![n] = InsertAt(@, i, c)]

PutAttr(ch, at, ch2, at2, n, a, i) ==
    ret' = "ok" /\ ch2 = ch /\ at2 = [at EXCEPT ![n] = InsertAt(@, i, a)]

\* ref = NIL: "after nothing" appends, "before nothing" prepends.
InsertChild(ch, at, ch2, at2, n, c, ref, after) ==
    \/ ~MayHaveChild(NodeKind[n], NodeKind[c]) /\ Fail(ch, at, ch2, at2)
    \/ /\ MayHaveChild(NodeKind[n], NodeKind[c])
       /\ ref # NIL /\ ~Contains(ch[n], ref)
       /\ Fail(ch, at, ch2, at2)
    \/ /\ MayHaveChild(NodeKind[n], NodeKind[c])
       /\ ref = NIL
       /\ PutChild(ch, at, ch2, at2, n, c, IF after THEN Len(ch[n]) + 1 ELSE 1)
    \/ /\ MayHaveChild(NodeKind[n], NodeKind[c])
       /\ ref # NIL /\ Contains(ch[n], ref)
       /\ PutChild(ch, at, ch2, at2, n, c,
                   IndexOf(ch[n], ref) + (IF after THEN 1 ELSE 0))

InsertAttr(ch, at, ch2, at2, n, a, ref, after) ==
    \/ ~MayHaveAttr(NodeKind[n]) /\ Fail(ch, at, ch2, at2)
    \/ /\ MayHaveAttr(NodeKind[n]) /\ ref # NIL /\ ~Contains(at[n], ref)
       /\ Fail(ch, at, ch2, at2)
    \/ /\ MayHaveAttr(NodeKind[n]) /\ ref = NIL
       /\ PutAttr(ch, at, ch2, at2, n, a, IF after THEN Len(at[n]) + 1 ELSE 1)
    \/ /\ MayHaveAttr(NodeKind[n]) /\ ref # NIL /\ Contains(at[n], ref)
       /\ PutAttr(ch, at, ch2, at2, n, a,
                  IndexOf(at[n], ref) + (IF after THEN 1 ELSE 0))

\* A step either fails or changes one list, the one of n.
Touched(ch, at, ch2, at2, n) ==
    ret' = "HierarchyRequest" \/ ch2[n] # ch[n] \/ at2[n] # at[n]

Next ==
    LET ch == children   at == attrs
        ch2 == children'  at2 == attrs'
    IN \/ \E n \in Nodes :
         /\ Touched(ch, at, ch2, at2, n)
         /\ \/ \E c \in Nodes, ref \in Nodes \cup {NIL}, after \in BOOLEAN :
                 InsertChild(ch, at, ch2, at2, n, c, ref, after) /\ Insertable(ch, n, c)
            \/ \E a \in AttrNodes, ref \in AttrNodes \cup {NIL}, after \in BOOLEAN :
                 InsertAttr(ch, at, ch2, at2, n, a, ref, after) /\ ~Placed(at, a)
         /\ UNCHANGED host
    \/ \E f \in Fragments, e \in Nodes :
         /\ NodeKind[e] = "Element"
         /\ host' = [host EXCEPT ![f] = e]
         /\ ret' = "ok"
         /\ UNCHANGED <<children, attrs>>

Spec == Init /\ [][Next]_vars
=============================================================================
