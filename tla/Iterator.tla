------------------------------ MODULE Iterator ------------------------------
(* nodeIterator (iterator.go) over the node store of DomTree.  The         *)
(* iterator is read-only, so its calls are operators on the current store *)
(* rather than actions: a call maps the iterator's wrapped node to the     *)
(* node it returns, which is also the new wrapped node.  A call that        *)
(* dereferences a nil Node interface (it.wrap.nodePtr() on the nil that    *)
(* FirstChild, NextSibling, LastChild or PreviousSibling return at the end  *)
(* of a list) yields "panic".  The filter match is the set of nodes it     *)
(* accepts.                                                                 *)
EXTENDS DomTree

\* NewChildFilteringIterator (iterator.go 30-34; NewChildIterator and
\* NewChildNamedIterator are the filters All and "name equal").
NewChildFilteringIterator(parent, match) ==
    [parent |-> parent, wrap |-> NIL, match |-> match]

\* The forward scan over *node pointers, from cur to the first node match
\* accepts, nil when it runs off the end of the list (iterator.go 69-74).
RECURSIVE ScanNext(_, _, _)
ScanNext(cur, match, k) ==
    IF cur = NIL \/ k = 0 THEN NIL
    ELSE IF cur \in match THEN cur
    ELSE ScanNext(node[cur].nextSib, match, k - 1)

\* Mutant: a NextSibling that starts the scan at the wrapped node itself,
\* never advancing past the node it returned last.
IterNextSiblingStay(it) ==
    LET start == IF it.wrap = NIL THEN FirstChild(it.parent) ELSE it.wrap
    IN IF start = NIL THEN "panic" ELSE ScanNext(start, it.match, Bound)

\* NextSibling (iterator.go 63-77): step from the wrapped node (or the
\* parent's first child), then scan forward.
IterNextSibling(it) ==
    LET start == IF it.wrap = NIL THEN FirstChild(it.parent)
                 ELSE NextSibling(it.wrap)
    IN IF start = NIL THEN "panic" ELSE ScanNext(start, it.match, Bound)

\* Mutant: a backward scan that runs while cur is not nil, as the forward
\* one does, and so wraps from the head round to the tail.
RECURSIVE ScanPrevNonNil(_, _, _)
ScanPrevNonNil(cur, match, k) ==
    IF cur = NIL \/ k = 0 THEN NIL
    ELSE IF cur \in match THEN cur
    ELSE ScanPrevNonNil(node[cur].prevSib, match, k - 1)

\* The backward scan (iterator.go 85-90): the loop runs while cur has a
\* next sibling, following prevSib, which at the head is the tail.
RECURSIVE ScanPrev(_, _, _)
ScanPrev(cur, match, k) ==
    IF cur = NIL THEN "panic"
    ELSE IF node[cur].nextSib = NIL \/ k = 0 THEN NIL
    ELSE IF cur \in match THEN cur
    ELSE ScanPrev(node[cur].prevSib, match, k - 1)

\* PreviousSibling (iterator.go 79-93): step from the wrapped node (or the
\* parent's last child), then scan backward.
IterPreviousSibling(it) ==
    LET start == IF it.wrap = NIL THEN LastChild(it.parent)
                 ELSE PreviousSibling(it.wrap)
    IN IF start = NIL THEN "panic" ELSE ScanPrev(start, it.match, Bound)

Ends == {NIL, "panic"}

\* The results of successive NextSibling calls on one iterator, up to and
\* including the first nil or panic.
RECURSIVE NextRun(_, _)
NextRun(it, k) ==
    LET r == IterNextSibling(it) IN
    IF r \in Ends \/ k = 0 THEN <<r>>
    ELSE <<r>> \o NextRun([it EXCEPT !.wrap = r], k - 1)

\* The children of p that match accepts, in list order.
Matches(p, match) == SelectSeq(ChildSeq(p), LAMBDA c : c \in match)

\* Forward iteration (NextSibling, iterator.go 63-77) over any filter, on
\* any store the supported calls build: the calls return exactly the
\* matching children in order, each once, and then end.
IteratorVisitsMatches ==
    \A p \in Nodes, match \in SUBSET Nodes :
       LET run == NextRun(NewChildFilteringIterator(p, match), Bound) IN
       /\ Last(run) \in Ends
       /\ Front(run) = Matches(p, match)

\* A PreviousSibling call after NextSibling returned the i-th match steps
\* back to the (i-1)-th match, and for the first match returns nil or
\* panics rather than wrapping round to a later child: the loop condition
\* cur.nextSib != nil (iterator.go 85) must stop the walk at the head,
\* whose prevSib is the tail.
IteratorStepsBack ==
    \A p \in Nodes, match \in SUBSET Nodes :
       LET m == Matches(p, match) IN
       \A i \in 1..Len(m) :
          LET r == IterPreviousSibling(
                     [NewChildFilteringIterator(p, match) EXCEPT !.wrap = m[i]])
          IN IF i > 1 THEN r = m[i - 1] ELSE r \in Ends
=============================================================================
