----------------------------- MODULE Marshaler -----------------------------
(***************************************************************************)
(* The tree-order encoder of package dom (src/dom/marshaler.go 84-174):    *)
(* treeOrder walks the tree with an explicit stack of thunks instead of    *)
(* recursion.  A start thunk encodes its node's token and returns the      *)
(* node; the loop then pushes the node's end thunk and a start thunk for   *)
(* each child, tail first, finding the tail through the head's prevSib     *)
(* and walking prevSib back while nextSib is not nil.                      *)
(*                                                                         *)
(* out is the sequence of tokens given to enc.EncodeToken; merr the error  *)
(* treeOrder returns.  Namespaces and element attributes are not          *)
(* modelled.                                                               *)
(***************************************************************************)
EXTENDS Naturals, Sequences, SequencesExt, XmlToken

CONSTANTS NIL, NodeKind, Bound,
          PITarget   \* the target of every processing instruction node

VARIABLES node, value, mstack, out, merr

Thunk(op, n) == [op |-> op, n |-> n]

\* The loop of treeOrder from the tail's prevSib back to the head: it
\* stops at the node whose nextSib is nil, which from the head is the tail.
RECURSIVE BackFrom(_, _)
BackFrom(it, k) ==
    IF k = 0 \/ node[it].nextSib = NIL THEN <<>>
    ELSE <<Thunk("start", it)>> \o BackFrom(node[it].prevSib, k - 1)

\* Mutant: the push loop starting at the tail instead of the node before it.
PushesFromTail(n) ==
    <<Thunk("end", n)>> \o
    IF node[n].firstChild = NIL THEN <<>>
    ELSE LET tail == node[node[n].firstChild].prevSib IN
         <<Thunk("start", tail)>> \o BackFrom(tail, Bound)

\* What the loop pushes after a start thunk returned n.
Pushes(n) ==
    <<Thunk("end", n)>> \o
    IF node[n].firstChild = NIL THEN <<>>
    ELSE LET tail == node[node[n].firstChild].prevSib IN
         <<Thunk("start", tail)>> \o BackFrom(node[tail].prevSib, Bound)

\* The encoder's buffer holds bytes: a token other than empty character
\* data has been encoded.
Written == \E i \in DOMAIN out : out[i].type # "text" \/ out[i].v # ""

\* The error of a start thunk: the type switch has no case for the kind,
\* or EncodeToken refuses the token: an element with no name ("xml: start
\* tag with no name"), an xml ProcInst after bytes have been written ("only
\* valid for xml declaration, first token encoded").
StartError(n) ==
    \/ NodeKind[n] \notin {"Element", "Comment", "Text", "Declaration",
                           "ProcInst", "Document", "Fragment"}
    \/ NodeKind[n] = "Element" /\ value[n] = ""
    \/ NodeKind[n] = "Declaration" /\ Written

\* The token a start thunk encodes.
StartToken(n) ==
    CASE NodeKind[n] = "Element" -> <<StartTok(value[n])>>
      [] NodeKind[n] = "Comment" -> <<CommentTok(value[n])>>
      [] NodeKind[n] = "Text" -> <<TextTok(value[n])>>
      [] NodeKind[n] = "Declaration" -> <<ProcInstTok("xml", value[n])>>
      [] NodeKind[n] = "ProcInst" -> <<ProcInstTok(PITarget, value[n])>>
      [] OTHER -> <<>>

\* treeOrder's first push.
BeginWalk(root) ==
    /\ mstack' = <<Thunk("start", root)>>
    /\ out' = <<>>
    /\ merr' = "ok"
    /\ UNCHANGED <<node, value>>

Walking == mstack # <<>> /\ merr = "ok"

\* A turn of the loop that pops a start thunk: encode the node's token,
\* then push its end thunk and its children; an error ends the walk.
encodeNodeValueStart ==
    /\ Walking
    /\ Last(mstack).op = "start"
    /\ LET n == Last(mstack).n IN
       IF StartError(n)
       THEN merr' = "encode" /\ mstack' = Front(mstack) /\ UNCHANGED out
       ELSE /\ out' = out \o StartToken(n)
            /\ mstack' = Front(mstack) \o Pushes(n)
            /\ UNCHANGED merr
    /\ UNCHANGED <<node, value>>

\* A turn that pops an end thunk: an element's end tag; it returns nil and
\* the loop pushes nothing.
encodeNodeValueEnd ==
    /\ Walking
    /\ Last(mstack).op = "end"
    /\ LET n == Last(mstack).n IN
       out' = IF NodeKind[n] = "Element" THEN Append(out, EndTok(value[n])) ELSE out
    /\ mstack' = Front(mstack)
    /\ UNCHANGED <<node, value, merr>>
=============================================================================
