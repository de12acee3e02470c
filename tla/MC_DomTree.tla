----------------------------- MODULE MC_DomTree -----------------------------
(* The node store with one Document, two Elements, a Text, a Declaration  *)
(* and a DocumentFragment node, and two attribute nodes.                   *)
EXTENDS Iterator, TLC

CONSTANTS d, e1, e2, t, x, f, a1, a2

MCNodes == {d, e1, e2, t, x, f}
MCAttrNodes == {a1, a2}
MCNodeKind == (d :> "Document") @@ (e1 :> "Element") @@ (e2 :> "Element")
              @@ (t :> "Text") @@ (x :> "Declaration") @@ (f :> "Fragment")
              @@ (a1 :> "Attribute") @@ (a2 :> "Attribute")

\* The two Elements, and the two attribute nodes, are interchangeable: no
\* definition names one of them, and every property quantifies over all.
Symmetry == Permutations({e1, e2}) \cup Permutations(MCAttrNodes)
=============================================================================
