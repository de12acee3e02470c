---------------------------- MODULE MC_YangDecode ----------------------------
(* A Document root, five Element and four Text nodes (the most seven        *)
(* tokens of depth three can create), and the schema of module m:          *)
(*   container sys { leaf host; choice ch { case cs { leaf opt } } }       *)
(* Names: sys, host and opt in m; bad (no such entry) in m; host in        *)
(* namespace x (wrong namespace).  Initialized for rfc6020 or rfc7951.   *)
EXTENDS YangDecode

CONSTANTS d, e1, e2, e3, e4, e5, t1, t2, t3, t4

MCNodes == {d, e1, e2, e3, e4, e5, t1, t2, t3, t4}
MCNodeKind == (d :> "Document") @@ [x \in {e1, e2, e3, e4, e5} |-> "Element"]
              @@ [x \in {t1, t2, t3, t4} |-> "Text"]

MCEntries == {"sys", "host", "ch", "cs", "opt"}
MCKind == ("sys" :> "dir") @@ ("host" :> "leaf") @@ ("ch" :> "choice")
          @@ ("cs" :> "case") @@ ("opt" :> "leaf")
None == [l \in {} |-> "none"]
MCDir == ("sys" :> (("host" :> "host") @@ ("ch" :> "ch")))
         @@ ("ch" :> ("cs" :> "cs")) @@ ("cs" :> ("opt" :> "opt"))
         @@ ("host" :> None) @@ ("opt" :> None)
MCEntryNS == [e \in MCEntries |-> "m"]
MCModDir == "m" :> ("sys" :> "sys")
\* The module of namespace m is named x: rfc7951Lookup resolves x:host to
\* m:host and fails for m:host.
MCModNS == "x" :> "m"
MCInitializeArgs == {<<"name.resolver", "rfc6020">>, <<"mediatype", "application/yang-data+json">>}

Nm(s, l) == [space |-> s, local |-> l]
MCNames == {Nm("m", "sys"), Nm("m", "host"), Nm("m", "opt"), Nm("m", "bad"), Nm("x", "host")}
=============================================================================
