------------------------------ MODULE XmlToken ------------------------------
(***************************************************************************)
(* The tokens that pass between the token sources, the TokenDecoder        *)
(* interface (src/dom/attr.go 86-100) and xml.Encoder: a start tag, an end *)
(* tag, character data, a comment, a processing instruction (target and    *)
(* instruction text) and a directive.  A name or a text is a short string; *)
(* the attributes of a start tag are not among the tokens generated.      *)
(***************************************************************************)

StartTok(nm) == [type |-> "start", v |-> nm]
EndTok(nm) == [type |-> "end", v |-> nm]
TextTok(cd) == [type |-> "text", v |-> cd]
CommentTok(c) == [type |-> "comment", v |-> c]
ProcInstTok(target, inst) == [type |-> "procinst", target |-> target, v |-> inst]
DirectiveTok == [type |-> "directive", v |-> "doctype"]
=============================================================================
