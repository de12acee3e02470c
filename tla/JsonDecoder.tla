---------------------------- MODULE JsonDecoder ----------------------------
(***************************************************************************)
(* JSONDecoder of package dom (src/dom/json_decoder.go): a state machine   *)
(* whose states are the functions jsDecodeStart, jsDecodeObject and        *)
(* jsDecodeArray, each returning the next, with a stack of (function,      *)
(* key) pairs; it turns the tokens of a json.Decoder into the              *)
(* StartElement, CharData and EndElement calls of the Builder.             *)
(*                                                                         *)
(* One action is one turn of a state function: a call of jsDecodeStart,   *)
(* or one turn of the "for d.More()" loop of jsDecodeObject or             *)
(* jsDecodeArray, or the code after that loop.  The Builder calls a turn   *)
(* makes are queued in pending and made one per step by Deliver; an        *)
(* error from one of them bails, abandoning the rest of the turn, as the   *)
(* code's "if err != nil { return d.bail(err) }" does.                     *)
(*                                                                         *)
(* The input is a JSON value (a tree), of which the decoder reads the     *)
(* first cut tokens; then the json.Decoder reports stop: io.EOF (input    *)
(* ends between tokens, More() is false) or a syntax error (More() is     *)
(* true, Token() fails).                                                   *)
(***************************************************************************)
EXTENDS Builder

\* jdoc: the input; pos: the index of the next token; fn: the state
\* function runJSDecoder calls next ("halt" for nil); jstack: d.stack;
\* jerr: d.error ("ok" for nil); pending: Builder calls still to make;
\* input: the Builder calls made so far.
VARIABLES jdoc, pos, fn, jstack, jerr, pending, input

jvars == <<jdoc, pos, fn, jstack, jerr, pending, input>>
bvars == <<node, ret, value, cursor>>

\* The tokens: json.Delim, string, and nil.
Delim(c) == [delim |-> c]
Str(s) == [str |-> s]
JNull == [null |-> "null"]
IsStr(t) == DOMAIN t = {"str"}

\* The tokens json.Decoder.Token returns for a value, in order.
RECURSIVE JTokens(_)
JTokens(x) ==
    CASE x.t = "str" -> <<Str(x.s)>>
      [] x.t = "null" -> <<JNull>>
      [] x.t = "obj" -> <<Delim("{")>> \o FlattenSeq([i \in 1 .. Len(x.m) |->
                                    <<Str(x.m[i].k)>> \o JTokens(x.m[i].v)])
                        \o <<Delim("}")>>
      [] x.t = "arr" -> <<Delim("[")>> \o FlattenSeq([i \in 1 .. Len(x.e) |-> JTokens(x.e[i])])
                        \o <<Delim("]")>>

Toks == SubSeq(JTokens(jdoc.tree), 1, jdoc.cut)

\* d.More(): the next byte is not a closing delimiter and not the end.
More == IF pos <= Len(Toks) THEN Toks[pos] \notin {Delim("}"), Delim("]")} ELSE jdoc.stop # "EOF"

\* The token at position i, or the error Token() returns there.
TokAt(i) == IF i <= Len(Toks) THEN Toks[i] ELSE jdoc.stop
TokErr(i) == i > Len(Toks)

\* The text of a scalar: a string as it is, null as "".
Scalar(t) == IF IsStr(t) THEN t.str ELSE ""

\* d.decode(name, value): StartElement, CharData, EndElement.
DecodeCalls(k, t) == <<StartTok(k), TextTok(Scalar(t)), EndTok(k)>>

\* jdStack.pop: the top, or the zero jdState (nil function, "" key).
Top == IF jstack = <<>> THEN [fn |-> "halt", key |-> ""] ELSE Last(jstack)
Popped == IF jstack = <<>> THEN <<>> ELSE Front(jstack)

bail(err) == jerr' = err /\ fn' = "halt" /\ pending' = <<>>

Idle(f) == fn = f /\ pending = <<>>

jsDecodeStart ==
    /\ Idle("start")
    /\ pos' = pos + 1
    /\ IF TokErr(pos) THEN bail(TokAt(pos))
       ELSE IF TokAt(pos) = Delim("{") THEN fn' = "object" /\ UNCHANGED <<jerr, pending>>
       ELSE IF TokAt(pos) = Delim("[") THEN fn' = "array" /\ UNCHANGED <<jerr, pending>>
       ELSE bail("UnexpectedToken")
    /\ UNCHANGED <<jdoc, jstack, input>> /\ UNCHANGED bvars

\* A turn of jsDecodeObject's loop: read a key and a value.  An error
\* reading the value bails with the key's error, which is nil.
ObjectMember ==
    /\ Idle("object") /\ More
    /\ pos' = pos + 2
    /\ LET t1 == TokAt(pos)  t2 == TokAt(pos + 1)  k == t1.str IN
       IF TokErr(pos) THEN bail(t1) /\ UNCHANGED jstack
       ELSE IF TokErr(pos + 1) THEN bail("ok") /\ UNCHANGED jstack
       ELSE IF t2 = Delim("[") THEN /\ jstack' = Append(jstack, [fn |-> "object", key |-> k])
                             /\ fn' = "array" /\ UNCHANGED <<jerr, pending>>
       ELSE IF t2 = Delim("{") THEN /\ jstack' = Append(jstack, [fn |-> "object", key |-> k])
                             /\ fn' = "object" /\ pending' = <<StartTok(k)>>
                             /\ UNCHANGED jerr
       ELSE pending' = DecodeCalls(k, t2) /\ UNCHANGED <<fn, jstack, jerr>>
    /\ UNCHANGED <<jdoc, input>> /\ UNCHANGED bvars

\* After jsDecodeObject's loop: consume "}", pop, close the element of
\* the popped key if it has one, resume the popped function.
ObjectEnd ==
    /\ Idle("object") /\ ~More
    /\ pos' = pos + 1
    /\ IF TokErr(pos) THEN bail(TokAt(pos)) /\ UNCHANGED jstack
       ELSE /\ jstack' = Popped
            /\ fn' = Top.fn
            /\ pending' = IF Top.key # "" THEN <<EndTok(Top.key)>> ELSE <<>>
            /\ UNCHANGED jerr
    /\ UNCHANGED <<jdoc, input>> /\ UNCHANGED bvars

\* A turn of jsDecodeArray's loop: the key of the enclosing frame (pop and
\* push back, which pushes the zero frame at the top level) names each
\* element.
ArrayElement ==
    /\ Idle("array") /\ More
    /\ pos' = pos + 1
    /\ LET t == TokAt(pos)  k == Top.key  st == Popped \o <<Top>> IN
       IF TokErr(pos) THEN bail(t) /\ UNCHANGED jstack
       ELSE IF t = Delim("{") THEN /\ jstack' = Append(st, [fn |-> "array", key |-> k])
                            /\ fn' = "object" /\ pending' = <<StartTok(k)>>
                            /\ UNCHANGED jerr
       ELSE IF t = Delim("[") THEN bail("NestedArray") /\ jstack' = st
       ELSE /\ pending' = DecodeCalls(k, t) /\ jstack' = st
            /\ UNCHANGED <<fn, jerr>>
    /\ UNCHANGED <<jdoc, input>> /\ UNCHANGED bvars

\* After jsDecodeArray's loop: consume "]" and resume the popped function.
ArrayEnd ==
    /\ Idle("array") /\ ~More
    /\ pos' = pos + 1
    /\ IF TokErr(pos) THEN bail(TokAt(pos)) /\ UNCHANGED jstack
       ELSE jstack' = Popped /\ fn' = Top.fn /\ UNCHANGED <<jerr, pending>>
    /\ UNCHANGED <<jdoc, input>> /\ UNCHANGED bvars

\* The next queued Builder call; its error bails.
Deliver ==
    /\ pending # <<>>
    /\ Dispatch(Head(pending))
    /\ input' = Append(input, Head(pending))
    /\ IF ret' = "ok" THEN pending' = Tail(pending) /\ UNCHANGED <<fn, jerr>>
       ELSE bail(ret')
    /\ UNCHANGED <<jdoc, pos, jstack>>
=============================================================================
