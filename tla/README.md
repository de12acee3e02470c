# TLA+ models of opr8

opr8 is a Go library for YANG-modelled network management data: a DOM
(package `dom`) holding XML/JSON documents as a pointer tree, token decoders
that build such trees from XML or JSON (a schema-less `Builder` and the
schema-driven `datastore.Decoder`), a `Marshaler` that writes a tree back
out, and a session manager (package `session`) that accepts sessions over
transports and tracks them by ID. This directory holds the TLA+ modules that
model these parts, the TLC configurations that check them, and
`PROJECT.json`, which maps every modelled definition to the source lines it
translates.

## The system

| Part | Source | State | Operations |
|---|---|---|---|
| DOM node store | `src/dom/comment.go` lines 30-638 (node.go; the same code, with fuller comments, in `src/unnamed/part_007`) | per node: `parent`, `firstChild`, `nextSib`, `prevSib`, `firstAttr`, `value` | `AppendChild`, `PrependChild`, `InsertChildAfter`, `InsertChildBefore`, `AppendAttribute`, `PrependAttribute`, `InsertAttributeAfter`, `InsertAttributeBefore`; navigation `Parent`, `FirstChild`, `LastChild`, `NextSibling`, `PreviousSibling`, `FirstAttribute`, `LastAttribute`; list primitives `appendNode`, `prependNode`, `insertNodeBefore`, `insertNodeAfter`, `appendAttribute`, `prependAttribute` |
| Document, fragment | `src/unnamed/part_002` | document context; fragment host = parent pointer | `DocumentElement`, `Host`, `SetHost` |
| Text | `src/unnamed/part_001` | a byte slice | `SetData`, `DeleteData`, `ReplaceData`, `AppendData`, `InsertData` |
| Builder, Unmarshaler | `src/dom/attr.go` | cursor node; an element is linked to its parent only at its end tag | `Begin`, `StartElement`, `EndElement`, `CharData`, `Comment`, `ProcInst`, `End`; the token loop `UnmarshalXML`, `UnmarshalJSON` |
| JSON decoder | `src/dom/json_decoder.go` | the next decoder function, a stack of element names | `jsDecodeStart`, `jsDecodeArray`, `jsDecodeObject`, `bail` |
| Marshaler | `src/dom/marshaler.go` | an explicit stack of pending nodes | `treeOrder`, `encodeNodeValueStart`, `encodeNodeValueEnd` |
| Iterator | `src/dom/iterator.go` | the current match | `NextSibling`, `PreviousSibling` |
| YANG decoder | `src/datastore/decoder.go` | cursor node, schema entry, a stack of restore closures, a skip flag, an error list | `StartElement`, `EndElement`, `CharData`, `End`, `dataChild` |
| Module collection | `src/modules/modules.go` | goyang module store | `Import`, `ImportAll`, `Process`, `RootEntry` |
| Session manager | `src/unnamed/part_003` (lines 189-323) | mutex, map ID to session, ID generator | `Accept`, the per-session watcher goroutine, `Terminate`, `NextID` |

How they interact: the decoders are driven by the token loop of
`Unmarshaler` and write the tree only through the node store's public
inserts (`AppendChild`); the Marshaler and the Iterator read the lists
through `nextSib`/`prevSib`. The session manager is independent of the DOM:
concurrent `Accept` calls, one watcher goroutine per accepted session and
`Terminate` share the session map under one mutex.

What makes them hard: the node store keeps its lists circular backwards (the
head's `prevSib` is the tail, the tail's `nextSib` is nil), so every
primitive has to update a pointer two nodes away, and the public methods
leave the "move" checks (a node already in a tree, an ancestor) to the
caller. The decoders keep a cursor and a stack that must stay in step with
the token stream, including its error paths and truncated input. The session
manager has real concurrency: goroutines that delete by ID, an ID generator
that wraps, and a bounded retry loop.

## Modules

### `Builder`, `JsonDecoder`, `Marshaler`, `Unmarshal` (attr.go, json_decoder.go, marshaler.go)

`Builder` instantiates `DomTree` (same variables and constants) and adds
`value` (an element's name or a text's bytes, `"none"` for nodes no call
has created: the pool of fresh nodes stands for `newStartElement` and
`newText`) and `cursor` (`un.Node`). `StartElement` sets only the new
node's parent pointer; `EndElement` calls `DomTree`'s `AppendChild` and
moves the cursor up on success; `CharData` is the option cascade of the
code (`Stored`), appending through `AppendChild`. `End` maps `"EOF"` to
success. `TopOf` is `Root()`. `Comment` and `ProcInst` keep the
code's order of checks: `Comment` tests its option first, `ProcInst`
tests where the node may go (`allowInsertChildErr`) first and the option
after, so a discarded instruction can still fail. A `ProcInst` with
target `xml` is `AddDeclaration`: `newDeclaration` appends one fresh
attribute node per pair `kvPairs` returns (`DeclAttrs`, `AttachAll` over
`DomTree`'s `appendAttributeIn`) before the declaration is linked.
`Directive` always fails with `"TODO"`. A comment's or instruction's
`value` is its text; an instruction text is an id whose bytes are
`InstChars[id]`.

`JsonDecoder` extends `Builder`. `fn` is the state function
`runJSDecoder` calls next (`"halt"` for nil), `jstack` the `jdStack` of
`[fn, key]` frames, `jerr` is `d.error`. One action is one call of
`jsDecodeStart`, one turn of the `for d.More()` loop of `jsDecodeObject`
or `jsDecodeArray`, or the code after that loop. The Builder calls a turn
makes are queued in `pending` and made one per step by `Deliver`, whose
error bails and drops the rest, as the code's early returns do. The
`json.Decoder` is the environment: the document is a JSON tree whose
`Token()` sequence (`JTokens`) is cut after `cut` tokens and followed by
`stop`: `"EOF"` (`More()` false, `Token()` returns `io.EOF` at any depth)
or `"SyntaxError"` (`More()` true, `Token()` fails).

`Marshaler` is `treeOrder`: `mstack` holds start and end thunks; popping a
start thunk emits the node's token (or the encoder's error for an element
with an empty name, or an unexpected kind) and pushes its end thunk and
its children's start thunks, tail first, walking `prevSib` from the tail
until `nextSib` is nil, as lines 111-114 do.

`Unmarshal` composes the three: `Init` picks the front end,
`UnmarshalXML` (an `xml.Decoder` environment: any token well-formed input
can have next, `io.EOF` only with no element open, never two texts in a
row) or `UnmarshalJSON` of a document of `JsonDocs` (the exact input
`null` returns before `Begin`); then `Marshal` writes the Builder's
`Root()` out with `Marshaler`. `input` records the Builder calls made.
The `xml.Decoder` also returns comments, instructions with target `xml`
or `PITarget`, and a directive, anywhere and at most `MaxMisc` of them.
The Marshaler writes a comment or an instruction as its token, and fails
on a declaration once a byte has been written (`Written`), as
`encoding/xml`'s `EncodeToken` does.

### `Declaration` (declaration.go)

`kvPairs` over a text as a sequence of one-byte strings: `Fields` is
`bytes.Fields`, `IndexRune` the 0-based `bytes.IndexRune`, and
`FieldPair` one turn of the loop, with Go's slices `field[:idx]`,
`field[idx+1:]` and `v[1:idx+1]` shifted to 1-based `SubSeq`. `RefPairs`
is spec 4.2's description stated independently: fields as maximal runs
between spaces, and a pair as the decomposition `k = q v q rest` with no
`=` in `k` and no `q` in `v`. `DeclarationAttrs` (in `Unmarshal`)
compares the attributes of each declaration the Builder made with
`RefPairs` of its text.

### `SchemaDecoder`, `YangDecode` (datastore/decoder.go)

`SchemaDecoder` instantiates `DomTree` and models the YANG `Decoder`:
`schema` (`NoEntry` for nil), `cursor`, `skip`, `errors`, and `stack`, the
restore closures as records of what they captured (`schema`, `node`, and
whether the closure clears `skip`). The schema is a constant tree
(`Kind`, `Dir`, `EntryNS`; `ModDir` for the modules' top-level entries,
which is all `RootEntry` reads). `dataChildOf` is `dataChild`: the
direct data child, else the first match of a loop over a Go map, whose
order varies, so it returns the set of entries the loop can return first.
`StartElement` first calls `childname`, the lookup `Initialize` chose
(`"nil"` until it runs, and the call then panics): `rfc6020Lookup` passes
the name through, `rfc7951Lookup` reads its namespace as a module name
(`ModNS` gives each module's namespace) and fails for an unknown module.
It rejects a name whose lookup fails or whose candidate is missing or in
another namespace. `EndElement` and `CharData` pop the stack and set
`ret = "panic"` when it is empty. `Comment` and `ProcInst` return nil and
`Directive` the error `"TODO"`. `Initialize(cn, kv)` is the code's switch
on the value of the last recognized key: an odd list fails, a JSON or XML
format selects `rfc7951`/`rfc6020`, anything else (the empty list
included) fails after setting `rfc6020`.

`YangDecode` starts in one of `Fronts`: `XMLReader().ReadFrom`, whose
`tdInit` calls `Initialize` with the Unmarshaler's `InitializeArgs` when
they are a non-empty list of pairs and with no arguments otherwise, or
`UnmarshalXML` called directly, with `childname` nil. It feeds the
decoder from `UnmarshalXML`'s loop, including one comment, instruction or
directive per input (`MaxMisc`), and records, beside each
handler, spec 4.6's verdict on the token (`keep`, and `par`, the start
tag of the element it belongs under) and the node the handler created
(`made`). `MC_YangDecode`'s schema is `container sys { leaf host; choice
ch { case cs { leaf opt } } }` in module `m`; the names are `sys`, `host`
and `opt` in `m`, an unknown `bad`, and `host` in a wrong namespace `x`.

### `AbstractTree` (what the node store promises)

No pointers: `children[n]` and `attrs[n]` are sequences. One action per
public insert, stated once for children (`InsertChild(n, c, ref, after)`)
and once for attributes; a call the kind rules forbid, or whose reference is
not in the list, fails with `HierarchyRequest` and changes nothing. This is
spec.md section 4.1. `host[f]` is the host Element a DocumentFragment
reports, which any step may set (spec 3: a fragment is in no list). The
operators take the tree as parameters, and `Next` binds the (mapped) state
once, so that checking the refinement stays cheap.

### `DomTree` (node.go)

`node` is a function from node ids to records `[parent, firstChild,
nextSib, prevSib, firstAttr]`; `ret` is the result of the last call. Each
list primitive is an operator that returns the new `node` function, and
every pointer write of the Go code is one clause of a multi-clause `EXCEPT`
in the code's order; all reads in the primitives read values written by no
earlier clause, as in the Go code, so aliasing behaves the same. Each public
method is an action whose disjuncts are its early returns. The node kinds
are a constant function `NodeKind` (a node's `value` never changes type).
`CreateDocumentFragment` gives a fresh fragment node a parent pointer to
its host, in no list; `SetHost` overwrites that pointer; `Host` reads it
back when it names an Element. `insertNodeAfter`'s nil dereference of
`parent.firstChild` (reachable only with a reference outside its parent's
list) is the outcome `"panic"` (`AfterPanics`).

`ClientNext` is a client that makes any *supported* call: the child is
detached (fresh from a `Create*` factory, or never linked) and is neither
`n` nor an ancestor of `n` and is not a fragment, no reference is a
fragment, references of `InsertChildBefore` are not children of `n`, and
attribute references are not attributes of `n`. It also creates fragments
and moves their hosts. The
paths outside it are exercised by the three violation clients
`BeforeSiblingNext`, `MoveNext` and `AllowedAttrNext`.

The refinement mapping reads each list forward from its head:
`children <- [p |-> ChildSeq(p)]`, `attrs <- [p |-> AttrSeq(p)]`,
`host <- [f |-> Host(f)]`.

`MC_DomTree` instantiates it with a Document `d`, Elements `e1`, `e2`, a
Text `t`, a Declaration `x`, a DocumentFragment `f` and attributes `a1`,
`a2`; `dom_supported` takes the two Elements, and the two attributes, as
symmetric (every property quantifies over all nodes and `Refinement` is a
safety property).

### `Iterator` (iterator.go)

The iterator only reads the node store, so its calls are operators on
`DomTree`'s `node`, not actions: an iterator is `[parent, wrap, match]`,
with the filter `match` as the set of nodes it accepts, and a call returns
the node it moves to (also the new `wrap`). `IterNextSibling` steps from
`wrap` with the `Node` method `NextSibling` (or from `FirstChild` when
`wrap` is nil) and scans the `*node` chain forward (`ScanNext`);
`IterPreviousSibling` steps with `PreviousSibling` (or `LastChild`) and
scans back along `prevSib` while `cur.nextSib != nil` (`ScanPrev`). The
`Node` methods return a nil interface at the ends of a list, and
`it.wrap.nodePtr()` on it panics: that outcome is `"panic"`. `MC_DomTree`
extends `Iterator`, and `dom_supported` checks the iterator on every tree
the supported calls build, over every parent and every filter.

### `SessionManager` (part_003, manager.go)

`gen` is `genIncrement.id`; `sessions` is `mgr.sessions` as a function on
the IDs `1 .. 2^IDBits - 1` (NoSession where the key is absent); per slot,
`state` and `sid` are the slot's current Accept and its `id` variable. A
slot is a connection handler that calls `Accept` again once its previous
session has ended or been refused. Every critical section of the code is
one action, because the mutex is held across each of them and no value
read under it is used after the unlock: `Accept` (the deferred `Unlock`
runs at the function's return, so the ID loop, the backend's
`acceptor.Accept` and the map write are one section), the watcher
goroutine's delete, and `Terminate`. `PickID` is the ID loop as a
`RECURSIVE` operator: first ID that is non-zero and unused, otherwise the
last ID tried after `maxIDtries` tries. `Release` is the session
application (its Wait channel closes).

`MC_SessionManager` gives the slots as model values; `IDBits = 2` (three
IDs) narrows `uint32` while keeping its wrap and the skip of 0, and
`maxIDtries` keeps its code value 16.

### `AbstractText` and `CharacterData` (part_001, text.go)

`AbstractText` is spec 3's CharacterData on a sequence of runes, offsets
and counts in runes. `CharacterData` is the code: `value` is the `[]byte`
of `*text`, each method an action on byte offsets, with its `IndexSize`
early return and the `panic` of a slice expression out of range. Bytes are
abstracted to `"a"`, `"b"` (one-byte runes) and `"H"`, `"T"` (lead and
continuation byte of the two-byte rune `"é"`); `Decode` reads the bytes
the way Go's `string()` does, an ill-formed byte as `"?"`, and is the
refinement mapping. The client counts in runes, as the interface comments
say, and its offsets are turned into the byte offsets of the same runes.
Both modules keep a history variable `call`: the operation and the rune
inputs of the last call. It changes no behaviour. It makes the refinement
match each step with the same operation, so an `InsertData` at the end of
the text cannot pass as an `AppendData` step. Each operation ranges only
over the inputs it takes.
`MC_CharacterData` starts from the text `"aé"`, passes `""`, `"b"`,
`"é"`, offsets 0..3 (one past the longest text) and counts -1..2, and
bounds the value at `MaxBytes = 5` bytes.

## Runs

| Run | Expect | Checks | Shows |
|---|---|---|---|
| `dom_supported` | pass | `TypeOK`, `SiblingListsWellFormed`, `NavigationAgrees`, `IteratorVisitsMatches`, `IteratorStepsBack`, `Refinement` | every sequence of supported calls keeps every list a proper circular-tail list whose members name the owner as parent, the O(1) `LastChild`/`LastAttribute`/`PreviousSibling` agree with the forward walk, each step (fragment creation and `SetHost` included) is a step of `AbstractTree`; on every such tree and filter, forward iteration returns exactly the matching children in order and then ends, and a backward step after it returns the previous match (`IteratorVisitsMatches`, `IteratorStepsBack`) |
| `dom_insert_before` | violation | `SiblingListsWellFormed` | `InsertChildBefore(n, c, ref)` with `ref` a child of `n` sets `c.parent = ref` and, for the head, links the tail to `c` (a cycle) |
| `dom_move` | violation | `ParentsAcyclic` | `AppendChild(e, e)` passes the kind check and makes `e` its own parent: `allowMove` is never called |
| `chardata_pass` | pass | `ValidUTF8`, `Refinement` | a client counting in runes, replacing runes by runes of the same width, keeps the value well-formed UTF-8, and each call is the rune-level call of spec 3 |
| `chardata_replace` | violation | `ValidUTF8` | `ReplaceData(0, 1, "é")` on `"aé"` is accepted and copies only the lead byte of `"é"` |
| `session_pass` | pass | `SessionMapExact` | with three slots over three IDs, through wraps and ID reuse, the map holds exactly the live and released sessions under their own IDs |
| `session_overwrite` | violation | `SessionMapExact` | with four slots over three IDs, `Accept` leaves the ID loop with an ID in use and overwrites a live session's entry |
| `unmarshal_pass` | pass | `RoundTrip`, `DeclarationAttrs` | for every XML token stream of up to six tokens and depth two with at most one comment, instruction or directive, and every complete JSON document of the set (top-level arrays of scalars only), a successful Unmarshal is written back by `treeOrder` as the tokens the Builder kept (spec 8), and every declaration carries the attributes spec 4.2 reads from its text |
| `unmarshal_json_syntax` | violation | `JsonMapping` | `{"a": <bad value>` is decoded as an empty document: the value's syntax error is dropped |
| `unmarshal_json_toparray` | violation | `UnwoundAtEnd` | the complete document `[{}]` succeeds with the cursor on an element named `""` that is never closed or linked |
| `yang_mapping` | violation | `YangMapping` | character data with no element open (the newline after the root's end tag) makes `CharData` pop the empty restore stack: a panic |
| `yang_skip` | violation | `YangMapping` | with no text outside the root, `<host xmlns="x"><host xmlns="x"/>t`: the inner rejected element's closure turns `skip` off inside the outer one, and `t` is appended to the Document |

Unmarshal bounds: the XML front end has names `a`, `b`, a text and a
blank text, depth two and six tokens: nested elements, siblings, text
before and after elements, and blank text under each option setting of
`Stored`. The JSON documents are objects of up to two members whose
values are a scalar, an object of none or one member, an array of up to
two scalars or empty objects, or an array in an array; top-level arrays
of up to two scalars, a top-level string, and `null` (381 trees). So
every state function meets each token kind, arrays of objects pop and
push frames under a key, a top-level array of scalars runs on the zero
frame, and the nested-array error and the top-level scalar error both
occur. Top-level arrays of objects are left out of this run: every such
document breaks `RoundTrip` (and spec 4.4's mapping and the unwinding of
spec 7) through the zero frame's empty key, which
`unmarshal_json_toparray` shows on the complete documents with them added.
For the same reason `JsonMapping` and `UnwoundAtEnd` are checked only by
the violation runs: a pass run over the documents that keep them would
leave out the case that breaks them. The
pool has four elements and four texts, which the largest document needs;
the space is exhausted (132,001 states). With `Comments` and `Declaration`
on and `ProcInst` off, one misc token per input reaches a kept comment, a
kept declaration (under the Document, and refused inside an element), a
discarded instruction and the failing directive. The three instruction
texts hold two pairs (one with an empty key), a quote of the other kind
inside a value, an `=` with nothing after it, a key with a quote in it, a
quote after the closing one, a value without a quote and an unmatched
quote; two attribute nodes are enough for the largest. The violation
runs, with no options and no misc tokens, cut each tree of at most one
member after every number of its tokens.

YANG bounds: depth three and seven tokens reach a rejected element inside
a rejected element with more content after it, text in a container
followed by an element, and text at the top level; the pool has the five
elements and four texts seven such tokens can create. `yang_mapping`
reports the shortest violation, the panic. `yang_skip` narrows the input
to no text at the top level (`TopLevelText = FALSE`) and reports the next
hazard: inside a rejected element, after a rejected child closes, `skip`
is false again and the text is appended to the Document (the closure
clears `skip` instead of restoring it). Both runs enter through
`XMLReader` with `InitializeArgs` selecting `rfc6020` or `rfc7951` (as the
session code sets them, part_003:111, 152); under `rfc7951` the module
named `x` has namespace `m`, so `x:host` resolves and `m:host` fails the
lookup. A third hazard was checked with valid names only, `<sys>t<sys>`
(`CharData` runs the top closure, moving the cursor and the schema up to
the Document, so the inner `sys` resolves as a top-level entry and is
created under the Document).

Deadlock: `unmarshal_pass` and the YANG and JSON runs set
`CHECK_DEADLOCK FALSE`: every behaviour ends in phase `"done"`, where the
program has returned.

Bounds: six non-attribute nodes cover each kind rule (Document parent,
Element parent, a Text leaf, a Declaration allowed only under the Document,
Document never a child) and a fragment hosted by either Element or by none, and lists of up to four children, long enough for
head, middle and tail positions of every primitive; two attributes give
attribute lists with a head and a tail. The state space is exhausted
(4430 states up to symmetry): every reachable tree of these nodes is
checked. Deadlock is checked: `SetHost` is always possible once the
fragment exists.

Iterator ends: two behaviours at the ends of the walks were confirmed with
scratch invariants over the same space, and have no run of their own
because every run slot is in use. When the last match is the parent's last
child, the `NextSibling` call after it panics (iterator.go:69): the trace
is one `AppendChild`. A fresh iterator's `PreviousSibling` returns nil at
once, for every list (iterator.go:85): it starts at the tail, whose
`nextSib` is nil, so the loop never runs and the backward walk visits
nothing.

Session bounds: three slots over three IDs is the largest pool in which
the ID loop can always find a free ID (at most two other sessions are
tracked when a slot accepts), and `gen` wraps after three IDs, so ID reuse
after a wrap, releases in any order and late watchers all happen; the space
is exhausted (4496 states). Four slots over three IDs is the smallest
configuration in which all IDs can be in use, the analogue of
`maxIDtries` consecutive IDs in use in the code.

Session fairness: none is assumed. The watcher goroutine would be weakly
fair (it is runnable once Wait closes, and `sync.Mutex` hands the lock to
a starved waiter), but its one step is the delete, so "a released session
is eventually untracked" would restate that assignment under that
fairness; `SessionMapExact` checks what the delete must remove.

Fairness: the DOM is a sequential library called by one client; none of its
properties is a liveness property, and no fairness is assumed.

Mutants (each passing property fails under a plausible bug): dropping the
kind check of `allowInsertAttribute` breaks `TypeOK`; an `appendNode` that
forgets `head.prevSib = child` breaks `SiblingListsWellFormed`; a
`PreviousSibling` that returns `prevSib` unconditionally breaks
`NavigationAgrees`; an `allowInsertChild` without the Declaration rule
breaks `Refinement`; a `NextSibling` that scans from the wrapped node
instead of its next sibling breaks `IteratorVisitsMatches`; a backward scan
that loops while `cur != nil`, as the forward one does, wraps from the head
to the tail and breaks `IteratorStepsBack`. An ID loop that takes the next ID without testing the
map breaks `SessionMapExact`. A `DeleteData` that keeps the last byte of the range
breaks `ValidUTF8`; an `InsertData` that also accepts the end of the value
breaks `Refinement`. A `treeOrder` that walks the children from the tail
(pushing the head last) breaks `RoundTrip`; a `FieldPair` that slices the value one byte short
(`v[1:idx]`) breaks `DeclarationAttrs`.

Decoder fairness: the decoders run in the caller's goroutine and stop when
the input ends; all their properties are invariants, and no fairness is
assumed.

## Findings

* `insertNodeBefore` (comment.go:463-474) writes `child.parent = before` and
  takes the "before is the head" branch only when `before.prevSib` is nil,
  which no linked node has.
* No public insert calls `allowMove` (comment.go:520): a linked node or an
  ancestor is relinked without being unlinked.
* Attribute nodes never get a parent pointer, so the reference check of
  `InsertAttributeAfter/Before` (comment.go:401, 414) always fails, and
  `insertAttributeAfter/Before` are unreachable.
* `InsertChildAfter` (comment.go:288) takes `after.Parent() == n` for
  membership, and a fragment's parent pointer is its host: after
  `CreateDocumentFragment(f, e2)`, `InsertChildAfter(e2, t, f)` links `t`
  after `f`, outside `e2`'s list, and makes `t` the tail `LastChild(e2)`
  returns; with `e2` childless it panics (comment.go:482). Shown on
  `MC_DomTree` with fragments allowed as references
  (`SiblingListsWellFormed`, and `ret # "panic"`); no run of the project
  keeps it, as the supported client passes no fragment reference.

* The ID loop of `Accept` (part_003:275-282) leaves with an ID in use
  after `maxIDtries` collisions and the `id == 0` test after it can never
  fire with `genIncrement`: `Accept` overwrites a live entry, and that
  session's watcher later deletes the new session's entry.

* `ReplaceData` (part_001:86-89) compares the replacement's bytes with the
  count and copies `arg[:count]`: a rune replaced by a wider rune is cut
  to its lead byte. Spec 3 counts in runes and wants exactly `count` runes.

* `jsDecodeObject` (json_decoder.go:150-154) reads a member's key and
  value with two `Token()` calls and, when the second fails, bails with the
  first call's nil error: the syntax error is dropped and `UnmarshalJSON`
  returns nil with the member missing.
* `Builder.End` (attr.go:274-279) takes `io.EOF` for success at any depth,
  and `json.Decoder` returns `io.EOF` when input stops between tokens: JSON
  cut short inside an object succeeds, and the open element, linked only at
  its end tag, is lost. Spec 7 rejects end-of-stream with the cursor away
  from the root. (The XML front end is safe: `xml.Decoder` reports
  "unexpected EOF" itself.) Shown by `UnwoundAtEnd` with every document
  cut after each of its tokens and stopped by `io.EOF`
  (`MCJsonCut({"EOF"})`); its run slot now shows the next finding.
* For an object in a top-level array, `jsDecodeArray` pushes back the zero
  frame, pushes `(jsDecodeArray, "")` and opens an element named `""`
  (json_decoder.go:100-110); `jsDecodeObject` closes only a non-empty key
  (line 197), so the element is never closed and the zero frame's nil
  function ends decoding: `UnmarshalJSON` of the complete `[{}]` returns
  nil with the cursor on an unlinked element and an empty document
  (`unmarshal_json_toparray`).
* `Builder.ProcInst` (attr.go:254) checks where the node may go before
  the option: `<b><?xml ...?>` fails `UnmarshalXML` with
  `HierarchyRequest` even with declarations off, where spec 4.3 discards
  disabled events. Shown on `MC_Unmarshal` with `Opts = {}` by the
  invariant `phase = "done" => result # "HierarchyRequest"`; no run of
  the project keeps it.
* The Builder accepts a declaration after top-level text or an element,
  and `encoding/xml` encodes an `xml` instruction only as the first token
  (marshaler.go:149): the document Unmarshal accepted fails to Marshal,
  against spec 8's round trip. Shown on `MC_Unmarshal` by the invariant
  `phase = "done" /\ result = "ok" => merr = "ok"` (input: text `t`, then
  the declaration); `RoundTrip` is stated for a successful Marshal.
* The YANG `Decoder`'s `CharData` (decoder.go:172) pops the restore stack
  without a length check (line 270): text outside the root element panics.
* The restore closure of a rejected element (decoder.go:149) sets `skip`
  to false, also for an element rejected while already skipping: the rest
  of the outer rejected subtree is decoded (`yang_skip`).
* `CharData` runs the top restore closure after appending its text
  (decoder.go:178): the cursor leaves the element before its end tag, and
  an element after text is created one level up (`<sys>t<sys>`, checked
  with valid names only).
* `Initialize()` with no pairs (decoder.go:99), what `XMLReader().ReadFrom`
  passes when `InitializeArgs` is empty, fails with "unsupported '' key
  value", though the comment above calls XML resolution the default and
  spec 4.6 fails only unrecognized values. Shown with
  `InitializeArgs = {<<>>}` by the invariant `result # "InitError"`.
* `UnmarshalXML` never calls `tdInit`: a `Decoder` used through it directly
  (as `xml.Unmarshal` does) has a nil `childname`, and the first start tag
  panics (decoder.go:121). Shown with `Fronts = {"UnmarshalXML"}` by the
  invariant `result # "panic"`.
* The attribute-reference finding above is reproduced by
  `tlc -config DomTree_attr_ref.cfg MC_DomTree` (`AllowedAttrCallsSucceed`
  fails at the first `InsertAttributeAfter` with a reference); it has no run
  of its own, its slot having gone to `yang_skip`.

## Plan

Later work, in this order:

1. Names with namespaces: `jsTagToName`'s split, the Marshaler's
   namespace elision and the `emitExplicitNS` mismatch (marshaler.go:168).
2. A passing YANG run over inputs the decoder handles (no nested
   rejected elements, text only as the last child of a leaf), with the
   schema-conformance of the built tree as a property. Every run slot is
   now in use: it would replace one of the violation runs.
3. The YANG decoder fed by `readerJSON`, composing `JsonDecoder` with
   `SchemaDecoder` under `rfc7951Lookup`.

## Not modelled

* `src/modules/modules.go` other than `RootEntry`: a wrapper over the
  goyang parser; its state is the external library's.
* The byte counting of the reader wrappers (`countReader`), and
  `readerJSON` with the YANG decoder: JSON input to it would compose
  `JsonDecoder`, which extends `Builder`, with `SchemaDecoder`.
  `strings.ToLower` in `Initialize`: the configuration values given are
  lower case already.
* The XML package is `github.com/andaru/flexml`, a fork of
  `encoding/xml`. Its decoder and encoder are the environment of the
  models, and their checks (an `xml` instruction only as the first token
  encoded, an element with no name refused, `io.EOF` only between
  top-level tokens) are taken to be `encoding/xml`'s.
* Element attributes and the Marshaler's namespaces: the token
  environments produce no attributes or namespaced names. The encoder's
  checks of comment text (`--`) and instruction text (`?>`): texts are
  opaque ids.
* `procinst.Target` and `procinst.Inst` (procinst.go:24-25) call
  themselves and never return; they change no state.
* `src/unnamed/part_009`, `part_008`, `src/transport/types.go`: interfaces
  and documentation. The contract "Wait is closed after Release" is an
  assumption of the planned session model.
* `src/dom/nodetype.go`, `errors.go`: constants and
  formatting; the kinds appear as `Kinds` in `DomTree`.
* `Format`, `Value`, `Name`, `ChildByName`: string and lookup helpers that
  change no state.
* `removeAttribute` and `allowMove`: never called.
