CONSTANTS
    d = d  e1 = e1  e2 = e2  e3 = e3  e4 = e4  t1 = t1  t2 = t2  t3 = t3  t4 = t4
    c1 = c1  x1 = x1  p1 = p1  a1 = a1  a2 = a2
    NIL = NIL
    Nodes <- MCNodes
    AttrNodes <- MCAttrNodes
    NodeKind <- MCNodeKind
    Root = d
    Names = {"a", "b"}
    Blank = {"w"}
    Opts = {"Comments", "Declaration"}
    XmlTexts = {"t", "w"}
    MaxDepth = 2
    MaxTokens = 6
    XmlComments = {"c"}
    PITarget = "p"
    MaxMisc = 1
    InstChars <- MCInstChars
    JsonDocs <- MCJsonDocs
SPECIFICATION Spec
INVARIANT RoundTrip DeclarationAttrs
\* The program returns: every behaviour ends in phase "done".  The node
\* pool holds the four elements and four texts the largest input needs.
CHECK_DEADLOCK FALSE
