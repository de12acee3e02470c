CONSTANTS
    d = d  e1 = e1  e2 = e2  e3 = e3  e4 = e4  t1 = t1  t2 = t2  t3 = t3  t4 = t4
    c1 = c1  x1 = x1  p1 = p1  a1 = a1  a2 = a2
    NIL = NIL
    Nodes <- MCNodes
    AttrNodes <- MCAttrNodes
    NodeKind <- MCNodeKind
    Root = d
    Names = {"a", "b"}
    Blank = {"w"}
    Opts = {}
    XmlTexts = {"t"}
    MaxDepth = 1
    MaxTokens = 2
    XmlComments = {"c"}
    PITarget = "p"
    MaxMisc = 0
    InstChars <- MCInstChars
    JsonDocs <- MCJsonDocsTop
SPECIFICATION Spec
INVARIANT UnwoundAtEnd
\* The program returns: every behaviour ends in phase "done".
CHECK_DEADLOCK FALSE
