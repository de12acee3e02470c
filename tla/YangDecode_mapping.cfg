CONSTANTS
    d = d  e1 = e1  e2 = e2  e3 = e3  e4 = e4  e5 = e5  t1 = t1  t2 = t2  t3 = t3  t4 = t4
    NIL = NIL
    Nodes <- MCNodes
    AttrNodes = {}
    NodeKind <- MCNodeKind
    Root = d
    Entries <- MCEntries
    NoEntry = NoEntry
    Kind <- MCKind
    Dir <- MCDir
    EntryNS <- MCEntryNS
    ModDir <- MCModDir
    Names <- MCNames
    Texts = {"t"}
    MaxDepth = 3
    MaxTokens = 7
    MaxMisc = 1
    ModNS <- MCModNS
    Fronts = {"XMLReader"}
    InitializeArgs <- MCInitializeArgs
    TopLevelText = TRUE
SPECIFICATION Spec
INVARIANT YangMapping
\* The program returns: every behaviour ends in phase "done".
CHECK_DEADLOCK FALSE
