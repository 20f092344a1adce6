SPECIFICATION ApiSpec
CONSTANTS
    Root = Root
    n1 = n1
    n2 = n2
    n3 = n3
    Nodes <- MCNodes
    NoNode = NoNode
    Types <- MCTypes
    Size <- MCSize
    Comps <- MCTypes
    Props = {"nodeX", "tx", "parent", "fetch"}
    Kind <- MCKind
    Refuses <- MCRefuses
    Bad = 1
    Methods = {"cook"}
    Wrap = 2
    Cols = 2
    Gap = 1
    MaxCells = 3
    ClassNames = {"OP"}
    Importable = {"math"}
    Requests <- MCRequests
SYMMETRY Symmetry
VIEW View
PROPERTIES PlacedClear AnswerIsTrue
