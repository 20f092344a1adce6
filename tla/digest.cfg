SPECIFICATION DigestSpec
CHECK_DEADLOCK FALSE
CONSTANTS
    Projects <- MCProjects
    Queries <- MCQueries
    None = None
    Absolute = {"project1", "local"}
    Outs = {"out1"}
    Ins = {"in1"}
    SelectParms = {"top"}
    NameOrder <- MCNameOrder
    Stems <- MCStems
INVARIANTS BriefIsEgo SeenOnce NodeAgrees
