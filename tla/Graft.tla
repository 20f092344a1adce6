-------------------------------- MODULE Graft --------------------------------
(***************************************************************************)
(* The operations of graftManifest.ts on an expanded project: the tree of  *)
(* files that toeexpand makes of a .toe, and the .toc file that lists them *)
(* for toecollapse.                                                        *)
(*                                                                         *)
(* A file is a record: `at`, the networks it lies in, from the root;  `op`,*)
(* its operator's name;  `ext`, what the file holds of it.  A directory is *)
(* there when a file is under it.                                          *)
(***************************************************************************)
EXTENDS Naturals, Sequences, FiniteSets, SequencesExt

CONSTANTS
    Lower,  \* toLowerCase, a function on the names of operators
    Exts    \* what a file may hold of its operator: its extension

P1 == <<"project1">>
Local == <<"local">>
BRIDGE_NAME == "tdmcp_bridge"
ONSTART_NAME == "tdmcp_port_onstart"
LEGACY_BRIDGE_NAME == "mcp_webserver_base"
BOOT_NAME == "tdmcp_boot"
InBridge == Append(P1, BRIDGE_NAME)

File(at, op, ext) == [at |-> at, op |-> op, ext |-> ext]

\* Names in lower case stay as they are.
ASSUME LowerAssumption ==
    \A n \in {P1[1], Local[1], BRIDGE_NAME, ONSTART_NAME, LEGACY_BRIDGE_NAME, BOOT_NAME} :
        n \in DOMAIN Lower /\ Lower[n] = n

ASSUME ExtsAssumption == {"n", "parm", "text"} \subseteq Exts

Files == [at : Seq(DOMAIN Lower), op : DOMAIN Lower, ext : Exts]

\* normKey: paths are compared without case
normKey(f) ==
    [at |-> [i \in DOMAIN f.at |-> Lower[f.at[i]]], op |-> Lower[f.op], ext |-> f.ext]

(***************************************************************************)
(* Whose file is it                                                        *)
(***************************************************************************)
isReservedBridgeName(n) == Lower[n] \in {BRIDGE_NAME, LEGACY_BRIDGE_NAME, ONSTART_NAME}

isOnstartRel(f) == LET k == normKey(f) IN k.op = ONSTART_NAME /\ k.at \in {InBridge, P1}

isBootRel(f) == LET k == normKey(f) IN k.at = Local /\ k.op = BOOT_NAME

\* Everything below the two bridge COMPs, but only the files of the sibling
\* onstart itself.
isGraftOwnedRel(f) ==
    LET k == normKey(f) IN
    \/ k.at = P1 /\ k.op \in {BRIDGE_NAME, LEGACY_BRIDGE_NAME}
    \/ /\ Len(k.at) > 1 /\ k.at[1] = P1[1]
       /\ k.at[2] \in {BRIDGE_NAME, LEGACY_BRIDGE_NAME}
    \/ isOnstartRel(f)
    \/ isBootRel(f)

\* The manifest of the kit; the code throws when it is empty.
discoverGraftPaths(T) == {f \in T : isGraftOwnedRel(f)}

(***************************************************************************)
(* Directories                                                             *)
(***************************************************************************)
Dirs(T) == UNION {{SubSeq(f.at, 1, i) : i \in 0 .. Len(f.at)} : f \in T}

\* readdirSync: the files of a directory and, as "dir", its directories
Entries(T, d) ==
    {[op |-> f.op, ext |-> f.ext] : f \in {g \in T : g.at = d}}
        \cup {[op |-> e[Len(e)], ext |-> "dir"] :
                e \in {x \in Dirs(T) : Len(x) = Len(d) + 1 /\ Front(x) = d}}

findProject1EntriesByStem(T, stem) == {e \in Entries(T, P1) : Lower[e.op] = stem}

Spellings(T, d, key) == {e.op : e \in {x \in Entries(T, d) : Lower[x.op] = key}}

\* An operator is spelled in two ways: two .n files of a name differ at least
\* in the case of a letter, so one condition stands for the two of the code.
findSiblingNameDuplicates(T) ==
    {p \in UNION {{[parent |-> d, nameKey |-> Lower[e.op]] : e \in Entries(T, d)} : d \in Dirs(T)} :
        Cardinality(Spellings(T, p.parent, p.nameKey)) > 1}

findDuplicateNodeNames(T) == {p \in findSiblingNameDuplicates(T) : p.parent = P1}

\* toxes: the stems of the .tox files in the project's folder
findToxNameCollisions(toxes, T) ==
    {x \in toxes : \E d \in Dirs(T) : \E e \in Entries(T, d) : Lower[e.op] = Lower[x]}

(***************************************************************************)
(* The .toc: a sequence of files                                           *)
(***************************************************************************)
Keys(toc) == {normKey(toc[i]) : i \in DOMAIN toc}

\* The loop of dedupeToc and mergeTocEntries: of the lines that differ in case
\* only, the first is kept.
AddNew(base, lines) ==
    LET out[i \in 0 .. Len(lines)] ==
            IF i = 0 THEN base
            ELSE IF normKey(lines[i]) \in Keys(out[i - 1]) THEN out[i - 1]
            ELSE Append(out[i - 1], lines[i])
    IN  out[Len(lines)]

dedupeToc(toc) == AddNew(<<>>, toc)

findDuplicateTocLines(toc) == {i \in DOMAIN toc : \E j \in 1 .. i - 1 : normKey(toc[i]) = normKey(toc[j])}

removeTocLines(toc, removed) ==
    LET left[i \in 0 .. Len(toc)] ==
            IF i = 0 THEN <<>>
            ELSE IF toc[i] \in removed THEN left[i - 1]
            ELSE Append(left[i - 1], toc[i])
    IN  left[Len(toc)]

mergeTocEntries(toc, entries) == dedupeToc(AddNew(toc, entries))

inspectToeBuild(T, toc, toxes) ==
    [toc |-> findDuplicateTocLines(toc),
     names |-> findSiblingNameDuplicates(T),
     toxes |-> findToxNameCollisions(toxes, T)]

\* It is called on a .toc that dedupeToc has just rewritten.
assertToeBuildClean(T, toc, toxes) ==
    LET report == inspectToeBuild(T, dedupeToc(toc), toxes) IN
    report.toc = {} /\ report.names = {} /\ report.toxes = {}

assertGraftClean(T, toc, toxes) ==
    /\ assertToeBuildClean(T, toc, toxes)
    /\ findProject1EntriesByStem(T, LEGACY_BRIDGE_NAME) = {}
    /\ \A stem \in {BRIDGE_NAME, ONSTART_NAME} : Cardinality(Spellings(T, P1, stem)) <= 1

(***************************************************************************)
(* The bridge a project has already                                        *)
(***************************************************************************)
\* manifest: the kit's paths;  hasModulesTox: modules/tdmcp_bridge.tox is in
\* the project's folder
detectBridgeConflict(T, manifest, hasModulesTox) ==
    LET bridgeHits == findProject1EntriesByStem(T, BRIDGE_NAME)
        onStartHits == findProject1EntriesByStem(T, ONSTART_NAME)
        hasNestedOnstart == File(InBridge, ONSTART_NAME, "n") \in T
        hasBoot == \E ext \in {"n", "text"} : File(Local, BOOT_NAME, ext) \in T
        hasOnStart == onStartHits # {} \/ hasNestedOnstart \/ hasBoot
        tox == hasModulesTox \/ bridgeHits # {}
        full == \/ /\ bridgeHits # {} /\ (hasNestedOnstart \/ onStartHits # {})
                   /\ manifest \subseteq T
                \/ hasBoot /\ tox
                \/ /\ onStartHits # {} /\ tox
                   /\ \A f \in manifest : isOnstartRel(f) => f \in T
    IN  [state |-> IF bridgeHits = {} /\ ~hasOnStart /\ manifest \cap T = {} THEN "absent"
                   ELSE IF full THEN "full" ELSE "partial",
         collisions |-> \/ \E e \in bridgeHits \cup onStartHits : e.op \notin {BRIDGE_NAME, ONSTART_NAME}
                        \/ findDuplicateNodeNames(T) # {},
         extra |-> {f \in T : f.at # <<>> /\ f.at[1] = P1[1] /\ isGraftOwnedRel(f)}
                       \ {g \in T : \E f \in manifest : normKey(f) = normKey(g)}]

(***************************************************************************)
(* The graft.  A tree is what is expanded of one .toe:  its files and toc, *)
(* the build that saved it and its counters of nodes.                      *)
(***************************************************************************)
\* A slip: the reserved names are wiped at any depth.
wipeGraftOwnedSlip(t, manifest) ==
    [t EXCEPT
        !.files = {f \in @ : ~isReservedBridgeName(f.op)} \ manifest,
        !.toc = dedupeToc(removeTocLines(@, discoverGraftPaths(ToSet(@))))]

wipeGraftOwned(t, manifest) ==
    [t EXCEPT
        !.files = {f \in @ : /\ ~(f.at = P1 /\ isReservedBridgeName(f.op))
                             /\ ~(Len(f.at) > 1 /\ f.at[1] = P1[1] /\ isReservedBridgeName(f.at[2]))
                             /\ ~(f.at = Local /\ f.op = BOOT_NAME /\ f.ext \in {"n", "parm", "text"})
                             /\ ~(Len(f.at) > 1 /\ f.at[1] = Local[1] /\ f.at[2] = BOOT_NAME)} \ manifest,
        !.toc = dedupeToc(removeTocLines(@, discoverGraftPaths(ToSet(@))))]

bootPaths == <<File(Local, BOOT_NAME, "n"), File(Local, BOOT_NAME, "parm"), File(Local, BOOT_NAME, "text")>>

stageBootInExpand(t) ==
    [t EXCEPT !.files = @ \cup ToSet(bootPaths), !.toc = mergeTocEntries(@, bootPaths)]

NoStart == <<>> \* no #expectednodes line in the .start file

IsTree(t) ==
    /\ t \in [files : SUBSET Files, toc : Seq(Files), build : STRING, start : {NoStart} \cup (Nat \X Nat)]
    /\ IsFiniteSet(t.files)

syncBuildFromKit(t, kit) == [t EXCEPT !.build = kit.build]

Larger(m, n) == IF m < n THEN n ELSE m

\* start: the number of nodes and the next node's id
syncExpectedNodesFromKit(t, kit) ==
    IF NoStart \in {t.start, kit.start} THEN t
    ELSE [t EXCEPT !.start = <<Larger(t.start[1], kit.start[1]) + 64,
                               Larger(t.start[2], kit.start[2]) + 10000>>]

graft(t, kit, manifest) ==
    syncExpectedNodesFromKit(
        syncBuildFromKit(stageBootInExpand(wipeGraftOwned(t, manifest)), kit), kit)

assertManifestPresent(T, manifest) == manifest \ T
==============================================================================
