------------------------------- MODULE Inject -------------------------------
(***************************************************************************)
(* inject_td_mcp: concurrent calls of injectTdMcp in an MCP server, which  *)
(* may be killed and started again.  Source: injectMcp.ts, collapseToe.ts  *)
(* and the cache of the graft kit in graftManifest.ts.                     *)
(*                                                                         *)
(* A call copies a project into an empty workspace, grafts the bridge's    *)
(* bootstrap into the copy and writes .tdmcp/state.json.  Code between two *)
(* awaits is one step; it is split where a kill in the middle matters.     *)
(* toeexpand and toecollapse are external programs.                        *)
(***************************************************************************)
EXTENDS Graft

CONSTANTS
    Calls, NoCall,
    Dests,      \* workspaces: values of destDir
    JobsOf,     \* [Calls -> sets of jobs], what a call may be asked to do
    Kit,        \* the expansion of the template's project.toe
    PartOfKit,  \* its files when toeexpand is half done
    MaxLost,    \* bound: the files that toecollapse may lose at once
    MaxKills

ASSUME CallsAssumption == NoCall \notin Calls
\* In its .toc toeexpand lists just the files it writes (external).
ASSUME JobsAssumption ==
    \A c \in Calls : \A j \in JobsOf[c] :
        IsTree(j.src) /\ ToSet(j.src.toc) = j.src.files /\ j.dest \in Dests

\* A job: the source's tree, whether the arguments pass the checks made before
\* anything is written, the workspace and the onConflict option.
Job == UNION {JobsOf[c] : c \in Calls}

VARIABLES
    job,
    pc,
    action,     \* what the call has done to the project
    ws,         \* the workspaces
    kit,        \* the kit's cache directory: expansion, its .toc, manifest.json
    tools,      \* the calls whose toeexpand works in the kit's directory
    kills

vars == <<job, pc, action, ws, kit, tools, kills>>

\* What a .toe or an expansion holds is said by its kind, by the extent of the kit's
\* manifest that was used and by what toecollapse lost; TreeOf gives the tree.
Holding(kind, level, lost) == [kind |-> kind, level |-> level, lost |-> lost]

NoTree == Holding("none", "none", {})
Original == Holding("source", "none", {})
Grafted(level) == Holding("grafted", level, {})

\* by: the call that staged it;  side: modules and import_modules.py;  exp, copy:
\* the expansions of the .toe and of the copy made to verify it;  state: the call
\* whose state.json it holds
EmptyWs == [by |-> NoCall, side |-> FALSE, toe |-> NoTree, exp |-> NoTree,
            copy |-> NoTree, state |-> NoCall]

InKit == {"kit", "kit expand", "kit meta"}
Staged == InKit \cup {"copy", "expand", "collapse", "verify", "commit"}
Ended == {"done", "failed", "refused", "killed"}

Dest(c) == job[c].dest

Init ==
    /\ job \in [Calls -> Job] /\ \A c \in Calls : job[c] \in JobsOf[c]
    /\ pc = [c \in Calls |-> "new"]
    /\ action = [c \in Calls |-> "none"]
    /\ ws = [d \in Dests |-> EmptyWs]
    /\ kit = [dir |-> "none", toc |-> FALSE, meta |-> "none"]
    /\ tools = {}
    /\ kills = 0

GoTo(c, l) == pc' = [pc EXCEPT ![c] = l]
WsUpdate(c, w) == ws' = [ws EXCEPT ![Dest(c)] = w]

(***************************************************************************)
(* The checks, then the sidecars: no await in between                      *)
(***************************************************************************)
\* A slip: it is not looked at whether destDir is empty.
RefusedSlip(c) == ~job[c].valid

Refused(c) == ~job[c].valid \/ ws[Dest(c)] # EmptyWs

Refuse(c) ==
    /\ pc[c] = "new" /\ Refused(c)
    /\ GoTo(c, "refused")
    /\ UNCHANGED <<job, action, ws, kit, tools, kills>>

Stage(c) ==
    /\ pc[c] = "new" /\ ~Refused(c)
    /\ WsUpdate(c, [EmptyWs EXCEPT !.by = c, !.side = TRUE])
    /\ GoTo(c, "kit")
    /\ UNCHANGED <<job, action, kit, tools, kills>>

\* fail, and the catch clause: an exception anywhere after the workspace is made
Wiped == EmptyWs

Fail(c) ==
    /\ WsUpdate(c, Wiped)
    /\ GoTo(c, "failed")
    /\ UNCHANGED <<job, action, kit, kills>>

Throw(c) ==
    /\ pc[c] \in Staged
    /\ Fail(c)
    /\ tools' = tools \ {c}  \* runTool kills the tool it gives up on

(***************************************************************************)
(* ensureGraftKit                                                          *)
(***************************************************************************)
\* A slip: an expansion without a manifest is taken for a kit.
KitCachedSlip == kit.dir # "none"

KitCached == kit.dir # "none" /\ kit.meta # "none"

UseKit(c) ==
    /\ pc[c] = "kit" /\ KitCached /\ kit.meta # "torn"
    /\ GoTo(c, "copy")
    /\ UNCHANGED <<job, action, ws, kit, tools, kills>>

\* JSON.parse throws
TornKit(c) ==
    /\ pc[c] = "kit" /\ KitCached /\ kit.meta = "torn"
    /\ Fail(c) /\ UNCHANGED tools

ExpandKit(c) ==
    /\ pc[c] = "kit" /\ ~KitCached
    /\ tools' = tools \cup {c}
    /\ GoTo(c, "kit expand")
    /\ UNCHANGED <<job, action, ws, kit, kills>>

\* toeexpand writes over what it finds, the .toc last
KitFills ==
    /\ tools # {} /\ ~kit.toc
    /\ kit' = CASE kit.dir = "none" -> [kit EXCEPT !.dir = "part"]
                [] kit.dir = "part" -> [kit EXCEPT !.dir = "whole"]
                [] OTHER -> [kit EXCEPT !.toc = TRUE]
    /\ UNCHANGED <<job, pc, action, ws, tools, kills>>

KitToolEnds(c) ==
    /\ c \in tools
    /\ tools' = tools \ {c}
    /\ UNCHANGED <<job, pc, action, ws, kit, kills>>

\* expandToeInPlace looks at the files, not at the exit code
Expanded(dir, toc) == dir # "none" /\ toc

KitExpanded(c) ==
    /\ pc[c] = "kit expand" /\ c \notin tools
    /\ IF Expanded(kit.dir, kit.toc)
       THEN GoTo(c, "kit meta") /\ UNCHANGED <<job, action, ws, kit, kills>>
       ELSE Fail(c)
    /\ UNCHANGED tools

\* the paths discoverGraftPaths finds in a kit of this extent
KitPaths(level) == discoverGraftPaths(IF level = "whole" THEN Kit.files ELSE PartOfKit)

WriteMeta(c) ==
    /\ pc[c] = "kit meta"
    /\ kit' = [kit EXCEPT !.meta = kit.dir]
    /\ GoTo(c, "copy")
    /\ UNCHANGED <<job, action, ws, tools, kills>>

(***************************************************************************)
(* The working copy                                                        *)
(***************************************************************************)
Copy(c) ==
    /\ pc[c] = "copy"
    /\ WsUpdate(c, [ws[Dest(c)] EXCEPT !.toe = Original])
    /\ GoTo(c, "expand")
    /\ UNCHANGED <<job, action, kit, tools, kills>>

\* toecollapse packs the files its .toc lists; Derivative's tool often exits
\* non-zero, and what it then leaves out cannot be told from the exit code.
Collapse(t, lost) ==
    LET packed == (t.files \cap ToSet(t.toc)) \ lost IN
    [t EXCEPT !.files = packed, !.toc = SelectSeq(@, LAMBDA f : f \in packed)]

\* The trees made of the source of a job.
TreeOf(j, held) ==
    LET t == graft(j.src, Kit, KitPaths(held.level)) IN
    CASE held.kind = "source" -> j.src
      [] held.kind = "grafted" -> t
      [] held.kind = "packed" -> Collapse(t, held.lost)

Conflict(c) == detectBridgeConflict(job[c].src.files, KitPaths(kit.meta), ws[Dest(c)].side)

Rejected(c, f) ==
    \/ P1 \notin Dirs(job[c].src.files)                 \* NO_PROJECT1
    \/ f.state = "full" /\ job[c].onConflict = "abort"
    \/ f.state = "partial" /\ job[c].onConflict # "replace"
    \/ f.collisions /\ job[c].onConflict = "abort" /\ f.state # "absent"

Skipped(c, f) == f.state = "full" /\ job[c].onConflict = "skip"

ExpandedReject(c) ==
    /\ pc[c] = "expand" /\ Rejected(c, Conflict(c))
    /\ Fail(c) /\ UNCHANGED tools

ExpandedSkip(c) ==
    /\ pc[c] = "expand" /\ ~Rejected(c, Conflict(c)) /\ Skipped(c, Conflict(c))
    /\ action' = [action EXCEPT ![c] = "skipped"]
    /\ GoTo(c, "commit")
    /\ UNCHANGED <<job, ws, kit, tools, kills>>

\* The old .toe is removed before toecollapse writes the new one.
ExpandedGraft(c) ==
    LET f == Conflict(c)
        t == TreeOf(job[c], Grafted(kit.meta))
    IN  /\ pc[c] = "expand" /\ ~Rejected(c, f) /\ ~Skipped(c, f)
        /\ IF assertGraftClean(t.files, t.toc, {})
           THEN /\ action' = [action EXCEPT ![c] = IF f.state = "absent" /\ ~f.collisions
                                                   THEN "injected" ELSE "replaced"]
                /\ WsUpdate(c, [ws[Dest(c)] EXCEPT !.toe = NoTree, !.exp = Grafted(kit.meta)])
                /\ GoTo(c, "collapse")
                /\ UNCHANGED <<job, kit, kills>>
           ELSE Fail(c)
        /\ UNCHANGED tools

Collapsed(c) ==
    /\ pc[c] = "collapse"
    /\ \E lost \in SUBSET TreeOf(job[c], ws[Dest(c)].exp).files :
        LET toe == Holding("packed", ws[Dest(c)].exp.level, lost) IN
        /\ Cardinality(lost) <= MaxLost
        /\ WsUpdate(c, [ws[Dest(c)] EXCEPT !.toe = toe, !.copy = toe])
    /\ GoTo(c, "verify")
    /\ UNCHANGED <<job, action, kit, tools, kills>>

\* A slip: that the bootstrap came through toecollapse is not checked.
VerifyFailsSlip(t) ==
    \/ t.build = "none"
    \/ findProject1EntriesByStem(t.files, BRIDGE_NAME) # {}
    \/ ~assertGraftClean(t.files, t.toc, {})

VerifyFails(t) ==
    \/ assertManifestPresent(t.files, ToSet(bootPaths)) # {}
    \/ t.build = "none"
    \/ findProject1EntriesByStem(t.files, ONSTART_NAME) # {}
    \/ findProject1EntriesByStem(t.files, BRIDGE_NAME) # {}
    \/ ~assertGraftClean(t.files, t.toc, {})

Verified(c) ==
    LET w == ws[Dest(c)] IN
    /\ pc[c] = "verify"
    /\ IF VerifyFails(TreeOf(job[c], w.copy)) \/ ~w.side
       THEN Fail(c)
       ELSE GoTo(c, "commit") /\ UNCHANGED <<job, action, ws, kit, kills>>
    /\ UNCHANGED tools

\* cleanupExpandArtifacts and writeState
Commit(c) ==
    /\ pc[c] = "commit"
    /\ WsUpdate(c, [ws[Dest(c)] EXCEPT !.exp = NoTree, !.copy = NoTree, !.state = c])
    /\ GoTo(c, "done")
    /\ UNCHANGED <<job, action, kit, tools, kills>>

\* The server dies, and with it every call; a tool it had started runs on.  The
\* manifest that was being written is cut off.
Kill ==
    /\ kills < MaxKills /\ \E c \in Calls : pc[c] \in Staged
    /\ kills' = kills + 1
    /\ pc' = [c \in Calls |-> IF pc[c] \in Staged THEN "killed" ELSE pc[c]]
    /\ \/ UNCHANGED kit
       \/ /\ \E c \in Calls : pc[c] = "kit meta"
          /\ kit' = [kit EXCEPT !.meta = "torn"]
    /\ UNCHANGED <<job, action, ws, tools>>

Proceed(c) ==
    \/ Refuse(c) \/ Stage(c)
    \/ UseKit(c) \/ TornKit(c) \/ ExpandKit(c) \/ KitExpanded(c) \/ WriteMeta(c)
    \/ Copy(c) \/ ExpandedReject(c) \/ ExpandedSkip(c) \/ ExpandedGraft(c)
    \/ Collapsed(c) \/ Verified(c) \/ Commit(c)

Next ==
    \/ \E c \in Calls : Proceed(c) \/ Throw(c) \/ KitToolEnds(c)
    \/ KitFills
    \/ Kill

Spec == Init /\ [][Next]_vars
------------------------------------------------------------------------------
Toe(d) == TreeOf(job[ws[d].state], ws[d].toe)

\* A workspace with a state.json, which start_td_project takes for a project it
\* may open, holds the sidecars, a whole .toe with the bootstrap and nothing left
\* of the work: also when a call failed half-way or the server was killed.
CommitIsLast ==
    \A d \in Dests : ws[d].state # NoCall =>
        /\ ws[d].side /\ ws[d].exp = NoTree /\ ws[d].copy = NoTree
        /\ ws[d].toe # NoTree
        /\ action[ws[d].state] # "skipped" =>
            /\ ToSet(bootPaths) \subseteq Toe(d).files
            /\ Toe(d).build = Kit.build
            /\ \A f \in Toe(d).files :
                ~(f.at # <<>> /\ f.at[1] = P1[1] /\ isGraftOwnedRel(f))

\* What is in a directory of an onstart in project1, or of the boot: wipeGraftOwned
\* removes it with the directory, although isGraftOwnedRel says that it is not ours.
Swept(f) ==
    LET k == normKey(f) IN
    /\ Len(k.at) > 1
    /\ \/ k.at[1] = P1[1] /\ k.at[2] = ONSTART_NAME
       \/ k.at[1] = Local[1] /\ k.at[2] = BOOT_NAME

Foreign(S) == {f \in S : ~isGraftOwnedRel(f) /\ ~Swept(f)}

\* The injected project still has every operator of the source, but those of an
\* earlier bridge, what is swept and what toecollapse lost unnoticed, and has nothing
\* new but the bootstrap.  The .toc given to toecollapse lists no other file that is
\* not there than a swept one, and each file there that is foreign or the bootstrap's.
ForeignKept ==
    \A d \in Dests :
        /\ ws[d].state # NoCall =>
            LET src == job[ws[d].state].src.files IN
            /\ Foreign(src) \ ws[d].toe.lost \subseteq Toe(d).files
            /\ Toe(d).files \subseteq src \cup ToSet(bootPaths)
        /\ ws[d].exp # NoTree =>
            LET t == TreeOf(job[ws[d].by], ws[d].exp) IN
            /\ {f \in ToSet(t.toc) : ~Swept(f)} \subseteq t.files
            /\ Foreign(t.files) \cup ToSet(bootPaths) \subseteq ToSet(t.toc)

\* A workspace belongs to the call that found it empty: no other call of the
\* server writes or wipes it, and a call that failed left nothing in it.
OwnWorkspace ==
    /\ \A c \in Calls : pc[c] \in Staged \cup {"done", "killed"} => ws[Dest(c)].by = c
    /\ \A d \in Dests : ws[d] # EmptyWs => pc[ws[d].by] \notin {"failed", "refused"}

\* The kit's manifest is that of the whole kit, however many calls expanded it
\* at once and whichever of them was killed.
KitIsWhole ==
    /\ kit.meta \notin {"none", "torn"} => kit.meta = "whole" /\ kit.dir = "whole"
    /\ \A c \in Calls : pc[c] \in Staged \ InKit => kit.meta = "whole"

==============================================================================
