------------------------------ MODULE Toe_proofs ------------------------------
(***************************************************************************)
(* inject_td_mcp, for any number of calls, workspaces and kills, and for   *)
(* any sources and kit: the kit in the cache is whole, a workspace has one *)
(* owner, and what is committed is the grafted project.  Then the digest:  *)
(* what get_toe_digest and get_toe_node say of a project, for any project. *)
(***************************************************************************)
EXTENDS Inject, ToeDigest, WellFoundedInduction, FiniteSetTheorems, TLAPS

(***************************************************************************)
(* What the graft makes of a tree                                          *)
(***************************************************************************)
\* normKey keeps the length of a path and lowers its names.
LEMMA KeyOfFile ==
    ASSUME NEW f \in Files
    PROVE  /\ f.at \in Seq(DOMAIN Lower) /\ Len(f.at) \in Nat /\ f.op \in DOMAIN Lower
           /\ normKey(f).op = Lower[f.op] /\ normKey(f).ext = f.ext
           /\ DOMAIN normKey(f).at = 1 .. Len(f.at)
           /\ normKey(f).at \in Seq({Lower[n] : n \in DOMAIN Lower}) /\ Len(normKey(f).at) = Len(f.at)
           /\ \A i \in 1 .. Len(f.at) : normKey(f).at[i] = Lower[f.at[i]]
<1>1. f.at \in Seq(DOMAIN Lower) /\ f.op \in DOMAIN Lower /\ DOMAIN f.at = 1 .. Len(f.at)
  BY DEF Files
<1>2. normKey(f) = [at |-> [i \in 1 .. Len(f.at) |-> Lower[f.at[i]]], op |-> Lower[f.op], ext |-> f.ext]
  BY <1>1 DEF normKey
<1>3. Len(f.at) \in Nat /\ \A i \in 1 .. Len(f.at) : f.at[i] \in DOMAIN Lower
  BY <1>1
<1> DEFINE names == {Lower[n] : n \in DOMAIN Lower}
           at == [i \in 1 .. Len(f.at) |-> Lower[f.at[i]]]
<1>4. at \in [1 .. Len(f.at) -> names]
  BY <1>3
<1>5. DOMAIN at = 1 .. Len(f.at) /\ \A i \in 1 .. Len(f.at) : at[i] = Lower[f.at[i]]
  OBVIOUS
<1>6. normKey(f).at = at /\ normKey(f).op = Lower[f.op] /\ normKey(f).ext = f.ext
  BY <1>2
<1> HIDE DEF at, names
<1>7. at \in Seq(names) /\ Len(at) = Len(f.at)
  BY <1>3, <1>4
<1> QED BY <1>1, <1>5, <1>6, <1>7 DEF names

\* Two intervals from 1 are equal when they are as long.
LEMMA AsLong ==
    ASSUME NEW m \in Nat, NEW n \in Nat, 1 .. m = 1 .. n
    PROVE  m = n
<1>1. m >= 1 => m \in 1 .. n
  OBVIOUS
<1>2. n >= 1 => n \in 1 .. m
  OBVIOUS
<1> QED BY <1>1, <1>2

\* A path of one name.
LEMMA OneName ==
    ASSUME NEW S, NEW s \in Seq(S), NEW x
    PROVE  s = <<x>> <=> Len(s) = 1 /\ s[1] = x
OBVIOUS

\* The files that wipeGraftOwned deletes, but for those of the manifest.
Wiped1(f) == f.at = P1 /\ isReservedBridgeName(f.op)
Wiped2(f) == Len(f.at) > 1 /\ f.at[1] = P1[1] /\ isReservedBridgeName(f.at[2])
Wiped3(f) == f.at = Local /\ f.op = BOOT_NAME /\ f.ext \in {"n", "parm", "text"}
Wiped4(f) == Len(f.at) > 1 /\ f.at[1] = Local[1] /\ f.at[2] = BOOT_NAME
IsWiped(f) == Wiped1(f) \/ Wiped2(f) \/ Wiped3(f) \/ Wiped4(f)

Kept(t, manifest) == {f \in t.files : ~IsWiped(f)} \ manifest
OwnLines(t) == removeTocLines(t.toc, discoverGraftPaths(ToSet(t.toc)))

\* What graft returns: the files that are kept with the bootstrap, and their lines.
LEMMA GraftMakes ==
    ASSUME NEW t, IsTree(t), NEW given, NEW manifest
    PROVE  /\ graft(t, given, manifest).files = Kept(t, manifest) \cup ToSet(bootPaths)
           /\ graft(t, given, manifest).toc = mergeTocEntries(dedupeToc(OwnLines(t)), bootPaths)
           /\ graft(t, given, manifest).build = given.build
           /\ DOMAIN graft(t, given, manifest) = {"files", "toc", "build", "start"}
<1>1. t = [files |-> t.files, toc |-> t.toc, build |-> t.build, start |-> t.start]
  BY DEF IsTree
<1> DEFINE a == wipeGraftOwned(t, manifest)
           b == stageBootInExpand(a)
           c == syncBuildFromKit(b, given)
           d == syncExpectedNodesFromKit(c, given)
<1>2. /\ a = [t EXCEPT !.files = Kept(t, manifest), !.toc = dedupeToc(OwnLines(t))]
  BY DEF wipeGraftOwned, Kept, IsWiped, Wiped1, Wiped2, Wiped3, Wiped4, OwnLines
<1>3. /\ a.files = Kept(t, manifest) /\ a.toc = dedupeToc(OwnLines(t))
      /\ DOMAIN a = {"files", "toc", "build", "start"}
  BY <1>1, <1>2
<1> HIDE DEF a
<1>4. /\ b = [a EXCEPT !.files = a.files \cup ToSet(bootPaths), !.toc = mergeTocEntries(a.toc, bootPaths)]
  BY DEF stageBootInExpand
<1>5. /\ b.files = a.files \cup ToSet(bootPaths) /\ b.toc = mergeTocEntries(a.toc, bootPaths)
      /\ DOMAIN b = {"files", "toc", "build", "start"}
  BY <1>3, <1>4
<1> HIDE DEF b
<1>6. c = [b EXCEPT !.build = given.build]
  BY DEF syncBuildFromKit
<1>7. c.files = b.files /\ c.toc = b.toc /\ c.build = given.build /\ DOMAIN c = {"files", "toc", "build", "start"}
  BY <1>5, <1>6
<1> HIDE DEF c
<1> DEFINE s == <<Larger(c.start[1], given.start[1]) + 64, Larger(c.start[2], given.start[2]) + 10000>>
<1>8. d = IF NoStart \in {c.start, given.start} THEN c ELSE [c EXCEPT !.start = s]
  BY DEF syncExpectedNodesFromKit
<1> HIDE DEF s, d
<1>9. /\ d.files = c.files /\ d.toc = c.toc /\ d.build = c.build
      /\ DOMAIN d = {"files", "toc", "build", "start"}
  BY <1>7, <1>8
<1>10. graft(t, given, manifest) = d
  BY DEF graft, a, b, c, d
<1> QED BY <1>3, <1>5, <1>7, <1>9, <1>10

\* Of the files under project1, the bridge's are deleted.
LEMMA BridgeIsWiped ==
    ASSUME NEW f \in Files, f.at # <<>>, f.at[1] = P1[1], isGraftOwnedRel(f)
    PROVE  IsWiped(f)
<1> DEFINE k == normKey(f)
<1>1. /\ f.at \in Seq(DOMAIN Lower) /\ k.op = Lower[f.op] /\ DOMAIN k.at = 1 .. Len(f.at)
      /\ \A i \in 1 .. Len(f.at) : k.at[i] = Lower[f.at[i]]
  BY KeyOfFile
<1>2. Len(f.at) \in Nat /\ Len(f.at) >= 1 /\ k.at[1] = P1[1]
  BY <1>1, LowerAssumption
<1>3. P1[1] = "project1" /\ P1 = <<"project1">> /\ Local[1] = "local"
      /\ P1 \in Seq({"project1"}) /\ Len(P1) = 1
  <2>1. P1 = <<"project1">> /\ Local = <<"local">>
    BY DEF P1, Local
  <2>2. P1[1] = "project1" /\ Local[1] = "local" /\ Len(P1) = 1
    BY <2>1
  <2>3. P1 \in Seq({"project1"})
    BY <2>1
  <2> QED BY <2>1, <2>2, <2>3
<1>4. ~isBootRel(f)
  BY <1>2, <1>3 DEF isBootRel
<1>5. CASE k.at = P1 /\ k.op \in {BRIDGE_NAME, LEGACY_BRIDGE_NAME, ONSTART_NAME}
  <2>1. Len(f.at) = 1
    <3>1. DOMAIN P1 = 1 .. 1
      BY <1>3
    <3>2. 1 .. Len(f.at) = 1 .. 1
      BY <1>1, <1>5, <3>1
    <3> DEFINE n == Len(f.at)
    <3> HIDE DEF n
    <3>3. n \in Nat /\ 1 .. n = 1 .. 1
      BY <1>2, <3>2 DEF n
    <3>4. n = 1
      BY <3>3, AsLong
    <3> QED BY <3>4 DEF n
  <2>2. f.at = P1
    BY <1>1, <1>3, <2>1, OneName
  <2> QED BY <1>1, <1>5, <2>2 DEF IsWiped, Wiped1, isReservedBridgeName
<1>6. CASE Len(k.at) > 1 /\ k.at[2] \in {BRIDGE_NAME, LEGACY_BRIDGE_NAME}
  <2>1. Len(k.at) = Len(f.at)
    BY <1>1, <1>2
  <2>2. 2 \in 1 .. Len(f.at) /\ Len(f.at) > 1
    BY <1>2, <1>6, <2>1
  <2>3. k.at[2] = Lower[f.at[2]]
    BY <1>1, <2>2
  <2> QED BY <1>6, <2>2, <2>3 DEF IsWiped, Wiped2, isReservedBridgeName
<1>7. CASE k.at = InBridge
  <2>1. DOMAIN InBridge = 1 .. 2 /\ InBridge[2] = BRIDGE_NAME
    BY <1>3 DEF InBridge, BRIDGE_NAME
  <2>2. 1 .. Len(f.at) = 1 .. 2
    BY <1>1, <1>7, <2>1
  <2>3. Len(f.at) = 2
    <3> DEFINE n == Len(f.at)
    <3> HIDE DEF n
    <3>1. n \in Nat /\ 1 .. n = 1 .. 2
      BY <1>2, <2>2 DEF n
    <3>2. 2 \in Nat
      OBVIOUS
    <3>3. n = 2
      BY <3>1, <3>2, AsLong
    <3> QED BY <3>3 DEF n
  <2>4. k.at[2] = Lower[f.at[2]] /\ k.at[2] = BRIDGE_NAME
    BY <1>1, <1>7, <2>1, <2>3
  <2> QED BY <2>3, <2>4 DEF IsWiped, Wiped2, isReservedBridgeName
<1> QED BY <1>4, <1>5, <1>6, <1>7 DEF isGraftOwnedRel, isOnstartRel

\* The bootstrap is three files of one operator in local.
LEMMA BootPaths ==
    /\ ToSet(bootPaths) = {bootPaths[1], bootPaths[2], bootPaths[3]}
    /\ \A f \in ToSet(bootPaths) : f \in Files /\ f.at = Local /\ f.op = BOOT_NAME /\ f.ext \in {"n", "parm", "text"}
<1>1. /\ bootPaths = <<bootPaths[1], bootPaths[2], bootPaths[3]>>
      /\ bootPaths[1] = File(Local, BOOT_NAME, "n")
      /\ bootPaths[2] = File(Local, BOOT_NAME, "parm")
      /\ bootPaths[3] = File(Local, BOOT_NAME, "text")
  BY DEF bootPaths
<1>2. DOMAIN bootPaths = {1, 2, 3}
  BY <1>1
<1>3. ToSet(bootPaths) = {bootPaths[1], bootPaths[2], bootPaths[3]}
  BY <1>2 DEF ToSet
<1>4. Local \in Seq(DOMAIN Lower) /\ BOOT_NAME \in DOMAIN Lower
  BY LowerAssumption DEF Local
<1>5. \A e \in {"n", "parm", "text"} :
        /\ File(Local, BOOT_NAME, e) \in Files
        /\ File(Local, BOOT_NAME, e).at = Local /\ File(Local, BOOT_NAME, e).op = BOOT_NAME
        /\ File(Local, BOOT_NAME, e).ext = e
  BY <1>4, ExtsAssumption DEF File, Files
<1> QED BY <1>1, <1>3, <1>5

\* The grafted tree: the boot files, of the source what is not wiped, and under
\* project1 nothing of a bridge.
LEMMA GraftFiles ==
    ASSUME NEW t, IsTree(t), NEW manifest
    PROVE  /\ graft(t, Kit, manifest).files \subseteq t.files \cup ToSet(bootPaths)
           /\ graft(t, Kit, manifest).files \subseteq Files
           /\ \A f \in graft(t, Kit, manifest).files :
                ~(f.at # <<>> /\ f.at[1] = P1[1] /\ isGraftOwnedRel(f))
<1>1. graft(t, Kit, manifest).files = Kept(t, manifest) \cup ToSet(bootPaths)
  BY GraftMakes
<1>2. t.files \subseteq Files
  BY DEF IsTree
<1>3. P1[1] = "project1" /\ Local[1] = "local"
  BY DEF P1, Local
<1>4. ASSUME NEW f \in ToSet(bootPaths)
      PROVE  f \in Files /\ f.at[1] # P1[1]
  BY <1>3, <1>4, BootPaths
<1>5. ASSUME NEW f \in Kept(t, manifest)
      PROVE  f \in t.files /\ f \in Files /\ ~(f.at # <<>> /\ f.at[1] = P1[1] /\ isGraftOwnedRel(f))
  BY <1>2, <1>5, BridgeIsWiped DEF Kept
<1> QED BY <1>1, <1>4, <1>5

(***************************************************************************)
(* The inductive invariant, in four parts                                  *)
(***************************************************************************)
\* Calls that have a workspace, or had one when they were killed.
Active == Staged \cup {"done", "killed"}

Whole == Grafted("whole")
Packs == {Holding("packed", "whole", l) : l \in SUBSET Files}

WsState ==
    [by : Calls \cup {NoCall}, side : BOOLEAN, toe : {NoTree, Original} \cup Packs,
     exp : {NoTree, Whole}, copy : {NoTree} \cup Packs, state : Calls \cup {NoCall}]

InjectTypeOK ==
    /\ job \in [Calls -> Job] /\ \A c \in Calls : job[c] \in JobsOf[c]
    /\ pc \in [Calls -> {"new"} \cup Staged \cup Ended]
    /\ action \in [Calls -> {"none", "skipped", "injected", "replaced"}]
    /\ ws \in [Dests -> WsState]

\* The kit's directory only grows; its manifest is written when the .toc is there.
KitInv ==
    /\ kit \in [dir : {"none", "part", "whole"}, toc : BOOLEAN, meta : {"none", "torn", "whole"}]
    /\ kit.toc => kit.dir = "whole"
    /\ kit.meta = "whole" => kit.dir = "whole"
    /\ \A c \in Calls : pc[c] = "kit meta" => kit.toc
    /\ \A c \in Calls : pc[c] \in Staged \ InKit => kit.meta = "whole"

\* Workspaces and the calls at work on them.
OwnerInv ==
    /\ \A c \in Calls : pc[c] \in Active => ws[Dest(c)].by = c
    /\ \A d \in Dests : ws[d] # EmptyWs =>
            ws[d].by \in Calls /\ pc[ws[d].by] \in Active /\ Dest(ws[d].by) = d

GraftOf(c) == TreeOf(job[c], Whole)

\* What a call has done to its workspace, by the place it is at.
WorkInv(c) ==
    LET w == ws[Dest(c)] IN
    /\ w.side
    /\ pc[c] # "done" => w.state = NoCall
    /\ w.exp # NoTree => assertGraftClean(GraftOf(c).files, GraftOf(c).toc, {})
    /\ pc[c] \in InKit \cup {"copy"} => w.toe = NoTree
    /\ pc[c] \in InKit \cup {"copy", "expand"} => w.exp = NoTree /\ w.copy = NoTree
    /\ pc[c] = "expand" => w.toe = Original
    /\ pc[c] \in {"collapse", "verify"} => w.exp = Whole /\ action[c] # "skipped"
    /\ pc[c] = "verify" => w.toe \in Packs /\ w.copy = w.toe
    /\ pc[c] \in {"commit", "done"} =>
         \/ action[c] = "skipped" /\ w.toe = Original
         \/ /\ action[c] # "skipped" /\ w.toe \in Packs
            /\ ~VerifyFails(TreeOf(job[c], w.toe))
            /\ assertGraftClean(GraftOf(c).files, GraftOf(c).toc, {})
    /\ pc[c] = "done" => w.state = c /\ w.exp = NoTree /\ w.copy = NoTree

InjectInv ==
    /\ InjectTypeOK /\ KitInv /\ OwnerInv
    /\ \A c \in Calls : pc[c] \in Active => WorkInv(c)

\* No call has begun, the workspaces are empty, and so is the cache.
LEMMA InjectStarts == Init => InjectInv
<1> SUFFICES ASSUME Init PROVE InjectInv
  OBVIOUS
<1>1. \A c \in Calls : pc[c] = "new"
  BY DEF Init
<1>2. EmptyWs \in WsState
  BY DEF EmptyWs, WsState
<1>3. \A d \in Dests : ws[d] = EmptyWs
  BY DEF Init
<1>4. ws \in [Dests -> WsState]
  BY <1>2 DEF Init
<1>5. InjectTypeOK
  BY <1>4 DEF Init, InjectTypeOK
<1>6. KitInv
  BY <1>1 DEF Init, KitInv, Staged, InKit
<1>7. OwnerInv
  BY <1>1, <1>3 DEF OwnerInv, Active, Staged, InKit
<1>8. \A c \in Calls : pc[c] \notin Active
  BY <1>1 DEF Active, Staged, InKit
<1> QED BY <1>5, <1>6, <1>7, <1>8 DEF InjectInv

(***************************************************************************)
(* Steps of one call                                                       *)
(***************************************************************************)
\* Calls at work have workspaces of their own.
LEMMA OwnersApart ==
    ASSUME OwnerInv, NEW c \in Calls, NEW d \in Calls, c # d,
           pc[c] \in Active, pc[d] \in Active
    PROVE  Dest(c) # Dest(d)
BY DEF OwnerInv

\* Every call has its workspace among Dests, and a tree for a source.
LEMMA DestsAreDests ==
    ASSUME InjectTypeOK
    PROVE  \A c \in Calls : /\ Dest(c) \in Dests /\ IsTree(job[c].src)
                           /\ ToSet(job[c].src.toc) = job[c].src.files
BY JobsAssumption DEF InjectTypeOK, Dest

\* A call goes to a place, having written its workspace.
Writes(c, l, w, a) ==
    /\ GoTo(c, l) /\ WsUpdate(c, w)
    /\ action' = [action EXCEPT ![c] = a]
    /\ UNCHANGED job

\* What a step that writes a workspace does to the variables.
LEMMA WritesMoves ==
    ASSUME InjectTypeOK, NEW c \in Calls, NEW l, NEW w, NEW a, Writes(c, l, w, a)
    PROVE  /\ pc'[c] = l /\ \A d \in Calls \ {c} : pc'[d] = pc[d]
           /\ action'[c] = a /\ \A d \in Calls \ {c} : action'[d] = action[d]
           /\ ws'[Dest(c)] = w /\ \A x \in Dests \ {Dest(c)} : ws'[x] = ws[x]
           /\ \A d \in Calls : Dest(d)' = Dest(d)
<1>1. Dest(c) \in Dests
  BY DestsAreDests
<1> QED BY <1>1 DEF InjectTypeOK, Writes, GoTo, WsUpdate, Dest

\* Such a step of a call with a workspace, or of one that finds none, leaves
\* the others their workspaces.
LEMMA OthersKeepTheirs ==
    ASSUME InjectInv, NEW c \in Calls, NEW l, NEW w, NEW a, Writes(c, l, w, a),
           pc[c] \in Staged \/ (pc[c] = "new" /\ ws[Dest(c)] = EmptyWs)
    PROVE  \A d \in Calls \ {c} : pc'[d] \in Active =>
              /\ Dest(d) # Dest(c) /\ ws'[Dest(d)] = ws[Dest(d)] /\ ws'[Dest(d)'].by = d
              /\ WorkInv(d)'
<1>1. InjectTypeOK /\ OwnerInv /\ \A d \in Calls : Dest(d) \in Dests
  BY DestsAreDests DEF InjectInv
<1> SUFFICES ASSUME NEW d \in Calls \ {c}, pc'[d] \in Active
             PROVE  /\ Dest(d) # Dest(c) /\ ws'[Dest(d)] = ws[Dest(d)] /\ ws'[Dest(d)'].by = d
                    /\ WorkInv(d)'
  OBVIOUS
<1>2. pc'[d] = pc[d] /\ action'[d] = action[d] /\ Dest(d)' = Dest(d) /\ Dest(c)' = Dest(c)
  BY <1>1, WritesMoves
<1>3. Dest(d) # Dest(c)
  <2>1. CASE pc[c] \in Staged
    BY <1>1, <1>2, <2>1, OwnersApart DEF Active
  <2>2. CASE ws[Dest(c)] = EmptyWs
    <3>1. ws[Dest(d)].by = d
      BY <1>1, <1>2 DEF OwnerInv
    <3>2. EmptyWs.by = NoCall
      BY DEF EmptyWs
    <3> QED BY <2>2, <3>1, <3>2, CallsAssumption
  <2> QED BY <2>1, <2>2
<1>4. ws'[Dest(d)] = ws[Dest(d)]
  BY <1>1, <1>3, WritesMoves
<1>5. ws[Dest(d)].by = d /\ WorkInv(d)
  BY <1>1, <1>2 DEF InjectInv, OwnerInv
<1>6. job'[d] = job[d] /\ ws'[Dest(d)'] = ws[Dest(d)]
  BY <1>2, <1>4 DEF Writes
<1>7. WorkInv(d)'
  BY <1>2, <1>5, <1>6 DEF WorkInv, GraftOf
<1> QED BY <1>3, <1>4, <1>5, <1>6, <1>7

\* The call itself goes on with a workspace of its own.
LEMMA GoesOn ==
    ASSUME InjectInv, NEW c \in Calls, NEW l \in Staged \cup {"done"}, NEW w \in WsState,
           NEW a \in {"none", "skipped", "injected", "replaced"}, Writes(c, l, w, a),
           pc[c] \in Staged \/ (pc[c] = "new" /\ ws[Dest(c)] = EmptyWs),
           w.by = c, WorkInv(c)'
    PROVE  /\ InjectTypeOK' /\ OwnerInv'
           /\ \A d \in Calls : pc'[d] \in Active => WorkInv(d)'
<1>1. InjectTypeOK /\ OwnerInv /\ \A d \in Calls : Dest(d) \in Dests
  BY DestsAreDests DEF InjectInv
<1>2. /\ pc' = [pc EXCEPT ![c] = l] /\ ws' = [ws EXCEPT ![Dest(c)] = w]
      /\ action' = [action EXCEPT ![c] = a] /\ job' = job
  BY DEF Writes, GoTo, WsUpdate
<1>3. /\ pc'[c] = l /\ \A d \in Calls \ {c} : pc'[d] = pc[d]
      /\ ws'[Dest(c)] = w /\ \A x \in Dests \ {Dest(c)} : ws'[x] = ws[x]
      /\ \A d \in Calls : Dest(d)' = Dest(d)
  BY <1>1, WritesMoves
<1>4. \A d \in Calls \ {c} : pc'[d] \in Active => ws'[Dest(d)'].by = d /\ WorkInv(d)'
  BY OthersKeepTheirs
<1>5. InjectTypeOK'
  <2>1. pc' \in [Calls -> {"new"} \cup Staged \cup Ended]
    BY <1>1, <1>2 DEF InjectTypeOK, Ended
  <2>2. action' \in [Calls -> {"none", "skipped", "injected", "replaced"}]
    BY <1>1, <1>2 DEF InjectTypeOK
  <2>3. ws' \in [Dests -> WsState]
    BY <1>1, <1>2 DEF InjectTypeOK
  <2>4. job' \in [Calls -> Job] /\ \A d \in Calls : job'[d] \in JobsOf[d]
    BY <1>1, <1>2 DEF InjectTypeOK
  <2> QED BY <2>1, <2>2, <2>3, <2>4 DEF InjectTypeOK
<1>6. OwnerInv'
  <2>1. \A d \in Calls : pc'[d] \in Active => ws'[Dest(d)'].by = d
    BY <1>3, <1>4
  <2>2. ASSUME NEW x \in Dests, ws'[x] # EmptyWs
        PROVE  ws'[x].by \in Calls /\ pc'[ws'[x].by] \in Active /\ job'[ws'[x].by].dest = x
    <3>1. CASE x = Dest(c)
      BY <1>2, <1>3, <3>1 DEF Active, Dest
    <3>2. CASE x # Dest(c)
      <4>1. ws'[x] = ws[x]
        BY <1>3, <3>2
      <4>2. ws[x].by \in Calls /\ pc[ws[x].by] \in Active /\ Dest(ws[x].by) = x
        BY <1>1, <2>2, <4>1 DEF OwnerInv
      <4>3. ws[x].by # c
        BY <3>2, <4>2
      <4> QED BY <1>2, <1>3, <4>1, <4>2, <4>3 DEF Dest
    <3> QED BY <3>1, <3>2
  <2> QED BY <2>1, <2>2 DEF OwnerInv, Dest
<1> QED BY <1>4, <1>5, <1>6

\* A call that fails wipes its workspace, and no other.
LEMMA FailsAlone ==
    ASSUME InjectInv, NEW c \in Calls, pc[c] \in Staged, Fail(c)
    PROVE  InjectInv'
<1>1. InjectTypeOK /\ OwnerInv /\ KitInv /\ \A d \in Calls : Dest(d) \in Dests
  BY DestsAreDests DEF InjectInv
<1>2. /\ pc' = [pc EXCEPT ![c] = "failed"] /\ ws' = [ws EXCEPT ![Dest(c)] = EmptyWs]
      /\ UNCHANGED <<job, action, kit>>
  BY DEF Fail, GoTo, WsUpdate, Wiped
<1>3. Writes(c, "failed", EmptyWs, action[c])
  BY <1>1, <1>2 DEF Writes, GoTo, WsUpdate, InjectTypeOK
<1>4. /\ pc'[c] = "failed" /\ \A d \in Calls \ {c} : pc'[d] = pc[d]
      /\ ws'[Dest(c)] = EmptyWs /\ \A x \in Dests \ {Dest(c)} : ws'[x] = ws[x]
      /\ \A d \in Calls : Dest(d)' = Dest(d)
  BY <1>1, <1>3, WritesMoves
<1>5. "failed" \notin Active
  BY DEF Active, Staged, InKit
<1>6. \A d \in Calls : pc'[d] \in Active => ws'[Dest(d)'].by = d /\ WorkInv(d)'
  BY <1>3, <1>4, <1>5, OthersKeepTheirs
<1>7. InjectTypeOK'
  <2>1. pc' \in [Calls -> {"new"} \cup Staged \cup Ended]
    BY <1>1, <1>2 DEF InjectTypeOK, Ended
  <2>2. EmptyWs \in WsState
    BY DEF EmptyWs, WsState
  <2>3. ws' \in [Dests -> WsState]
    BY <1>1, <1>2, <2>2 DEF InjectTypeOK
  <2> QED BY <1>1, <1>2, <2>1, <2>3 DEF InjectTypeOK
<1>8. OwnerInv'
  <2>1. ASSUME NEW x \in Dests, ws'[x] # EmptyWs
        PROVE  ws'[x].by \in Calls /\ pc'[ws'[x].by] \in Active /\ job'[ws'[x].by].dest = x
    <3>1. x # Dest(c) /\ ws'[x] = ws[x]
      BY <1>4, <2>1
    <3>2. ws[x].by \in Calls /\ pc[ws[x].by] \in Active /\ Dest(ws[x].by) = x
      BY <1>1, <2>1, <3>1 DEF OwnerInv
    <3>3. ws[x].by # c
      BY <3>1, <3>2
    <3> QED BY <1>2, <1>4, <3>1, <3>2, <3>3 DEF Dest
  <2> QED BY <1>6, <2>1 DEF OwnerInv, Dest
<1>9. KitInv'
  <2>1. \A d \in Calls : pc'[d] \in Staged => pc[d] = pc'[d]
    BY <1>4 DEF Staged, InKit
  <2>2. kit' = kit /\ "kit meta" \in Staged
    BY <1>2 DEF Staged, InKit
  <2> QED BY <1>1, <2>1, <2>2 DEF KitInv
<1> QED BY <1>6, <1>7, <1>8, <1>9 DEF InjectInv

\* The call goes on and leaves its workspace as it is.
LEMMA MovesOn ==
    ASSUME InjectInv, NEW c \in Calls, pc[c] \in Staged, NEW l \in Staged \cup {"done"},
           NEW a \in {"none", "skipped", "injected", "replaced"},
           GoTo(c, l), action' = [action EXCEPT ![c] = a], UNCHANGED <<job, ws>>,
           WorkInv(c)'
    PROVE  /\ InjectTypeOK' /\ OwnerInv'
           /\ \A d \in Calls : pc'[d] \in Active => WorkInv(d)'
<1>1. InjectTypeOK /\ OwnerInv /\ Dest(c) \in Dests
  BY DestsAreDests DEF InjectInv
<1>2. ws[Dest(c)] \in WsState /\ ws[Dest(c)].by = c
  BY <1>1 DEF InjectTypeOK, OwnerInv, Active
<1>3. Writes(c, l, ws[Dest(c)], a)
  BY <1>1 DEF InjectTypeOK, Writes, WsUpdate
<1> QED BY <1>2, <1>3, GoesOn

\* The kit stays as it is when a call goes on, if what it waited for is there.
LEMMA KitKept ==
    ASSUME InjectInv, NEW c \in Calls, NEW l, GoTo(c, l), UNCHANGED kit,
           l = "kit meta" => kit.toc, l \in Staged \ InKit => kit.meta = "whole"
    PROVE  KitInv'
<1>1. KitInv /\ pc' = [pc EXCEPT ![c] = l] /\ pc \in [Calls -> {"new"} \cup Staged \cup Ended]
  BY DEF InjectInv, InjectTypeOK, GoTo
<1>2. \A d \in Calls : pc'[d] = pc[d] \/ pc'[d] = l
  BY <1>1
<1> QED BY <1>1, <1>2 DEF KitInv

\* What holds of a call at work, spelled out.
LEMMA AtWork ==
    ASSUME InjectInv, NEW c \in Calls, pc[c] \in Staged
    PROVE  /\ InjectTypeOK /\ KitInv /\ Dest(c) \in Dests /\ pc[c] \in Active
           /\ ws[Dest(c)] \in WsState /\ ws[Dest(c)].by = c /\ WorkInv(c)
           /\ action[c] \in {"none", "skipped", "injected", "replaced"}
           /\ action = [action EXCEPT ![c] = action[c]]
<1>1. InjectTypeOK /\ KitInv /\ OwnerInv /\ pc[c] \in Active
  BY DEF InjectInv, Active
<1>2. Dest(c) \in Dests
  BY <1>1, DestsAreDests
<1>3. ws[Dest(c)] \in WsState /\ action[c] \in {"none", "skipped", "injected", "replaced"}
  BY <1>1, <1>2 DEF InjectTypeOK
<1>4. action = [action EXCEPT ![c] = action[c]]
  BY <1>1 DEF InjectTypeOK
<1>5. ws[Dest(c)].by = c /\ WorkInv(c)
  BY <1>1 DEF OwnerInv, InjectInv
<1> QED BY <1>1, <1>2, <1>3, <1>4, <1>5

\* What a step leaves at the call that takes it.
LEMMA AfterStep ==
    ASSUME InjectTypeOK, NEW c \in Calls, NEW l, GoTo(c, l), UNCHANGED job
    PROVE  pc'[c] = l /\ Dest(c)' = Dest(c) /\ job'[c] = job[c] /\ GraftOf(c)' = GraftOf(c)
BY DEF InjectTypeOK, GoTo, Dest, GraftOf

\* A refusal touches no workspace.
LEMMA RefuseKeeps ==
    ASSUME InjectInv, NEW c \in Calls, Refuse(c)
    PROVE  InjectInv'
<1>1. /\ pc[c] = "new" /\ pc' = [pc EXCEPT ![c] = "refused"]
      /\ UNCHANGED <<job, action, ws, kit>>
  BY DEF Refuse, GoTo
<1>2. InjectTypeOK /\ OwnerInv
  BY DEF InjectInv
<1>3. /\ pc'[c] = "refused" /\ \A d \in Calls \ {c} : pc'[d] = pc[d]
      /\ "refused" \notin Active /\ "new" \notin Active
  BY <1>1, <1>2 DEF InjectTypeOK, Active, Staged, InKit
<1>4. InjectTypeOK'
  <2>1. pc' \in [Calls -> {"new"} \cup Staged \cup Ended]
    BY <1>1, <1>2 DEF InjectTypeOK, Ended
  <2> QED BY <1>1, <1>2, <2>1 DEF InjectTypeOK
<1>5. OwnerInv'
  BY <1>1, <1>2, <1>3 DEF OwnerInv, Dest
<1>6. KitInv'
  <2>1. GoTo(c, "refused") /\ "refused" \notin Staged
    BY <1>1 DEF GoTo, Staged, InKit
  <2> QED BY <1>1, <2>1, KitKept
<1>7. ASSUME NEW d \in Calls, pc'[d] \in Active PROVE WorkInv(d)'
  <2>1. pc'[d] = pc[d] /\ d # c
    BY <1>3, <1>7
  <2>2. WorkInv(d)
    BY <1>7, <2>1 DEF InjectInv
  <2> QED BY <1>1, <2>1, <2>2 DEF WorkInv, Dest, GraftOf
<1> QED BY <1>4, <1>5, <1>6, <1>7 DEF InjectInv

\* An empty workspace gets its owner.
LEMMA StageKeeps ==
    ASSUME InjectInv, NEW c \in Calls, Stage(c)
    PROVE  InjectInv'
<1> DEFINE w == [EmptyWs EXCEPT !.by = c, !.side = TRUE]
<1>1. /\ pc[c] = "new" /\ ws[Dest(c)] = EmptyWs /\ GoTo(c, "kit") /\ WsUpdate(c, w)
      /\ UNCHANGED <<job, action, kit>>
  BY DEF Stage, Refused
<1>2. InjectTypeOK
  BY DEF InjectInv
<1>3. action[c] \in {"none", "skipped", "injected", "replaced"} /\ action = [action EXCEPT ![c] = action[c]]
  BY <1>2 DEF InjectTypeOK
<1>4. Writes(c, "kit", w, action[c])
  BY <1>1, <1>3 DEF Writes
<1>5. EmptyWs \in WsState
  BY DEF EmptyWs, WsState
<1>6. w \in WsState
  BY <1>5 DEF WsState
<1>7. w.by = c /\ w.side /\ w.toe = NoTree /\ w.exp = NoTree /\ w.copy = NoTree /\ w.state = NoCall
  BY DEF EmptyWs
<1> HIDE DEF w
<1>8. "kit" \in Staged \cup {"done"}
  BY DEF Staged, InKit
<1>9. pc'[c] = "kit" /\ ws'[Dest(c)] = w /\ Dest(c)' = Dest(c)
  BY <1>2, <1>4, WritesMoves
<1>10. WorkInv(c)'
  BY <1>9, <1>7 DEF WorkInv
<1>11. /\ InjectTypeOK' /\ OwnerInv' /\ \A d \in Calls : pc'[d] \in Active => WorkInv(d)'
  BY <1>1, <1>3, <1>4, <1>6, <1>7, <1>8, <1>10, GoesOn
<1>12. KitInv'
  BY <1>1, KitKept DEF InKit
<1> QED BY <1>11, <1>12 DEF InjectInv

\* ensureGraftKit.
LEMMA KitStepsKeep ==
    ASSUME InjectInv, NEW c \in Calls,
           UseKit(c) \/ TornKit(c) \/ ExpandKit(c) \/ KitExpanded(c) \/ WriteMeta(c)
    PROVE  InjectInv'
<1>1. /\ {"kit", "kit expand", "kit meta", "copy"} \subseteq Staged
      /\ {"kit", "kit expand", "kit meta"} = InKit /\ "copy" \notin InKit
  BY DEF Staged, InKit
<1>2. ASSUME NEW l \in {"kit expand", "kit meta", "copy"}, pc[c] \in InKit, GoTo(c, l),
             UNCHANGED <<job, action, ws>>
      PROVE  InjectTypeOK' /\ OwnerInv' /\ \A d \in Calls : pc'[d] \in Active => WorkInv(d)'
  <2>1. pc[c] \in Staged /\ l \in Staged \cup {"done"}
    BY <1>1, <1>2
  <2>2. /\ InjectTypeOK /\ WorkInv(c) /\ action[c] \in {"none", "skipped", "injected", "replaced"}
        /\ action' = [action EXCEPT ![c] = action[c]]
    BY <1>2, <2>1, AtWork
  <2>3. pc'[c] = l /\ Dest(c)' = Dest(c)
    BY <1>2, <2>2, AfterStep
  <2>4. WorkInv(c)'
    BY <1>1, <1>2, <2>2, <2>3 DEF WorkInv
  <2> QED BY <1>2, <2>1, <2>2, <2>4, MovesOn
<1>3. CASE UseKit(c)
  <2>1. /\ pc[c] \in InKit /\ GoTo(c, "copy") /\ UNCHANGED <<job, action, ws, kit>>
        /\ kit.meta \notin {"none", "torn"}
    BY <1>1, <1>3 DEF UseKit, KitCached
  <2>2. kit.meta = "whole"
    BY <2>1 DEF InjectInv, KitInv
  <2>3. KitInv'
    BY <2>1, <2>2, KitKept
  <2> QED BY <1>2, <2>1, <2>3 DEF InjectInv
<1>4. CASE TornKit(c)
  BY <1>1, <1>4, FailsAlone DEF TornKit
<1>5. CASE ExpandKit(c)
  <2>1. pc[c] \in InKit /\ GoTo(c, "kit expand") /\ UNCHANGED <<job, action, ws, kit>>
    BY <1>1, <1>5 DEF ExpandKit
  <2>2. KitInv'
    BY <1>1, <2>1, KitKept
  <2> QED BY <1>2, <2>1, <2>2 DEF InjectInv
<1>6. CASE KitExpanded(c)
  <2>1. CASE Expanded(kit.dir, kit.toc)
    <3>1. pc[c] \in InKit /\ GoTo(c, "kit meta") /\ UNCHANGED <<job, action, ws, kit>> /\ kit.toc
      BY <1>1, <1>6, <2>1 DEF KitExpanded, Expanded
    <3>2. KitInv'
      BY <1>1, <3>1, KitKept
    <3> QED BY <1>2, <3>1, <3>2 DEF InjectInv
  <2>2. CASE ~Expanded(kit.dir, kit.toc)
    BY <1>1, <1>6, <2>2, FailsAlone DEF KitExpanded
  <2> QED BY <2>1, <2>2
<1>7. CASE WriteMeta(c)
  <2>1. /\ pc[c] = "kit meta" /\ GoTo(c, "copy") /\ UNCHANGED <<job, action, ws>>
        /\ kit' = [kit EXCEPT !.meta = kit.dir]
    BY <1>7 DEF WriteMeta
  <2>2. InjectTypeOK /\ KitInv
    BY DEF InjectInv
  <2>3. kit.toc /\ kit.dir = "whole"
    BY <2>1, <2>2 DEF KitInv
  <2>4. kit'.dir = kit.dir /\ kit'.toc = kit.toc /\ kit'.meta = "whole"
    BY <2>1, <2>2, <2>3 DEF KitInv
  <2>5. kit' \in [dir : {"none", "part", "whole"}, toc : BOOLEAN, meta : {"none", "torn", "whole"}]
    BY <2>1, <2>2, <2>3 DEF KitInv
  <2>6. KitInv'
    BY <2>3, <2>4, <2>5 DEF KitInv
  <2> QED BY <1>1, <1>2, <2>1, <2>6 DEF InjectInv
<1> QED BY <1>3, <1>4, <1>5, <1>6, <1>7

\* Past the kit, a call that goes on writes a workspace of its own.
LEMMA PastKit ==
    ASSUME InjectInv, NEW c \in Calls, pc[c] \in Staged \ InKit,
           NEW l \in (Staged \ InKit) \cup {"done"}, NEW w \in WsState, w.by = c,
           NEW a \in {"none", "skipped", "injected", "replaced"},
           Writes(c, l, w, a), UNCHANGED kit, WorkInv(c)'
    PROVE  InjectInv'
<1>1. /\ InjectTypeOK' /\ OwnerInv'
      /\ \A d \in Calls : pc'[d] \in Active => WorkInv(d)'
  BY GoesOn
<1>2. kit.meta = "whole" /\ GoTo(c, l) /\ l # "kit meta"
  BY DEF InjectInv, KitInv, Writes, Staged, InKit
<1>3. KitInv'
  BY <1>2, KitKept
<1> QED BY <1>1, <1>3 DEF InjectInv

\* The source is copied and expanded.
LEMMA CopyKeeps ==
    ASSUME InjectInv, NEW c \in Calls, Copy(c)
    PROVE  InjectInv'
<1> DEFINE w == [ws[Dest(c)] EXCEPT !.toe = Original]
<1>1. /\ pc[c] = "copy" /\ GoTo(c, "expand") /\ WsUpdate(c, w)
      /\ UNCHANGED <<job, action, kit>>
  BY DEF Copy
<1>2. {"copy", "expand"} \subseteq Staged \ InKit
  BY DEF Staged, InKit
<1>3. /\ InjectTypeOK /\ ws[Dest(c)] \in WsState /\ ws[Dest(c)].by = c /\ WorkInv(c)
      /\ action[c] \in {"none", "skipped", "injected", "replaced"}
      /\ action = [action EXCEPT ![c] = action[c]]
  BY <1>1, <1>2, AtWork
<1>4. w \in WsState /\ w.by = c /\ w.toe = Original
  BY <1>3 DEF WsState
<1>5. w.side = ws[Dest(c)].side /\ w.exp = ws[Dest(c)].exp /\ w.copy = ws[Dest(c)].copy
      /\ w.state = ws[Dest(c)].state
  BY <1>3 DEF WsState
<1> HIDE DEF w
<1>6. Writes(c, "expand", w, action[c])
  BY <1>1, <1>3 DEF Writes
<1>7. pc'[c] = "expand" /\ ws'[Dest(c)] = w /\ Dest(c)' = Dest(c)
  BY <1>3, <1>6, WritesMoves
<1>8. w.side /\ w.state = NoCall /\ w.exp = NoTree /\ w.copy = NoTree
  BY <1>1, <1>3, <1>5 DEF WorkInv
<1>9. WorkInv(c)'
  BY <1>4, <1>7, <1>8 DEF WorkInv, InKit
<1> QED BY <1>1, <1>2, <1>3, <1>4, <1>6, <1>9, PastKit

\* A project with a bridge is left as it is, on request.
LEMMA SkipKeeps ==
    ASSUME InjectInv, NEW c \in Calls, ExpandedSkip(c)
    PROVE  InjectInv'
<1>1. /\ pc[c] = "expand" /\ GoTo(c, "commit") /\ action' = [action EXCEPT ![c] = "skipped"]
      /\ UNCHANGED <<job, ws, kit>>
  BY DEF ExpandedSkip
<1>2. {"expand", "commit"} \subseteq Staged \ InKit
  BY DEF Staged, InKit
<1>3. InjectTypeOK /\ ws[Dest(c)] \in WsState /\ ws[Dest(c)].by = c /\ WorkInv(c)
  BY <1>1, <1>2, AtWork
<1>4. Writes(c, "commit", ws[Dest(c)], "skipped")
  BY <1>1, <1>3 DEF Writes, WsUpdate, InjectTypeOK
<1>5. pc'[c] = "commit" /\ action'[c] = "skipped" /\ ws'[Dest(c)] = ws[Dest(c)] /\ Dest(c)' = Dest(c)
  BY <1>3, <1>4, WritesMoves
<1>6. WorkInv(c)'
  BY <1>1, <1>3, <1>5 DEF WorkInv, InKit
<1> QED BY <1>1, <1>2, <1>3, <1>4, <1>6, PastKit

\* The kit is grafted into the expanded copy.
LEMMA GraftKeeps ==
    ASSUME InjectInv, NEW c \in Calls, ExpandedGraft(c)
    PROVE  InjectInv'
<1>1. pc[c] = "expand" /\ {"expand", "collapse"} \subseteq Staged \ InKit
  BY DEF ExpandedGraft, Staged, InKit
<1>2. InjectTypeOK /\ KitInv /\ ws[Dest(c)] \in WsState /\ ws[Dest(c)].by = c /\ WorkInv(c)
  BY <1>1, AtWork
<1>3. kit.meta = "whole"
  BY <1>1, <1>2 DEF KitInv
<1> DEFINE w == [ws[Dest(c)] EXCEPT !.toe = NoTree, !.exp = Whole]
<1>4. CASE assertGraftClean(GraftOf(c).files, GraftOf(c).toc, {})
  <2>1. PICK a \in {"injected", "replaced"} : action' = [action EXCEPT ![c] = a]
    BY <1>3, <1>4 DEF ExpandedGraft, GraftOf, Whole
  <2>2. WsUpdate(c, w) /\ GoTo(c, "collapse") /\ UNCHANGED <<job, kit>>
    BY <1>3, <1>4 DEF ExpandedGraft, GraftOf, Whole
  <2>3. w \in WsState /\ w.by = c /\ w.toe = NoTree /\ w.exp = Whole
    BY <1>2 DEF WsState
  <2>4. w.side = ws[Dest(c)].side /\ w.state = ws[Dest(c)].state
    BY <1>2 DEF WsState
  <2> HIDE DEF w
  <2>5. Writes(c, "collapse", w, a)
    BY <2>1, <2>2 DEF Writes
  <2>6. /\ pc'[c] = "collapse" /\ action'[c] = a /\ ws'[Dest(c)] = w /\ Dest(c)' = Dest(c)
        /\ GraftOf(c)' = GraftOf(c)
    BY <1>2, <2>2, <2>5, WritesMoves, AfterStep
  <2>7. WorkInv(c)'
    BY <1>1, <1>2, <1>4, <2>3, <2>4, <2>6 DEF WorkInv, InKit
  <2> QED BY <1>1, <2>2, <2>3, <2>5, <2>7, PastKit
<1>5. CASE ~assertGraftClean(GraftOf(c).files, GraftOf(c).toc, {})
  <2>1. Fail(c)
    BY <1>3, <1>5 DEF ExpandedGraft, GraftOf, Whole
  <2> QED BY <1>1, <2>1, FailsAlone
<1> QED BY <1>4, <1>5

\* toecollapse packs the directory, and may lose files.
LEMMA CollapsedKeeps ==
    ASSUME InjectInv, NEW c \in Calls, Collapsed(c)
    PROVE  InjectInv'
<1>1. /\ pc[c] = "collapse" /\ GoTo(c, "verify") /\ UNCHANGED <<job, action, kit>>
      /\ {"collapse", "verify"} \subseteq Staged \ InKit
  BY DEF Collapsed, Staged, InKit
<1>2. /\ InjectTypeOK /\ ws[Dest(c)] \in WsState /\ ws[Dest(c)].by = c /\ WorkInv(c)
      /\ action[c] \in {"none", "skipped", "injected", "replaced"}
      /\ action = [action EXCEPT ![c] = action[c]]
  BY <1>1, AtWork
<1>3. ws[Dest(c)].exp = Whole
  BY <1>1, <1>2 DEF WorkInv
<1>4. PICK lost \in SUBSET GraftOf(c).files :
        LET toe == Holding("packed", "whole", lost) IN
        WsUpdate(c, [ws[Dest(c)] EXCEPT !.toe = toe, !.copy = toe])
  <2>1. Whole.level = "whole"
    BY DEF Whole, Grafted, Holding
  <2> QED BY <1>3, <2>1 DEF Collapsed, GraftOf
<1>5. PICK toe \in Packs : toe = Holding("packed", "whole", lost)
  <2>1. IsTree(job[c].src)
    BY <1>2, DestsAreDests
  <2>2. GraftOf(c) = graft(job[c].src, Kit, KitPaths("whole"))
    BY DEF GraftOf, TreeOf, Whole, Grafted, Holding
  <2>3. lost \subseteq Files
    BY <2>1, <2>2, GraftFiles
  <2> QED BY <2>3 DEF Packs
<1> DEFINE w == [ws[Dest(c)] EXCEPT !.toe = toe, !.copy = toe]
<1>6. WsUpdate(c, w)
  BY <1>3, <1>4, <1>5
<1>7. w \in WsState /\ w.by = c /\ w.toe = toe /\ w.copy = toe
  BY <1>2 DEF WsState
<1>8. w.side = ws[Dest(c)].side /\ w.exp = ws[Dest(c)].exp /\ w.state = ws[Dest(c)].state
  BY <1>2 DEF WsState
<1> HIDE DEF w
<1>9. Writes(c, "verify", w, action[c])
  BY <1>1, <1>2, <1>6 DEF Writes
<1>10. /\ pc'[c] = "verify" /\ action'[c] = action[c] /\ ws'[Dest(c)] = w /\ Dest(c)' = Dest(c)
       /\ GraftOf(c)' = GraftOf(c)
  BY <1>1, <1>2, <1>9, WritesMoves, AfterStep
<1>11. WorkInv(c)'
  <2>1. /\ w.side /\ w.state = NoCall /\ w.exp = Whole /\ action[c] # "skipped"
        /\ w.exp # NoTree => assertGraftClean(GraftOf(c).files, GraftOf(c).toc, {})
    BY <1>1, <1>2, <1>3, <1>8 DEF WorkInv
  <2>2. w.toe \in Packs /\ w.copy = w.toe
    BY <1>5, <1>7
  <2> QED BY <1>10, <2>1, <2>2 DEF WorkInv, InKit
<1> QED BY <1>1, <1>2, <1>7, <1>9, <1>11, PastKit

\* The packed project is expanded again and looked at.
LEMMA VerifiedKeeps ==
    ASSUME InjectInv, NEW c \in Calls, Verified(c)
    PROVE  InjectInv'
<1> DEFINE w == ws[Dest(c)]
<1>1. pc[c] = "verify" /\ {"verify", "commit"} \subseteq Staged \ InKit
  BY DEF Verified, Staged, InKit
<1>2. /\ InjectTypeOK /\ w \in WsState /\ w.by = c /\ WorkInv(c)
      /\ action[c] \in {"none", "skipped", "injected", "replaced"}
      /\ action = [action EXCEPT ![c] = action[c]]
  BY <1>1, AtWork
<1>3. CASE VerifyFails(TreeOf(job[c], w.copy)) \/ ~w.side
  BY <1>1, <1>3, FailsAlone DEF Verified
<1>4. CASE ~(VerifyFails(TreeOf(job[c], w.copy)) \/ ~w.side)
  <2>1. GoTo(c, "commit") /\ UNCHANGED <<job, action, ws, kit>>
    BY <1>4 DEF Verified
  <2>2. w.toe \in Packs /\ w.copy = w.toe /\ w.exp = Whole
    BY <1>1, <1>2 DEF WorkInv
  <2>3. NoTree # Whole
    BY DEF NoTree, Grafted, Whole, Holding
  <2>4. Writes(c, "commit", w, action[c])
    BY <1>2, <2>1 DEF Writes, WsUpdate, InjectTypeOK
  <2>5. /\ pc'[c] = "commit" /\ action'[c] = action[c] /\ ws'[Dest(c)] = w /\ Dest(c)' = Dest(c)
        /\ GraftOf(c)' = GraftOf(c) /\ job'[c] = job[c]
    BY <1>2, <2>1, <2>4, WritesMoves, AfterStep
  <2>6. /\ action[c] # "skipped" /\ assertGraftClean(GraftOf(c).files, GraftOf(c).toc, {})
        /\ ~VerifyFails(TreeOf(job[c], w.toe)) /\ w.side /\ w.state = NoCall
    BY <1>1, <1>2, <1>4, <2>2, <2>3 DEF WorkInv
  <2> HIDE DEF w
  <2>7. WorkInv(c)'
    BY <2>2, <2>5, <2>6 DEF WorkInv, InKit
  <2> QED BY <1>1, <1>2, <2>1, <2>4, <2>7, PastKit
<1> QED BY <1>3, <1>4

\* state.json is written beside the project.
LEMMA CommitKeeps ==
    ASSUME InjectInv, NEW c \in Calls, Commit(c)
    PROVE  InjectInv'
<1> DEFINE w == [ws[Dest(c)] EXCEPT !.exp = NoTree, !.copy = NoTree, !.state = c]
<1>1. /\ pc[c] = "commit" /\ GoTo(c, "done") /\ WsUpdate(c, w) /\ UNCHANGED <<job, action, kit>>
      /\ "commit" \in Staged \ InKit
  BY DEF Commit, Staged, InKit
<1>2. /\ InjectTypeOK /\ ws[Dest(c)] \in WsState /\ ws[Dest(c)].by = c /\ WorkInv(c)
      /\ action[c] \in {"none", "skipped", "injected", "replaced"}
      /\ action = [action EXCEPT ![c] = action[c]]
  BY <1>1, AtWork
<1>3. w \in WsState /\ w.by = c /\ w.exp = NoTree /\ w.copy = NoTree /\ w.state = c
  BY <1>2 DEF WsState
<1>4. w.side = ws[Dest(c)].side /\ w.toe = ws[Dest(c)].toe
  BY <1>2 DEF WsState
<1> HIDE DEF w
<1>5. Writes(c, "done", w, action[c])
  BY <1>1, <1>2 DEF Writes
<1>6. /\ pc'[c] = "done" /\ action'[c] = action[c] /\ ws'[Dest(c)] = w /\ Dest(c)' = Dest(c)
      /\ GraftOf(c)' = GraftOf(c) /\ job'[c] = job[c]
  BY <1>1, <1>2, <1>5, WritesMoves, AfterStep
<1>7. WorkInv(c)'
  BY <1>1, <1>2, <1>3, <1>4, <1>6 DEF WorkInv, InKit
<1> QED BY <1>1, <1>2, <1>3, <1>5, <1>7, PastKit

(***************************************************************************)
(* The kit's tools, and a kill                                             *)
(***************************************************************************)
\* A step that leaves calls and workspaces alone.
LEMMA KitAlone ==
    ASSUME InjectInv, UNCHANGED <<job, pc, action, ws>>, KitInv'
    PROVE  InjectInv'
<1>1. InjectTypeOK' /\ OwnerInv'
  BY DEF InjectInv, InjectTypeOK, OwnerInv, Dest
<1>2. \A c \in Calls : WorkInv(c) => WorkInv(c)'
  BY DEF WorkInv, GraftOf, Dest
<1> QED BY <1>1, <1>2 DEF InjectInv

\* toeexpand writes the files of the kit, the .toc last.
LEMMA KitFillsKeeps ==
    ASSUME InjectInv, KitFills
    PROVE  InjectInv'
<1>1. KitInv /\ ~kit.toc /\ UNCHANGED <<job, pc, action, ws>>
  BY DEF KitFills, InjectInv
<1>2. kit' = CASE kit.dir = "none" -> [kit EXCEPT !.dir = "part"]
               [] kit.dir = "part" -> [kit EXCEPT !.dir = "whole"]
               [] OTHER -> [kit EXCEPT !.toc = TRUE]
  BY DEF KitFills
<1>3. kit \in [dir : {"none", "part", "whole"}, toc : BOOLEAN, meta : {"none", "torn", "whole"}]
  BY <1>1 DEF KitInv
<1>4. /\ kit' \in [dir : {"none", "part", "whole"}, toc : BOOLEAN, meta : {"none", "torn", "whole"}]
      /\ kit'.meta = kit.meta /\ (kit'.toc => kit'.dir = "whole") /\ (kit.dir = "whole" => kit'.dir = "whole")
  <2>1. CASE kit.dir = "none"
    <3>1. kit' = [kit EXCEPT !.dir = "part"]
      BY <1>2, <2>1
    <3> QED BY <1>1, <1>3, <2>1, <3>1
  <2>2. CASE kit.dir = "part"
    <3>1. kit' = [kit EXCEPT !.dir = "whole"]
      BY <1>2, <2>2
    <3> QED BY <1>1, <1>3, <3>1
  <2>3. CASE kit.dir = "whole"
    <3>1. kit' = [kit EXCEPT !.toc = TRUE]
      BY <1>2, <2>3
    <3> QED BY <1>1, <1>3, <2>3, <3>1
  <2> QED BY <1>3, <2>1, <2>2, <2>3
<1>5. KitInv'
  BY <1>1, <1>4 DEF KitInv
<1> QED BY <1>1, <1>5, KitAlone

\* Whoever is killed is not at work any more; nothing else happens to its workspace.
LEMMA KillKeeps ==
    ASSUME InjectInv, Kill
    PROVE  InjectInv'
<1>1. /\ pc' = [c \in Calls |-> IF pc[c] \in Staged THEN "killed" ELSE pc[c]]
      /\ UNCHANGED <<job, action, ws>>
      /\ kit' = kit \/ kit' = [kit EXCEPT !.meta = "torn"]
  BY DEF Kill
<1>2. InjectTypeOK /\ OwnerInv /\ KitInv
  BY DEF InjectInv
<1>3. /\ "killed" \in Active /\ "killed" \notin Staged /\ Staged \subseteq Active
      /\ "kit meta" \in Staged /\ "killed" \in Ended
  BY DEF Active, Staged, InKit, Ended
<1>4. \A c \in Calls : /\ pc'[c] \notin Staged
                       /\ pc'[c] \in Active <=> pc[c] \in Active
                       /\ pc'[c] \in Active => pc'[c] = pc[c] \/ (pc'[c] = "killed" /\ pc[c] \in Staged)
  BY <1>1, <1>3
<1>5. InjectTypeOK'
  <2>1. pc' \in [Calls -> {"new"} \cup Staged \cup Ended]
    BY <1>1, <1>2, <1>3 DEF InjectTypeOK
  <2> QED BY <1>1, <1>2, <2>1 DEF InjectTypeOK
<1>6. OwnerInv'
  BY <1>1, <1>2, <1>4 DEF OwnerInv, Dest
<1>7. KitInv'
  <2>1. /\ kit' \in [dir : {"none", "part", "whole"}, toc : BOOLEAN, meta : {"none", "torn", "whole"}]
        /\ (kit'.toc => kit'.dir = "whole") /\ (kit'.meta = "whole" => kit'.dir = "whole")
    BY <1>1, <1>2 DEF KitInv
  <2> QED BY <1>3, <1>4, <2>1 DEF KitInv
<1>8. ASSUME NEW c \in Calls, pc'[c] \in Active PROVE WorkInv(c)'
  <2>1. WorkInv(c) /\ (pc'[c] = pc[c] \/ (pc'[c] = "killed" /\ pc[c] \in Staged))
    BY <1>4, <1>8 DEF InjectInv
  <2>2. ws'[job'[c].dest] = ws[Dest(c)] /\ action'[c] = action[c] /\ job'[c] = job[c]
    BY <1>1 DEF Dest
  <2>3. CASE pc'[c] = pc[c]
    BY <2>1, <2>2, <2>3 DEF WorkInv, GraftOf, Dest
  <2>4. CASE pc'[c] = "killed" /\ pc[c] \in Staged
    BY <2>1, <2>2, <2>4 DEF WorkInv, GraftOf, Dest, Staged, InKit
  <2> QED BY <2>1, <2>3, <2>4
<1> QED BY <1>5, <1>6, <1>7, <1>8 DEF InjectInv

\* The invariant is inductive.
LEMMA InjectNext == InjectInv /\ [Next]_vars => InjectInv'
<1> SUFFICES ASSUME InjectInv, [Next]_vars PROVE InjectInv'
  OBVIOUS
<1>1. ASSUME NEW c \in Calls, Proceed(c) PROVE InjectInv'
  <2>1. CASE ExpandedReject(c)
    <3>1. Fail(c) /\ pc[c] \in Staged
      BY <2>1 DEF ExpandedReject, Staged
    <3> QED BY <3>1, FailsAlone
  <2> QED
    BY <1>1, <2>1, RefuseKeeps, StageKeeps, KitStepsKeep, CopyKeeps, SkipKeeps, GraftKeeps,
       CollapsedKeeps, VerifiedKeeps, CommitKeeps DEF Proceed
<1>2. ASSUME NEW c \in Calls, Throw(c) PROVE InjectInv'
  BY <1>2, FailsAlone DEF Throw
<1>3. ASSUME UNCHANGED <<job, pc, action, ws, kit>> PROVE InjectInv'
  <2>1. KitInv'
    BY <1>3 DEF InjectInv, KitInv
  <2> QED BY <1>3, <2>1, KitAlone
<1>4. ASSUME NEW c \in Calls, KitToolEnds(c) PROVE InjectInv'
  BY <1>3, <1>4 DEF KitToolEnds
<1>5. CASE UNCHANGED vars
  BY <1>3, <1>5 DEF vars
<1> QED
  BY <1>1, <1>2, <1>4, <1>5, KitFillsKeeps, KillKeeps DEF Next

\* Types, owners, the kit, and what each call has done so far.
THEOREM InjectIsOrderly == Spec => []InjectInv
BY InjectStarts, InjectNext, PTL DEF Spec

\* The kit's manifest is that of the whole kit, however many calls expanded it at
\* once and whichever of them was killed (ensureGraftKit).
THEOREM KitStaysWhole == Spec => []KitIsWhole
<1>1. InjectInv => KitIsWhole
  BY DEF InjectInv, KitInv, KitIsWhole
<1> QED BY <1>1, InjectIsOrderly, PTL

\* A workspace belongs to the call that found it empty: no other call writes or
\* wipes it, and a call that failed left nothing in it (injectTdMcp).
THEOREM WorkspacesAreOwned == Spec => []OwnWorkspace
<1>1. Staged \cup {"done", "killed"} = Active /\ "failed" \notin Active /\ "refused" \notin Active
  BY DEF Active, Staged, InKit
<1>2. InjectInv => OwnWorkspace
  BY <1>1 DEF InjectInv, OwnerInv, OwnWorkspace
<1> QED BY <1>2, InjectIsOrderly, PTL

(***************************************************************************)
(* What is committed                                                      *)
(***************************************************************************)
\* What is packed of a graft, when the verification passes.
LEMMA PackedTree ==
    ASSUME InjectInv, NEW c \in Calls, NEW toe \in Packs, ~VerifyFails(TreeOf(job[c], toe))
    PROVE  /\ TreeOf(job[c], toe).files = (GraftOf(c).files \cap ToSet(GraftOf(c).toc)) \ toe.lost
           /\ TreeOf(job[c], toe).build = Kit.build
           /\ ToSet(bootPaths) \subseteq TreeOf(job[c], toe).files
           /\ GraftOf(c) = graft(job[c].src, Kit, KitPaths("whole"))
<1> DEFINE t == graft(job[c].src, Kit, KitPaths("whole"))
<1>1. IsTree(job[c].src)
  BY DestsAreDests DEF InjectInv
<1>2. toe.kind = "packed" /\ toe.level = "whole"
  BY DEF Packs, Holding
<1>3. GraftOf(c) = t /\ TreeOf(job[c], toe) = Collapse(t, toe.lost)
  <2>1. GraftOf(c) = t
    BY DEF GraftOf, TreeOf, Whole, Grafted, Holding
  <2>2. TreeOf(job[c], toe) = Collapse(t, toe.lost)
    BY <1>2 DEF TreeOf
  <2> QED BY <2>1, <2>2
<1>4. t.build = Kit.build /\ DOMAIN t = {"files", "toc", "build", "start"}
  BY <1>1, GraftMakes
<1>5. \A lost : LET packed == (t.files \cap ToSet(t.toc)) \ lost
                IN  Collapse(t, lost).files = packed /\ Collapse(t, lost).build = t.build
  BY <1>4 DEF Collapse
<1>6. /\ Collapse(t, toe.lost).files = (t.files \cap ToSet(t.toc)) \ toe.lost
      /\ Collapse(t, toe.lost).build = Kit.build
  BY <1>4, <1>5
<1>7. ToSet(bootPaths) \subseteq TreeOf(job[c], toe).files
  BY DEF VerifyFails, assertManifestPresent
<1> HIDE DEF t
<1> QED BY <1>3, <1>6, <1>7 DEF t

\* A workspace with a state.json is that of a call that is done.
LEMMA Committed ==
    ASSUME InjectInv, NEW d \in Dests, ws[d].state # NoCall
    PROVE  \E c \in Calls :
             /\ pc[c] = "done" /\ Dest(c) = d /\ ws[d].state = c /\ WorkInv(c)
<1>1. ws[d] # EmptyWs
  BY DEF EmptyWs
<1> DEFINE c == ws[d].by
<1>2. c \in Calls /\ pc[c] \in Active /\ Dest(c) = d
  BY <1>1 DEF InjectInv, OwnerInv
<1>3. WorkInv(c)
  BY <1>2 DEF InjectInv
<1>4. pc[c] = "done"
  BY <1>2, <1>3 DEF WorkInv
<1>5. ws[d].state = c
  BY <1>2, <1>3, <1>4 DEF WorkInv
<1> QED BY <1>2, <1>3, <1>4, <1>5

\* A workspace with a state.json, which start_td_project takes for a project it
\* may open, holds the sidecars, a whole .toe with the bootstrap, nothing of a
\* bridge under project1 and nothing left of the work (injectTdMcp).
THEOREM CommitComesLast == Spec => []CommitIsLast
<1>1. ASSUME InjectInv, NEW d \in Dests, ws[d].state # NoCall
      PROVE  /\ ws[d].side /\ ws[d].exp = NoTree /\ ws[d].copy = NoTree
             /\ ws[d].toe # NoTree
             /\ action[ws[d].state] # "skipped" =>
                 /\ ToSet(bootPaths) \subseteq Toe(d).files
                 /\ Toe(d).build = Kit.build
                 /\ \A f \in Toe(d).files :
                     ~(f.at # <<>> /\ f.at[1] = P1[1] /\ isGraftOwnedRel(f))
  <2>1. PICK c \in Calls : pc[c] = "done" /\ Dest(c) = d /\ ws[d].state = c /\ WorkInv(c)
    BY <1>1, Committed
  <2>2. ws[d].side /\ ws[d].exp = NoTree /\ ws[d].copy = NoTree
    BY <2>1 DEF WorkInv
  <2>3. \/ action[c] = "skipped" /\ ws[d].toe = Original
        \/ action[c] # "skipped" /\ ws[d].toe \in Packs /\ ~VerifyFails(TreeOf(job[c], ws[d].toe))
    BY <2>1 DEF WorkInv
  <2>4. ws[d].toe # NoTree
    <3>1. NoTree.kind = "none" /\ Original.kind = "source" /\ \A p \in Packs : p.kind = "packed"
      BY DEF NoTree, Original, Packs, Holding
    <3> QED BY <2>3, <3>1
  <2>5. ASSUME action[c] # "skipped"
        PROVE  /\ ToSet(bootPaths) \subseteq Toe(d).files
               /\ Toe(d).build = Kit.build
               /\ Toe(d).files \subseteq GraftOf(c).files
    <3>1. Toe(d) = TreeOf(job[c], ws[d].toe)
      BY <2>1 DEF Toe
    <3> QED BY <1>1, <2>3, <2>5, <3>1, PackedTree
  <2>6. ASSUME action[c] # "skipped", NEW f \in Toe(d).files
        PROVE  ~(f.at # <<>> /\ f.at[1] = P1[1] /\ isGraftOwnedRel(f))
    <3>1. IsTree(job[c].src)
      BY <1>1, DestsAreDests DEF InjectInv
    <3>2. GraftOf(c) = graft(job[c].src, Kit, KitPaths("whole"))
      BY DEF GraftOf, TreeOf, Whole, Grafted, Holding
    <3>3. f \in graft(job[c].src, Kit, KitPaths("whole")).files
      BY <2>5, <2>6, <3>2
    <3> QED BY <3>1, <3>3, GraftFiles
  <2> QED BY <2>1, <2>2, <2>4, <2>5, <2>6
<1>2. InjectInv => CommitIsLast
  BY <1>1 DEF CommitIsLast
<1> QED BY <1>2, InjectIsOrderly, PTL

(***************************************************************************)
(* Induction and recursion on the lines of a .toc.  The library's theorems *)
(* have an operator for their parameter; a set or a function does as well. *)
(***************************************************************************)
Below == {p \in Nat \X Nat : p[1] < p[2]}

\* The order that SetInduction goes along.
LEMMA BelowIsWellFounded == IsWellFoundedOn(Below, Nat)
BY NatLessThanWellFounded DEF OpToRel, Below

\* A set of numbers with 0 and with the successors of its members has them all.
LEMMA SetInduction ==
    ASSUME NEW S, 0 \in S, \A n \in Nat : n \in S => n + 1 \in S
    PROVE  \A n \in Nat : n \in S
<1> DEFINE T == Nat \ S
<1> SUFFICES ASSUME T # {} PROVE FALSE
  OBVIOUS
<1>1. T \subseteq Nat
  OBVIOUS
<1> HIDE DEF T
<1>2. PICK m \in T : \A y \in T : ~(<<y, m>> \in Below)
  BY <1>1, BelowIsWellFounded, WFMin
<1> USE DEF T
<1>3. m # 0 /\ m - 1 \in Nat
  OBVIOUS
<1>4. m - 1 \in T
  BY <1>3
<1>5. <<m - 1, m>> \in Below
  BY <1>3 DEF Below
<1> QED BY <1>2, <1>4, <1>5

\* g goes through the sequence s with the step F, from x.
IsRun(g, D, x, s, F) ==
    /\ g \in [0 .. Len(s) -> D]
    /\ g[0] = x /\ \A i \in 1 .. Len(s) : g[i] = F[<<g[i - 1], s[i]>>]

\* A function that is given by its first value and a step along a sequence exists.
LEMMA StepByStep ==
    ASSUME NEW D, NEW x \in D, NEW E, NEW s \in Seq(E), NEW F \in [D \X E -> D]
    PROVE  \E g : IsRun(g, D, x, s, F)
<1> DEFINE Runs(n) == \E g \in [0 .. n -> D] :
                        g[0] = x /\ \A i \in 1 .. n : g[i] = F[<<g[i - 1], s[i]>>]
           S == {n \in Nat : n <= Len(s) => Runs(n)}
<1>1. 0 \in S
  <2> DEFINE g == [i \in 0 .. 0 |-> x]
  <2>1. g \in [0 .. 0 -> D] /\ g[0] = x
    OBVIOUS
  <2> HIDE DEF g
  <2>2. \A i \in 1 .. 0 : g[i] = F[<<g[i - 1], s[i]>>]
    OBVIOUS
  <2> QED BY <2>1, <2>2
<1>2. ASSUME NEW n \in Nat, n \in S PROVE n + 1 \in S
  <2> SUFFICES ASSUME n + 1 <= Len(s) PROVE Runs(n + 1)
    OBVIOUS
  <2>1. PICK g \in [0 .. n -> D] : g[0] = x /\ \A i \in 1 .. n : g[i] = F[<<g[i - 1], s[i]>>]
    BY <1>2
  <2> DEFINE y == F[<<g[n], s[n + 1]>>]
             h == [i \in 0 .. n + 1 |-> IF i <= n THEN g[i] ELSE y]
  <2>2. s[n + 1] \in E /\ g[n] \in D
    BY <2>1
  <2>3. y \in D
    BY <2>2
  <2> HIDE DEF y
  <2>4. h \in [0 .. n + 1 -> D]
    BY <2>1, <2>3
  <2>5. h[0] = x /\ h[n + 1] = y /\ h[n] = g[n] /\ \A i \in 0 .. n : h[i] = g[i]
    BY <2>1
  <2> HIDE DEF h
  <2>6. ASSUME NEW i \in 1 .. n + 1 PROVE h[i] = F[<<h[i - 1], s[i]>>]
    <3>1. CASE i = n + 1
      <4>1. i - 1 = n
        BY <3>1
      <4>2. h[i] = y /\ h[i - 1] = g[n] /\ s[i] = s[n + 1]
        BY <2>5, <3>1, <4>1
      <4> QED BY <4>2 DEF y
    <3>2. CASE i # n + 1
      <4>1. i \in 1 .. n /\ i \in 0 .. n /\ i - 1 \in 0 .. n
        BY <2>6, <3>2
      <4> QED BY <2>1, <2>5, <4>1
    <3> QED BY <3>1, <3>2
  <2> QED BY <2>4, <2>5, <2>6
<1> HIDE DEF S
<1>3. \A n \in Nat : n \in S
  BY <1>1, <1>2, SetInduction
<1>4. Len(s) \in S /\ Len(s) \in Nat
  BY <1>3
<1>5. Runs(Len(s))
  BY <1>4 DEF S
<1> HIDE DEF S
<1>6. PICK g \in [0 .. Len(s) -> D] :
        g[0] = x /\ \A i \in 1 .. Len(s) : g[i] = F[<<g[i - 1], s[i]>>]
  BY <1>5
<1>7. IsRun(g, D, x, s, F)
  BY <1>6 DEF IsRun
<1> QED BY <1>7

\* The keys of a .toc are those of the set of its lines.
LEMMA KeysOf ==
    ASSUME NEW toc
    PROVE  /\ Keys(toc) = {normKey(f) : f \in ToSet(toc)}
           /\ ToSet(toc) = {toc[i] : i \in DOMAIN toc}
BY DEF Keys, ToSet

\* Appending adds the element to the set of a sequence.
LEMMA SetOfAppend ==
    ASSUME NEW D, NEW s \in Seq(D), NEW x \in D
    PROVE  Append(s, x) \in Seq(D) /\ ToSet(Append(s, x)) = ToSet(s) \cup {x}
<1> DEFINE a == Append(s, x)
<1>1. a \in Seq(D) /\ Len(a) = Len(s) + 1 /\ a[Len(s) + 1] = x
      /\ \A i \in 1 .. Len(s) : a[i] = s[i]
  OBVIOUS
<1>2. DOMAIN a = 1 .. Len(s) + 1 /\ DOMAIN s = 1 .. Len(s) /\ Len(s) \in Nat
  BY <1>1
<1> HIDE DEF a
<1>3. ToSet(a) = {a[i] : i \in 1 .. Len(s) + 1} /\ ToSet(s) = {s[i] : i \in 1 .. Len(s)}
  BY <1>2 DEF ToSet
<1>4. ToSet(a) = ToSet(s) \cup {x}
  BY <1>1, <1>2, <1>3
<1> QED BY <1>1, <1>4 DEF a

\* Of the lines, those are added whose key is not there yet.
LEMMA AddNewAdds ==
    ASSUME NEW base \in Seq(Files), NEW lines \in Seq(Files)
    PROVE  LET r == AddNew(base, lines) IN
           /\ r \in Seq(Files)
           /\ ToSet(base) \subseteq ToSet(r) /\ ToSet(r) \subseteq ToSet(base) \cup ToSet(lines)
           /\ \A f \in ToSet(lines) : \E g \in ToSet(r) : normKey(f) = normKey(g)
<1> DEFINE Out(g) == [i \in 0 .. Len(lines) |->
                        IF i = 0 THEN base
                        ELSE IF normKey(lines[i]) \in Keys(g[i - 1]) THEN g[i - 1]
                        ELSE Append(g[i - 1], lines[i])]
           sofar == CHOOSE g : g = Out(g)
           F == [p \in Seq(Files) \X Files |->
                    IF normKey(p[2]) \in Keys(p[1]) THEN p[1] ELSE Append(p[1], p[2])]
<1>1. F \in [Seq(Files) \X Files -> Seq(Files)]
  OBVIOUS
<1>2. \A s \in Seq(Files) : \A f \in Files :
        F[<<s, f>>] = IF normKey(f) \in Keys(s) THEN s ELSE Append(s, f)
  OBVIOUS
<1> HIDE DEF F
<1> DEFINE D == Seq(Files)
<1>3. PICK g \in [0 .. Len(lines) -> D] :
        g[0] = base /\ \A i \in 1 .. Len(lines) : g[i] = F[<<g[i - 1], lines[i]>>]
  <2>1. base \in D /\ F \in [D \X Files -> D]
    BY <1>1
  <2> HIDE DEF D
  <2>2. \E g : IsRun(g, D, base, lines, F)
    BY <2>1, StepByStep
  <2> QED BY <2>2 DEF IsRun
<1>4. ASSUME NEW i \in 1 .. Len(lines)
      PROVE  lines[i] \in Files /\ i \in 0 .. Len(lines) /\ i # 0 /\ g[i - 1] \in Seq(Files)
  <2>1. lines[i] \in Files /\ i \in 0 .. Len(lines) /\ i # 0 /\ i - 1 \in 0 .. Len(lines)
    OBVIOUS
  <2>2. g[i - 1] \in D
    BY <1>3, <2>1
  <2> QED BY <2>1, <2>2
<1>5. ASSUME NEW i \in 0 .. Len(lines) PROVE g[i] = Out(g)[i]
  <2>1. CASE i = 0
    BY <1>3, <2>1
  <2>2. CASE i # 0
    <3>1. i \in 1 .. Len(lines)
      BY <2>2
    <3>2. g[i] = F[<<g[i - 1], lines[i]>>]
      BY <1>3, <3>1
    <3>3. g[i] = IF normKey(lines[i]) \in Keys(g[i - 1]) THEN g[i - 1] ELSE Append(g[i - 1], lines[i])
      BY <1>2, <1>4, <3>1, <3>2
    <3> QED BY <2>2, <3>3
  <2> QED BY <2>1, <2>2
<1>6. g = Out(g)
  BY <1>3, <1>5
<1>7. sofar = Out(sofar)
  BY <1>6
<1>8. AddNew(base, lines) = sofar[Len(lines)]
  BY DEF AddNew
<1> HIDE DEF sofar
<1>9. sofar[0] = base /\ \A i \in 1 .. Len(lines) :
        sofar[i] = IF normKey(lines[i]) \in Keys(sofar[i - 1]) THEN sofar[i - 1] ELSE Append(sofar[i - 1], lines[i])
  <2>1. ASSUME NEW i \in 0 .. Len(lines) PROVE sofar[i] = Out(sofar)[i]
    BY <1>7
  <2>2. sofar[0] = base
    BY <2>1
  <2>3. ASSUME NEW i \in 1 .. Len(lines)
        PROVE  sofar[i] = IF normKey(lines[i]) \in Keys(sofar[i - 1]) THEN sofar[i - 1] ELSE Append(sofar[i - 1], lines[i])
    <3>1. i \in 0 .. Len(lines) /\ i # 0
      OBVIOUS
    <3> QED BY <2>1, <3>1
  <2> QED BY <2>2, <2>3
<1> DEFINE Good(k) == /\ sofar[k] \in Seq(Files)
                      /\ ToSet(base) \subseteq ToSet(sofar[k])
                      /\ ToSet(sofar[k]) \subseteq ToSet(base) \cup ToSet(lines)
                      /\ \A i \in 1 .. k : normKey(lines[i]) \in Keys(sofar[k])
           S == {k \in Nat : k <= Len(lines) => Good(k)}
<1>10. Good(0)
  BY <1>9
<1>11. ASSUME NEW k \in Nat, k + 1 <= Len(lines), Good(k) PROVE Good(k + 1)
  <2> DEFINE f == lines[k + 1]
  <2>1. f \in Files /\ f \in ToSet(lines) /\ k + 1 \in 1 .. Len(lines) /\ (k + 1) - 1 = k
    BY <1>11 DEF ToSet
  <2>2. sofar[k + 1] = IF normKey(f) \in Keys(sofar[k]) THEN sofar[k] ELSE Append(sofar[k], f)
    BY <1>9, <2>1
  <2>3. CASE normKey(f) \in Keys(sofar[k])
    BY <1>11, <2>2, <2>3
  <2>4. CASE normKey(f) \notin Keys(sofar[k])
    <3>1. sofar[k + 1] = Append(sofar[k], f)
      BY <2>2, <2>4
    <3>2. sofar[k + 1] \in Seq(Files) /\ ToSet(sofar[k + 1]) = ToSet(sofar[k]) \cup {f}
      BY <1>11, <2>1, <3>1, SetOfAppend
    <3>3. Keys(sofar[k + 1]) = Keys(sofar[k]) \cup {normKey(f)}
      BY <3>2, KeysOf
    <3>4. ASSUME NEW i \in 1 .. k + 1 PROVE normKey(lines[i]) \in Keys(sofar[k + 1])
      <4>1. i \in 1 .. k \/ i = k + 1
        OBVIOUS
      <4> QED BY <1>11, <3>3, <4>1
    <3> QED BY <1>11, <2>1, <3>2, <3>4
  <2> QED BY <2>3, <2>4
<1> HIDE DEF Good
<1>12. \A k \in Nat : k \in S => k + 1 \in S
  BY <1>11
<1>13. 0 \in S
  BY <1>10
<1> HIDE DEF S
<1>14. Len(lines) \in S /\ Len(lines) \in Nat
  BY <1>12, <1>13, SetInduction
<1>15. Good(Len(lines))
  BY <1>14 DEF S
<1>16. ASSUME NEW f \in ToSet(lines) PROVE normKey(f) \in Keys(sofar[Len(lines)])
  <2>1. PICK i \in 1 .. Len(lines) : f = lines[i]
    BY KeysOf
  <2> QED BY <1>15, <2>1 DEF Good
<1>17. ASSUME NEW f \in ToSet(lines) PROVE \E h \in ToSet(sofar[Len(lines)]) : normKey(f) = normKey(h)
  BY <1>16, KeysOf
<1> QED BY <1>8, <1>15, <1>17 DEF Good

\* The other lines stay.
LEMMA RemoveRemoves ==
    ASSUME NEW toc \in Seq(Files), NEW removed
    PROVE  /\ removeTocLines(toc, removed) \in Seq(Files)
           /\ ToSet(removeTocLines(toc, removed)) = ToSet(toc) \ removed
<1> DEFINE Left(g) == [i \in 0 .. Len(toc) |->
                        IF i = 0 THEN <<>>
                        ELSE IF toc[i] \in removed THEN g[i - 1]
                        ELSE Append(g[i - 1], toc[i])]
           left == CHOOSE g : g = Left(g)
           F == [p \in Seq(Files) \X Files |->
                    IF p[2] \in removed THEN p[1] ELSE Append(p[1], p[2])]
<1>1. F \in [Seq(Files) \X Files -> Seq(Files)] /\ <<>> \in Seq(Files)
  OBVIOUS
<1>2. \A s \in Seq(Files) : \A f \in Files :
        F[<<s, f>>] = IF f \in removed THEN s ELSE Append(s, f)
  OBVIOUS
<1> HIDE DEF F
<1> DEFINE D == Seq(Files)
<1>3. PICK g \in [0 .. Len(toc) -> D] :
        g[0] = <<>> /\ \A i \in 1 .. Len(toc) : g[i] = F[<<g[i - 1], toc[i]>>]
  <2>1. <<>> \in D /\ F \in [D \X Files -> D]
    BY <1>1
  <2> HIDE DEF D
  <2>2. \E g : IsRun(g, D, <<>>, toc, F)
    BY <2>1, StepByStep
  <2> QED BY <2>2 DEF IsRun
<1>4. ASSUME NEW i \in 1 .. Len(toc)
      PROVE  toc[i] \in Files /\ i \in 0 .. Len(toc) /\ i # 0 /\ g[i - 1] \in Seq(Files)
  <2>1. toc[i] \in Files /\ i \in 0 .. Len(toc) /\ i # 0 /\ i - 1 \in 0 .. Len(toc)
    OBVIOUS
  <2>2. g[i - 1] \in D
    BY <1>3, <2>1
  <2> QED BY <2>1, <2>2
<1>5. ASSUME NEW i \in 0 .. Len(toc) PROVE g[i] = Left(g)[i]
  <2>1. CASE i = 0
    BY <1>3, <2>1
  <2>2. CASE i # 0
    <3>1. i \in 1 .. Len(toc)
      BY <2>2
    <3>2. g[i] = F[<<g[i - 1], toc[i]>>]
      BY <1>3, <3>1
    <3>3. g[i] = IF toc[i] \in removed THEN g[i - 1] ELSE Append(g[i - 1], toc[i])
      BY <1>2, <1>4, <3>1, <3>2
    <3> QED BY <2>2, <3>3
  <2> QED BY <2>1, <2>2
<1>6. g = Left(g)
  BY <1>3, <1>5
<1>7. left = Left(left)
  BY <1>6
<1>8. removeTocLines(toc, removed) = left[Len(toc)]
  BY DEF removeTocLines
<1> HIDE DEF left
<1>9. left[0] = <<>> /\ \A i \in 1 .. Len(toc) :
        left[i] = IF toc[i] \in removed THEN left[i - 1] ELSE Append(left[i - 1], toc[i])
  <2>1. ASSUME NEW i \in 0 .. Len(toc) PROVE left[i] = Left(left)[i]
    BY <1>7
  <2>2. left[0] = <<>>
    BY <2>1
  <2>3. ASSUME NEW i \in 1 .. Len(toc)
        PROVE  left[i] = IF toc[i] \in removed THEN left[i - 1] ELSE Append(left[i - 1], toc[i])
    <3>1. i \in 0 .. Len(toc) /\ i # 0
      OBVIOUS
    <3> QED BY <2>1, <3>1
  <2> QED BY <2>2, <2>3
<1> DEFINE Good(k) == left[k] \in Seq(Files) /\ ToSet(left[k]) = {toc[i] : i \in 1 .. k} \ removed
           S == {k \in Nat : k <= Len(toc) => Good(k)}
<1>10. Good(0)
  <2>1. ToSet(left[0]) = {}
    BY <1>9 DEF ToSet
  <2>2. {toc[i] : i \in 1 .. 0} = {}
    OBVIOUS
  <2> QED BY <1>9, <2>1, <2>2
<1>11. ASSUME NEW k \in Nat, k + 1 <= Len(toc), Good(k) PROVE Good(k + 1)
  <2> DEFINE f == toc[k + 1]
  <2>1. f \in Files /\ k + 1 \in 1 .. Len(toc) /\ (k + 1) - 1 = k
    BY <1>11
  <2>2. left[k + 1] = IF f \in removed THEN left[k] ELSE Append(left[k], f)
    BY <1>9, <2>1
  <2>3. {toc[i] : i \in 1 .. k + 1} = {toc[i] : i \in 1 .. k} \cup {f}
    <3>1. 1 .. k + 1 = (1 .. k) \cup {k + 1}
      OBVIOUS
    <3> QED BY <3>1
  <2>4. CASE f \in removed
    BY <1>11, <2>2, <2>3, <2>4
  <2>5. CASE f \notin removed
    <3>1. left[k + 1] = Append(left[k], f)
      BY <2>2, <2>5
    <3>2. left[k + 1] \in Seq(Files) /\ ToSet(left[k + 1]) = ToSet(left[k]) \cup {f}
      BY <1>11, <2>1, <3>1, SetOfAppend
    <3> QED BY <1>11, <2>3, <2>5, <3>2
  <2> QED BY <2>4, <2>5
<1> HIDE DEF Good
<1>12. \A k \in Nat : k \in S => k + 1 \in S
  BY <1>11
<1>13. 0 \in S
  BY <1>10
<1> HIDE DEF S
<1>14. Len(toc) \in S /\ Len(toc) \in Nat
  BY <1>12, <1>13, SetInduction
<1>15. Good(Len(toc))
  BY <1>14 DEF S
<1>16. ToSet(toc) = {toc[i] : i \in 1 .. Len(toc)}
  BY KeysOf
<1> QED BY <1>8, <1>15, <1>16 DEF Good

(***************************************************************************)
(* A tree without two spellings of a name                                  *)
(***************************************************************************)
\* What a function makes of a finite set is finite.
LEMMA ImageIsFinite ==
    ASSUME NEW S, IsFiniteSet(S), NEW g
    PROVE  IsFiniteSet({g[x] : x \in S})
<1> DEFINE h == [x \in S |-> g[x]]
           T == {g[x] : x \in S}
<1>1. h \in Surjection(S, T)
  BY DEF Surjection
<1> HIDE DEF h, T
<1>2. IsFiniteSet(T)
  BY <1>1, FS_Surjection
<1> QED BY <1>2 DEF T

\* A finite set of files lies in finitely many directories.
LEMMA DirsAreFinite ==
    ASSUME NEW T, IsFiniteSet(T), T \subseteq Files
    PROVE  IsFiniteSet(Dirs(T))
<1> DEFINE g == [f \in T |-> {SubSeq(f.at, 1, i) : i \in 0 .. Len(f.at)}]
<1>1. ASSUME NEW f \in T PROVE IsFiniteSet(g[f])
  <2> DEFINE h == [i \in 0 .. Len(f.at) |-> SubSeq(f.at, 1, i)]
  <2>1. Len(f.at) \in Nat
    BY DEF Files
  <2>2. IsFiniteSet(0 .. Len(f.at))
    BY <2>1, FS_Interval
  <2>3. IsFiniteSet({h[i] : i \in 0 .. Len(f.at)})
    BY <2>2, ImageIsFinite
  <2>4. {h[i] : i \in 0 .. Len(f.at)} = g[f]
    OBVIOUS
  <2> QED BY <2>3, <2>4
<1>2. Dirs(T) = UNION {g[f] : f \in T}
  BY DEF Dirs
<1> HIDE DEF g
<1>3. IsFiniteSet({g[f] : f \in T})
  BY ImageIsFinite
<1> QED BY <1>1, <1>2, <1>3, FS_UNION

\* A name has finitely many spellings in a finite set of files.
LEMMA SpellingsAreFinite ==
    ASSUME NEW T, IsFiniteSet(T), T \subseteq Files, NEW d, NEW key
    PROVE  IsFiniteSet(Spellings(T, d, key))
<1> DEFINE A == {g \in T : g.at = d}
           B == {x \in Dirs(T) : Len(x) = Len(d) + 1 /\ Front(x) = d}
           a == [f \in A |-> [op |-> f.op, ext |-> f.ext]]
           b == [e \in B |-> [op |-> e[Len(e)], ext |-> "dir"]]
           C == {x \in Entries(T, d) : Lower[x.op] = key}
           o == [e \in C |-> e.op]
<1>1. IsFiniteSet(A) /\ IsFiniteSet(B)
  <2>1. A \subseteq T /\ B \subseteq Dirs(T)
    OBVIOUS
  <2> HIDE DEF A, B
  <2> QED BY <2>1, DirsAreFinite, FS_Subset
<1>2. Entries(T, d) = {a[f] : f \in A} \cup {b[e] : e \in B}
  BY DEF Entries
<1>3. IsFiniteSet({a[f] : f \in A}) /\ IsFiniteSet({b[e] : e \in B})
  <2> HIDE DEF A, B, a, b
  <2> QED BY <1>1, ImageIsFinite
<1>4. IsFiniteSet(Entries(T, d))
  <2> DEFINE X == {a[f] : f \in A}
             Y == {b[e] : e \in B}
  <2>1. IsFiniteSet(X) /\ IsFiniteSet(Y)
    BY <1>3
  <2>2. Entries(T, d) = X \cup Y
    BY <1>2
  <2> HIDE DEF X, Y
  <2> QED BY <2>1, <2>2, FS_Union
<1>5. C \subseteq Entries(T, d) /\ Spellings(T, d, key) = {o[e] : e \in C}
  BY DEF Spellings
<1> HIDE DEF C, o
<1>6. IsFiniteSet(C)
  BY <1>4, <1>5, FS_Subset
<1> QED BY <1>5, <1>6, ImageIsFinite

\* A set of at most one element has no two.
LEMMA OnlyOne ==
    ASSUME NEW S, IsFiniteSet(S), ~(Cardinality(S) > 1), NEW x \in S, NEW y \in S
    PROVE  x = y
<1> SUFFICES ASSUME x # y PROVE FALSE
  OBVIOUS
<1>1. IsFiniteSet({x}) /\ Cardinality({x}) = 1
  BY FS_Singleton
<1>2. {x} \subseteq S /\ {x} # S
  OBVIOUS
<1>3. Cardinality({x}) <= Cardinality(S) /\ Cardinality({x}) # Cardinality(S)
  BY <1>2, FS_Subset
<1>4. Cardinality(S) \in Nat
  BY FS_CardinalityType
<1> QED BY <1>1, <1>3, <1>4

\* The entries of a directory have names of their own, whatever their case.
LEMMA NamesDiffer ==
    ASSUME NEW T, IsFiniteSet(T), T \subseteq Files, findSiblingNameDuplicates(T) = {},
           NEW d \in Dirs(T), NEW e \in Entries(T, d), NEW f \in Entries(T, d),
           Lower[e.op] = Lower[f.op]
    PROVE  e.op = f.op
<1> DEFINE p == [parent |-> d, nameKey |-> Lower[e.op]]
           P == UNION {{[parent |-> c, nameKey |-> Lower[x.op]] : x \in Entries(T, c)} : c \in Dirs(T)}
           S == Spellings(T, d, Lower[e.op])
<1>1. p \in P
  OBVIOUS
<1>2. \A q \in P : ~(Cardinality(Spellings(T, q.parent, q.nameKey)) > 1)
  BY DEF findSiblingNameDuplicates
<1>3. p.parent = d /\ p.nameKey = Lower[e.op]
  OBVIOUS
<1>4. e.op \in S /\ f.op \in S
  BY DEF Spellings
<1> HIDE DEF p, P
<1>5. ~(Cardinality(S) > 1)
  BY <1>1, <1>2, <1>3
<1> HIDE DEF S
<1>6. IsFiniteSet(S)
  BY SpellingsAreFinite DEF S
<1> QED BY <1>4, <1>5, <1>6, OnlyOne

\* The directories of a file, and the entries it makes in them.
LEMMA EntriesOfFile ==
    ASSUME NEW T, T \subseteq Files, NEW f \in T
    PROVE  /\ \A i \in 0 .. Len(f.at) : SubSeq(f.at, 1, i) \in Dirs(T)
           /\ f.at \in Dirs(T)
           /\ [op |-> f.op, ext |-> f.ext] \in Entries(T, f.at)
           /\ \A i \in 0 .. Len(f.at) : i + 1 <= Len(f.at) =>
                 [op |-> f.at[i + 1], ext |-> "dir"] \in Entries(T, SubSeq(f.at, 1, i))
<1>1. f.at \in Seq(DOMAIN Lower) /\ Len(f.at) \in Nat
  BY DEF Files
<1>2. \A i \in 0 .. Len(f.at) : SubSeq(f.at, 1, i) \in Dirs(T)
  BY DEF Dirs
<1>3. SubSeq(f.at, 1, Len(f.at)) = f.at
  BY <1>1
<1>4. f.at \in Dirs(T)
  <2>1. Len(f.at) \in 0 .. Len(f.at)
    BY <1>1
  <2> QED BY <1>2, <1>3, <2>1
<1>5. [op |-> f.op, ext |-> f.ext] \in Entries(T, f.at)
  BY DEF Entries
<1>6. ASSUME NEW i \in 0 .. Len(f.at), i + 1 <= Len(f.at)
      PROVE  [op |-> f.at[i + 1], ext |-> "dir"] \in Entries(T, SubSeq(f.at, 1, i))
  <2> DEFINE d == SubSeq(f.at, 1, i)
             e == SubSeq(f.at, 1, i + 1)
  <2>1. i + 1 \in 0 .. Len(f.at) /\ i \in Nat
    BY <1>1, <1>6
  <2>2. e \in Dirs(T)
    BY <1>2, <2>1
  <2>3. /\ d \in Seq(DOMAIN Lower) /\ Len(d) = i /\ \A k \in 1 .. i : d[k] = f.at[k]
        /\ e \in Seq(DOMAIN Lower) /\ Len(e) = i + 1 /\ \A k \in 1 .. i + 1 : e[k] = f.at[k]
    BY <1>1, <1>6, <2>1
  <2>4. Front(e) = SubSeq(e, 1, i)
    BY <2>1, <2>3 DEF Front
  <2> HIDE DEF d, e
  <2>5. /\ Front(e) \in Seq(DOMAIN Lower) /\ Len(Front(e)) = i
        /\ \A k \in 1 .. i : Front(e)[k] = e[k]
    BY <2>1, <2>3, <2>4
  <2>6. \A k \in 1 .. i : Front(e)[k] = d[k]
    BY <2>1, <2>3, <2>5
  <2>7. Front(e) = d
    BY <2>3, <2>5, <2>6
  <2>8. e \in {x \in Dirs(T) : Len(x) = Len(d) + 1 /\ Front(x) = d}
    BY <2>2, <2>3, <2>7
  <2>9. [op |-> e[Len(e)], ext |-> "dir"] \in Entries(T, d)
    BY <2>8 DEF Entries
  <2>10. e[Len(e)] = f.at[i + 1]
    BY <2>1, <2>3
  <2> QED BY <2>9, <2>10 DEF d
<1> QED BY <1>2, <1>4, <1>5, <1>6

\* In such a tree, files of operators that differ in case only are of one.
LEMMA OneSpelling ==
    ASSUME NEW T, IsFiniteSet(T), T \subseteq Files, findSiblingNameDuplicates(T) = {},
           NEW f \in T, NEW g \in T,
           normKey(f).at = normKey(g).at, normKey(f).op = normKey(g).op
    PROVE  f.at = g.at /\ f.op = g.op
<1> DEFINE m == Len(f.at)
<1>1. /\ f.at \in Seq(DOMAIN Lower) /\ g.at \in Seq(DOMAIN Lower)
      /\ m \in Nat /\ Len(g.at) \in Nat
  BY KeyOfFile
<1>2. /\ DOMAIN normKey(f).at = 1 .. m /\ \A i \in 1 .. m : normKey(f).at[i] = Lower[f.at[i]]
      /\ DOMAIN normKey(g).at = 1 .. Len(g.at) /\ \A i \in 1 .. Len(g.at) : normKey(g).at[i] = Lower[g.at[i]]
      /\ normKey(f).op = Lower[f.op] /\ normKey(g).op = Lower[g.op]
  BY KeyOfFile
<1>3. 1 .. m = 1 .. Len(g.at)
  BY <1>2
<1> HIDE DEF m
<1>4. Len(g.at) = m
  BY <1>1, <1>3, AsLong
<1>5. \A i \in 1 .. m : Lower[f.at[i]] = Lower[g.at[i]]
  <2> DEFINE k == normKey(f).at
             l == normKey(g).at
  <2>1. k = l
    OBVIOUS
  <2>2. /\ \A i \in 1 .. m : k[i] = Lower[f.at[i]]
        /\ \A i \in 1 .. Len(g.at) : l[i] = Lower[g.at[i]]
    BY <1>2
  <2> HIDE DEF k, l
  <2> QED BY <1>4, <2>1, <2>2
<1> DEFINE Same(k) == \A i \in 1 .. k : f.at[i] = g.at[i]
           S == {k \in Nat : k <= m => Same(k)}
<1>6. 0 \in S
  OBVIOUS
<1>7. ASSUME NEW k \in Nat, k + 1 <= m, Same(k) PROVE f.at[k + 1] = g.at[k + 1]
  <2> DEFINE d == SubSeq(f.at, 1, k)
             e == [op |-> f.at[k + 1], ext |-> "dir"]
             h == [op |-> g.at[k + 1], ext |-> "dir"]
  <2>1. k \in 0 .. Len(f.at) /\ k \in 0 .. Len(g.at) /\ k + 1 <= Len(f.at) /\ k + 1 <= Len(g.at)
        /\ k + 1 \in 1 .. m
    BY <1>1, <1>4, <1>7 DEF m
  <2>2. SubSeq(g.at, 1, k) = d
    BY <1>1, <1>7, <2>1
  <2>3. d \in Dirs(T) /\ e \in Entries(T, d) /\ h \in Entries(T, d)
    BY <2>1, <2>2, EntriesOfFile
  <2>4. Lower[e.op] = Lower[h.op]
    BY <1>5, <2>1
  <2> HIDE DEF d
  <2>5. e.op = h.op
    BY <2>3, <2>4, NamesDiffer
  <2> QED BY <2>5
<1>8. ASSUME NEW k \in Nat, k + 1 <= m, Same(k) PROVE Same(k + 1)
  <2>1. \A i \in 1 .. k + 1 : i \in 1 .. k \/ i = k + 1
    OBVIOUS
  <2> QED BY <1>7, <1>8, <2>1
<1>9. \A k \in Nat : k \in S => k + 1 \in S
  <2> HIDE DEF Same
  <2> QED BY <1>1, <1>8
<1> HIDE DEF S
<1>10. m \in S
  BY <1>1, <1>6, <1>9, SetInduction
<1>11. f.at = g.at
  BY <1>1, <1>4, <1>10 DEF S, m
<1>12. f.op = g.op
  <2> DEFINE e == [op |-> f.op, ext |-> f.ext]
             h == [op |-> g.op, ext |-> g.ext]
  <2>1. f.at \in Dirs(T) /\ e \in Entries(T, f.at) /\ h \in Entries(T, f.at)
    BY <1>11, EntriesOfFile
  <2>2. Lower[e.op] = Lower[h.op]
    BY <1>2
  <2>3. e.op = h.op
    BY <2>1, <2>2, NamesDiffer
  <2> QED BY <2>3
<1> QED BY <1>11, <1>12

\* In a project without sibling duplicates, the keys of the .toc tell files apart.
LEMMA KeysDiffer ==
    ASSUME NEW T, IsFiniteSet(T), T \subseteq Files, findSiblingNameDuplicates(T) = {},
           NEW f \in T, NEW g \in T, normKey(f) = normKey(g)
    PROVE  f = g
<1>1. f.at = g.at /\ f.op = g.op
  BY OneSpelling
<1>2. f.ext = g.ext
  BY KeyOfFile
<1>3. f = [at |-> f.at, op |-> f.op, ext |-> f.ext] /\ g = [at |-> g.at, op |-> g.op, ext |-> g.ext]
  BY DEF Files
<1> QED BY <1>1, <1>2, <1>3

(***************************************************************************)
(* The .toc of the grafted tree                                            *)
(***************************************************************************)
\* A path in project1 or local, and its key.
LEMMA KeyAtTop ==
    ASSUME NEW f \in Files
    PROVE  /\ f.at = P1 => normKey(f).at = P1
           /\ f.at = Local => normKey(f).at = Local
<1> DEFINE k == normKey(f)
<1>1. /\ k.at \in Seq({Lower[n] : n \in DOMAIN Lower}) /\ Len(k.at) = Len(f.at)
      /\ \A i \in 1 .. Len(f.at) : k.at[i] = Lower[f.at[i]]
  BY KeyOfFile
<1> HIDE DEF k
<1>2. P1 = <<P1[1]>> /\ Local = <<Local[1]>> /\ Len(P1) = 1 /\ Len(Local) = 1
  BY DEF P1, Local
<1>3. Lower[P1[1]] = P1[1] /\ Lower[Local[1]] = Local[1]
  BY LowerAssumption
<1>4. ASSUME f.at = P1 PROVE k.at = P1
  <2>1. Len(k.at) = 1 /\ k.at[1] = P1[1]
    <3>1. Len(f.at) = 1 /\ f.at[1] = P1[1]
      BY <1>2, <1>4
    <3>2. 1 \in 1 .. Len(f.at)
      BY <3>1
    <3>3. k.at[1] = Lower[P1[1]]
      BY <1>1, <3>1, <3>2
    <3> QED BY <1>1, <1>3, <3>1, <3>3
  <2>2. k.at = <<P1[1]>>
    BY <1>1, <2>1, OneName
  <2> QED BY <1>2, <2>2
<1>5. ASSUME f.at = Local PROVE k.at = Local
  <2>1. Len(k.at) = 1 /\ k.at[1] = Local[1]
    <3>1. Len(f.at) = 1 /\ f.at[1] = Local[1]
      BY <1>2, <1>5
    <3>2. 1 \in 1 .. Len(f.at)
      BY <3>1
    <3>3. k.at[1] = Lower[Local[1]]
      BY <1>1, <3>1, <3>2
    <3> QED BY <1>1, <1>3, <3>1, <3>3
  <2>2. k.at = <<Local[1]>>
    BY <1>1, <2>1, OneName
  <2> QED BY <1>2, <2>2
<1> QED BY <1>4, <1>5 DEF k

\* Three of a set are a sequence over it.
LEMMA ThreeInSeq ==
    ASSUME NEW S, NEW x \in S, NEW y \in S, NEW z \in S
    PROVE  <<x, y, z>> \in Seq(S)
OBVIOUS

\* Whose a file is depends on its key only.
LEMMA KeysTell ==
    ASSUME NEW f, NEW h, normKey(f) = normKey(h)
    PROVE  (isGraftOwnedRel(f) <=> isGraftOwnedRel(h)) /\ (Swept(f) <=> Swept(h))
BY DEF isGraftOwnedRel, isOnstartRel, isBootRel, Swept

\* What is wiped is the bridge's, or swept with it.
LEMMA OthersStay ==
    ASSUME NEW f \in Files, ~isGraftOwnedRel(f), ~Swept(f)
    PROVE  ~IsWiped(f)
<1> DEFINE k == normKey(f)
<1>1. /\ k.op = Lower[f.op] /\ Len(k.at) = Len(f.at)
      /\ \A i \in 1 .. Len(f.at) : k.at[i] = Lower[f.at[i]]
      /\ Len(f.at) \in Nat
  BY KeyOfFile
<1>2. (f.at = P1 => k.at = P1) /\ (f.at = Local => k.at = Local)
  BY KeyAtTop
<1>3. ~Wiped1(f)
  BY <1>1, <1>2 DEF Wiped1, isReservedBridgeName, isGraftOwnedRel, isOnstartRel
<1>4. ~Wiped3(f)
  BY <1>1, <1>2, LowerAssumption DEF Wiped3, isGraftOwnedRel, isBootRel
<1>5. ASSUME Len(f.at) > 1
      PROVE  Len(k.at) > 1 /\ k.at[1] = Lower[f.at[1]] /\ k.at[2] = Lower[f.at[2]]
  <2>1. 1 \in 1 .. Len(f.at) /\ 2 \in 1 .. Len(f.at)
    BY <1>1, <1>5
  <2> QED BY <1>1, <1>5, <2>1
<1>6. ~Wiped2(f)
  <2> SUFFICES ASSUME Wiped2(f) PROVE FALSE
    OBVIOUS
  <2>1. Len(f.at) > 1 /\ f.at[1] = P1[1] /\ Lower[f.at[2]] \in {BRIDGE_NAME, LEGACY_BRIDGE_NAME, ONSTART_NAME}
    BY DEF Wiped2, isReservedBridgeName
  <2>2. k.at[1] = P1[1] /\ k.at[2] = Lower[f.at[2]] /\ Len(k.at) > 1
    BY <1>5, <2>1, LowerAssumption
  <2> QED BY <2>1, <2>2 DEF isGraftOwnedRel, Swept
<1>7. ~Wiped4(f)
  <2> SUFFICES ASSUME Wiped4(f) PROVE FALSE
    OBVIOUS
  <2>1. Len(f.at) > 1 /\ f.at[1] = Local[1] /\ f.at[2] = BOOT_NAME
    BY DEF Wiped4
  <2>2. k.at[1] = Local[1] /\ k.at[2] = BOOT_NAME /\ Len(k.at) > 1
    BY <1>5, <2>1, LowerAssumption
  <2> QED BY <2>2 DEF Swept
<1> QED BY <1>3, <1>4, <1>6, <1>7 DEF IsWiped

\* After dedupeToc, mergeTocEntries and dedupeToc again, the .toc has no line that was
\* not given, and for each that was given one with its key.
LEMMA LinesPass ==
    ASSUME NEW own \in Seq(Files), NEW lines \in Seq(Files)
    PROVE  LET toc == mergeTocEntries(dedupeToc(own), lines) IN
           /\ ToSet(toc) \subseteq ToSet(own) \cup ToSet(lines)
           /\ \A f \in ToSet(own) \cup ToSet(lines) : \E h \in ToSet(toc) : normKey(f) = normKey(h)
<1> DEFINE l1 == dedupeToc(own)
           l2 == AddNew(l1, lines)
           l3 == dedupeToc(l2)
<1>1. <<>> \in Seq(Files) /\ ToSet(<<>>) = {}
  BY DEF ToSet
<1>2. ASSUME NEW s \in Seq(Files)
      PROVE  /\ dedupeToc(s) \in Seq(Files) /\ ToSet(dedupeToc(s)) \subseteq ToSet(s)
             /\ \A f \in ToSet(s) : \E h \in ToSet(dedupeToc(s)) : normKey(f) = normKey(h)
  BY <1>1, <1>2, AddNewAdds DEF dedupeToc
<1>3. /\ l1 \in Seq(Files) /\ ToSet(l1) \subseteq ToSet(own)
      /\ \A f \in ToSet(own) : \E h \in ToSet(l1) : normKey(f) = normKey(h)
  BY <1>2
<1> HIDE DEF l1
<1>4. /\ l2 \in Seq(Files) /\ ToSet(l1) \subseteq ToSet(l2) /\ ToSet(l2) \subseteq ToSet(l1) \cup ToSet(lines)
      /\ \A f \in ToSet(lines) : \E h \in ToSet(l2) : normKey(f) = normKey(h)
  BY <1>3, AddNewAdds
<1> HIDE DEF l2
<1>5. /\ ToSet(l3) \subseteq ToSet(l2)
      /\ \A f \in ToSet(l2) : \E h \in ToSet(l3) : normKey(f) = normKey(h)
  BY <1>2, <1>4
<1> HIDE DEF l3
<1>6. mergeTocEntries(dedupeToc(own), lines) = l3
  BY DEF mergeTocEntries, l1, l2, l3
<1>7. ASSUME NEW f \in ToSet(own) \cup ToSet(lines)
      PROVE  \E h \in ToSet(l3) : normKey(f) = normKey(h)
  <2>1. PICK g \in ToSet(l2) : normKey(f) = normKey(g)
    BY <1>3, <1>4
  <2> QED BY <1>5, <2>1
<1>8. ToSet(l3) \subseteq ToSet(own) \cup ToSet(lines)
  BY <1>3, <1>4, <1>5
<1> QED BY <1>6, <1>7, <1>8

\* The graft of a source, when it has no two spellings of a name: foreign files stay,
\* and the .toc lists them, the bootstrap's, and of the rest what is there or swept.
LEMMA TocIsFiles ==
    ASSUME NEW t, IsTree(t), ToSet(t.toc) = t.files, NEW manifest, \A f \in manifest : isGraftOwnedRel(f),
           findSiblingNameDuplicates(graft(t, Kit, manifest).files) = {}
    PROVE  LET g == graft(t, Kit, manifest) IN
           /\ Foreign(t.files) \subseteq g.files
           /\ {f \in ToSet(g.toc) : ~Swept(f)} \subseteq g.files
           /\ Foreign(g.files) \cup ToSet(bootPaths) \subseteq ToSet(g.toc)
<1> DEFINE g == graft(t, Kit, manifest)
           T == g.files
           N == {f \in t.files : ~isGraftOwnedRel(f)}
           boot == ToSet(bootPaths)
           own == OwnLines(t)
<1>1. /\ T = Kept(t, manifest) \cup boot
      /\ g.toc = mergeTocEntries(dedupeToc(own), bootPaths)
  BY GraftMakes
<1>2. /\ t.files \subseteq Files /\ t.toc \in Seq(Files) /\ IsFiniteSet(t.files)
  BY DEF IsTree
<1>3. bootPaths \in Seq(Files) /\ boot \subseteq Files /\ IsFiniteSet(boot)
  <2>1. /\ boot = {bootPaths[1], bootPaths[2], bootPaths[3]}
        /\ \A f \in boot : f \in Files
    BY BootPaths
  <2>2. bootPaths \in Seq(Files)
    <3>1. bootPaths = <<bootPaths[1], bootPaths[2], bootPaths[3]>>
      BY DEF bootPaths
    <3>2. bootPaths[1] \in Files /\ bootPaths[2] \in Files /\ bootPaths[3] \in Files
      BY <2>1
    <3> QED BY <3>1, <3>2, ThreeInSeq
  <2>3. boot = ({bootPaths[1]} \cup {bootPaths[2]}) \cup {bootPaths[3]}
    BY <2>1
  <2> HIDE DEF boot
  <2>4. IsFiniteSet({bootPaths[1]}) /\ IsFiniteSet({bootPaths[2]}) /\ IsFiniteSet({bootPaths[3]})
    BY FS_Singleton
  <2>5. IsFiniteSet({bootPaths[1]} \cup {bootPaths[2]})
    BY <2>4, FS_Union
  <2>6. IsFiniteSet(boot)
    BY <2>3, <2>4, <2>5, FS_Union
  <2> QED BY <2>1, <2>2, <2>6
<1>4. T \subseteq Files /\ IsFiniteSet(T) /\ findSiblingNameDuplicates(T) = {}
  <2>1. Kept(t, manifest) \subseteq t.files
    BY DEF Kept
  <2>2. IsFiniteSet(Kept(t, manifest))
    BY <1>2, <2>1, FS_Subset
  <2>3. IsFiniteSet(Kept(t, manifest) \cup boot)
    BY <1>3, <2>2, FS_Union
  <2> QED BY <1>1, <1>2, <1>3, <2>1, <2>3
<1>5. own \in Seq(Files) /\ ToSet(own) = N
  <2>1. /\ own \in Seq(Files)
        /\ ToSet(own) = ToSet(t.toc) \ discoverGraftPaths(ToSet(t.toc))
    BY <1>2, RemoveRemoves DEF OwnLines
  <2> QED BY <2>1 DEF discoverGraftPaths
<1>6. \A b \in boot : b \in T /\ isGraftOwnedRel(b)
  <2>1. ASSUME NEW b \in boot PROVE isGraftOwnedRel(b)
    <3>1. b \in Files /\ b.at = Local /\ b.op = BOOT_NAME
      BY BootPaths
    <3>2. normKey(b).at = Local /\ normKey(b).op = BOOT_NAME
      BY <3>1, KeyAtTop, KeyOfFile, LowerAssumption
    <3> QED BY <3>2 DEF isGraftOwnedRel, isBootRel
  <2> QED BY <1>1, <2>1
<1> DEFINE lines == ToSet(g.toc)
<1>7. /\ lines \subseteq N \cup boot
      /\ \A f \in N \cup boot : \E h \in lines : normKey(f) = normKey(h)
  BY <1>1, <1>3, <1>5, LinesPass
<1> HIDE DEF g, T, boot, own, lines
<1>8. ASSUME NEW f \in N, ~Swept(f) PROVE f \in T
  <2>1. f \in Files /\ ~isGraftOwnedRel(f)
    BY <1>2
  <2>2. ~IsWiped(f) /\ f \notin manifest
    BY <1>8, <2>1, OthersStay
  <2> QED BY <1>1, <2>2 DEF Kept
<1>9. Foreign(t.files) \subseteq T
  BY <1>8 DEF Foreign
<1>10. {f \in lines : ~Swept(f)} \subseteq T
  BY <1>6, <1>7, <1>8
<1>11. ASSUME NEW f \in T, f \in N \cup boot, f \in N => ~Swept(f) PROVE f \in lines
  <2>1. PICK h \in lines : normKey(f) = normKey(h)
    BY <1>7, <1>11
  <2>2. h \in T
    <3>1. CASE h \in boot
      BY <1>6, <3>1
    <3>2. CASE h \in N
      <4>1. ~isGraftOwnedRel(f)
        BY <2>1, <3>2, KeysTell
      <4>2. f \in N
        BY <1>6, <1>11, <4>1
      <4>3. ~Swept(h)
        BY <1>11, <2>1, <4>2, KeysTell
      <4> QED BY <1>8, <3>2, <4>3
    <3> QED BY <1>7, <3>1, <3>2
  <2>3. f = h
    BY <1>4, <2>1, <2>2, KeysDiffer
  <2> QED BY <2>3
<1>12. boot \subseteq lines
  BY <1>6, <1>11
<1>13. Foreign(T) \subseteq lines
  <2>1. ASSUME NEW f \in Foreign(T) PROVE f \in N /\ f \in T /\ ~Swept(f)
    BY <1>1, <1>6 DEF Foreign, Kept
  <2> QED BY <1>11, <2>1
<1> HIDE DEF N
<1>14. Foreign(t.files) \subseteq g.files /\ {f \in ToSet(g.toc) : ~Swept(f)} \subseteq g.files
  BY <1>9, <1>10 DEF T, lines
<1>15. Foreign(g.files) \cup ToSet(bootPaths) \subseteq ToSet(g.toc)
  BY <1>12, <1>13 DEF T, lines, boot
<1> QED BY <1>14, <1>15 DEF g

\* A clean graft of a call's source.
LEMMA CleanGraft ==
    ASSUME InjectTypeOK, NEW c \in Calls,
           assertGraftClean(GraftOf(c).files, GraftOf(c).toc, {})
    PROVE  /\ Foreign(job[c].src.files) \subseteq GraftOf(c).files
           /\ GraftOf(c).files \subseteq job[c].src.files \cup ToSet(bootPaths)
           /\ {f \in ToSet(GraftOf(c).toc) : ~Swept(f)} \subseteq GraftOf(c).files
           /\ Foreign(GraftOf(c).files) \cup ToSet(bootPaths) \subseteq ToSet(GraftOf(c).toc)
<1> DEFINE t == job[c].src
           manifest == KitPaths("whole")
           g == graft(t, Kit, manifest)
<1>1. IsTree(t) /\ ToSet(t.toc) = t.files
  BY DestsAreDests
<1>2. \A f \in manifest : isGraftOwnedRel(f)
  BY DEF KitPaths, discoverGraftPaths
<1>3. GraftOf(c) = g
  BY DEF GraftOf, TreeOf, Whole, Grafted, Holding
<1>4. findSiblingNameDuplicates(g.files) = {}
  BY <1>3 DEF assertGraftClean, assertToeBuildClean, inspectToeBuild
<1> HIDE DEF t, manifest
<1>5. /\ Foreign(t.files) \subseteq g.files
      /\ {f \in ToSet(g.toc) : ~Swept(f)} \subseteq g.files
      /\ Foreign(g.files) \cup ToSet(bootPaths) \subseteq ToSet(g.toc)
  BY <1>1, <1>2, <1>4, TocIsFiles
<1>6. g.files \subseteq t.files \cup ToSet(bootPaths)
  BY <1>1, GraftFiles
<1> HIDE DEF g
<1> QED BY <1>3, <1>5, <1>6 DEF t

\* The injected project has every operator of the source, but those of an earlier
\* bridge, what is swept with its directories and what toecollapse lost, and nothing
\* new but the bootstrap; the .toc given to toecollapse lists what is there, but for
\* what is swept (wipeGraftOwned, removeTocLines, mergeTocEntries).
THEOREM ForeignStays == Spec => []ForeignKept
<1>1. ASSUME InjectInv, NEW d \in Dests, ws[d].state # NoCall
      PROVE  /\ Foreign(job[ws[d].state].src.files) \ ws[d].toe.lost \subseteq Toe(d).files
             /\ Toe(d).files \subseteq job[ws[d].state].src.files \cup ToSet(bootPaths)
  <2>1. PICK c \in Calls : pc[c] = "done" /\ Dest(c) = d /\ ws[d].state = c /\ WorkInv(c)
    BY <1>1, Committed
  <2>2. CASE action[c] = "skipped"
    <3>1. ws[d].toe = Original
      BY <2>1, <2>2 DEF WorkInv
    <3>2. Toe(d) = job[c].src
      BY <2>1, <3>1 DEF Toe, TreeOf, Original, Holding
    <3> QED BY <2>1, <3>2 DEF Foreign
  <2>3. CASE action[c] # "skipped"
    <3>1. /\ ws[d].toe \in Packs /\ ~VerifyFails(TreeOf(job[c], ws[d].toe))
          /\ assertGraftClean(GraftOf(c).files, GraftOf(c).toc, {})
      BY <2>1, <2>3 DEF WorkInv
    <3>2. Toe(d) = TreeOf(job[c], ws[d].toe)
      BY <2>1 DEF Toe
    <3>3. Toe(d).files = (GraftOf(c).files \cap ToSet(GraftOf(c).toc)) \ ws[d].toe.lost
      BY <1>1, <3>1, <3>2, PackedTree
    <3>4. /\ Foreign(job[c].src.files) \subseteq GraftOf(c).files
          /\ GraftOf(c).files \subseteq job[c].src.files \cup ToSet(bootPaths)
          /\ Foreign(GraftOf(c).files) \subseteq ToSet(GraftOf(c).toc)
      BY <1>1, <3>1, CleanGraft DEF InjectInv
    <3>5. Foreign(job[c].src.files) \subseteq Foreign(GraftOf(c).files)
      BY <3>4 DEF Foreign
    <3> QED BY <2>1, <3>3, <3>4, <3>5
  <2> QED BY <2>2, <2>3
<1>2. ASSUME InjectInv, NEW d \in Dests, ws[d].exp # NoTree
      PROVE  LET t == TreeOf(job[ws[d].by], ws[d].exp) IN
             /\ {f \in ToSet(t.toc) : ~Swept(f)} \subseteq t.files
             /\ Foreign(t.files) \cup ToSet(bootPaths) \subseteq ToSet(t.toc)
  <2> DEFINE c == ws[d].by
  <2>1. ws[d] # EmptyWs
    BY <1>2 DEF EmptyWs
  <2>2. c \in Calls /\ pc[c] \in Active /\ Dest(c) = d
    BY <1>2, <2>1 DEF InjectInv, OwnerInv
  <2>3. WorkInv(c)
    BY <1>2, <2>2 DEF InjectInv
  <2>4. assertGraftClean(GraftOf(c).files, GraftOf(c).toc, {})
    BY <1>2, <2>2, <2>3 DEF WorkInv
  <2>5. ws[d].exp = Whole
    BY <1>2 DEF InjectInv, InjectTypeOK, WsState
  <2>6. TreeOf(job[c], ws[d].exp) = GraftOf(c)
    BY <2>5 DEF GraftOf
  <2> QED BY <1>2, <2>2, <2>4, <2>6, CleanGraft DEF InjectInv
<1>3. InjectInv => ForeignKept
  BY <1>1, <1>2 DEF ForeignKept
<1> QED BY <1>3, InjectIsOrderly, PTL

------------------------------------------------------------------------------
(***************************************************************************)
(* What is said of an expanded project, for any projects that TouchDesigner *)
(* wrote and any queries.                                                  *)
(***************************************************************************)
(***************************************************************************)
(* Sequences that are paths                                                *)
(***************************************************************************)
\* n applications of F, from x.
IsIteration(g, D, x, n, F) ==
    g \in [0 .. n -> D] /\ g[0] = x /\ \A i \in 1 .. n : g[i] = F[g[i - 1]]

\* A function that is given by its first value and a step exists.
LEMMA Iterates ==
    ASSUME NEW D, NEW x \in D, NEW n \in Nat, NEW F \in [D -> D]
    PROVE  \E g : IsIteration(g, D, x, n, F)
<1> DEFINE s == [i \in 1 .. n |-> 0]
           G == [z \in D \X {0} |-> F[z[1]]]
<1>1. s \in Seq({0}) /\ Len(s) = n /\ \A i \in 1 .. n : s[i] = 0
  OBVIOUS
<1>2. G \in [D \X {0} -> D] /\ \A y \in D : G[<<y, 0>>] = F[y]
  OBVIOUS
<1> HIDE DEF s, G
<1>3. PICK g : IsRun(g, D, x, s, G)
  BY <1>1, <1>2, StepByStep
<1>4. g \in [0 .. n -> D] /\ g[0] = x
  BY <1>1, <1>3 DEF IsRun
<1>5. ASSUME NEW i \in 1 .. n PROVE g[i] = F[g[i - 1]]
  <2>1. g[i - 1] \in D
    BY <1>4
  <2> QED BY <1>1, <1>2, <1>3, <2>1 DEF IsRun
<1>6. IsIteration(g, D, x, n, F)
  BY <1>4, <1>5 DEF IsIteration
<1> QED BY <1>6

\* The directory of a path: all its names but the last.
LEMMA FrontFacts ==
    ASSUME NEW S, NEW p \in Seq(S), p # <<>>
    PROVE  /\ Front(p) \in Seq(S) /\ Len(p) \in Nat \ {0} /\ Len(Front(p)) = Len(p) - 1
           /\ \A i \in 1 .. Len(p) - 1 : Front(p)[i] = p[i]
           /\ Last(p) = p[Len(p)] /\ Last(p) \in S
           /\ Front(p) \o <<Last(p)>> = p
<1>1. Len(p) \in Nat \ {0}
  OBVIOUS
<1>2. Front(p) \in Seq(S) /\ Len(Front(p)) = Len(p) - 1 /\ \A i \in 1 .. Len(p) - 1 : Front(p)[i] = p[i]
  <2>1. Front(p) = SubSeq(p, 1, Len(p) - 1)
    BY DEF Front
  <2>2. SubSeq(p, 1, Len(p) - 1) = [k \in 1 .. Len(p) - 1 |-> p[k]]
    BY <1>1
  <2>3. Len(p) - 1 \in Nat /\ \A i \in 1 .. Len(p) - 1 : p[i] \in S
    BY <1>1
  <2> DEFINE n == Len(p) - 1
             f == [k \in 1 .. n |-> p[k]]
  <2>4. f \in [1 .. n -> S] /\ n \in Nat
    BY <2>3
  <2>5. f \in Seq(S)
    BY <2>4
  <2> HIDE DEF f
  <2>6. Len(f) = n
    <3>1. DOMAIN f = 1 .. n
      BY <2>4
    <3> HIDE DEF n
    <3> QED BY <2>4, <2>5, <3>1
  <2>7. \A i \in 1 .. n : f[i] = p[i]
    BY DEF f
  <2> QED BY <2>1, <2>2, <2>5, <2>6, <2>7 DEF f
<1>3. Last(p) = p[Len(p)] /\ Last(p) \in S
  BY <1>1 DEF Last
<1>4. Front(p) \o <<Last(p)>> = p
  BY <1>1, <1>2, <1>3
<1> QED BY <1>1, <1>2, <1>3, <1>4

\* A path passes when it agrees with the filter as far as both go.
LEMMA PassesIs ==
    ASSUME NEW p \in Seq(Names), NEW f \in Seq(Names)
    PROVE  Passes(p, f) <=> \A i \in (1 .. Len(p)) \cap (1 .. Len(f)) : p[i] = f[i]
<1>1. ASSUME NEW s \in Seq(Names), NEW t \in Seq(Names)
      PROVE  IsPrefix(s, t) <=> Len(s) <= Len(t) /\ \A i \in 1 .. Len(s) : s[i] = t[i]
  <2>1. CASE Len(s) <= Len(t)
    <3>1. /\ Len(SubSeq(s, 1, Len(s))) = Len(s) /\ Len(SubSeq(t, 1, Len(s))) = Len(s)
          /\ \A i \in 1 .. Len(s) : SubSeq(s, 1, Len(s))[i] = s[i] /\ SubSeq(t, 1, Len(s))[i] = t[i]
          /\ SubSeq(s, 1, Len(s)) \in Seq(Names) /\ SubSeq(t, 1, Len(s)) \in Seq(Names)
      BY <2>1
    <3>2. SubSeq(s, 1, Len(s)) = SubSeq(t, 1, Len(s)) <=> \A i \in 1 .. Len(s) : s[i] = t[i]
      BY <3>1
    <3> QED BY <2>1, <3>2 DEF IsPrefix
  <2> QED BY <2>1 DEF IsPrefix
<1>2. CASE Len(p) <= Len(f)
  <2>1. Passes(p, f) <=> \A i \in 1 .. Len(p) : p[i] = f[i]
    <3>1. IsPrefix(f, p) => \A i \in 1 .. Len(p) : p[i] = f[i]
      BY <1>1, <1>2
    <3> QED BY <1>1, <1>2, <3>1 DEF Passes
  <2>2. (1 .. Len(p)) \cap (1 .. Len(f)) = 1 .. Len(p)
    BY <1>2
  <2> QED BY <2>1, <2>2
<1>3. CASE Len(f) < Len(p)
  <2>1. Passes(p, f) <=> \A i \in 1 .. Len(f) : p[i] = f[i]
    BY <1>1, <1>3 DEF Passes
  <2>2. (1 .. Len(p)) \cap (1 .. Len(f)) = 1 .. Len(f)
    BY <1>3
  <2> QED BY <2>1, <2>2
<1> QED BY <1>2, <1>3

\* What passes is in a directory that passes.
LEMMA FrontPasses ==
    ASSUME NEW p \in Seq(Names), NEW f \in Seq(Names), p # <<>>, Passes(p, f)
    PROVE  Passes(Front(p), f)
<1>1. /\ Front(p) \in Seq(Names) /\ Len(Front(p)) = Len(p) - 1 /\ Len(p) \in Nat \ {0}
      /\ \A i \in 1 .. Len(p) - 1 : Front(p)[i] = p[i]
  BY FrontFacts
<1>2. ASSUME NEW i \in (1 .. Len(Front(p))) \cap (1 .. Len(f)) PROVE Front(p)[i] = f[i]
  <2>1. i \in 1 .. Len(p) - 1 /\ i \in (1 .. Len(p)) \cap (1 .. Len(f))
    BY <1>1
  <2> QED BY <1>1, <2>1, PassesIs
<1> QED BY <1>1, <1>2, PassesIs

(***************************************************************************)
(* The walk                                                                *)
(***************************************************************************)
\* The directories of the operators of a project, and what an operator has.
LEMMA InProject ==
    ASSUME IsProject(fs)
    PROVE  /\ Ops \subseteq Seq(Names) /\ <<>> \in Ops
           /\ \A p \in Ops : p # <<>> => Front(p) \in Ops /\ Op(Front(p)).dir
           /\ \A p \in Ops : IsFile(Op(p).n, "inputs") /\ IsFile(Op(p).net, "compinputs")
BY DEF IsProject, Ops, Op

\* A level of the walk is the operators of its length in a directory that passes, and the
\* walk is all of them down to the depth: none in another directory, none left out.
LEMMA WalkMeets ==
    ASSUME IsProject(fs), NEW filter \in Seq(Names), NEW depth \in Nat
    PROVE  Walk(filter, depth) =
             {p \in Ops : p # <<>> /\ Len(p) <= depth /\ Passes(Front(p), filter)}
<1> DEFINE In(above) == {p \in Ops : p # <<>> /\ Front(p) \in above /\ Op(Front(p)).dir /\ Passes(Front(p), filter)}
           D == SUBSET Ops
           F == [above \in D |-> In(above)]
           Levels(g) == [k \in 0 .. depth |-> IF k = 0 THEN {<<>>} ELSE In(g[k - 1])]
           level == CHOOSE g : g = Levels(g)
<1>1. {<<>>} \in D /\ F \in [D -> D] /\ \A above \in D : F[above] = In(above)
  BY InProject
<1> HIDE DEF F, In
<1>2. PICK g : IsIteration(g, D, {<<>>}, depth, F)
  BY <1>1, Iterates
<1>3. /\ g \in [0 .. depth -> D] /\ g[0] = {<<>>}
      /\ \A k \in 1 .. depth : g[k] = F[g[k - 1]]
  BY <1>2 DEF IsIteration
<1>4. ASSUME NEW k \in 0 .. depth PROVE g[k] = Levels(g)[k]
  <2>1. CASE k = 0
    BY <1>3, <2>1
  <2>2. CASE k # 0
    <3>1. k \in 1 .. depth /\ k - 1 \in 0 .. depth
      BY <2>2
    <3>2. g[k] = F[g[k - 1]] /\ g[k - 1] \in D
      BY <1>3, <3>1
    <3>3. g[k] = In(g[k - 1])
      BY <1>1, <3>2
    <3> QED BY <2>2, <3>3
  <2> QED BY <2>1, <2>2
<1>5. g = Levels(g)
  BY <1>3, <1>4
<1>6. level = Levels(level)
  BY <1>5
<1>7. Walk(filter, depth) = UNION {level[k] : k \in 1 .. depth}
  BY DEF Walk, In
<1> HIDE DEF level
<1>8. level[0] = {<<>>} /\ \A k \in 1 .. depth : level[k] = In(level[k - 1])
  <2>1. \A k \in 0 .. depth : level[k] = Levels(level)[k]
    BY <1>6
  <2>2. level[0] = {<<>>}
    <3>1. 0 \in 0 .. depth
      OBVIOUS
    <3> QED BY <2>1, <3>1
  <2>3. ASSUME NEW k \in 1 .. depth PROVE level[k] = In(level[k - 1])
    BY <2>1
  <2> QED BY <2>2, <2>3
<1> DEFINE At(k) == {p \in Ops : Len(p) = k /\ (k > 0 => Passes(Front(p), filter))}
           S == {k \in Nat : k <= depth => level[k] = At(k)}
<1>9. 0 \in S
  <2>1. At(0) = {<<>>}
    BY InProject
  <2> QED BY <1>8, <2>1
<1>10. ASSUME NEW k \in Nat, k \in S, k + 1 <= depth PROVE level[k + 1] = At(k + 1)
  <2>1. k + 1 \in 1 .. depth /\ (k + 1) - 1 = k /\ k <= depth
    BY <1>10
  <2>2. level[k + 1] = In(At(k))
    BY <1>8, <1>10, <2>1
  <2>3. ASSUME NEW p \in Ops PROVE p \in In(At(k)) <=> p \in At(k + 1)
    <3>1. p \in Seq(Names)
      BY InProject
    <3>2. CASE p = <<>>
      BY <3>2 DEF In
    <3>3. CASE p # <<>>
      <4>1. /\ Front(p) \in Ops /\ Op(Front(p)).dir /\ Front(p) \in Seq(Names)
            /\ Len(Front(p)) = Len(p) - 1 /\ Len(p) \in Nat \ {0}
        BY <3>1, <3>3, FrontFacts, InProject
      <4>2. p \in In(At(k)) <=> Front(p) \in At(k) /\ Passes(Front(p), filter)
        BY <3>3, <4>1 DEF In
      <4>3. Passes(Front(p), filter) /\ k > 0 /\ Len(p) = k + 1 => Passes(Front(Front(p)), filter)
        <5>1. Len(p) = k + 1 /\ k > 0 => Front(p) # <<>>
          BY <4>1
        <5> QED BY <4>1, <5>1, FrontPasses
      <4>4. Front(p) \in At(k) <=> Len(p) = k + 1 /\ (k > 0 => Passes(Front(Front(p)), filter))
        BY <4>1
      <4> QED BY <4>2, <4>3, <4>4
    <3> QED BY <3>2, <3>3
  <2>4. In(At(k)) \subseteq Ops /\ At(k + 1) \subseteq Ops
    BY DEF In
  <2> QED BY <2>2, <2>3, <2>4
<1>11. \A k \in Nat : k \in S
  <2>1. ASSUME NEW k \in Nat, k \in S PROVE k + 1 \in S
    BY <1>10, <2>1
  <2> HIDE DEF S
  <2> QED BY <1>9, <2>1, SetInduction
<1>12. \A k \in 1 .. depth : level[k] = At(k)
  BY <1>11
<1>13. UNION {level[k] : k \in 1 .. depth} = UNION {At(k) : k \in 1 .. depth}
  BY <1>12
<1>14. ASSUME NEW p \in Ops
       PROVE  p \in UNION {At(k) : k \in 1 .. depth} <=>
                p # <<>> /\ Len(p) <= depth /\ Passes(Front(p), filter)
  <2>1. p \in Seq(Names) /\ Len(p) \in Nat /\ (p # <<>> <=> Len(p) # 0)
    BY InProject
  <2> QED BY <2>1
<1> QED BY <1>7, <1>13, <1>14

\* The scope of a path: the operators down to the depth that are below it or on the way.
LEMMA ScopeIs ==
    ASSUME IsProject(fs), NEW filter \in Seq(Names), NEW depth \in Nat
    PROVE  Scope(filter, depth) = {p \in Ops : p # <<>> /\ Len(p) <= depth /\ Passes(p, filter)}
<1>1. ASSUME NEW p \in Ops, p # <<>>, Passes(p, filter) PROVE Passes(Front(p), filter)
  BY <1>1, FrontPasses, InProject
<1> QED BY <1>1, WalkMeets DEF Scope

(***************************************************************************)
(* The wires of a file                                                     *)
(***************************************************************************)
\* In a file that TouchDesigner wrote both parsers find the pairs, all of them.
LEMMA ParsersAgree ==
    ASSUME NEW lines
    PROVE  /\ IsFile(lines, "inputs") =>
                NInputs(lines) = {[index |-> l[2], name |-> l[3]] : l \in Pairs(lines)}
           /\ IsFile(lines, "compinputs") =>
                CompInputs(lines) = {[index |-> l[2], from |-> l[3]] : l \in Pairs(lines)}
<1> DEFINE Is == {i \in DOMAIN lines : IsPair(lines[i])}
<1>1. Pairs(lines) = {lines[i] : i \in Is}
  BY DEF Pairs, Range
<1>2. ASSUME IsFile(lines, "inputs")
      PROVE  NInputs(lines) = {[index |-> l[2], name |-> l[3]] : l \in Pairs(lines)}
  <2> DEFINE In(i) == \E s \in 1 .. i - 1 : Opens(lines, s, "inputs") /\ \A j \in s .. i : lines[j][1] # "}"
  <2>1. ASSUME NEW i \in Is PROVE In(i)
    <3>1. PICK s \in 1 .. i - 1 :
            Opens(lines, s, "inputs") /\ \A j \in s + 1 .. i : lines[j][1] \in {"{", "pair", "word"}
      BY <1>2 DEF IsFile
    <3>2. lines[s] = <<"inputs">>
      BY <3>1 DEF Opens
    <3>3. i \in Nat
      <4>1. lines \in Seq(Range(lines)) /\ i \in DOMAIN lines
        BY <1>2 DEF IsFile
      <4> QED BY <4>1
    <3>4. ASSUME NEW j \in s .. i PROVE lines[j][1] # "}"
      <4>1. CASE j = s
        <5>1. lines[j][1] = "inputs"
          BY <3>2, <4>1
        <5> QED BY <5>1
      <4>2. CASE j # s
        <5>1. j \in s + 1 .. i
          BY <3>3, <4>2
        <5>2. lines[j][1] \in {"{", "pair", "word"}
          BY <3>1, <5>1
        <5> QED BY <5>2
      <4> QED BY <4>1, <4>2
    <3> QED BY <3>1, <3>4
  <2>2. NInputs(lines) = {[index |-> lines[i][2], name |-> lines[i][3]] : i \in {i \in DOMAIN lines : IsPair(lines[i]) /\ In(i)}}
    BY DEF NInputs
  <2> HIDE DEF In
  <2>3. NInputs(lines) = {[index |-> lines[i][2], name |-> lines[i][3]] : i \in Is}
    BY <2>1, <2>2
  <2> QED BY <1>1, <2>3
<1>3. ASSUME IsFile(lines, "compinputs")
      PROVE  CompInputs(lines) = {[index |-> l[2], from |-> l[3]] : l \in Pairs(lines)}
  <2> DEFINE Closes(j) == lines[j][1] = "}" \/ (lines[j][1] = "end" /\ ~IsPair(lines[j - 1]))
             In(i) == \E s \in 1 .. i - 1 : Opens(lines, s, "compinputs") /\ \A j \in s + 1 .. i : ~Closes(j)
  <2>1. ASSUME NEW i \in Is PROVE In(i)
    <3>1. PICK s \in 1 .. i - 1 :
            Opens(lines, s, "compinputs") /\ \A j \in s + 1 .. i : lines[j][1] \in {"{", "pair", "word"}
      BY <1>3 DEF IsFile
    <3>2. \A j \in s + 1 .. i : ~Closes(j)
      BY <3>1
    <3> QED BY <3>1, <3>2
  <2>2. CompInputs(lines) = {[index |-> lines[i][2], from |-> lines[i][3]] : i \in {i \in DOMAIN lines : IsPair(lines[i]) /\ In(i)}}
    BY DEF CompInputs
  <2> HIDE DEF In
  <2>3. CompInputs(lines) = {[index |-> lines[i][2], from |-> lines[i][3]] : i \in Is}
    BY <2>1, <2>2
  <2> QED BY <1>1, <2>3
<1> QED BY <1>2, <1>3

\* The wires that are read from an operator's files are those written in them.
LEMMA EdgesAreWritten ==
    ASSUME IsProject(fs), NEW p \in Ops
    PROVE  InEdges(p) = Written(p)
<1>1. /\ NInputs(Op(p).n) = {[index |-> l[2], name |-> l[3]] : l \in Pairs(Op(p).n)}
      /\ CompInputs(Op(p).net) = {[index |-> l[2], from |-> l[3]] : l \in Pairs(Op(p).net)}
  BY InProject, ParsersAgree
<1>2. {OpEdge(p, i) : i \in NInputs(Op(p).n)} = {OpEdge(p, [name |-> l[3], index |-> l[2]]) : l \in Pairs(Op(p).n)}
  BY <1>1
<1>3. {CompEdge(p, i) : i \in CompInputs(Op(p).net)}
        = {CompEdge(p, [from |-> l[3], index |-> l[2]]) : l \in Pairs(Op(p).net)}
  BY <1>1
<1> QED BY <1>2, <1>3 DEF InEdges, Written

\* What is collected within a depth are wires of the project, and all of an operator in
\* the scope of the path.
LEMMA EdgesAreProjects ==
    ASSUME IsProject(fs), NEW filter \in Seq(Names), NEW depth \in Nat
    PROVE  /\ Edges(filter, depth) \subseteq Project
           /\ \A p \in Ops : p # <<>> /\ Len(p) <= depth /\ Passes(p, filter) =>
                Written(p) \subseteq Edges(filter, depth)
<1>1. Scope(filter, depth) = {p \in Ops : p # <<>> /\ Len(p) <= depth /\ Passes(p, filter)}
  BY ScopeIs
<1>2. \A p \in Ops : InEdges(p) = Written(p)
  BY EdgesAreWritten
<1> QED BY <1>1, <1>2 DEF Edges, Project

(***************************************************************************)
(* The nodes that hops reach                                               *)
(***************************************************************************)
\* A chain of k wires.
IsChain(c, E, seed, k) ==
    /\ c \in [1 .. k -> E] /\ seed \in Ends(c[1])
    /\ \A i \in 1 .. k - 1 : Ends(c[i]) \cap Ends(c[i + 1]) # {}

\* The chains are those of one to n wires.
LEMMA ChainIs ==
    ASSUME NEW E, NEW seed, NEW n \in Nat
    PROVE  /\ \A c \in Chains(E, seed, n) : \E k \in 1 .. n : IsChain(c, E, seed, k) /\ Last(c) = c[k]
           /\ \A k \in 1 .. n : \A c : IsChain(c, E, seed, k) => c \in Chains(E, seed, n) /\ Last(c) = c[k]
<1>1. ASSUME NEW k \in 1 .. n, NEW c \in [1 .. k -> E] PROVE Len(c) = k /\ Last(c) = c[k]
  <2>1. c \in Seq(E)
    OBVIOUS
  <2>2. Len(c) = k
    BY <2>1
  <2> QED BY <2>2 DEF Last
<1>2. ASSUME NEW c \in Chains(E, seed, n)
      PROVE  \E k \in 1 .. n : IsChain(c, E, seed, k) /\ Last(c) = c[k]
  <2>1. PICK k \in 1 .. n : c \in [1 .. k -> E]
    BY <1>2 DEF Chains
  <2>2. seed \in Ends(c[1]) /\ \A i \in 1 .. Len(c) - 1 : Ends(c[i]) \cap Ends(c[i + 1]) # {}
    BY <1>2 DEF Chains
  <2> QED BY <1>1, <2>1, <2>2 DEF IsChain
<1>3. ASSUME NEW k \in 1 .. n, NEW c, IsChain(c, E, seed, k)
      PROVE  c \in Chains(E, seed, n) /\ Last(c) = c[k]
  <2>1. c \in UNION {[1 .. m -> E] : m \in 1 .. n}
    BY <1>3 DEF IsChain
  <2>2. Len(c) = k /\ Last(c) = c[k]
    BY <1>1, <1>3 DEF IsChain
  <2> QED BY <1>3, <2>1, <2>2 DEF Chains, IsChain
<1> QED BY <1>2, <1>3

\* One more hop.
LEMMA ReachedStep ==
    ASSUME NEW E, NEW seed, NEW n \in Nat
    PROVE  Reached(E, seed, n + 1) =
             Reached(E, seed, n) \cup UNION {Ends(e) : e \in {e \in E : Ends(e) \cap Reached(E, seed, n) # {}}}
<1> DEFINE R == Reached(E, seed, n)
           Beyond == UNION {Ends(e) : e \in {e \in E : Ends(e) \cap R # {}}}
<1>1. ASSUME NEW x \in Reached(E, seed, n + 1) PROVE x \in R \cup Beyond
  <2>1. CASE x = seed
    BY <2>1 DEF Reached
  <2>2. CASE x # seed
    <3>1. PICK c \in Chains(E, seed, n + 1) : x \in Ends(Last(c))
      BY <2>2 DEF Reached
    <3>2. n + 1 \in Nat
      OBVIOUS
    <3>3. PICK k \in 1 .. n + 1 : IsChain(c, E, seed, k) /\ Last(c) = c[k]
      BY <3>1, <3>2, ChainIs
    <3>4. CASE k <= n
      <4>1. c \in Chains(E, seed, n)
        BY <3>3, <3>4, ChainIs
      <4> QED BY <3>1, <4>1 DEF Reached
    <3>5. CASE k = n + 1
      <4>1. c[k] \in E /\ x \in Ends(c[k])
        BY <3>1, <3>3 DEF IsChain
      <4>2. Ends(c[k]) \cap R # {}
        <5>1. CASE n = 0
          BY <3>3, <3>5, <5>1 DEF Reached, IsChain
        <5>2. CASE n # 0
          <6> DEFINE d == [i \in 1 .. n |-> c[i]]
          <6>1. n \in 1 .. n /\ d \in [1 .. n -> E] /\ \A i \in 1 .. n : d[i] = c[i]
            BY <3>3, <3>5, <5>2 DEF IsChain
          <6> HIDE DEF d
          <6>2. ASSUME NEW i \in 1 .. n - 1 PROVE Ends(d[i]) \cap Ends(d[i + 1]) # {}
            <7>1. i \in 1 .. n /\ i + 1 \in 1 .. n /\ i \in 1 .. k - 1
              BY <3>5
            <7> QED BY <3>3, <6>1, <7>1 DEF IsChain
          <6>3. d \in Chains(E, seed, n) /\ Last(d) = c[n]
            <7>1. 1 \in 1 .. n
              BY <5>2
            <7>2. IsChain(d, E, seed, n)
              BY <3>3, <6>1, <6>2, <7>1 DEF IsChain
            <7> QED BY <6>1, <7>2, ChainIs
          <6>4. Ends(c[n]) \subseteq R
            BY <6>3 DEF Reached
          <6>5. Ends(c[n]) \cap Ends(c[n + 1]) # {}
            BY <3>3, <3>5, <5>2 DEF IsChain
          <6> QED BY <3>5, <6>4, <6>5
        <5> QED BY <5>1, <5>2
      <4> QED BY <4>1, <4>2
    <3> QED BY <3>3, <3>4, <3>5
  <2> QED BY <2>1, <2>2
<1>2. ASSUME NEW x \in R PROVE x \in Reached(E, seed, n + 1)
  <2>1. CASE x = seed
    BY <2>1 DEF Reached
  <2>2. CASE x # seed
    <3>1. PICK c \in Chains(E, seed, n) : x \in Ends(Last(c))
      BY <1>2, <2>2 DEF Reached
    <3>2. c \in Chains(E, seed, n + 1)
      <4>1. PICK k \in 1 .. n : IsChain(c, E, seed, k)
        BY <3>1, ChainIs
      <4>2. n + 1 \in Nat /\ k \in 1 .. n + 1
        OBVIOUS
      <4> QED BY <4>1, <4>2, ChainIs
    <3> QED BY <3>1, <3>2 DEF Reached
  <2> QED BY <2>1, <2>2
<1>3. ASSUME NEW e \in E, NEW y \in Ends(e), y \in R PROVE Ends(e) \subseteq Reached(E, seed, n + 1)
  <2>1. n + 1 \in Nat /\ 1 \in 1 .. n + 1
    OBVIOUS
  <2>2. CASE y = seed
    <3> DEFINE c == [i \in 1 .. 1 |-> e]
    <3>1. c \in [1 .. 1 -> E] /\ c[1] = e /\ \A i \in 1 .. 1 - 1 : Ends(c[i]) \cap Ends(c[i + 1]) # {}
      OBVIOUS
    <3> HIDE DEF c
    <3>2. IsChain(c, E, seed, 1)
      BY <2>2, <3>1 DEF IsChain
    <3>3. c \in Chains(E, seed, n + 1) /\ Last(c) = e
      BY <2>1, <3>1, <3>2, ChainIs
    <3> QED BY <3>3 DEF Reached
  <2>3. CASE y # seed
    <3>1. PICK d \in Chains(E, seed, n) : y \in Ends(Last(d))
      BY <1>3, <2>3 DEF Reached
    <3>2. PICK k \in 1 .. n : IsChain(d, E, seed, k) /\ Last(d) = d[k]
      BY <3>1, ChainIs
    <3> DEFINE c == [i \in 1 .. k + 1 |-> IF i <= k THEN d[i] ELSE e]
    <3>3. /\ k + 1 \in 1 .. n + 1 /\ c \in [1 .. k + 1 -> E] /\ c[k + 1] = e /\ c[1] = d[1]
          /\ \A i \in 1 .. k : c[i] = d[i]
      BY <3>2 DEF IsChain
    <3> HIDE DEF c
    <3>4. ASSUME NEW i \in 1 .. (k + 1) - 1 PROVE Ends(c[i]) \cap Ends(c[i + 1]) # {}
      <4>1. CASE i = k
        BY <3>1, <3>2, <3>3, <4>1
      <4>2. CASE i # k
        <5>1. i \in 1 .. k - 1 /\ i \in 1 .. k /\ i + 1 \in 1 .. k
          BY <4>2
        <5> QED BY <3>2, <3>3, <5>1 DEF IsChain
      <4> QED BY <4>1, <4>2
    <3>5. IsChain(c, E, seed, k + 1)
      BY <3>2, <3>3, <3>4 DEF IsChain
    <3>6. c \in Chains(E, seed, n + 1) /\ Last(c) = e
      <4>1. \A m \in 1 .. n + 1 : \A d1 : IsChain(d1, E, seed, m) =>
                d1 \in Chains(E, seed, n + 1) /\ Last(d1) = d1[m]
        BY <2>1, ChainIs
      <4> QED BY <3>3, <3>5, <4>1
    <3> QED BY <3>6 DEF Reached
  <2> QED BY <2>2, <2>3
<1> QED BY <1>1, <1>2, <1>3

\* The hops that the brief takes reach what chains of as many wires reach.
LEMMA NearIsReached ==
    ASSUME NEW E, NEW seed, NEW radius \in Nat
    PROVE  Near(E, seed, radius) = Reached(E, seed, radius)
<1> DEFINE Hop(known) == known \cup UNION {Ends(e) : e \in {e \in E : Ends(e) \cap known # {}}}
           D == SUBSET ({seed} \cup UNION {Ends(e) : e \in E})
           F == [known \in D |-> Hop(known)]
           Nears(g) == [r \in 0 .. radius |-> IF r = 0 THEN {seed} ELSE Hop(g[r - 1])]
           near == CHOOSE g : g = Nears(g)
<1>1. {seed} \in D /\ F \in [D -> D] /\ \A known \in D : F[known] = Hop(known)
  OBVIOUS
<1> HIDE DEF F, Hop, D
<1>2. PICK g : IsIteration(g, D, {seed}, radius, F)
  BY <1>1, Iterates
<1>3. /\ g \in [0 .. radius -> D] /\ g[0] = {seed}
      /\ \A r \in 1 .. radius : g[r] = F[g[r - 1]]
  BY <1>2 DEF IsIteration
<1>4. ASSUME NEW r \in 0 .. radius PROVE g[r] = Nears(g)[r]
  <2>1. CASE r = 0
    BY <1>3, <2>1
  <2>2. CASE r # 0
    <3>1. r \in 1 .. radius /\ r - 1 \in 0 .. radius
      BY <2>2
    <3>2. g[r] = F[g[r - 1]] /\ g[r - 1] \in D
      BY <1>3, <3>1
    <3>3. g[r] = Hop(g[r - 1])
      BY <1>1, <3>2
    <3> QED BY <2>2, <3>3
  <2> QED BY <2>1, <2>2
<1>5. g = Nears(g)
  BY <1>3, <1>4
<1>6. near = Nears(near)
  BY <1>5
<1>7. Near(E, seed, radius) = near[radius]
  BY DEF Near, Hop
<1> HIDE DEF near
<1>8. near[0] = {seed} /\ \A r \in 1 .. radius : near[r] = Hop(near[r - 1])
  <2>1. \A r \in 0 .. radius : near[r] = Nears(near)[r]
    BY <1>6
  <2>2. near[0] = {seed}
    <3>1. 0 \in 0 .. radius
      OBVIOUS
    <3> QED BY <2>1, <3>1
  <2>3. ASSUME NEW r \in 1 .. radius PROVE near[r] = Hop(near[r - 1])
    BY <2>1
  <2> QED BY <2>2, <2>3
<1> DEFINE S == {r \in Nat : r <= radius => near[r] = Reached(E, seed, r)}
<1>9. 0 \in S
  <2>1. Chains(E, seed, 0) = {}
    BY DEF Chains
  <2>2. Reached(E, seed, 0) = {seed}
    BY <2>1 DEF Reached
  <2> QED BY <1>8, <2>2
<1>10. ASSUME NEW r \in Nat, r \in S PROVE r + 1 \in S
  <2> SUFFICES ASSUME r + 1 <= radius PROVE near[r + 1] = Reached(E, seed, r + 1)
    OBVIOUS
  <2>1. r + 1 \in 1 .. radius /\ (r + 1) - 1 = r
    OBVIOUS
  <2>2. near[r + 1] = Hop(Reached(E, seed, r))
    BY <1>8, <1>10, <2>1
  <2> QED BY <2>2, ReachedStep DEF Hop
<1> HIDE DEF S
<1>11. radius \in S
  BY <1>9, <1>10, SetInduction
<1> QED BY <1>7, <1>11 DEF S

\* The wires that the brief keeps are those around what the chains reach.
LEMMA EgoIsAround ==
    ASSUME NEW E, NEW seed, NEW radius \in Nat
    PROVE  Ego(E, seed, radius) = Around(E, seed, radius)
BY NearIsReached DEF Ego, Around

\* Among more wires more are around a node.
LEMMA AroundGrows ==
    ASSUME NEW E, NEW F, E \subseteq F, NEW seed, NEW n \in Nat
    PROVE  Around(E, seed, n) \subseteq Around(F, seed, n)
<1>1. Chains(E, seed, n) \subseteq Chains(F, seed, n)
  <2>1. ASSUME NEW c \in Chains(E, seed, n) PROVE c \in Chains(F, seed, n)
    <3>1. PICK k \in 1 .. n : IsChain(c, E, seed, k)
      BY ChainIs
    <3>2. IsChain(c, F, seed, k)
      BY <3>1 DEF IsChain
    <3> QED BY <3>2, ChainIs
  <2> QED BY <2>1
<1>2. Reached(E, seed, n) \subseteq Reached(F, seed, n)
  BY <1>1 DEF Reached
<1> QED BY <1>2 DEF Around

(***************************************************************************)
(* Answers                                                                 *)
(***************************************************************************)
\* What is cut is some of what there is.
LEMMA CutIs ==
    ASSUME NEW T, NEW max \in Nat
    PROVE  Cut(T, max) \subseteq T /\ (~(Cardinality(T) > max) => Cut(T, max) = T)
<1> DEFINE One(U) == IF U = {} THEN {} ELSE {CHOOSE x \in U : TRUE}
           More(before) == before \cup One(T \ before)
           D == SUBSET T
           F == [before \in D |-> More(before)]
           Firsts(g) == [n \in 0 .. max |-> IF n = 0 THEN {} ELSE More(g[n - 1])]
           first == CHOOSE g : g = Firsts(g)
<1>1. {} \in D /\ F \in [D -> D] /\ \A before \in D : F[before] = More(before)
  OBVIOUS
<1> HIDE DEF F, More, D
<1>2. PICK g : IsIteration(g, D, {}, max, F)
  BY <1>1, Iterates
<1>3. /\ g \in [0 .. max -> D] /\ g[0] = {}
      /\ \A n \in 1 .. max : g[n] = F[g[n - 1]]
  BY <1>2 DEF IsIteration
<1>4. ASSUME NEW n \in 0 .. max PROVE g[n] = Firsts(g)[n]
  <2>1. CASE n = 0
    BY <1>3, <2>1
  <2>2. CASE n # 0
    <3>1. n \in 1 .. max /\ n - 1 \in 0 .. max
      BY <2>2
    <3>2. g[n] = F[g[n - 1]] /\ g[n - 1] \in D
      BY <1>3, <3>1
    <3>3. g[n] = More(g[n - 1])
      BY <1>1, <3>2
    <3> QED BY <2>2, <3>3
  <2> QED BY <2>1, <2>2
<1>5. first = Firsts(first)
  <2>1. g = Firsts(g)
    BY <1>3, <1>4
  <2> QED BY <2>1
<1>6. Cut(T, max) = IF Cardinality(T) > max THEN first[max] ELSE T
  BY DEF Cut, More
<1> HIDE DEF first
<1>7. first[0] = {} /\ \A n \in 1 .. max : first[n] = More(first[n - 1])
  <2>1. \A n \in 0 .. max : first[n] = Firsts(first)[n]
    BY <1>5
  <2>2. first[0] = {}
    <3>1. 0 \in 0 .. max
      OBVIOUS
    <3> QED BY <2>1, <3>1
  <2>3. ASSUME NEW n \in 1 .. max PROVE first[n] = More(first[n - 1])
    BY <2>1
  <2> QED BY <2>2, <2>3
<1> DEFINE S == {n \in Nat : n <= max => first[n] \subseteq T}
<1>8. 0 \in S
  BY <1>7
<1>9. ASSUME NEW n \in Nat, n \in S PROVE n + 1 \in S
  <2> SUFFICES ASSUME n + 1 <= max PROVE first[n + 1] \subseteq T
    OBVIOUS
  <2>1. n + 1 \in 1 .. max /\ (n + 1) - 1 = n
    OBVIOUS
  <2>2. first[n + 1] = More(first[n]) /\ first[n] \subseteq T
    BY <1>7, <1>9, <2>1
  <2> QED BY <2>2 DEF More
<1> HIDE DEF S
<1>10. max \in S
  BY <1>8, <1>9, SetInduction
<1>11. first[max] \subseteq T
  BY <1>10 DEF S
<1> QED BY <1>6, <1>11

\* A text shows some of the lines, and all of them if it is not truncated.
LEMMA TextShows ==
    ASSUME NEW T, NEW max \in Nat, NEW room \in Nat
    PROVE  /\ Text(T, max, room).items \subseteq T
           /\ ~Text(T, max, room).truncated => Text(T, max, room).items = T
<1> DEFINE lines == IF room < max THEN room ELSE max
<1>1. lines \in Nat
  OBVIOUS
<1>2. /\ Text(T, max, room).items = Cut(T, lines)
      /\ Text(T, max, room).truncated = (Cardinality(T) > lines)
  BY DEF Text, Answer
<1> HIDE DEF lines
<1>3. Cut(T, lines) \subseteq T /\ (~(Cardinality(T) > lines) => Cut(T, lines) = T)
  BY <1>1, CutIs
<1> QED BY <1>2, <1>3

\* The answers depend on nothing but the project and the query.
LEMMA StaysSaid ==
    ASSUME NEW q, fs' = fs
    PROVE  Digest(q)' = Digest(q)
<1>0. /\ \A f, d : Walk(f, d)' = Walk(f, d)
      /\ \A p : Slots(p)' = Slots(p)
  BY DEF Walk, Passes, Ops, Slots, Op
<1>2. \A f, d : Outline(f, d)' = Outline(f, d)
  BY DEF Outline, Scope, Walk, Passes, Op, Ops
<1>3. \A f, d : ExpandFiles(f, d)' = ExpandFiles(f, d)
  BY DEF ExpandFiles, Walk, Passes, Op, Ops
<1>4. \A f, d, all : Refs(f, d, all)' = Refs(f, d, all)
  BY DEF Refs, RefsOf, Scope, Walk, Passes, Op, Ops
<1>5. \A f, d : Groups(f, d)' = Groups(f, d)
  BY <1>0 DEF Groups
<1>1. Stats' = Stats
  BY <1>5 DEF Stats, Op, Ops
<1>6. /\ \A f, d : Edges(f, d)' = Edges(f, d)
      /\ \A E, seed, radius : WiresForSeed(E, seed, radius)' = WiresForSeed(E, seed, radius)
  <2>1. \A f, d : Edges(f, d)' = Edges(f, d)
    BY DEF Edges, InEdges, Scope, Walk, Passes, Op, Ops
  <2>2. \A hub : HubWires(hub)' = HubWires(hub) /\ IsCompHub(hub)' = IsCompHub(hub)
    BY <2>1 DEF HubWires, RowEdges, IsCompHub, Op, Ops
  <2>3. ASSUME NEW E, NEW seed, NEW radius
        PROVE  WiresForSeed(E, seed, radius)' = WiresForSeed(E, seed, radius)
    BY <2>2 DEF WiresForSeed
  <2> QED BY <2>1, <2>3
<1>7. Brief(q)' = Brief(q)
  <2>1. \A p : Sidecars(p)' = Sidecars(p)
    BY DEF Sidecars, Op, Ops
  <2> QED BY <1>6, <2>1 DEF Brief, BriefWires
<1>8. Node(q)' = Node(q)
  <2>1. \A p : Sidecars(p)' = Sidecars(p) /\ Children(p)' = Children(p)
    BY <1>2 DEF Sidecars, Children, IsCompHub, Op, Ops
  <2>2. \A p : Outputs(p)' = Outputs(p) /\ Slots(p)' = Slots(p)
    BY DEF Outputs, Slots, Op, Ops
  <2>3. \A p, stem : SourceText(p, stem)' = SourceText(p, stem)
    BY DEF SourceText, Op, Ops
  <2> QED BY <1>6, <2>1, <2>2, <2>3 DEF Node, BriefWires, Op
<1>9. Wires(q)' = Wires(q)
  BY <1>6 DEF Wires
<1> QED BY <1>1, <1>2, <1>3, <1>4, <1>5, <1>7, <1>8, <1>9 DEF Digest

\* The project does not change, and what is answered is its digest.
DigestInv ==
    /\ fs \in Projects
    /\ query # None => query \in Queries /\ out = Digest(query)

\* Every step keeps it.
LEMMA DigestIsKept == DigestSpec => []DigestInv
<1>1. DigestInit => DigestInv
  BY DEF DigestInit, DigestInv
<1>2. DigestInv /\ [DigestNext]_digestVars => DigestInv'
  <2> SUFFICES ASSUME DigestInv, [DigestNext]_digestVars PROVE DigestInv'
    OBVIOUS
  <2>1. CASE UNCHANGED digestVars
    <3>1. fs' = fs /\ query' = query /\ out' = out
      BY <2>1 DEF digestVars
    <3>2. Digest(query)' = Digest(query)
      <4>1. \A x : Digest(x)' = Digest(x)
        BY <3>1, StaysSaid
      <4> QED BY <3>1, <4>1
    <3> QED BY <3>1, <3>2 DEF DigestInv
  <2>2. CASE DigestNext
    <3>1. PICK q \in Queries : query' = q /\ out' = Digest(q) /\ fs' = fs
      BY <2>2 DEF DigestNext, Ask
    <3>2. Digest(q)' = Digest(q)
      BY <3>1, StaysSaid
    <3> QED BY <3>1, <3>2 DEF DigestInv
  <2> QED BY <2>1, <2>2
<1> QED BY <1>1, <1>2, PTL DEF DigestSpec

\* A query that was made is one of the queries, on one of the projects.
LEMMA QueryMade ==
    ASSUME DigestInv, query # None
    PROVE  /\ IsProject(fs) /\ IsQuery(query) /\ out = Digest(query)
           /\ query.path \in Seq(Names) /\ (query.mode \in {"brief", "node"} => query.path # <<>>)
           /\ query.depth \in Nat /\ query.radius \in Nat /\ query.max \in Nat /\ query.room \in Nat
           /\ query.relative \in Nat \cup {None} /\ None \notin Nat
<1>1. IsProject(fs) /\ IsQuery(query) /\ out = Digest(query) /\ None \notin Nat
  BY ProjectsAssumption, QueriesAssumption DEF DigestInv
<1> QED BY <1>1 DEF IsQuery

\* The depth to which a walk that starts from a path goes.
LEMMA DepthIs ==
    ASSUME NEW f \in Seq(Names), NEW d \in Nat, NEW r \in Nat \cup {None}, None \notin Nat
    PROVE  /\ WalkDepth(f, d, r) \in Nat
           /\ d > 0 /\ r # 0 => WalkDepth(f, d, r) > Len(f)
<1>1. CASE f = <<>>
  BY <1>1 DEF WalkDepth
<1>2. CASE f # <<>>
  <2>1. CASE r = None
    BY <1>2, <2>1 DEF WalkDepth
  <2>2. CASE r # None
    BY <1>2, <2>2 DEF WalkDepth
  <2> QED BY <2>1, <2>2
<1> QED BY <1>1, <1>2

\* A path passes its own directory, and so do all paths in that directory.
LEMMA InItsDirectory ==
    ASSUME NEW p \in Seq(Names), NEW f \in Seq(Names), p # <<>>, Front(p) = f
    PROVE  Passes(p, f) /\ Len(p) = Len(f) + 1
<1>1. Len(f) = Len(p) - 1 /\ Len(p) \in Nat /\ \A i \in 1 .. Len(p) - 1 : f[i] = p[i]
  BY FrontFacts
<1> QED BY <1>1, PassesIs

\* What the brief of a node shows.
LEMMA BriefShows == DigestInv => BriefIsEgo
<1> SUFFICES ASSUME DigestInv, query # None, query.mode = "brief", query.relative # 0
             PROVE  LET local == {e \in Project : \A p \in Ends(e) : p # <<>> /\ Front(p) = Front(query.path)}
                        Shown(E) == Around(E, query.path, query.radius)
                    IN  Shown(local) # {} =>
                            /\ out.wires \subseteq Shown(Project)
                            /\ ~out.truncated => Shown(local) \subseteq out.wires
  BY DEF BriefIsEgo
<1> DEFINE seed == query.path
           at == Front(seed)
           depth == WalkDepth(at, AtLeast(query.depth, 6), query.relative)
           E == Edges(at, depth)
           local == {e \in Project : \A p \in Ends(e) : p # <<>> /\ Front(p) = at}
           Shown(F) == Around(F, seed, query.radius)
<1>1. /\ IsProject(fs) /\ out = Digest(query) /\ seed \in Seq(Names) /\ seed # <<>>
      /\ query.depth \in Nat /\ query.radius \in Nat /\ query.relative \in Nat \cup {None} /\ None \notin Nat
      /\ query.max \in Nat /\ query.room \in Nat
  BY QueryMade
<1> DEFINE around == WiresForSeed(E, seed, query.radius)
<1>2. out.wires \subseteq around /\ (~out.truncated => out.wires = around)
  <2>1. out = Brief(query)
    BY <1>1 DEF Digest
  <2>2. /\ out.wires = Text(around, query.max, query.room).items
        /\ ~out.truncated => ~Text(around, query.max, query.room).truncated
    BY <2>1 DEF Brief, BriefWires
  <2> HIDE DEF around
  <2> QED BY <1>1, <2>2, TextShows
<1>3. at \in Seq(Names) /\ depth \in Nat /\ depth > Len(at)
  <2>1. at \in Seq(Names)
    BY <1>1, FrontFacts
  <2>2. AtLeast(query.depth, 6) \in Nat /\ AtLeast(query.depth, 6) > 0
    BY <1>1 DEF AtLeast
  <2> QED BY <1>1, <2>1, <2>2, DepthIs
<1> HIDE DEF depth
<1>4. E \subseteq Project
  BY <1>1, <1>3, EdgesAreProjects
<1>5. ASSUME NEW e \in local PROVE e \in E
  <2>1. PICK p \in Ops : e \in Written(p)
    BY DEF Project
  <2>2. e.to = p
    BY <2>1 DEF Written, OpEdge, CompEdge
  <2>3. p # <<>> /\ Front(p) = at /\ p \in Seq(Names)
    <3>1. p \in Ends(e)
      BY <2>2 DEF Ends
    <3> QED BY <1>1, <3>1, InProject
  <2>4. Passes(p, at) /\ Len(p) <= depth
    BY <1>3, <2>3, InItsDirectory
  <2> QED BY <1>1, <1>3, <2>1, <2>3, <2>4, EdgesAreProjects
<1>6. ASSUME Shown(local) # {}
      PROVE  out.wires \subseteq Shown(Project) /\ (~out.truncated => Shown(local) \subseteq out.wires)
  <2>1. Shown(local) \subseteq Shown(E) /\ Shown(E) \subseteq Shown(Project)
    <3>1. local \subseteq E
      BY <1>5
    <3> HIDE DEF local, E, seed
    <3> QED BY <1>1, <1>4, <3>1, AroundGrows
  <2>2. Ego(E, seed, query.radius) = Shown(E)
    BY <1>1, EgoIsAround
  <2>3. around = Shown(E)
    BY <1>6, <2>1, <2>2 DEF WiresForSeed
  <2> QED BY <1>2, <2>1, <2>3
<1> QED BY <1>6

\* The brief of get_toe_digest on any project and for any radius: buildBrief, wiresForNode
\* and egoSubgraph show what the chains of wires reach, nothing else and, unless
\* the brief is truncated, nothing missing.
THEOREM BriefIsTheEgo == DigestSpec => []BriefIsEgo
BY DigestIsKept, BriefShows, PTL

\* What the outline lists.
LEMMA OutlineLists == DigestInv => SeenOnce
<1> SUFFICES ASSUME DigestInv, query # None, query.mode = "outline", ~out.truncated, NEW p \in Ops \ {<<>>}
             PROVE  Cardinality({o \in out.items : o.path = p}) =
                      IF /\ Len(p) <= WalkDepth(query.path, query.depth, query.relative)
                         /\ IsPrefix(p, query.path) \/ IsPrefix(query.path, p)
                         /\ Op(p).dir \/ Op(p).n # <<>>
                      THEN 1 ELSE 0
  BY DEF SeenOnce
<1> DEFINE f == query.path
           depth == WalkDepth(f, query.depth, query.relative)
           listed == {o \in out.items : o.path = p}
<1>1. /\ IsProject(fs) /\ out = Digest(query) /\ f \in Seq(Names)
      /\ query.depth \in Nat /\ query.relative \in Nat \cup {None} /\ None \notin Nat
      /\ query.max \in Nat /\ query.room \in Nat
  BY QueryMade
<1>2. depth \in Nat
  BY <1>1, DepthIs
<1>3. out.items = Outline(f, depth)
  <2> DEFINE text == Text(Outline(f, depth), query.max, query.room)
  <2>1. out = OutlineText(Outline(f, depth), query.max, query.room)
    BY <1>1 DEF Digest
  <2>2. out.items = text.items /\ out.truncated = text.truncated
    BY <2>1 DEF OutlineText, Text, Answer
  <2> QED BY <1>1, <2>2, TextShows
<1> HIDE DEF depth
<1>4. p \in Scope(f, depth) <=> Len(p) <= depth /\ Passes(p, f)
  BY <1>1, <1>2, ScopeIs
<1> DEFINE entry == [path |-> p, kind |-> IF Op(p).dir THEN "dir" ELSE "node", hint |-> Hint(Op(p).n)]
<1>5. CASE p \in Scope(f, depth) /\ (Op(p).dir \/ Op(p).n # <<>>)
  <2>1. listed = {entry}
    BY <1>3, <1>5 DEF Outline
  <2>2. Cardinality(listed) = 1
    BY <2>1, FS_Singleton
  <2> QED BY <1>4, <1>5, <2>2 DEF Passes, depth
<1>6. CASE ~(p \in Scope(f, depth) /\ (Op(p).dir \/ Op(p).n # <<>>))
  <2>1. listed = {}
    BY <1>3, <1>6 DEF Outline
  <2>2. Cardinality(listed) = 0
    BY <2>1, FS_EmptySet
  <2> QED BY <1>4, <1>6, <2>2 DEF Passes, depth
<1> QED BY <1>5, <1>6

\* The outline of get_toe_digest on any project, to any depth and below any path:
\* collectOutlineEntries lists what its walk meets once, and its walk skips nothing.
THEOREM SeenJustOnce == DigestSpec => []SeenOnce
BY DigestIsKept, OutlineLists, PTL

\* What get_toe_node says of a node.
LEMMA NodeSays == DigestInv => NodeAgrees
<1> SUFFICES ASSUME DigestInv, query # None, query.mode = "node" PROVE NodeAgrees
  BY DEF NodeAgrees
<1> DEFINE p == query.path
           at == Front(p)
           depth == WalkDepth(at, 8, None)
           To(l) == [index |-> l[2], name |-> l[3]]
<1>1. /\ IsProject(fs) /\ out = Digest(query) /\ p \in Seq(Names) /\ p # <<>> /\ None \notin Nat
      /\ query.max \in Nat /\ query.room \in Nat
  BY QueryMade
<1>2. out = Node(query)
  BY <1>1 DEF Digest
<1>3. /\ at \in Seq(Names) /\ at \o <<Last(p)>> = p /\ Last(p) \in Names
      /\ Len(p) \in Nat /\ Len(at) \in Nat /\ Len(p) = Len(at) + 1
  <2>1. /\ at \in Seq(Names) /\ at \o <<Last(p)>> = p /\ Last(p) \in Names
        /\ Len(p) \in Nat \ {0} /\ Len(at) = Len(p) - 1
    BY <1>1, FrontFacts
  <2> HIDE DEF p, at
  <2> QED BY <2>1
<1>4. /\ \A q \in Ops : NInputs(Op(q).n) = {To(l) : l \in Pairs(Op(q).n)}
      /\ p \notin Ops => NInputs(Op(p).n) = {} /\ Pairs(Op(p).n) = {} /\ Pairs(Op(p).net) = {}
  <2>1. p \notin Ops => Op(p) = Nothing
    BY DEF Op, Ops
  <2>2. NInputs(<<>>) = {} /\ Pairs(<<>>) = {}
    BY DEF NInputs, Pairs, Range
  <2>3. p \notin Ops => Op(p).n = <<>> /\ Op(p).net = <<>>
    BY <2>1 DEF Nothing
  <2>4. p \notin Ops => NInputs(Op(p).n) = {} /\ Pairs(Op(p).n) = {} /\ Pairs(Op(p).net) = {}
    BY <2>2, <2>3
  <2>5. \A q \in Ops : NInputs(Op(q).n) = {To(l) : l \in Pairs(Op(q).n)}
    BY <1>1, InProject, ParsersAgree
  <2> QED BY <2>4, <2>5
<1>5. out.inputs = {[from |-> Sibling(p, l[3]), index |-> l[2]] : l \in Pairs(Op(p).n)}
  <2>1. out.inputs = {[from |-> Sibling(p, i.name), index |-> i.index] : i \in NInputs(Op(p).n)}
    BY <1>2 DEF Node
  <2>2. NInputs(Op(p).n) = {To(l) : l \in Pairs(Op(p).n)}
    BY <1>4
  <2> HIDE DEF p
  <2>3. {[from |-> Sibling(p, i.name), index |-> i.index] : i \in {To(l) : l \in Pairs(Op(p).n)}}
          = {[from |-> Sibling(p, l[3]), index |-> l[2]] : l \in Pairs(Op(p).n)}
    <3>1. \A l : To(l).name = l[3] /\ To(l).index = l[2]
      OBVIOUS
    <3> HIDE DEF To
    <3> QED BY <3>1
  <2> QED BY <2>1, <2>2, <2>3
<1>6. out.outputs = Outputs(p)
  BY <1>2 DEF Node
<1>7. ASSUME NEW o \in Outputs(p)
      PROVE  \E q \in Ops : \E i \in NInputs(Op(q).n) :
               /\ q # <<>> /\ q # p /\ Front(q) = at /\ i.name = <<Last(p)>>
               /\ o.consumer = q /\ o.index = i.index
  <2>1. PICK q \in Ops : /\ q # <<>> /\ q # p /\ Front(q) = at
                        /\ \E i \in NInputs(Op(q).n) : i.name = <<Last(p)>> /\ o = [consumer |-> q, index |-> i.index]
    BY <1>7 DEF Outputs
  <2> QED BY <2>1
<1>8. ASSUME NEW q \in Ops \ {<<>>, p}, NEW i \in 0 .. 9
      PROVE  [consumer |-> q, index |-> i] \in out.outputs <=>
               Front(q) = at /\ <<"pair", i, <<Last(p)>>>> \in Pairs(Op(q).n)
  <2> DEFINE o == [consumer |-> q, index |-> i]
             line == <<"pair", i, <<Last(p)>>>>
  <2>1. \A l \in Pairs(Op(q).n) : l = <<"pair", l[2], l[3]>>
    <3>1. IsFile(Op(q).n, "inputs")
      BY <1>1, InProject
    <3>2. \A l \in Pairs(Op(q).n) : l \in {"pair"} \X Nat \X (Seq(Names) \ {<<>>})
      <4>1. \A k \in DOMAIN Op(q).n : IsPair(Op(q).n[k]) =>
                Op(q).n[k] \in {"pair"} \X Nat \X (Seq(Names) \ {<<>>})
        BY <3>1 DEF IsFile
      <4>2. \A l \in Pairs(Op(q).n) : \E k \in DOMAIN Op(q).n : l = Op(q).n[k] /\ IsPair(Op(q).n[k])
        BY DEF Pairs, Range
      <4> QED BY <4>1, <4>2
    <3> QED BY <3>2
  <2>2. ASSUME o \in out.outputs PROVE Front(q) = at /\ line \in Pairs(Op(q).n)
    <3>1. PICK c \in Ops : \E n \in NInputs(Op(c).n) :
               /\ Front(c) = at /\ n.name = <<Last(p)>> /\ o.consumer = c /\ o.index = n.index
      BY <1>6, <1>7, <2>2
    <3>2. c = q
      BY <3>1
    <3>3. PICK n \in NInputs(Op(q).n) : n.name = <<Last(p)>> /\ n.index = i
      BY <3>1, <3>2
    <3>4. PICK l \in Pairs(Op(q).n) : n = To(l)
      BY <1>4
    <3>5. l[2] = i /\ l[3] = <<Last(p)>>
      BY <3>3, <3>4
    <3>6. l = line
      BY <2>1, <3>5
    <3> QED BY <3>1, <3>2, <3>6
  <2>3. ASSUME Front(q) = at, line \in Pairs(Op(q).n) PROVE o \in out.outputs
    <3>1. To(line) = [index |-> i, name |-> <<Last(p)>>]
      OBVIOUS
    <3>2. To(line) \in NInputs(Op(q).n)
      BY <1>4, <2>3
    <3> DEFINE n == To(line)
    <3>3. n.name = <<Last(p)>> /\ n.index = i
      BY <3>1
    <3> HIDE DEF n
    <3>4. [consumer |-> q, index |-> n.index] \in Outputs(p)
      BY <2>3, <3>2, <3>3 DEF Outputs, n
    <3> QED BY <1>6, <3>3, <3>4
  <2> QED BY <2>2, <2>3
<1>9. depth \in Nat /\ depth > Len(at)
  <2>1. 8 \in Nat /\ 8 > 0 /\ None # 0
    BY <1>1
  <2> QED BY <1>1, <1>3, <2>1, DepthIs
<1> DEFINE E == Edges(at, depth)
<1>10. ~out.truncated => out.wires = WiresForSeed(E, p, 1)
  <2> DEFINE around == WiresForSeed(E, p, 1)
  <2>1. /\ out.wires = Text(around, query.max, query.room).items
        /\ ~out.truncated => ~Text(around, query.max, query.room).truncated
    BY <1>2 DEF Node, BriefWires
  <2> HIDE DEF around
  <2>2. ~out.truncated => out.wires = around
    BY <1>1, <2>1, TextShows
  <2> QED BY <2>2 DEF around
<1> HIDE DEF depth
<1>11. ASSUME NEW q \in Ops, q # <<>>, Front(q) = at PROVE Written(q) \subseteq E
  <2>1. q \in Seq(Names)
    BY <1>1, InProject
  <2>2. Passes(q, at) /\ Len(q) <= depth
    BY <1>3, <1>9, <1>11, <2>1, InItsDirectory
  <2> QED BY <1>1, <1>3, <1>9, <1>11, <2>2, EdgesAreProjects
<1>12. ~out.truncated => \A e \in E : p \in Ends(e) \/ Source(e) = p => e \in out.wires
  <2>1. 1 \in Nat
    OBVIOUS
  <2>2. Ego(E, p, 1) = Around(E, p, 1)
    BY <2>1, EgoIsAround
  <2>3. p \in Reached(E, p, 1)
    BY DEF Reached
  <2>4. ASSUME NEW e \in E, p \in Ends(e) \/ Source(e) = p PROVE e \in Ego(E, p, 1)
    BY <2>2, <2>3, <2>4 DEF Around
  <2> HIDE DEF E, p
  <2> QED BY <1>10, <2>4 DEF WiresForSeed
<1>13. ~out.truncated => Written(p) \subseteq out.wires
  <2>1. CASE p \notin Ops
    BY <1>4, <2>1 DEF Written
  <2>2. CASE p \in Ops
    <3>1. Written(p) \subseteq E
      BY <1>1, <1>11, <2>2
    <3>2. \A e \in Written(p) : e.to = p
      BY DEF Written, OpEdge, CompEdge
    <3>3. \A e \in Written(p) : p \in Ends(e)
      BY <3>2 DEF Ends
    <3> HIDE DEF E
    <3> QED BY <1>12, <3>1, <3>3
  <2> QED BY <2>1, <2>2
<1>14. ASSUME ~out.truncated, NEW o \in out.outputs
       PROVE  \E e \in out.wires : e.to = o.consumer /\ Source(e) = p /\ e.index = o.index
  <2>1. PICK q \in Ops : \E i \in NInputs(Op(q).n) :
           /\ q # <<>> /\ q # p /\ Front(q) = at /\ i.name = <<Last(p)>>
           /\ o.consumer = q /\ o.index = i.index
    BY <1>6, <1>7
  <2>2. PICK i \in NInputs(Op(q).n) : i.name = <<Last(p)>> /\ o.index = i.index
    BY <2>1
  <2> DEFINE e == OpEdge(q, i)
  <2>3. e.kind = "op" /\ e.to = q /\ e.from = <<Last(p)>> /\ e.index = o.index
    BY <2>2 DEF OpEdge
  <2>4. e \in E
    <3>1. e \in InEdges(q)
      BY DEF InEdges
    <3>2. e \in Written(q)
      BY <1>1, <3>1, EdgesAreWritten
    <3> HIDE DEF e
    <3> QED BY <1>11, <2>1, <3>2
  <2> HIDE DEF e
  <2>5. Source(e) = p
    <3>1. Source(e) = Sibling(q, <<Last(p)>>)
      BY <2>3 DEF Source
    <3>2. Sibling(q, <<Last(p)>>) = Front(q) \o <<Last(p)>>
      BY DEF Sibling
    <3> QED BY <1>3, <2>1, <3>1, <3>2
  <2>6. e \in out.wires
    BY <1>12, <1>14, <2>4, <2>5
  <2> QED BY <2>1, <2>3, <2>5, <2>6
<1>15. ASSUME Len(p) <= 32, NEW s \in out.slots
       PROVE  \E g \in Groups(<<>>, 32) : g.key = s.key /\ p \in g.hosts
  <2>1. PICK x \in Slots(p) : s.key = Key(x)
    BY <1>2 DEF Node
  <2>2. p \in Ops
    <3>1. p \notin Ops => Op(p).ext = <<>>
      BY DEF Op, Ops, Nothing
    <3>2. Op(p).ext = <<>> => Slots(p) = {}
      BY DEF Slots, Range
    <3> QED BY <2>1, <3>1, <3>2
  <2> DEFINE hosts == {h \in Walk(<<>>, 32) : IsPrefix(<<>>, h) /\ Slots(h) # {}}
             keys == UNION {{Key(y) : y \in Slots(h)} : h \in hosts}
  <2>3. p \in hosts
    <3>1. <<>> \in Seq(Names) /\ 32 \in Nat
      OBVIOUS
    <3>2. Passes(at, <<>>)
      <4>1. (1 .. Len(at)) \cap (1 .. Len(<<>>)) = {}
        OBVIOUS
      <4> HIDE DEF at
      <4> QED BY <1>3, <3>1, <4>1, PassesIs
    <3>3. p \in Walk(<<>>, 32)
      BY <1>1, <1>15, <2>2, <3>1, <3>2, WalkMeets
    <3>4. IsPrefix(<<>>, p)
      BY <1>1 DEF IsPrefix
    <3> QED BY <2>1, <3>3, <3>4
  <2> DEFINE Group(k) == [key |-> k, hosts |-> {h \in hosts : \E y \in Slots(h) : Key(y) = k}]
  <2>4. Groups(<<>>, 32) = {Group(k) : k \in keys}
    BY DEF Groups
  <2> HIDE DEF hosts
  <2>5. Key(x) \in keys
    BY <2>1, <2>3
  <2>6. Group(Key(x)).key = s.key /\ p \in Group(Key(x)).hosts
    BY <2>1, <2>3
  <2> HIDE DEF keys, Group
  <2> QED BY <2>4, <2>5, <2>6
<1> QED BY <1>5, <1>8, <1>13, <1>14, <1>15 DEF NodeAgrees

\* get_toe_node on any project: getToeNode, findOutputs, wiresForNode and the groups of
\* collectCompExtensions tell the same story of a node.
THEOREM NodeTellsTheSame == DigestSpec => []NodeAgrees
BY DigestIsKept, NodeSays, PTL
==============================================================================
