------------------------------ MODULE ToeDigest ------------------------------
(***************************************************************************)
(* What get_toe_digest and get_toe_node say of an expanded project.        *)
(* Sources: digest.ts, wires.ts, nodeInspect.ts, extensions.ts,            *)
(* filesInventory.ts, refs.ts, parseExpand.ts and walkDepth.ts.            *)
(*                                                                         *)
(* A path is a sequence of names.  The expanded project maps the path of   *)
(* an operator to what the expand directory has for it:                    *)
(*   dir     it has a directory, so it is a COMP                           *)
(*   n       the lines of its .n file, <<>> without one                    *)
(*   net     the lines of its .network file, <<>> without one              *)
(*   parm    the rows of its .parm file: [name, prefix, ref, target]       *)
(*   ext     the extension rows of that file: [slot, field, value]         *)
(*   files   the kinds of its files, those three and others                *)
(* A text of an answer is the set of its lines, and maxChars the number of *)
(* lines that fit.                                                         *)
(***************************************************************************)
EXTENDS Integers, Sequences, FiniteSets, SequencesExt, FiniteSetsExt

CONSTANTS
    Projects,       \* the expanded projects
    Queries,        \* the queries that are made
    None,
    Absolute,       \* names with which a written path starts at the root
    Outs, Ins,      \* names of connectors: out1, in1, ...
    SelectParms,    \* parameters that select another operator
    NameOrder,      \* the names in their sorting order
    Stems           \* pairs <<s, t>> of names such that t starts with s and "_"

Names == Range(NameOrder)

(***************************************************************************)
(* The lines of a file are tuples: the type, a word, a brace, the word     *)
(* that opens a block, or a pair of a number and a path.  A file that      *)
(* TouchDesigner wrote has its pairs in one block (the grammar parseExpand *)
(* observed), and an operator is in the directory of its parent.           *)
(***************************************************************************)
IsPair(line) == line[1] = "pair"
Opens(lines, s, word) == lines[s] = <<word>> /\ \A j \in 1 .. s - 1 : lines[j] # <<word>>

IsFile(lines, word) ==
    /\ lines \in Seq(Range(lines))
    /\ \A i \in {i \in DOMAIN lines : IsPair(lines[i])} :
        /\ lines[i] \in {"pair"} \X Nat \X (Seq(Names) \ {<<>>})
        /\ \E s \in 1 .. i - 1 :
            Opens(lines, s, word) /\ \A j \in s + 1 .. i : lines[j][1] \in {"{", "pair", "word"}

IsProject(t) ==
    /\ DOMAIN t \subseteq Seq(Names) /\ <<>> \in DOMAIN t
    /\ \A p \in DOMAIN t \ {<<>>} : Front(p) \in DOMAIN t /\ t[Front(p)].dir
    /\ \A p \in DOMAIN t : IsFile(t[p].n, "inputs") /\ IsFile(t[p].net, "compinputs")

IsQuery(q) ==
    /\ q # None /\ q.path \in Seq(Names) /\ (q.mode \in {"brief", "node"} => q.path # <<>>)
    /\ {q.depth, q.max, q.room, q.parms, q.radius} \subseteq Nat /\ q.relative \in Nat \cup {None}

ASSUME ProjectsAssumption == \A t \in Projects : IsProject(t)
ASSUME QueriesAssumption == None \notin Nat /\ \A q \in Queries : IsQuery(q)

VARIABLES fs, query, out

digestVars == <<fs, query, out>>

(***************************************************************************)
(* parseExpand.ts                                                          *)
(***************************************************************************)
\* The pairs of the first inputs block, which a brace closes.
NInputs(lines) ==
    LET In(i) == \E s \in 1 .. i - 1 : Opens(lines, s, "inputs") /\ \A j \in s .. i : lines[j][1] # "}"
    IN  {[index |-> lines[i][2], name |-> lines[i][3]] : i \in {i \in DOMAIN lines : IsPair(lines[i]) /\ In(i)}}

\* The pairs of the first compinputs block.  A line after a pair is its connector, even
\* if it is an "end"; an "end" elsewhere closes the block, and so does a brace.
CompInputs(lines) ==
    LET Closes(j) == lines[j][1] = "}" \/ (lines[j][1] = "end" /\ ~IsPair(lines[j - 1]))
        In(i) == \E s \in 1 .. i - 1 : Opens(lines, s, "compinputs") /\ \A j \in s + 1 .. i : ~Closes(j)
    IN  {[index |-> lines[i][2], from |-> lines[i][3]] : i \in {i \in DOMAIN lines : IsPair(lines[i]) /\ In(i)}}

\* The hint is the type on the first line: a family and the kind of operator.
Hint(lines) == IF lines # <<>> /\ lines[1][1] = "type" THEN Tail(lines[1]) ELSE <<"unknown">>

ParMode(prefix) ==
    CASE prefix = 0 -> "constant"
      [] prefix = 2 -> "export"
      [] prefix = 17 -> "expression"
      [] prefix = 67109443 -> "bind"
      [] OTHER -> "unknown"

\* A name is a sibling's; a path is the root's or starts where the owner is.
Sibling(owner, name) ==
    IF Len(name) > 1 /\ name[1] \in Absolute THEN name ELSE Front(owner) \o name

(***************************************************************************)
(* The walk that all the collectors share                                  *)
(***************************************************************************)
Nothing == [dir |-> FALSE, n |-> <<>>, net |-> <<>>, parm |-> <<>>, ext |-> <<>>, files |-> {}]

Op(p) == IF p \in DOMAIN fs THEN fs[p] ELSE Nothing
Ops == DOMAIN fs

\* resolveWalkMaxDepth: with a path, the depth counts from there.
WalkDepth(filter, max, relative) ==
    IF filter = <<>> THEN max
    ELSE Len(filter) + (IF relative # None THEN relative ELSE max)

Passes(p, filter) == IsPrefix(filter, p) \/ IsPrefix(p, filter)

\* A slip: a directory on the way to the filter is not entered.
WalkSlip(filter, depth) ==
    LET level[k \in 0 .. depth] ==
            IF k = 0 THEN {<<>>}
            ELSE LET above == level[k - 1] IN
                 {p \in Ops : /\ p # <<>> /\ Front(p) \in above
                              /\ Op(Front(p)).dir /\ (k > 1 => IsPrefix(filter, Front(p)))}
    IN  UNION {level[k] : k \in 1 .. depth}

\* What a walk of the expand directory meets, level by level down to the depth: what is in
\* the directories on the way to the filter and below it.
Walk(filter, depth) ==
    LET level[k \in 0 .. depth] ==
            IF k = 0 THEN {<<>>}
            ELSE LET above == level[k - 1] IN
                 {p \in Ops : p # <<>> /\ Front(p) \in above /\ Op(Front(p)).dir /\ Passes(Front(p), filter)}
    IN  UNION {level[k] : k \in 1 .. depth}

Scope(filter, depth) == {p \in Walk(filter, depth) : Passes(p, filter)}

(***************************************************************************)
(* wires.ts                                                                *)
(***************************************************************************)
OpEdge(p, i) == [kind |-> "op", to |-> p, from |-> i.name, index |-> i.index]
CompEdge(p, i) == [kind |-> "comp", to |-> p, from |-> i.from, index |-> i.index]

InEdges(p) == {OpEdge(p, i) : i \in NInputs(Op(p).n)} \cup {CompEdge(p, i) : i \in CompInputs(Op(p).net)}

Edges(filter, depth) == UNION {InEdges(p) : p \in Scope(filter, depth)}

\* Names of connectors at the end of a path do not belong to the node's path.
Without(p, names) == IF Len(p) > 1 /\ Last(p) \in names THEN Front(p) ELSE p
NodeOf(p) == Without(Without(p, Outs), Ins)

Source(e) == IF e.kind = "op" THEN Sibling(e.to, e.from) ELSE e.from
Ends(e) == {e.to, NodeOf(Source(e))}

\* The nodes that at most radius hops lead to from the seed.
Near(E, seed, radius) ==
    LET near[r \in 0 .. radius] ==
            IF r = 0 THEN {seed}
            ELSE LET known == near[r - 1]
                 IN  known \cup UNION {Ends(e) : e \in {e \in E : Ends(e) \cap known # {}}}
    IN  near[radius]

\* A slip: one hop less.
EgoSlip(E, seed, radius) ==
    LET near == Near(E, seed, IF radius = 0 THEN 0 ELSE radius - 1)
    IN  {e \in E : (Ends(e) \cup {Source(e)}) \cap near # {}}

Ego(E, seed, radius) ==
    LET near == Near(E, seed, radius)
    IN  {e \in E : (Ends(e) \cup {Source(e)}) \cap near # {}}

IsCompHub(p) == Op(p).n # <<>> /\ Op(p).dir

\* Rows of the hub and of its immediate children that refer to a path, as a
\* selection by their name, as an export or a binding by their mode.
RowEdges(hub) ==
    LET owners == {p \in Ops : p = hub \/ (p # <<>> /\ Front(p) = hub)}
        Referring(p) == {r \in Range(Op(p).parm) : Len(r.target) > 1}
        Edge(k, p, r) == [kind |-> k, to |-> p, from |-> Sibling(p, r.target), index |-> 0]
    IN  UNION {{Edge("select", p, r) : r \in {r \in Referring(p) : r.name \in SelectParms}}
               \cup {Edge(ParMode(r.prefix), p, r) :
                        r \in {r \in Referring(p) : ParMode(r.prefix) \in {"export", "bind"}}} : p \in owners}

HubWires(hub) ==
    LET Under(p) == IsPrefix(hub, p)
        Child(p) == Len(p) = Len(hub) + 1 /\ Under(p)
    IN  {e \in Edges(hub, Len(hub) + 8) :
            LET from == NodeOf(Source(e)) IN (Under(e.to) /\ Under(from)) \/ Child(e.to) \/ Child(from)}
        \cup RowEdges(hub)

\* A hub without wires of its own stands for its children.
WiresForSeed(E, seed, radius) ==
    LET ego == Ego(E, seed, radius)
    IN  IF ego # {} \/ ~IsCompHub(seed) THEN ego ELSE HubWires(seed)

NodesInEdges(E) == UNION {{e.to, IF e.kind = "comp" THEN NodeOf(e.from)
                                 ELSE IF e.kind = "op" THEN Source(e) ELSE e.from} : e \in E}

\* A slip: a path that ends in the name counts as well.
OutputsSlip(p) ==
    UNION {{[consumer |-> q, index |-> i.index] : i \in {i \in NInputs(Op(q).n) : Last(i.name) = Last(p)}} :
            q \in {q \in Ops : q # <<>> /\ q # p /\ Front(q) = Front(p)}}

\* Who, in the same directory, has this node's name among its inputs.
Outputs(p) ==
    UNION {{[consumer |-> q, index |-> i.index] : i \in {i \in NInputs(Op(q).n) : i.name = <<Last(p)>>}} :
            q \in {q \in Ops : q # <<>> /\ q # p /\ Front(q) = Front(p)}}

(***************************************************************************)
(* Outline, files, references and extensions                               *)
(***************************************************************************)
\* An operator with a directory is listed for its directory, and not for its .n too.
Outline(filter, depth) ==
    {[path |-> p, kind |-> IF Op(p).dir THEN "dir" ELSE "node", hint |-> Hint(Op(p).n)] :
        p \in {p \in Scope(filter, depth) : Op(p).dir \/ Op(p).n # <<>>}}

\* The files of what is strictly below the path: a node's own files are not listed.
ExpandFiles(filter, depth) ==
    UNION {{<<p, k>> : k \in Op(p).files} : p \in {p \in Walk(filter, depth) : IsStrictPrefix(filter, p)}}

NodeKinds == {"n", "parm", "cparm", "text", "network", "table"}

\* A node's own files, and all files of the siblings whose names continue its name.
Sidecars(p) ==
    {<<p, k>> : k \in Op(p).files \cap NodeKinds}
    \cup UNION {{<<q, k>> : k \in Op(q).files} :
                q \in {q \in Ops : q # <<>> /\ Front(q) = Front(p) /\ <<Last(p), Last(q)>> \in Stems}}

RefsOf(p, kinds) == {[path |-> p, row |-> r] : r \in {r \in Range(Op(p).parm) : r.ref \in kinds}}

\* The parameters that look like references, each once, with those of the path itself
\* even where the walk does not reach.
Refs(filter, depth, all) ==
    LET kinds == {"op", "path", "externaltox"} \cup (IF all THEN {"expr"} ELSE {})
        own == IF filter # <<>> THEN {filter} ELSE {}
    IN  UNION {RefsOf(p, kinds) : p \in Scope(filter, depth) \cup own}

\* The slots of a host: of each field the last row, and only those with an object.
Slots(p) ==
    LET rows == Op(p).ext
        At(slot, field) == {i \in DOMAIN rows : rows[i].slot = slot /\ rows[i].field = field}
        Field(slot, field) == IF At(slot, field) = {} THEN None ELSE rows[Max(At(slot, field))].value
    IN  {[slot |-> s, name |-> Field(s, "name"), object |-> Field(s, "object"), promote |-> Field(s, "promote")] :
            s \in {s \in {r.slot : r \in Range(rows)} : At(s, "object") # {}}}

Key(s) == <<s.slot, s.name, s.object>>

\* The same extension on several hosts is one group; hosts on the way to the path do
\* not count.
Groups(filter, depth) ==
    LET hosts == {p \in Walk(filter, depth) : IsPrefix(filter, p) /\ Slots(p) # {}}
        keys == UNION {{Key(s) : s \in Slots(p)} : p \in hosts}
    IN  {[key |-> k, hosts |-> {p \in hosts : \E s \in Slots(p) : Key(s) = k}] : k \in keys}

\* The text of a local extension lies beside the host or inside it.
SourceText(host, stem) ==
    LET at == <<Front(host) \o <<stem>>, host \o <<stem>>>>
        found == {i \in 1 .. 2 : at[i] \in Ops /\ "text" \in Op(at[i]).files}
    IN  IF found = {} THEN {} ELSE {at[Min(found)]}

(***************************************************************************)
(* Answers.  What is listed is cut after max entries, and what is a text    *)
(* after the lines for which there is room.                                *)
(***************************************************************************)
\* The first of the entries: which these are is up to the order of a directory, and of
\* the rows of a file.
Cut(S, max) ==
    LET one(T) == IF T = {} THEN {} ELSE {CHOOSE x \in T : TRUE}
        first[n \in 0 .. max] ==
            IF n = 0 THEN {} ELSE LET before == first[n - 1] IN before \cup one(S \ before)
    IN  IF Cardinality(S) > max THEN first[max] ELSE S

\* Sorted, they are in the order of their paths.
Rank(name) == CHOOSE i \in DOMAIN NameOrder : NameOrder[i] = name

Before(p, q) ==
    \/ IsStrictPrefix(p, q)
    \/ \E i \in 1 .. Min({Len(p), Len(q)}) :
        Rank(p[i]) < Rank(q[i]) /\ \A j \in 1 .. i - 1 : p[j] = q[j]

FirstOf(paths, max) == {p \in paths : Cardinality({q \in paths : Before(q, p)}) < max}

Omitted(n, max) == IF n > max THEN n - max ELSE 0

Answer(items, omitted, truncated) == [items |-> items, omitted |-> omitted, truncated |-> truncated]
Listed(S, max) == Answer(Cut(S, max), Omitted(Cardinality(S), max), Cardinality(S) > max)

\* A text that has no room for all of its lines is truncated, with nothing omitted.
Text(S, max, room) ==
    LET lines == IF room < max THEN room ELSE max
    IN  Answer(Cut(S, lines), Omitted(Cardinality(S), max), Cardinality(S) > lines)

AtLeast(m, n) == IF m > n THEN m ELSE n

\* Only the outline counts what has no room as omitted.
OutlineText(S, max, room) ==
    LET text == Text(S, max, room)
    IN  [text EXCEPT !.omitted = IF text.truncated THEN AtLeast(@, 1) ELSE @]

\* The seed's own wires lie in the directory it is in.
BriefWires(seed, depth, relative, radius) ==
    WiresForSeed(Edges(Front(seed), WalkDepth(Front(seed), depth, relative)), seed, radius)

\* Nodes beyond the limit and their files are dropped, but not counted as omitted.
Brief(q) ==
    LET E == BriefWires(q.path, AtLeast(q.depth, 6), q.relative, q.radius)
        text == Text(E, q.max, q.room)
        nodes == NodesInEdges(E) \cup {q.path}
        shown == FirstOf(nodes, q.max)
        files == Listed(UNION {Sidecars(p) : p \in shown}, q.max)
    IN  [nodes |-> shown, wires |-> text.items, files |-> files.items,
         omitted |-> text.omitted + files.omitted,
         truncated |-> text.truncated \/ files.truncated \/ Cardinality(nodes) > q.max]

\* The wires around a node are looked for below that node and on the way to it.
Wires(q) ==
    Text(IF q.path = <<>> THEN Edges(<<>>, q.depth)
         ELSE WiresForSeed(Edges(q.path, WalkDepth(q.path, AtLeast(q.depth, 8), q.relative)), q.path, q.radius),
         q.max, q.room)

Stats ==
    LET real == {p \in Ops : p # <<>>}
        typed == {p \in real : Op(p).n # <<>>}
        Family(p) == Head(Hint(Op(p).n))
    IN  [files |-> Cardinality(UNION {{<<p, k>> : k \in Op(p).files} : p \in real}),
         dirs |-> Cardinality({p \in real : Op(p).dir}),
         top |-> {p \in real : Len(p) = 1 /\ (Op(p).dir \/ Op(p).n # <<>>)},
         family |-> [f \in {Family(p) : p \in typed} |-> Cardinality({p \in typed : Family(p) = f})],
         ext |-> Cardinality(Groups(<<>>, 32))]

\* get_toe_node
Children(p) == IF IsCompHub(p) THEN {c \in Outline(p, Len(p) + 1) : IsStrictPrefix(p, c.path)} ELSE {}

Node(q) ==
    LET p == q.path
        text == Text(BriefWires(p, 8, None, 1), q.max, q.room)
    IN   [found |-> Op(p).n # <<>> \/ Op(p).parm # <<>>,
          hint |-> Hint(Op(p).n),
          inputs |-> {[from |-> Sibling(p, i.name), index |-> i.index] : i \in NInputs(Op(p).n)},
          compInputs |-> CompInputs(Op(p).net),
          outputs |-> Outputs(p),
          slots |-> {[key |-> Key(s), text |-> SourceText(p, s.object)] : s \in Slots(p)},
          children |-> Children(p),
          parms |-> SubSeq(Op(p).parm, 1, Min({q.parms, Len(Op(p).parm)})),
          files |-> Sidecars(p),
          wires |-> text.items,
          truncated |-> text.truncated \/ Len(Op(p).parm) > q.parms]

Digest(q) ==
    LET depth == WalkDepth(q.path, q.depth, q.relative) IN
    CASE q.mode = "stats" -> Stats
      [] q.mode = "outline" -> OutlineText(Outline(q.path, depth), q.max, q.room)
      [] q.mode = "files" -> Listed(ExpandFiles(q.path, depth), q.max)
      [] q.mode = "refs" -> Text(Refs(q.path, depth, q.all), q.max, q.room)
      [] q.mode = "extensions" -> Listed(Groups(q.path, depth), q.max)
      [] q.mode = "wires" -> Wires(q)
      [] q.mode = "brief" -> Brief(q)
      [] q.mode = "node" -> Node(q)

DigestInit == fs \in Projects /\ query = None /\ out = None

Ask(q) == query' = q /\ out' = Digest(q) /\ UNCHANGED fs

DigestNext == query = None /\ \E q \in Queries : Ask(q)

DigestSpec == DigestInit /\ [][DigestNext]_digestVars
------------------------------------------------------------------------------
\* The wires as they are written, one for each pair of a file.
Pairs(lines) == {l \in Range(lines) : IsPair(l)}
Written(p) ==
    {OpEdge(p, [name |-> l[3], index |-> l[2]]) : l \in Pairs(Op(p).n)}
    \cup {CompEdge(p, [from |-> l[3], index |-> l[2]]) : l \in Pairs(Op(p).net)}
Project == UNION {Written(p) : p \in Ops}

\* Chains of at most n wires that start at the seed, the nodes at their ends, and the
\* wires of those nodes.
Chains(E, seed, n) ==
    {c \in UNION {[1 .. k -> E] : k \in 1 .. n} :
        seed \in Ends(c[1]) /\ \A i \in 1 .. Len(c) - 1 : Ends(c[i]) \cap Ends(c[i + 1]) # {}}
Reached(E, seed, n) == {seed} \cup UNION {Ends(Last(c)) : c \in Chains(E, seed, n)}
Around(E, seed, n) == {e \in E : (Ends(e) \cup {Source(e)}) \cap Reached(E, seed, n) # {}}

\* The brief of a node that has wires shows the wires of the nodes that a chain of at most
\* radius wires leads to from it, and no other wire of the project: all of those in the
\* node's own directory, unless the depth leaves that directory out or the brief says that
\* it is truncated.
BriefIsEgo ==
    query # None /\ query.mode = "brief" /\ query.relative # 0 =>
        LET local == {e \in Project : \A p \in Ends(e) : p # <<>> /\ Front(p) = Front(query.path)}
            Shown(E) == Around(E, query.path, query.radius)
        IN  Shown(local) # {} =>
                /\ out.wires \subseteq Shown(Project)
                /\ ~out.truncated => Shown(local) \subseteq out.wires

\* An outline that is not cut has every operator within its depth exactly once, by its
\* directory or its .n, if the operator is below the path or on the way to it.
SeenOnce ==
    query # None /\ query.mode = "outline" /\ ~out.truncated =>
        \A p \in Ops \ {<<>>} :
            Cardinality({o \in out.items : o.path = p}) =
                IF /\ Len(p) <= WalkDepth(query.path, query.depth, query.relative)
                   /\ IsPrefix(p, query.path) \/ IsPrefix(query.path, p)
                   /\ Op(p).dir \/ Op(p).n # <<>>
                THEN 1 ELSE 0

\* What get_toe_node says of a node is what the files of the project say: its inputs are
\* those written in its file, its outputs the sibling inputs of its name, all of them are
\* among its wires unless the answer says that it is truncated, and each of its extensions
\* is in a group of the project's, which the walk for all groups leaves only below its depth.
NodeAgrees ==
    query # None /\ query.mode = "node" =>
        LET p == query.path IN
        /\ out.inputs = {[from |-> Sibling(p, l[3]), index |-> l[2]] : l \in Pairs(Op(p).n)}
        /\ \A q \in Ops \ {<<>>, p}, i \in 0 .. 9 :
            [consumer |-> q, index |-> i] \in out.outputs <=>
                Front(q) = Front(p) /\ <<"pair", i, <<Last(p)>>>> \in Pairs(Op(q).n)
        /\ ~out.truncated =>
            /\ Written(p) \subseteq out.wires
            /\ \A o \in out.outputs :
                \E e \in out.wires : e.to = o.consumer /\ Source(e) = p /\ e.index = o.index
        /\ Len(p) <= 32 =>
            \A s \in out.slots : \E g \in Groups(<<>>, 32) : g.key = s.key /\ p \in g.hosts
==============================================================================
