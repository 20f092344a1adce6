---------------------------- MODULE MCToeDigest ----------------------------
(* A project with the operators a, a_1, b and the COMP c with x, wired and  *)
(* parameterised in different ways.                                         *)
EXTENDS ToeDigest, TLC

MCNameOrder == <<"a", "a_1", "b", "c", "in1", "missing", "out1", "project1", "x">>
MCStems == {<<"a", "a_1">>}

P == <<"project1">>
At(name) == P \o <<name>>
X == <<"project1", "c", "x">>
In1 == <<"project1", "c", "in1">>

Type(family, kind) == <<"type", family, kind>>
Pair(i, from) == <<"pair", i, from>>
Word(w) == <<"word", w>>

NFile(family, froms) ==
    <<Type(family, "any")>> \o (IF froms = <<>> THEN <<>>
                    ELSE <<<<"inputs">>, <<"{">>>> \o [i \in DOMAIN froms |-> Pair(i - 1, froms[i])] \o <<<<"}">>>>)
       \o <<<<"end">>>>

NetFile(froms) ==
    IF froms = <<>> THEN <<>>
    ELSE <<Word("1"), <<"compinputs">>, <<"{">>>>
            \o FlattenSeq([i \in DOMAIN froms |-> <<Pair(i - 1, froms[i]), Word("in1"), Word("TOP")>>])
            \o <<<<"}">>, <<"end">>>>

Plain(froms) ==
    [dir |-> FALSE, n |-> NFile("TOP", froms), net |-> <<>>, parm |-> <<>>, ext |-> <<>>,
     files |-> {"n", "text"}]

Comp(froms, parm, ext) ==
    [dir |-> TRUE, n |-> NFile("COMP", <<>>), net |-> NetFile(froms), parm |-> parm, ext |-> ext,
     files |-> {"n", "network", "parm"}]

Row(name, prefix, ref, target) == [name |-> name, prefix |-> prefix, ref |-> ref, target |-> target]
ExtRows == <<[slot |-> 0, field |-> "object", value |-> "x"], [slot |-> 0, field |-> "name", value |-> "E"],
             [slot |-> 1, field |-> "promote", value |-> "on"]>>

Root == [Plain(<<>>) EXCEPT !.dir = TRUE, !.n = <<>>, !.files = {}]

MCProjects ==
    {(<<>> :> Root) @@ (P :> Comp(<<>>, <<>>, pe)) @@ (At("a") :> [Plain(ai) EXCEPT !.ext = ExtRows])
        @@ (At("a_1") :> Plain(<<<<"b">>>>)) @@ (At("b") :> Plain(bi)) @@ (At("c") :> Comp(ci, cp, ExtRows))
        @@ (X :> Plain(xi)) @@ (In1 :> Plain(<<>>)) :
        pe \in {<<>>, ExtRows},
        ai \in {<<>>, <<<<"b">>>>},
        bi \in {<<>>, <<<<"a">>>>, <<<<"c", "out1">>, <<"c", "a">>>>, <<<<"b">>>>},
        ci \in {<<>>, <<At("a") \o <<"out1">>>>, <<At("b"), At("a")>>},
        cp \in {<<Row("top", 0, "path", At("a")), Row("t", 2, "op", <<"c", "x">>), Row("k", 17, "expr", <<>>)>>},
        xi \in {<<>>, <<At("b")>>, <<<<"in1">>>>}}

\* There is room for everything, ...
Plenty == 40

Q(mode, path, depth, radius) ==
    [mode |-> mode, path |-> path, depth |-> depth, relative |-> None, max |-> Plenty, room |-> Plenty,
     parms |-> Plenty, radius |-> radius, all |-> TRUE]

\* ... or not: nodes, lines and parameters are cut.
Cuts(q) == {[q EXCEPT !.max = 2], [q EXCEPT !.room = 1], [q EXCEPT !.parms = 1]}
AndCut(Qs) == Qs \cup UNION {Cuts(q) : q \in Qs}

Paths == {P, At("a"), At("b"), At("c"), X}

MCQueries ==
    {Q(m, p, d, 1) : m \in {"outline", "files", "refs", "extensions", "wires"}, p \in {<<>>} \cup Paths, d \in 1 .. 3}
    \cup AndCut({[Q("outline", At("c"), 3, 1) EXCEPT !.relative = 1]})
    \cup AndCut({Q(m, At("b"), 3, 1) : m \in {"files", "refs", "extensions", "wires"}})
    \cup {Q("brief", p, 3, r) : p \in Paths \cup {In1}, r \in 0 .. 2}
    \cup {[Q("brief", p, 3, 1) EXCEPT !.relative = n] : p \in Paths, n \in 0 .. 1}
    \cup AndCut({Q("node", p, 3, 1) : p \in Paths \cup {At("missing")}})
    \cup UNION {Cuts(Q("brief", p, 3, 1)) : p \in Paths}
    \cup {Q("stats", <<>>, 3, 1)}
============================================================================
