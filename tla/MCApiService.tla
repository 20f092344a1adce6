---------------------------- MODULE MCApiService ----------------------------
(* Three nodes, all COMPs, of two shapes; a grid of two columns.            *)
EXTENDS ApiService, TLC

CONSTANTS n1, n2, n3

MCNodes == {n1, n2, n3}
Symmetry == Permutations(MCNodes)
\* What is left of a request is its answer, which only the step properties look at.
View == net

MCTypes == {"wide", "tall"}
MCSize == [wide |-> <<3, 1>>, tall |-> <<1, 2>>]
MCKind == [nodeX |-> "attr", tx |-> "par", parent |-> "object", fetch |-> "none"]
MCRefuses(p, v) == v = 9

Plain(method, path) == [NoRequest EXCEPT !.method = method, !.path = path]
WithBody(method, path, body) == [Plain(method, path) EXCEPT !.body = body]
WithQuery(method, path, query) == [Plain(method, path) EXCEPT !.query = query]

Places == MCNodes \cup {Root}

Creates ==
    {WithBody("POST", <<"nodes">>, b) : b \in
        [parentPath : Places, nodeType : MCTypes \cup {"unknown"}]
        \cup [parentPath : {Root}, nodeType : {"wide"}, parameters : {[nodeX |-> 3], [tx |-> 1, parent |-> 1]}]}

Updates ==
    {WithBody("PATCH", <<"nodes", "detail">>, [nodePath |-> n, properties |-> p]) :
        n \in MCNodes, p \in {[nodeX |-> 3], [tx |-> 1], [fetch |-> 1, tx |-> 0], [nodeX |-> 5, tx |-> 9],
                               [parent |-> 1]}}

Deletes == {WithQuery("DELETE", <<"nodes">>, [nodePath |-> n]) : n \in MCNodes}

Reads ==
    {WithQuery("GET", p, [nodePath |-> n]) : n \in Places,
        p \in {<<"nodes", "detail">>, <<"nodes", "errors">>, <<"nodes", "errors", "all">>}}
    \cup {WithQuery("GET", <<"nodes">>, q) : q \in [parentPath : Places] \cup [parentPath : Places, pattern : {MCNodes}]}

Calls ==
    {WithBody("POST", <<"td", "nodes", "exec">>, [nodePath |-> n, method |-> m, args |-> <<>>, kwargs |-> <<>>]) :
        n \in MCNodes, m \in {"cook", "fly"}}

Line(kind, n) == [kind |-> kind, node |-> n, prop |-> "tx", value |-> 1]
MCScripts ==
    UNION {{<<Line("expr", n)>>, <<Line("expr", n), Line("expr", m)>>, <<Line("stmt", m), Line("raise", m)>>,
            <<Line("stmt", n), Line("skipped", m)>>, <<Line("result", n), Line("expr", m)>>} :
           n \in MCNodes, m \in MCNodes}

Scripts == {WithBody("POST", <<"td", "server", "exec">>, [script |-> s]) : s \in MCScripts}

Others ==
    {WithQuery("GET", <<"td", "modules", "help">>, [moduleName |-> n]) : n \in {"OP", "math", "nothing"}}
    \cup {Plain("GET", <<"td">> \o p) : p \in {<<>>, <<"server", "td">>, <<"classes">>, <<"classes", "OP">>,
                                               <<"classes", "OP", "x">>, <<"server">>}}
    \cup {Plain("POST", <<"nodes">>), Plain("OPTIONS", <<>>), Plain("PUT", <<"nodes">>),
          [Plain("POST", <<"nodes">>) EXCEPT !.badJson = TRUE]}

MCRequests == Creates \cup Updates \cup Deletes \cup Reads \cup Calls \cup Scripts \cup Others
==============================================================================
