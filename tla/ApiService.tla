------------------------------ MODULE ApiService ------------------------------
(***************************************************************************)
(* The API inside TouchDesigner: a request of the web server DAT is        *)
(* normalized, routed by the OpenAPI schema, and served on TouchDesigner's *)
(* main thread, one at a time.  Sources: openapi_router.py,                *)
(* api_controller.py, api_service.py, node_layout.py and the template of   *)
(* the generated handlers.                                                 *)
(*                                                                         *)
(* A node stands for its path.  The service writes                         *)
(* "raise error_result(..)" in many places; a dict cannot be raised, so    *)
(* what reaches the handler is a TypeError, an error like any other.       *)
(***************************************************************************)
EXTENDS Integers, Sequences, FiniteSets

CONSTANTS
    Root,           \* the COMP in which the nodes live; it always exists
    Nodes,          \* the nodes that may be created
    NoNode,
    Types, Size,    \* operator types, and the <<width, height>> of a new node
    Comps,          \* the types that can have children
    Props, Kind,    \* property names, and what each is on a node: see Kinds
    Refuses(_, _),  \* TouchDesigner raises on this assignment (external)
    Bad,            \* the value with which a node is in error (external)
    Methods,        \* the methods that a node has (external)
    Wrap,           \* bound: scripts count modulo Wrap
    Cols, Gap, MaxCells,
    ClassNames,     \* names of TouchDesigner's Python classes
    Importable,     \* other names that help() finds
    Requests        \* the requests that arrive

\* A parameter, a parameter without val, a number or string of the node, some
\* other attribute of it, or nothing it has.
Kinds == {"par", "noVal", "attr", "object", "none"}

ASSUME KindAssumption == Kind \in [Props -> Kinds]
ASSUME GridAssumption == Cols \in Nat \ {0} /\ Gap \in Nat /\ MaxCells \in Nat

VARIABLES
    net,    \* the nodes: [parent, type, x, y, w, h, val], or NoNode
    last    \* the last request and its answer

apiVars == <<net, last>>

(***************************************************************************)
(* openapi_router.py: routes and arguments                                 *)
(***************************************************************************)
Route(m, p, op) == [method |-> m, pattern |-> p, op |-> op]

Param == "{className}"

Routes == <<
    Route("GET", <<"nodes">>, "get_nodes"),
    Route("POST", <<"nodes">>, "create_node"),
    Route("DELETE", <<"nodes">>, "delete_node"),
    Route("GET", <<"nodes", "detail">>, "get_node_detail"),
    Route("PATCH", <<"nodes", "detail">>, "update_node"),
    Route("GET", <<"nodes", "errors">>, "get_node_errors"),
    Route("GET", <<"td", "classes">>, "get_td_python_classes"),
    Route("GET", <<"td", "classes", Param>>, "get_td_python_class_details"),
    Route("GET", <<"td", "modules", "help">>, "get_module_help"),
    Route("POST", <<"td", "nodes", "exec">>, "exec_node_method"),
    Route("POST", <<"td", "server", "exec">>, "exec_python_script"),
    Route("GET", <<"td", "server", "td">>, "get_td_info") >>

HasParam(r) == \E i \in DOMAIN r.pattern : r.pattern[i] = Param

\* Segment by segment, a parameter taking any; the last one takes the whole tail.
Fits(r, path) ==
    LET n == Len(r.pattern) IN
    /\ n <= Len(path)
    /\ \A i \in 1 .. n : r.pattern[i] \in {Param, path[i]}

\* The first route with exactly this path, else the first that fits with its
\* parameter; the latter compares no more segments than the pattern has.
Matching(method, path) ==
    LET exact == {i \in DOMAIN Routes : Routes[i].method = method /\ Routes[i].pattern = path}
        fits == {i \in DOMAIN Routes :
                    Routes[i].method = method /\ HasParam(Routes[i]) /\ Fits(Routes[i], path)}
        First(S) == CHOOSE i \in S : \A j \in S : i <= j
    IN  IF exact # {} THEN {Routes[First(exact)]}
        ELSE IF fits # {} THEN {Routes[First(fits)]} ELSE {}

PathParams(r, path) ==
    IF HasParam(r) THEN [className |-> SubSeq(path, Len(r.pattern), Len(path))] ELSE <<>>

ReadsBody(req) == req.method \in {"POST", "PUT", "PATCH"}

\* The arguments of both, and f's where they have the same names.
Over(f, g) == [a \in DOMAIN f \cup DOMAIN g |-> IF a \in DOMAIN f THEN f[a] ELSE g[a]]

\* The body's names win over the query's, and those over the path's.
Args(r, req) ==
    LET body == IF ReadsBody(req) THEN req.body ELSE <<>>
    IN  Over(Over(body, req.query), PathParams(r, req.path))

Required(op) ==
    CASE op \in {"get_nodes"} -> {"parentPath"}
      [] op = "create_node" -> {"parentPath", "nodeType"}
      [] op \in {"delete_node", "get_node_detail", "get_node_errors"} -> {"nodePath"}
      [] op = "update_node" -> {"nodePath", "properties"}
      [] op = "exec_node_method" -> {"nodePath", "method", "args", "kwargs"}
      [] op = "exec_python_script" -> {"script"}
      [] op = "get_td_python_class_details" -> {"className"}
      [] op = "get_module_help" -> {"moduleName"}
      [] OTHER -> {}

(***************************************************************************)
(* node_layout.py                                                          *)
(***************************************************************************)
\* Boxes [x, y, w, h]; a distance of exactly the margin is clear.
Overlap(a, b, margin) ==
    /\ a.x < b.x + b.w + margin /\ b.x < a.x + a.w + margin
    /\ a.y < b.y + b.h + margin /\ b.y < a.y + a.h + margin

Cell(k, w, h) ==
    [x |-> (k % Cols) * (w + Gap), y |-> - ((k \div Cols) * (h + Gap)), w |-> w, h |-> h]

\* A slip: a cell is taken when it is not covered.
IsFreeSlip(k, w, h, boxes) == \A b \in boxes : ~Overlap(Cell(k, w, h), b, 0)

IsFree(k, w, h, boxes) == \A b \in boxes : ~Overlap(Cell(k, w, h), b, Gap)

\* first_free_cell raises when no cell within the bound is free.
FreeCell(w, h, boxes) ==
    IF \E k \in 0 .. MaxCells - 1 : IsFree(k, w, h, boxes)
    THEN {Cell(CHOOSE k \in 0 .. MaxCells - 1 :
                  IsFree(k, w, h, boxes) /\ \A j \in 0 .. k - 1 : ~IsFree(j, w, h, boxes), w, h)}
    ELSE {}

(***************************************************************************)
(* api_service.py                                                          *)
(***************************************************************************)
Exists(n) == n = Root \/ (n \in Nodes /\ net[n] # NoNode)
Children(c) == {n \in Nodes : net[n] # NoNode /\ net[n].parent = c}

\* Its children, their children, and so on.
Below(c) ==
    LET down[k \in 0 .. Cardinality(Nodes)] ==
            IF k = 0 THEN Children(c)
            ELSE LET above == down[k - 1] IN above \cup UNION {Children(n) : n \in above}
    IN  down[Cardinality(Nodes)]

Failure(category) == [ok |-> FALSE, category |-> category, data |-> <<>>]
\* Whatever the service raises or refuses is an error without a category, which
\* the controller reports as one of validation.
Refused == Failure("VALIDATION")
Success(data) == [ok |-> TRUE, category |-> "none", data |-> data]

Position == {"nodeX", "nodeY"}
Pars == Props \ Position
Settable(p, v) == Kind[p] \in {"par", "attr"} /\ ~Refuses(p, v)

\* The loop of update_node and create_node: each assignment is tried by itself.
Assign(node, props) ==
    LET set == {p \in DOMAIN props : Settable(p, props[p])} IN
    [node EXCEPT !.val = [p \in Pars |-> IF p \in set THEN props[p] ELSE node.val[p]],
                 !.x = IF "nodeX" \in set THEN props["nodeX"] ELSE node.x,
                 !.y = IF "nodeY" \in set THEN props["nodeY"] ELSE node.y]

Updated(props) == {p \in DOMAIN props : Settable(p, props[p])}

\* An answer and the project it leaves behind.
Outcome(answer, after) == [answer |-> answer, net |-> after]
Only(answer) == Outcome(answer, net)

GetNodes(a) ==
    IF ~Exists(a.parentPath) THEN Only(Refused)
    ELSE Only(Success(IF "pattern" \in DOMAIN a
                      THEN {n \in Below(a.parentPath) : n \in a.pattern}
                      ELSE Children(a.parentPath)))

NodeDetail(a) == Only(IF Exists(a.nodePath) THEN Success({a.nodePath}) ELSE Refused)

\* Every line of TouchDesigner's recursive errors() is an entry.
NodeErrors(a) ==
    IF ~Exists(a.nodePath) THEN Only(Refused)
    ELSE Only(Success({n \in Below(a.nodePath) \cup ({a.nodePath} \ {Root}) :
                           \E p \in Pars : net[n].val[p] = Bad}))

\* _align_new_node: the first cell clear of the siblings, unless the caller gave a
\* position; without a free cell the node stays where TouchDesigner put it.
Aligned(node, props) ==
    LET boxes == {net[c] : c \in Children(node.parent)} IN
    IF Position \cap DOMAIN props # {} THEN {node}
    ELSE LET cells == FreeCell(node.w, node.h, boxes)
         IN  IF cells = {} THEN {node}
             ELSE {[node EXCEPT !.x = c.x, !.y = c.y] : c \in cells}

New(parent, type) ==
    [parent |-> parent, type |-> type, x |-> 0, y |-> 0, w |-> Size[type][1], h |-> Size[type][2],
     val |-> [p \in Pars |-> 0]]

CanHold(c) == c = Root \/ (Exists(c) /\ net[c].type \in Comps)

Created(n, node) == Outcome(Success({n}), [net EXCEPT ![n] = node])

\* TouchDesigner names the node; a parent that is no COMP, or an unknown type, makes
\* create raise.  A parameter that cannot be set is only logged.
CreateNode(a) ==
    LET props == IF "parameters" \in DOMAIN a THEN a.parameters ELSE <<>>
        free == {n \in Nodes : net[n] = NoNode}
    IN  IF ~CanHold(a.parentPath) \/ a.nodeType \notin Types \/ free = {} THEN {Only(Refused)}
        ELSE {Created(n, node) : n \in free,
                               node \in Aligned(Assign(New(a.parentPath, a.nodeType), props), props)}

\* The project without a node and what is below it.
Without(n) == [m \in Nodes |-> IF m \in Below(n) \cup {n} THEN NoNode ELSE net[m]]

\* The root itself is not deleted or updated here (bound).
DeleteNode(a) ==
    IF a.nodePath = Root \/ ~Exists(a.nodePath) THEN Only(Refused)
    ELSE Outcome(Success({a.nodePath}), Without(a.nodePath))

\* A slip: the assignments stop at the first that fails.
UpdateNodeSlip(a) ==
    IF a.nodePath = Root \/ ~Exists(a.nodePath) THEN Only(Refused)
    ELSE LET after == [net EXCEPT ![a.nodePath] = Assign(@, a.properties)]
         IN  Outcome(IF Updated(a.properties) # DOMAIN a.properties THEN Refused
                     ELSE Success(Updated(a.properties)), after)

\* Fails when nothing could be set.
UpdateNode(a) ==
    IF a.nodePath = Root \/ ~Exists(a.nodePath) THEN Only(Refused)
    ELSE IF Updated(a.properties) = {} THEN Only(Refused)
    ELSE Outcome(Success(Updated(a.properties)),
                 [net EXCEPT ![a.nodePath] = Assign(@, a.properties)])

\* A line of a script, or a method, that adds to a parameter of a node.
Effect(n0, line) == [n0 EXCEPT ![line.node].val[line.prop] = (@ + line.value) % Wrap]

\* What a method of a node may leave: nothing touched, the node destroyed with its
\* subtree, or one of its parameters set.  None creates a node here (bound).
MethodLeaves(n) ==
    {net, Without(n)} \cup {Effect(net, [node |-> n, prop |-> p, value |-> 1]) :
                               p \in {q \in Pars : Kind[q] = "par"}}

\* Any method runs, and may raise, also after it changed the project; and so may the
\* processing of its result.
ExecMethod(a) ==
    IF a.nodePath = Root \/ ~Exists(a.nodePath) \/ a.method \notin Methods THEN {Only(Refused)}
    ELSE {Outcome(answer, after) : answer \in {Success({}), Refused}, after \in MethodLeaves(a.nodePath)}

(***************************************************************************)
(* Scripts: lines [kind, node, prop, value].  "expr" is an expression that *)
(* adds its value to a parameter, "stmt" a statement that does so,         *)
(* "skipped" such an expression in a branch that is not taken; "result"    *)
(* assigns result; "raise" raises.                                         *)
(***************************************************************************)
Raises(n0, line) ==
    line.kind = "raise" \/ (line.kind \in {"expr", "stmt"} /\ n0[line.node] = NoNode)

\* All lines up to the first that raises.
Executed(script) ==
    LET run[i \in 0 .. Len(script)] ==
            IF i = 0 THEN [net |-> net, raised |-> FALSE]
            ELSE LET before == run[i - 1]  line == script[i] IN
                 IF before.raised \/ Raises(before.net, line) THEN [before EXCEPT !.raised = TRUE]
                 ELSE IF line.kind \in {"expr", "stmt"} THEN [before EXCEPT !.net = Effect(@, line)]
                 ELSE before
    IN  run[Len(script)]

\* One line is tried as an expression first.  Otherwise the script is executed and,
\* if it left no result, its last line, without its indentation, is evaluated once
\* more for the value it has; what that raises is dropped.
ExecScript(a) ==
    LET s == a.script
        done == Executed(s)
        tail == s[Len(s)]
        again == /\ Len(s) > 1 /\ \A i \in DOMAIN s : s[i].kind # "result"
                 /\ tail.kind \in {"expr", "skipped"} /\ done.net[tail.node] # NoNode
    IN  IF done.raised THEN Outcome(Refused, done.net)
        ELSE Outcome(Success({}), IF again THEN Effect(done.net, tail) ELSE done.net)

ClassDetails(a) == Only(IF a.className \in {<<c>> : c \in ClassNames} THEN Success(a.className) ELSE Refused)

\* An attribute of td, also with dots, or else a module that can be imported.
ModuleHelp(a) == Only(IF a.moduleName \in ClassNames \cup Importable THEN Success(a.moduleName) ELSE Refused)

Service(op, a) ==
    CASE op = "get_nodes" -> {GetNodes(a)}
      [] op = "get_node_detail" -> {NodeDetail(a)}
      [] op = "get_node_errors" -> {NodeErrors(a)}
      [] op = "create_node" -> CreateNode(a)
      [] op = "delete_node" -> {DeleteNode(a)}
      [] op = "update_node" -> {UpdateNode(a)}
      [] op = "exec_node_method" -> ExecMethod(a)
      [] op = "exec_python_script" -> {ExecScript(a)}
      [] op = "get_td_python_class_details" -> {ClassDetails(a)}
      [] op = "get_module_help" -> {ModuleHelp(a)}
      [] op = "get_td_python_classes" -> {Only(Success(ClassNames))}
      [] op = "get_td_info" -> {Only(Success({}))}

\* A handler: an unreadable body or a missing argument never reaches the service.
Handler(r, req) ==
    IF (req.badJson /\ ReadsBody(req)) \/ ~(Required(r.op) \subseteq DOMAIN Args(r, req)) THEN {Only(Refused)}
    ELSE Service(r.op, Args(r, req))

Serve(req) ==
    IF req.method = "OPTIONS" THEN {Only(Success({}))}
    ELSE LET found == Matching(req.method, req.path)
         IN  IF found = {} THEN {Only(Failure("NOT_FOUND"))}
             ELSE UNION {Handler(r, req) : r \in found}

NoRequest == [method |-> "none", path |-> <<>>, query |-> <<>>, body |-> <<>>, badJson |-> FALSE]

ApiInit ==
    /\ net = [n \in Nodes |-> NoNode]
    /\ last = [req |-> NoRequest, answer |-> Success({})]

Request(req) ==
    \E o \in Serve(req) : net' = o.net /\ last' = [req |-> req, answer |-> o.answer]

ApiNext == \E req \in Requests : Request(req)

ApiSpec == ApiInit /\ [][ApiNext]_apiVars
------------------------------------------------------------------------------
\* What the caller asked for: arguments are read from the body and from the query.
Wanted(req) == Over(req.body, req.query)

\* A script is a list of lines.
ASSUME ScriptsAssumption ==
    \A req \in Requests : "script" \in DOMAIN Wanted(req) => Len(Wanted(req).script) \in Nat

\* A node created without a position is at least the gap away from each of its
\* siblings, wherever those were moved, unless each cell of the grid is too close to
\* one; no other node moves.
PlacedClear ==
    [][\A n \in Nodes : net[n] = NoNode /\ net'[n] # NoNode =>
        LET sibs == {m \in Nodes \ {n} : net'[m] # NoNode /\ net'[m].parent = net'[n].parent}
            asked == Wanted(last'.req)
            given == "parameters" \in DOMAIN asked /\ Position \cap DOMAIN asked.parameters # {}
            crowded == \A k \in 0 .. MaxCells - 1 :
                \E m \in sibs : Overlap(Cell(k, net'[n].w, net'[n].h), net'[m], Gap)
        IN  /\ given \/ crowded \/ \A m \in sibs : ~Overlap(net'[n], net'[m], Gap)
            /\ \A m \in Nodes \ {n} : net'[m] = net[m]]_apiVars

\* The answer tells what happened: after a refusal the project is as it was, unless a
\* script or a node's method failed half-way, and an update has set what it lists and
\* nothing else.
AnswerIsTrue ==
    [][LET asked == Wanted(last'.req)  answer == last'.answer IN
        /\ ~answer.ok => net' = net \/ {"script", "method"} \cap DOMAIN asked # {}
        /\ answer.ok /\ last'.req.method = "PATCH" =>
            LET n == asked.nodePath  props == asked.properties IN
            /\ \A m \in Nodes \ {n} : net'[m] = net[m]
            /\ \A p \in Pars : net'[n].val[p] = IF p \in answer.data THEN props[p] ELSE net[n].val[p]
            /\ answer.data \subseteq DOMAIN props]_apiVars

==============================================================================
