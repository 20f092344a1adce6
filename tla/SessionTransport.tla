-------------------------- MODULE SessionTransport --------------------------
(***************************************************************************)
(* The MCP server in HTTP mode: the sessions of several MCP clients.       *)
(* Source: transportRegistry.ts, sessionManager.ts, expressHttpManager.ts  *)
(* and the shutdown of cli.ts.  A session is kept twice: its transport in  *)
(* TransportRegistry.sessions (`registry`), its last access in             *)
(* SessionManager.sessions (`tracked`, `age`).  The transport itself is    *)
(* the MCP SDK's; its open response streams are `streams`.                 *)
(***************************************************************************)
EXTENDS Naturals

CONSTANTS
    Clients,    \* MCP clients
    Sessions,   \* session ids; a UUID is new, so a name is reused only when forgotten
    TtlTicks,   \* sessionConfig.ttl in cleanup intervals
    NoSession

ASSUME NoSessionAssumption == NoSession \notin Sessions
ASSUME TtlAssumption == TtlTicks \in Nat

VARIABLES
    phase,      \* of the HTTP server: up, stopping (server.close pending), down
    registry,   \* TransportRegistry.sessions
    tracked,    \* the keys of SessionManager.sessions
    age,        \* intervals since lastAccessedAt
    quiet,      \* history: intervals since the session's last request
    due,        \* the cleanup interval's callback has not run yet
    streams,    \* the open responses of a session: a tool call, the GET stream
    session,    \* the session id a client sends, from its initialize on
    request,    \* the request a client has in transit
    connected   \* clients whose connection outlives server.close()

vars == <<phase, registry, tracked, age, quiet, due, streams, session, request, connected>>

Kinds == {"initialize", "call", "get", "delete"}
Idle == "idle"

Init ==
    /\ phase = "up"
    /\ registry = {}
    /\ tracked = {}
    /\ age = [s \in Sessions |-> 0]
    /\ quiet = [s \in Sessions |-> 0]
    /\ due = FALSE
    /\ streams = [s \in Sessions |-> {}]
    /\ session = [c \in Clients |-> NoSession]
    /\ request = [c \in Clients |-> Idle]
    /\ connected = Clients

\* Nobody remembers s.
Fresh(s) ==
    /\ s \notin registry \union tracked
    /\ \A c \in Clients : session[c] # s

\* A slip: the transport is forgotten and not closed.
CloseLeavingStreams(S) ==
    /\ registry' = registry \ S
    /\ UNCHANGED streams

\* transport.close(): the SDK ends the open responses and calls onclose, which
\* takes the session out of the registry (and not out of the manager).
CloseTransports(S) ==
    /\ streams' = [s \in Sessions |-> IF s \in S THEN {} ELSE streams[s]]
    /\ registry' = registry \ S

-----------------------------------------------------------------------------
(* Requests.  getOrCreate and the SDK's part up to the open response await  *)
(* nothing but microtasks, so a request is handled in one step; its arrival *)
(* is one before.                                                           *)

Send(c) ==
    /\ c \in connected
    /\ request[c] = Idle
    /\ \E k \in Kinds :
        /\ k = "initialize" <=> session[c] = NoSession
        /\ request' = [request EXCEPT ![c] = k]
    /\ UNCHANGED <<phase, registry, tracked, age, quiet, due, streams, session, connected>>

\* A slip: the session is not registered with the manager.
InitializeUntracked(c) ==
    /\ request[c] = "initialize"
    /\ \E s \in Sessions :
        /\ Fresh(s)
        /\ registry' = registry \union {s}
        /\ session' = [session EXCEPT ![c] = s]
        /\ quiet' = [quiet EXCEPT ![s] = 0]
    /\ request' = [request EXCEPT ![c] = Idle]
    /\ UNCHANGED <<phase, tracked, age, due, streams, connected>>

\* Case 2 of getOrCreate, createSession and onsessioninitialized.
Initialize(c) ==
    /\ request[c] = "initialize"
    /\ \E s \in Sessions :
        /\ Fresh(s)
        /\ registry' = registry \union {s}
        /\ tracked' = tracked \union {s}
        /\ age' = [age EXCEPT ![s] = 0]
        /\ quiet' = [quiet EXCEPT ![s] = 0]
        /\ session' = [session EXCEPT ![c] = s]
    /\ request' = [request EXCEPT ![c] = Idle]
    /\ UNCHANGED <<phase, due, streams, connected>>

\* Case 3: the id is unknown, the answer is 400; the client starts over.
Refuse(c) ==
    /\ request[c] \notin {Idle, "initialize"}
    /\ session[c] \notin registry
    /\ session' = [session EXCEPT ![c] = NoSession]
    /\ request' = [request EXCEPT ![c] = Idle]
    /\ UNCHANGED <<phase, registry, tracked, age, quiet, due, streams, connected>>

\* A slip: the session is not touched.
ReuseUntouched(c) ==
    /\ request[c] \in {"call", "get"}
    /\ session[c] \in registry
    /\ quiet' = [quiet EXCEPT ![session[c]] = 0]
    /\ streams' = [streams EXCEPT ![session[c]] = @ \union {request[c]}]
    /\ request' = [request EXCEPT ![c] = Idle]
    /\ UNCHANGED <<phase, registry, tracked, age, due, session, connected>>

\* Case 1: touch() and the transport's answer begins.
Reuse(c) ==
    /\ request[c] \in {"call", "get"}
    /\ session[c] \in registry
    /\ age' = IF session[c] \in tracked THEN [age EXCEPT ![session[c]] = 0] ELSE age
    /\ quiet' = [quiet EXCEPT ![session[c]] = 0]
    /\ streams' = [streams EXCEPT ![session[c]] = @ \union {request[c]}]
    /\ request' = [request EXCEPT ![c] = Idle]
    /\ UNCHANGED <<phase, registry, tracked, due, session, connected>>

\* DELETE: onsessionclosed forgets the session in both maps, then the SDK
\* closes the transport.
Delete(c) ==
    /\ request[c] = "delete"
    /\ session[c] \in registry
    /\ CloseTransports({session[c]})
    /\ tracked' = tracked \ {session[c]}
    /\ session' = [session EXCEPT ![c] = NoSession]
    /\ request' = [request EXCEPT ![c] = Idle]
    /\ UNCHANGED <<phase, age, quiet, due, connected>>

Handle(c) == Initialize(c) \/ Refuse(c) \/ Reuse(c) \/ Delete(c)

\* A tool call is answered.  Answering is no access: nothing is touched.
Answer(s) ==
    /\ "call" \in streams[s]
    /\ streams' = [streams EXCEPT ![s] = @ \ {"call"}]
    /\ UNCHANGED <<phase, registry, tracked, age, quiet, due, session, request, connected>>

\* A client goes away without a DELETE: its connections close and, with them,
\* the responses it was reading.
Leave(c) ==
    /\ session[c] # NoSession
    /\ session' = [session EXCEPT ![c] = NoSession]
    /\ request' = [request EXCEPT ![c] = Idle]
    /\ streams' = [streams EXCEPT ![session[c]] = {}]
    /\ connected' = IF phase = "up" THEN connected ELSE connected \ {c}
    /\ UNCHANGED <<phase, registry, tracked, age, quiet, due>>

-----------------------------------------------------------------------------
(* The cleanup interval.                                                   *)

Expired == {s \in tracked : age[s] > TtlTicks}

Tick ==
    /\ phase = "up"
    /\ ~due
    /\ age' = [s \in Sessions |-> IF s \in tracked THEN age[s] + 1 ELSE age[s]]
    /\ quiet' = [s \in Sessions |-> IF s \in tracked THEN quiet[s] + 1 ELSE quiet[s]]
    /\ due' = TRUE
    /\ UNCHANGED <<phase, registry, tracked, streams, session, request, connected>>

\* runCleanupTask: the expiration handler closes the transport, if there is one,
\* and removes it; then the manager forgets the session.
RunCleanupTask ==
    /\ due
    /\ CloseTransports(Expired \intersect registry)
    /\ tracked' = tracked \ Expired
    /\ due' = FALSE
    /\ UNCHANGED <<phase, age, quiet, session, request, connected>>

-----------------------------------------------------------------------------
(* SIGINT or SIGTERM.                                                      *)

\* A request of c is in transit or a response to it is open.
Busy(c) == request[c] # Idle \/ (session[c] # NoSession /\ streams[session[c]] # {})

\* stopTTLCleanup, registry.cleanup, server.close: no new connections; one
\* that is idle is closed, one with a request in transit or a response just
\* ended stays for its next request.
Shutdown ==
    /\ phase = "up"
    /\ phase' = "stopping"
    /\ due' = FALSE
    /\ CloseTransports(registry)
    /\ connected' = {c \in Clients : Busy(c)}
    /\ UNCHANGED <<tracked, age, quiet, session, request>>

\* A connection that idles is closed after Node's keep-alive timeout.
KeepAliveEnds(c) ==
    /\ phase = "stopping"
    /\ c \in connected
    /\ ~Busy(c)
    /\ connected' = connected \ {c}
    /\ UNCHANGED <<phase, registry, tracked, age, quiet, due, streams, session, request>>

\* A slip: the process waits for the registry to empty.
ExitWhenForgotten ==
    /\ phase = "stopping"
    /\ connected = {}
    /\ registry = {}
    /\ phase' = "down"
    /\ UNCHANGED <<registry, tracked, age, quiet, due, streams, session, request, connected>>

\* server.close calls back when no connection is left, and the process exits.
Exit ==
    /\ phase = "stopping"
    /\ connected = {}
    /\ phase' = "down"
    /\ UNCHANGED <<registry, tracked, age, quiet, due, streams, session, request, connected>>

\* A second signal cleans up again; server.close is then an error, which stop
\* reports, and the process exits.
SecondSignal ==
    /\ phase = "stopping"
    /\ phase' = "down"
    /\ CloseTransports(registry)
    /\ connected' = {}
    /\ UNCHANGED <<tracked, age, quiet, due, session, request>>

-----------------------------------------------------------------------------
ClientNext == \E c \in Clients : Send(c) \/ Handle(c) \/ Leave(c)
ServerNext ==
    \/ Tick \/ RunCleanupTask \/ Shutdown \/ Exit \/ SecondSignal
    \/ \E s \in Sessions : Answer(s)

Next == ClientNext \/ ServerNext \/ \E c \in Clients : KeepAliveEnds(c)

Spec == Init /\ [][Next]_vars

\* The event loop handles what has arrived and runs its timers.
FairSpec ==
    /\ Spec
    /\ WF_vars(Tick)
    /\ WF_vars(RunCleanupTask)
    /\ WF_vars(Exit)
    /\ \A c \in Clients : WF_vars(Handle(c)) /\ WF_vars(KeepAliveEnds(c))

-----------------------------------------------------------------------------
\* Type invariant.
TypeOK ==
    /\ phase \in {"up", "stopping", "down"}
    /\ registry \subseteq Sessions
    /\ tracked \subseteq Sessions
    /\ age \in [Sessions -> 0..TtlTicks + 1]
    /\ quiet \in [Sessions -> Nat]
    /\ due \in BOOLEAN
    /\ streams \in [Sessions -> SUBSET {"call", "get"}]
    /\ session \in [Clients -> Sessions \union {NoSession}]
    /\ request \in [Clients -> Kinds \union {Idle}]
    /\ connected \subseteq Clients

\* While the server is up its two maps hold the same sessions: one that only
\* the registry knew would never expire, one that only the manager knew would
\* be counted though no request can reach it.
TrackedExactly == phase = "up" => registry = tracked

\* An open response belongs to a registered session, so that expiry, DELETE and
\* shutdown find and end it.
StreamsAreRegistered == \A s \in Sessions : streams[s] # {} => s \in registry

\* What makes the invariants above inductive: the callback is due only while
\* the server is up, a tracked session outlives the TTL only while it is due,
\* and a session's last access is its last request.
DueWhileUp == due => phase = "up"
AgesInTime == (phase = "up" /\ ~due) => \A s \in tracked : age[s] <= TtlTicks
QuietIsAge == \A s \in tracked : quiet[s] = age[s]

\* A session ends because its client deleted it, because no request of it came
\* for more than the TTL, or because the server stops; no other client's
\* request and no answer ends it.
EndsForAReason ==
    [][\A s \in registry \ registry' :
        \/ \E c \in Clients : session[c] = s /\ request[c] = "delete"
        \/ quiet[s] > TtlTicks
        \/ phase' # "up"]_vars

\* A session whose client left without a DELETE is forgotten, as long as the
\* server is up: registry, manager and streams hold nothing of it.
AbandonedExpires ==
    \A s \in Sessions :
        (s \in registry /\ \A c \in Clients : session[c] # s)
            ~> (phase # "up" \/ s \notin registry \union tracked)

\* The inductive invariant: the type invariant, the two maps, and the above.
SessionInv ==
    /\ TypeOK
    /\ TrackedExactly
    /\ StreamsAreRegistered
    /\ DueWhileUp
    /\ AgesInTime
    /\ QuietIsAge

\* A shutdown ends, also for sessions opened while it waits, once the clients
\* that are still connected send nothing more and hold no response open.
ShutdownEnds ==
    <>[](\A c \in Clients : request[c] = Idle /\ \A s \in Sessions : streams[s] = {})
        => ((phase = "stopping") ~> (phase = "down"))
=============================================================================
