------------------------------ MODULE Lifecycle ------------------------------
(***************************************************************************)
(* The life of one owned project: create, start and stop as tool calls of  *)
(* an MCP server, the project's .tdmcp/state.json, the TouchDesigner       *)
(* processes (TDs) and what the hub knows of the project's target.         *)
(* Sources: core/lifecycle.ts, lifecycle/tdProcess.ts, tdTools.ts.         *)
(*                                                                         *)
(* Transport is the tunnel (HTTP is deprecated).  A call is a sequence of  *)
(* steps, one from an await to the next; calls are not serialized.         *)
(***************************************************************************)
EXTENDS Naturals, FiniteSets

CONSTANTS
    Calls,      \* concurrent tool calls
    Pids,       \* process ids, used once
    NoPid,
    NoFile      \* there is no state.json

ASSUME NoPidAssumption == NoPid \notin Pids /\ NoFile \notin Pids \union {NoPid}
ASSUME PidsAssumption == "none" \notin Pids /\ "blank" \notin Pids

VARIABLES
    pc,         \* the await a call is at
    mine,       \* start: the pid it spawned
    seen,       \* start: the TD whose connection passed the probe
    pid,        \* start: the pid it will write; stop: the one it read
    kind,       \* what a pid is: none yet, the project's TD that a start spawned
                \* or that a user opened, or the TD of a copy of the directory
    alive,      \* the processes that run
    file,       \* state.json: the pid in it, NoPid or NoFile
    expect,     \* the hub expects the target's nonce
    sock,       \* the process that connected the target's tunnel socket
    peer,       \* the hub's record of the target: none, blank or of a hello
    owned,      \* the registry of this server has the target
    past        \* history: whether starts and stops came one at a time, over one
                \* TD, and nothing else could hold the target's socket

call == <<pc, mine, seen, pid>>
proc == <<kind, alive>>
hub == <<expect, sock, peer>>
vars == <<call, proc, file, hub, owned, past>>

AtRest == {"idle", "ready"}     \* no call, or a start that has returned
Creating == {"enlist", "announce"}
Starting == {"ensure", "expect", "upsert", "look", "probe", "sleep", "final", "select"}
Stopping == {"quit", "reap", "remove", "sync"}

\* The TDs of the project that run, and those of them that a start spawned.
Tds == {p \in alive : kind[p] \in {"td", "user"}}
SpawnedTds == {p \in alive : kind[p] = "td"}

\* A start or a stop is in progress.
Busy(c) == pc[c] \in Starting \union Stopping

Init ==
    /\ pc = [c \in Calls |-> "idle"]
    /\ mine = [c \in Calls |-> NoPid]
    /\ seen = [c \in Calls |-> NoPid]
    /\ pid = [c \in Calls |-> NoPid]
    /\ kind = [p \in Pids |-> "none"] /\ alive = {}
    /\ file = NoFile
    /\ expect = FALSE /\ sock = NoPid /\ peer = "none"
    /\ owned = FALSE
    /\ past = "alone"

Goto(c, where) == pc' = [pc EXCEPT ![c] = where]

Orderly == past # "disorder"

\* Calls overlapped or two TDs of the project ran, or something else could hold
\* the target's socket.
Beside(disorder, stranger) ==
    past' = IF past = "disorder" \/ disorder THEN "disorder"
            ELSE IF stranger THEN "stranger" ELSE past

Launch(p, what) ==
    /\ kind[p] = "none"
    /\ kind' = [kind EXCEPT ![p] = what]
    /\ alive' = alive \union {p}

\* A call begins; that it does beside a start or a stop is worth remembering.
Begin(c, where) ==
    /\ pc[c] \in AtRest
    /\ Goto(c, where)
    /\ mine' = [mine EXCEPT ![c] = NoPid]
    /\ seen' = [seen EXCEPT ![c] = NoPid]
    /\ Beside(\E d \in Calls \ {c} : Busy(d), FALSE)

\* A call ends with an error, or has nothing more to say.
End(c) ==
    /\ Goto(c, "idle")
    /\ mine' = [mine EXCEPT ![c] = NoPid]
    /\ seen' = [seen EXCEPT ![c] = NoPid]
    /\ pid' = [pid EXCEPT ![c] = NoPid]

\* An awaited request fails: the hub is down or does not answer in time.
Fails(c) ==
    /\ pc[c] \in Creating \union {"ensure", "expect", "upsert", "final", "select", "sync"}
    /\ End(c)
    /\ UNCHANGED <<proc, file, hub, owned, past>>

-----------------------------------------------------------------------------
(* create_td_project, start_td_project                                     *)

\* The template is copied and the file written, if the directory was empty.
Create(c) ==
    /\ file = NoFile
    /\ Begin(c, "enlist")
    /\ file' = NoPid
    /\ UNCHANGED <<pid, proc, hub, owned>>

\* The project is there; the hub is looked for first.
Start(c) ==
    /\ file # NoFile
    /\ Begin(c, "ensure")
    /\ UNCHANGED <<pid, proc, file, hub, owned>>

\* A slip: the pid is written once the bridge is ready.
SpawnUnrecorded(c) ==
    /\ pc[c] = "ensure"
    /\ \E p \in Pids :
        /\ Launch(p, "td")
        /\ mine' = [mine EXCEPT ![c] = p]
        /\ pid' = [pid EXCEPT ![c] = p]
    /\ Beside(Tds # {}, sock # NoPid)
    /\ Goto(c, "expect")
    /\ UNCHANGED <<seen, file, hub, owned>>

\* TD is spawned and its pid written in one go.  A connection that is up
\* already is not this TD's.
Spawn(c) ==
    /\ pc[c] = "ensure"
    /\ \E p \in Pids :
        /\ Launch(p, "td")
        /\ mine' = [mine EXCEPT ![c] = p]
        /\ pid' = [pid EXCEPT ![c] = p]
        /\ file' = p
    /\ Beside(Tds # {}, sock # NoPid)
    /\ Goto(c, "expect")
    /\ UNCHANGED <<seen, hub, owned>>

\* POST /peers/expect: the record becomes a placeholder, the socket stays.
PostExpect == expect' = TRUE /\ peer' = "blank" /\ UNCHANGED sock

\* upsertOwnedAsync registers the placeholder, and syncs.
UpsertOwned == peer' = "blank" /\ owned' = TRUE /\ UNCHANGED <<expect, sock>>

Enlist(c) ==
    /\ pc[c] = "enlist"
    /\ UpsertOwned
    /\ Goto(c, "announce")
    /\ UNCHANGED <<mine, seen, pid, proc, file, past>>

Announce(c) ==
    /\ pc[c] = "announce"
    /\ PostExpect
    /\ End(c)
    /\ UNCHANGED <<proc, file, owned, past>>

Expect(c) ==
    /\ pc[c] = "expect"
    /\ PostExpect
    /\ Goto(c, "upsert")
    /\ UNCHANGED <<mine, seen, pid, proc, file, owned, past>>

Upsert(c) ==
    /\ pc[c] = "upsert"
    /\ UpsertOwned
    /\ Goto(c, "look")
    /\ UNCHANGED <<mine, seen, pid, proc, file, past>>

\* waitForBridgeWithDialogs looks for dialogs and dismisses them; a hard one
\* ends the start.
Look(c) ==
    /\ pc[c] = "look"
    /\ \/ Goto(c, "probe") /\ UNCHANGED <<mine, seen, pid>>
       \/ End(c)
    /\ UNCHANGED <<proc, file, hub, owned, past>>

\* A slip: a record of another folder counts as the project's.
ProbeAnyFolder(c) ==
    /\ pc[c] = "probe"
    /\ IF sock # NoPid /\ peer # "none"
       THEN /\ seen' = [seen EXCEPT ![c] = sock]
            /\ pid' = [pid EXCEPT ![c] = IF peer \in Pids THEN peer ELSE @]
            /\ Goto(c, "final")
       ELSE /\ Goto(c, "sleep")
            /\ UNCHANGED <<seen, pid>>
    /\ UNCHANGED <<mine, proc, file, hub, owned, past>>

\* A slip: a target that the hub lists counts as connected.
ProbeListed(c) ==
    /\ pc[c] = "probe"
    /\ IF peer # "none" /\ (peer \in Pids => kind[peer] # "copy")
       THEN /\ seen' = [seen EXCEPT ![c] = sock]
            /\ pid' = [pid EXCEPT ![c] = IF peer \in Pids THEN peer ELSE @]
            /\ Goto(c, "final")
       ELSE /\ Goto(c, "sleep")
            /\ UNCHANGED <<seen, pid>>
    /\ UNCHANGED <<mine, proc, file, hub, owned, past>>

\* probeTunnelReady: connected, and a record whose folder, if it names one, is
\* the project's.  A placeholder names neither folder nor pid.
Probe(c) ==
    /\ pc[c] = "probe"
    /\ IF sock # NoPid /\ peer # "none" /\ (peer \in Pids => kind[peer] # "copy")
       THEN /\ seen' = [seen EXCEPT ![c] = sock]
            /\ pid' = [pid EXCEPT ![c] = IF peer \in Pids THEN peer ELSE @]
            /\ Goto(c, "final")
       ELSE /\ Goto(c, "sleep")
            /\ UNCHANGED <<seen, pid>>
    /\ UNCHANGED <<mine, proc, file, hub, owned, past>>

\* A second passes.
Sleep(c) ==
    /\ pc[c] = "sleep"
    /\ Goto(c, "look")
    /\ UNCHANGED <<mine, seen, pid, proc, file, hub, owned, past>>

\* A slip: a start does not give up on a target that is connected.
TimesOutDetached(c) ==
    /\ pc[c] = "sleep" /\ sock = NoPid
    /\ End(c)
    /\ UNCHANGED <<proc, file, hub, owned, past>>

\* At the deadline the start gives up and leaves its TD running.
TimesOut(c) ==
    /\ pc[c] = "sleep"
    /\ End(c)
    /\ UNCHANGED <<proc, file, hub, owned, past>>

\* The last inspection is done, and the pid is written.
Final(c) ==
    /\ pc[c] = "final"
    /\ file' = pid[c]
    /\ Goto(c, "select")
    /\ UNCHANGED <<mine, seen, pid, proc, hub, owned, past>>

\* selectAsync syncs and refuses a target that is not listed.
Select(c) ==
    /\ pc[c] = "select"
    /\ owned' = (peer # "none")
    /\ IF peer # "none"
       THEN /\ Goto(c, "ready")
            /\ pid' = [pid EXCEPT ![c] = NoPid]
            /\ UNCHANGED <<mine, seen>>
       ELSE End(c)
    /\ UNCHANGED <<proc, file, hub, past>>

-----------------------------------------------------------------------------
(* stop_td_project                                                         *)

Stop(c) ==
    /\ owned
    /\ Begin(c, "quit")
    /\ pid' = [pid EXCEPT ![c] = file]
    /\ UNCHANGED <<proc, file, hub, owned>>

\* project.quit() reaches whoever has the tunnel, or nobody; any error is
\* caught.
Quit(c) ==
    /\ pc[c] = "quit"
    /\ alive' \in {alive, alive \ {sock}}
    /\ Goto(c, "reap")
    /\ UNCHANGED <<mine, seen, pid, kind, file, hub, owned, past>>

\* The registry forgets the target, and the file what the stop read in it,
\* whatever has been written since.
Forget(c) ==
    /\ file' = NoPid
    /\ owned' = FALSE
    /\ Goto(c, "remove")

\* A slip: a TD that outlives the wait is left alone.
ReapPatient(c) ==
    /\ pc[c] = "reap"
    /\ Forget(c)
    /\ UNCHANGED <<mine, seen, pid, proc, hub, past>>

\* The process is gone within 15 seconds, or is killed.
Reap(c) ==
    /\ pc[c] = "reap"
    /\ alive' = alive \ {pid[c]}
    /\ Forget(c)
    /\ UNCHANGED <<mine, seen, pid, kind, hub, past>>

\* DELETE /peers/:id, which detaches a connected peer; its failure is caught.
Remove(c) ==
    /\ pc[c] = "remove"
    /\ \/ peer' = "none" /\ sock' = NoPid
       \/ UNCHANGED <<peer, sock>>
    /\ Goto(c, "sync")
    /\ UNCHANGED <<mine, seen, pid, proc, file, expect, owned, past>>

SyncLast(c) ==
    /\ pc[c] = "sync"
    /\ owned' = (peer # "none")
    /\ End(c)
    /\ UNCHANGED <<proc, file, hub, past>>

-----------------------------------------------------------------------------
(* The TDs, the hub and the other tools.                                   *)

\* A user opens the project by hand, or a copy of its directory, whose
\* state.json has the same target and nonce.  Nothing records its pid.
Open(p, what) ==
    /\ file # NoFile
    /\ Launch(p, what)
    /\ Beside(what = "user" /\ Tds # {}, TRUE)
    /\ UNCHANGED <<call, file, hub, owned>>

Exit(p) ==
    /\ p \in alive
    /\ alive' = alive \ {p}
    /\ UNCHANGED <<call, kind, file, hub, owned, past>>

\* A TD says hello and takes the target's socket from whoever had it.
Connect(p) ==
    /\ p \in alive /\ expect
    /\ sock' = p /\ peer' = p
    /\ UNCHANGED <<call, proc, file, expect, owned, past>>

\* The hub learns that a socket is closed.
Close ==
    /\ sock # NoPid
    /\ sock' = NoPid
    /\ UNCHANGED <<call, proc, file, expect, peer, owned, past>>

\* A peer without a connection expires.
Sweep ==
    /\ sock = NoPid /\ peer # "none"
    /\ peer' = "none"
    /\ UNCHANGED <<call, proc, file, expect, sock, owned, past>>

\* An expect expires, or is lost in a restart of the hub, which closes the
\* sockets.
ExpectLost ==
    /\ expect
    /\ expect' = FALSE
    /\ UNCHANGED <<call, proc, file, sock, peer, owned, past>>

\* Another tool call syncs the registry.
Sync ==
    /\ owned' = (peer # "none")
    /\ UNCHANGED <<call, proc, file, hub, past>>

-----------------------------------------------------------------------------
Proceed(c) ==
    \/ Fails(c)
    \/ Enlist(c) \/ Announce(c) \/ Spawn(c) \/ Expect(c) \/ Upsert(c) \/ Look(c) \/ Probe(c) \/ Sleep(c)
    \/ Final(c) \/ Select(c)
    \/ Quit(c) \/ Reap(c) \/ Remove(c) \/ SyncLast(c)

Environment ==
    \/ \E p \in Pids : Open(p, "user") \/ Open(p, "copy") \/ Exit(p) \/ Connect(p)
    \/ Close \/ Sweep \/ ExpectLost \/ Sync

Next ==
    \/ \E c \in Calls : Create(c) \/ Start(c) \/ Stop(c) \/ Proceed(c) \/ TimesOut(c)
    \/ Environment

Spec == Init /\ [][Next]_vars

\* Requests are answered or time out, and the deadline of a start comes.
FairSpec ==
    /\ Spec
    /\ \A c \in Calls : WF_vars(Proceed(c)) /\ SF_vars(TimesOut(c))

-----------------------------------------------------------------------------
TypeOK ==
    /\ pc \in [Calls -> AtRest \union Creating \union Starting \union Stopping]
    /\ mine \in [Calls -> Pids \union {NoPid}]
    /\ seen \in [Calls -> Pids \union {NoPid}]
    /\ pid \in [Calls -> Pids \union {NoPid, NoFile}]
    /\ kind \in [Pids -> {"none", "td", "user", "copy"}]
    /\ alive \subseteq {p \in Pids : kind[p] # "none"}
    /\ file \in Pids \union {NoPid, NoFile}
    /\ expect \in BOOLEAN /\ owned \in BOOLEAN
    /\ sock \in Pids \union {NoPid}
    /\ peer \in {p \in Pids : kind[p] # "none"} \union {"none", "blank"}
    /\ past \in {"alone", "stranger", "disorder"}

\* A running TD that a start has spawned is the one state.json names, so that
\* the next stop finds it, also after starts that failed or timed out, copies
\* that took the socket and users who opened the project while no TD of it was
\* running; unless two TDs of the project ran at once or calls overlapped.
RunningIsRecorded == Orderly => \A p \in SpawnedTds : file = p

\* A stop that has killed leaves no TD that a start has spawned behind; one that
\* a user opened goes only if the quit reaches it.
StopEndsIt ==
    Orderly => \A c \in Calls : pc[c] \in {"remove", "sync"} => SpawnedTds = {}

\* The TD a start returns is the one it spawned, unless something else could
\* hold the target's socket: another TD, a copy, a connection not yet closed.
ReturnsItsTd ==
    past = "alone" => \A c \in Calls : pc[c] = "ready" => seen[c] = mine[c]

\* Whatever overlaps, state.json never names the TD of a copied directory, and
\* no start or stop works with its pid, so that no stop kills one: a copy has
\* the project's target and nonce, and takes its place at the hub.
OfTheProject(p) == p \in Pids => kind[p] \in {"td", "user"}
NamesNoCopy == OfTheProject(file) /\ \A c \in Calls : OfTheProject(pid[c])

\* What makes these inductive: one start or stop at a time, one TD at a time,
OneBusy ==
    Orderly => \A c, d \in Calls : Busy(c) /\ Busy(d) => c = d
OneTd == Orderly => \A p, q \in Tds : p = q

\* ... the file names the TD a start has spawned while that runs, or what a stop
\* has read, and the hub's record names no other, ...
Spawned == Starting \ {"ensure"}
Waiting == {"look", "probe", "sleep", "final", "select"}
WorksOnFile ==
    Orderly => \A c \in Calls :
        /\ pc[c] \in Spawned => mine[c] \in Pids /\ kind[mine[c]] = "td" /\ SpawnedTds \subseteq {mine[c]}
        /\ pc[c] \in Spawned /\ mine[c] \in alive => pid[c] = mine[c]
        /\ pc[c] \in {"quit", "reap"} => pid[c] = file
        /\ pc[c] \in Waiting /\ mine[c] \in alive /\ peer \in Pids /\ kind[peer] # "copy"
              => peer = mine[c]

\* ... and nobody else connects.
SeesItsTd ==
    past = "alone" =>
        /\ \A p \in Pids : kind[p] \in {"none", "td"}
        /\ \A c \in Calls :
            /\ pc[c] \in Spawned => sock \in {NoPid, mine[c]} /\ SpawnedTds \subseteq {mine[c]}
            /\ pc[c] \in {"final", "select", "ready"} => seen[c] = mine[c]

\* All of it, the inductive invariant: in an orderly life of a project the
\* file, the hub's record and the calls agree on the one TD that runs.
LifecycleInv ==
    /\ TypeOK
    /\ RunningIsRecorded
    /\ StopEndsIt
    /\ NamesNoCopy
    /\ OneBusy
    /\ OneTd
    /\ WorksOnFile
    /\ SeesItsTd

\* Every tool call ends, whoever connects, exits or restarts meanwhile.
EveryCallEnds == \A c \in Calls : []<>(pc[c] \in AtRest)
=============================================================================
