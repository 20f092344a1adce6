------------------------------ MODULE EnsureHub ------------------------------
(***************************************************************************)
(* Starting the hub (hub/ensureHub.ts, hub.ts, td/.../tdmcp_hub.py).       *)
(* Node processes (MCP servers, the CLI) and TouchDesigner processes each  *)
(* look for a hub and start one if none answers: the former under a lock   *)
(* file, the latter without.  Callers are processes of their own, so every *)
(* access to the lock file and every health check is a step.               *)
(*                                                                         *)
(* A hub process restores its snapshot, then listens; if the port is taken *)
(* it exits and has changed nothing.                                       *)
(***************************************************************************)
EXTENDS FiniteSets

CONSTANTS Node, Td,   \* callers: ensureHub, and ensure_hub in TD
          Hub         \* bound: hub processes alive at a time

ASSUME CallerAssumption == Node \cap Td = {}

Caller == Node \cup Td

VARIABLES
    built,    \* dist/hub.js exists
    lock,     \* the lock file exists
    hub,      \* of each hub process: "none", "starting" or "serving"
    pc,       \* where a caller is
    answer,   \* what its health check returned: "none" until it has
    spawned   \* its local variable of that name

startVars == <<built, lock, hub, pc, answer, spawned>>

Checking == {"first", "poll", "locked", "last", "wait"}
Ended == {"running", "spawned", "failed"}

StartTypeOK ==
    /\ built \in BOOLEAN /\ lock \in BOOLEAN
    /\ hub \in [Hub -> {"none", "starting", "serving"}]
    /\ pc \in [Caller -> {"idle", "release", "again", "sleep", "dead", "killed"} \cup Checking \cup Ended]
    /\ answer \in [Caller -> {"none", "up", "down"}]
    /\ spawned \in [Caller -> BOOLEAN]

Serving == {h \in Hub : hub[h] = "serving"}

StartInit ==
    /\ built \in BOOLEAN /\ lock = FALSE
    /\ hub = [h \in Hub |-> "none"]
    /\ pc = [c \in Caller |-> "idle"]
    /\ answer = [c \in Caller |-> "none"]
    /\ spawned = [c \in Caller |-> FALSE]

Goto(c, l) ==
    /\ pc' = [pc EXCEPT ![c] = l]
    /\ answer' = [answer EXCEPT ![c] = "none"]

-----------------------------------------------------------------------------
(* Health checks.                                                          *)

Healthy(c) ==
    /\ pc[c] \in Checking /\ answer[c] = "none"
    /\ answer' = [answer EXCEPT ![c] = IF Serving = {} THEN "down" ELSE "up"]
    /\ UNCHANGED <<built, lock, hub, pc, spawned>>

\* The check gives up after 800 ms although a hub is there.
CheckTimesOut(c) ==
    /\ pc[c] \in Checking /\ answer[c] = "none" /\ Serving # {}
    /\ answer' = [answer EXCEPT ![c] = "down"]
    /\ UNCHANGED <<built, lock, hub, pc, spawned>>

-----------------------------------------------------------------------------
(* ensureHub.                                                              *)

\* A process calls, or is started after an earlier one has gone.
Call(c) ==
    /\ pc[c] \in {"idle", "dead", "killed"} \cup Ended
    /\ Goto(c, "first")
    /\ spawned' = [spawned EXCEPT ![c] = FALSE]
    /\ UNCHANGED <<built, lock, hub>>

Found(c) ==
    /\ answer[c] = "up" /\ pc[c] \in {"first", "poll", "last"}
    /\ Goto(c, IF spawned[c] THEN "spawned" ELSE "running")
    /\ UNCHANGED <<built, lock, hub, spawned>>

NotFound(c) ==
    /\ c \in Node /\ answer[c] = "down" /\ pc[c] \in {"first", "last"}
    /\ Goto(c, IF pc[c] = "first" THEN "poll" ELSE "failed")
    /\ UNCHANGED <<built, lock, hub, spawned>>

\* tryAcquireLock.
Acquire(c) ==
    /\ pc[c] = "poll" /\ answer[c] = "down" /\ ~ lock
    /\ lock' = TRUE
    /\ Goto(c, "locked")
    /\ UNCHANGED <<built, hub, spawned>>

Holding(c) == pc[c] \in {"locked", "release"}

Stale == lock /\ \A c \in Node : ~ Holding(c)

\* A slip: the finally block also runs when the lock was not acquired.
RefusedUnlinking(c) ==
    /\ pc[c] = "poll" /\ answer[c] = "down" /\ lock
    /\ lock' = FALSE
    /\ Goto(c, IF Stale THEN "sleep" ELSE "again")
    /\ UNCHANGED <<built, hub, spawned>>

\* The lock file is there: wait.
Refused(c) ==
    /\ pc[c] = "poll" /\ answer[c] = "down" /\ lock
    /\ Goto(c, IF Stale THEN "sleep" ELSE "again")
    /\ UNCHANGED <<built, lock, hub, spawned>>

\* A slip: returning from inside the lock leaves the file behind.
FoundLocking(c) ==
    /\ pc[c] = "locked" /\ answer[c] = "up"
    /\ Goto(c, "running")
    /\ spawned' = [spawned EXCEPT ![c] = FALSE]
    /\ UNCHANGED <<built, lock, hub>>

\* The second look finds a hub.  The result says that this caller spawned none.
FoundLocked(c) ==
    /\ pc[c] = "locked" /\ answer[c] = "up"
    /\ lock' = FALSE
    /\ Goto(c, "running")
    /\ spawned' = [spawned EXCEPT ![c] = FALSE]
    /\ UNCHANGED <<built, hub>>

\* resolveHubJs throws: dist/hub.js is missing.
NotBuilt(c) ==
    /\ pc[c] = "locked" /\ answer[c] = "down" /\ ~ built
    /\ lock' = FALSE
    /\ Goto(c, "failed")
    /\ UNCHANGED <<built, hub, spawned>>

Launch == \E h \in Hub : hub[h] = "none" /\ hub' = [hub EXCEPT ![h] = "starting"]

\* spawnHub.
Spawn(c) ==
    /\ pc[c] = "locked" /\ answer[c] = "down" /\ built
    /\ Launch
    /\ Goto(c, "release")
    /\ spawned' = [spawned EXCEPT ![c] = TRUE]
    /\ UNCHANGED <<built, lock>>

\* releaseLock: right after the spawn, before the hub answers.
Release(c) ==
    /\ pc[c] = "release"
    /\ lock' = FALSE
    /\ Goto(c, "sleep")
    /\ UNCHANGED <<built, hub, spawned>>

\* After 200 ms.  A live holder needs one check and a spawn, less than any
\* deadline (8 s and more): who met one ("again") looks at least once more.
Again(c) ==
    /\ pc[c] \in {"again", "sleep"}
    /\ Goto(c, "poll")
    /\ UNCHANGED <<built, lock, hub, spawned>>

Deadline(c) ==
    /\ pc[c] = "sleep"
    /\ Goto(c, "last")
    /\ UNCHANGED <<built, lock, hub, spawned>>

-----------------------------------------------------------------------------
(* ensure_hub, in TouchDesigner.                                           *)

\* With a Hubdir it spawns a hub and waits for it, 15 s at most.
TdSpawns(c) ==
    /\ c \in Td /\ pc[c] = "first" /\ answer[c] = "down"
    /\ \/ built /\ Launch /\ Goto(c, "wait") /\ spawned' = [spawned EXCEPT ![c] = TRUE]
       \/ Goto(c, "failed") /\ UNCHANGED <<hub, spawned>>
    /\ UNCHANGED <<built, lock>>

TdWaits(c) ==
    /\ pc[c] = "wait" /\ answer[c] # "none"
    /\ \/ answer[c] = "up" /\ Goto(c, "spawned")
       \/ answer[c] = "down" /\ Goto(c, "wait")
       \/ answer[c] = "down" /\ Goto(c, "failed")
    /\ UNCHANGED <<built, lock, hub, spawned>>

-----------------------------------------------------------------------------
(* Processes.                                                              *)

\* A slip: a hub that cannot listen stays.
ListenStaying(h) ==
    /\ hub[h] = "starting" /\ Serving = {}
    /\ hub' = [hub EXCEPT ![h] = "serving"]
    /\ UNCHANGED <<built, lock, pc, answer, spawned>>

\* main: the first to listen serves, the others exit.
Listen(h) ==
    /\ hub[h] = "starting"
    /\ hub' = [hub EXCEPT ![h] = IF Serving = {} THEN "serving" ELSE "none"]
    /\ UNCHANGED <<built, lock, pc, answer, spawned>>

HubDies(h) ==
    /\ hub[h] = "serving"
    /\ hub' = [hub EXCEPT ![h] = "none"]
    /\ UNCHANGED <<built, lock, pc, answer, spawned>>

\* A caller is killed; the lock file stays.
CallerDies(c) ==
    /\ pc[c] \notin {"idle", "dead", "killed"}
    /\ Goto(c, IF Holding(c) THEN "killed" ELSE "dead")
    /\ UNCHANGED <<built, lock, hub, spawned>>

CallerStep(c) ==
    \/ Healthy(c) \/ Found(c) \/ NotFound(c)
    \/ Acquire(c) \/ Refused(c) \/ FoundLocked(c) \/ Spawn(c) \/ Release(c) \/ Again(c) \/ NotBuilt(c)
    \/ TdSpawns(c) \/ TdWaits(c)

StartNext ==
    \/ \E c \in Caller : \/ Call(c) \/ CheckTimesOut(c) \/ CallerStep(c)
                         \/ Deadline(c) \/ CallerDies(c)
    \/ \E h \in Hub : Listen(h) \/ HubDies(h)

StartSpec == StartInit /\ [][StartNext]_startVars

\* Processes run and clocks pass deadlines; a hub that is started gets to listen.
StartFairness ==
    /\ \A c \in Caller : WF_startVars(CallerStep(c)) /\ SF_startVars(Deadline(c))
    /\ \A h \in Hub : WF_startVars(Listen(h))

StartFairSpec == StartSpec /\ StartFairness

-----------------------------------------------------------------------------
\* The lock file admits one caller at a time to the second look and the spawn,
\* and it is there as long as one is inside (tryAcquireLock, releaseLock).
OneHolder ==
    /\ \A c \in Caller : Holding(c) => lock
    /\ \A c, d \in Caller : Holding(c) /\ Holding(d) => c = d

\* ensureHub's promise: unless a holder is killed or the hub is not built, a hub
\* serves at some time after the call, whoever starts it (or the caller dies).  If a
\* killed holder's lock file stays for good, calls do not hang: each finds a hub or
\* fails at its deadline.
HubComesUp ==
    /\ (built /\ [](\A c \in Node : pc[c] # "killed"))
       => \A c \in Node : pc[c] = "first" /\ answer[c] = "none" ~> (Serving # {} \/ pc[c] = "dead")
    /\ <>[]Stale => \A c \in Node : []<>(pc[c] \in {"idle", "dead", "killed"} \cup Ended)

\* Once a hub stays and answers in time, no more are started for ever.
HubsSettle ==
    (<>[](Serving # {}) /\ \A c \in Caller : (<>[][~ CheckTimesOut(c)]_startVars))
    => <>[](\A h \in Hub : hub[h] # "starting")
=============================================================================
