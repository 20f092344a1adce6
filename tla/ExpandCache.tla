----------------------------- MODULE ExpandCache -----------------------------
(***************************************************************************)
(* One entry of the cache of expanded .toe files, which all MCP servers of *)
(* a machine share.  Source: expandCache.ts.  Callers of ensureExpandedToe *)
(* in one process share a promise (`inflight`), those of different         *)
(* processes a lock file.  toeexpand is a child process that fills the     *)
(* entry's directory; it runs on when its parent is killed.                *)
(*                                                                         *)
(* Code between two awaits is a step of one process; it is split where     *)
(* another process can get between two accesses to the lock file, and      *)
(* where a refresh removes the entry file by file.                         *)
(***************************************************************************)
EXTENDS Naturals, FiniteSets

CONSTANTS
    Callers,    \* concurrent calls of ensureExpandedToe for this entry
    Processes,  \* MCP servers
    Runs,       \* the process a call is made in
    Refreshing, \* the calls that may ask for a refresh
    NoCaller

ASSUME RunsAssumption == Runs \in [Callers -> Processes]
ASSUME RefreshingAssumption == Refreshing \subseteq Callers
ASSUME NoCallerAssumption == NoCaller \notin Callers

VARIABLES
    pc,         \* where a call is
    refresh,    \* its `refresh` option
    inflight,   \* inflightExpands of a process: the call that made the promise
    shared,     \* the call whose promise a call awaits
    late,       \* the calls whose time to wait for the lock is over
    lock,       \* the lock file: the call that created it
    written,    \* it holds its creator's pid and time
    old,        \* that time is more than timeoutMs ago
    dir,        \* the expansion: none, partial or whole
    toc,        \* the .toc file exists
    meta,       \* tdmcp-expand.json exists
    tools,      \* the calls whose toeexpand runs
    left,       \* what the rmSync of a refresh has listed and not yet removed
    stolen,     \* history: a lock was removed whose creator or its tool was at work
    harm        \* history: what may be wrong with what is there of the entry

locks == <<lock, written, old>>
files == <<dir, toc, meta>>
history == <<stolen, harm>>
vars == <<pc, refresh, inflight, shared, late, locks, files, tools, left, history>>

Waiting == {"open", "inspect", "reclaim", "again", "sleep"}  \* acquireExpandLock
OnFiles == {"clearing", "copying", "expanding", "closed"}    \* expandToeUnlocked
Holding == {"write", "locked"} \union OnFiles  \* has created the lock file
Ended == {"returned", "failed"}
InBlock == {"open", "write", "inspect", "reclaim", "again", "clearing", "copying"}  \* synchronous code
Parts == {"lock", "dir", "toc", "meta"}

Init ==
    /\ pc = [c \in Callers |-> "idle"]
    /\ refresh = [c \in Callers |-> FALSE]
    /\ inflight = [p \in Processes |-> NoCaller]
    /\ shared = [c \in Callers |-> NoCaller]
    /\ late = {}
    /\ lock = NoCaller /\ written = FALSE /\ old = FALSE
    /\ dir = "none" /\ toc = FALSE /\ meta = FALSE
    /\ tools = {}
    /\ left = [c \in Callers |-> {}]
    /\ stolen = FALSE /\ harm = "none"

\* A slip: a directory passes for an expansion.
IsCacheStarted == dir # "none"

\* isCacheComplete
IsCacheComplete == dir # "none" /\ toc /\ meta

\* No other call of c's process is in the middle of synchronous code.
Turn(c) == \A d \in Callers \ {c} : Runs[d] = Runs[c] => pc[d] \notin InBlock

Goto(c, where) == pc' = [pc EXCEPT ![c] = where]

\* c has the lock, or its tool outlives it ...
AtWork(c) == pc[c] \in Holding \/ c \in tools

\* ... or works on the entry's files.
Expanding(c) == pc[c] \in OnFiles \/ c \in tools

\* unlinkSync(lockPath), whoever's file it is by now.
Unlink ==
    /\ lock' = NoCaller /\ written' = FALSE /\ old' = FALSE

-----------------------------------------------------------------------------
(* ensureExpandedToe up to the lock.                                       *)

Call(c) ==
    /\ pc[c] \in {"idle"} \union Ended
    /\ Goto(c, "hashing")
    /\ \E r \in BOOLEAN : /\ r => c \in Refreshing
                          /\ refresh' = [refresh EXCEPT ![c] = r]
    /\ UNCHANGED <<inflight, shared, late, locks, files, tools, left, history>>

\* The hash is there: the cached entry, or the promise of a call in flight, or
\* a promise of its own, which a refresh makes in any case.
Hit(c) ==
    /\ pc[c] = "hashing" /\ Turn(c)
    /\ ~refresh[c] /\ IsCacheComplete
    /\ Goto(c, "returned")
    /\ UNCHANGED <<refresh, inflight, shared, late, locks, files, tools, left, history>>

Share(c) ==
    /\ pc[c] = "hashing" /\ Turn(c)
    /\ ~refresh[c] /\ ~IsCacheComplete
    /\ inflight[Runs[c]] # NoCaller
    /\ shared' = [shared EXCEPT ![c] = inflight[Runs[c]]]
    /\ Goto(c, "await")
    /\ UNCHANGED <<refresh, inflight, late, locks, files, tools, left, history>>

Start(c) ==
    /\ pc[c] = "hashing" /\ Turn(c)
    /\ \/ refresh[c]
       \/ ~IsCacheComplete /\ inflight[Runs[c]] = NoCaller
    /\ inflight' = [inflight EXCEPT ![Runs[c]] = c]
    /\ Goto(c, "open")
    /\ UNCHANGED <<refresh, shared, late, locks, files, tools, left, history>>

-----------------------------------------------------------------------------
(* acquireExpandLock                                                       *)

\* openSync(lockPath, "wx"): the file is there, and empty, before it is written.
Open(c) ==
    /\ pc[c] = "open" \/ (pc[c] = "again" /\ c \notin late)
    /\ \/ /\ lock = NoCaller
          /\ lock' = c
          /\ late' = late \ {c}
          /\ Goto(c, "write")
       \/ /\ lock # NoCaller
          /\ Goto(c, "inspect")
          /\ UNCHANGED <<lock, late>>
    /\ UNCHANGED <<refresh, inflight, shared, written, old, files, tools, left, history>>

\* A file unlinked meanwhile is written to no effect.
Write(c) ==
    /\ pc[c] = "write"
    /\ written' = (lock = c \/ written)
    /\ Goto(c, "locked")
    /\ UNCHANGED <<refresh, inflight, shared, late, lock, old, files, tools, left, history>>

\* A slip: a file that does not parse is taken for a young one.
InspectParsed(c) ==
    /\ pc[c] = "inspect"
    /\ Goto(c, IF lock # NoCaller /\ old THEN "reclaim" ELSE "sleep")
    /\ UNCHANGED <<refresh, inflight, shared, late, locks, files, tools, left, history>>

\* tryReclaimStaleLock reads the file: it is stale, does not parse, or is gone.
Inspect(c) ==
    /\ pc[c] = "inspect"
    /\ Goto(c, IF lock # NoCaller /\ (old \/ ~written) THEN "reclaim" ELSE "sleep")
    /\ UNCHANGED <<refresh, inflight, shared, late, locks, files, tools, left, history>>

\* ... and unlinks what is there by then.
Reclaim(c) ==
    /\ pc[c] = "reclaim"
    /\ Unlink
    /\ Goto(c, IF lock = NoCaller THEN "sleep" ELSE "again")
    /\ stolen' = (stolen \/ (lock # NoCaller /\ AtWork(lock)))
    /\ UNCHANGED <<refresh, inflight, shared, late, files, tools, left, harm>>

Wake(c) ==
    /\ pc[c] = "sleep" /\ Turn(c) /\ c \notin late
    /\ Goto(c, "open")
    /\ UNCHANGED <<refresh, inflight, shared, late, locks, files, tools, left, history>>

\* timeoutMs have passed since c began to wait.
Expire(c) ==
    /\ pc[c] \in Waiting /\ c \notin late
    /\ late' = late \union {c}
    /\ UNCHANGED <<pc, refresh, inflight, shared, locks, files, tools, left, history>>

\* The lock's time passes, whether its creator lives or not.
LockAges ==
    /\ written /\ ~old
    /\ old' = TRUE
    /\ UNCHANGED <<pc, refresh, inflight, shared, late, lock, written, files, tools, left, history>>

-----------------------------------------------------------------------------
(* expandToeUnlocked and what ensureExpandedToe does after it.             *)

\* The promise of c settles: whoever awaits it goes on, and the process
\* forgets the promise in flight (its own or a later one).
Settle(c, how) ==
    /\ pc' = [d \in Callers |-> IF d = c \/ (pc[d] = "await" /\ shared[d] = c) THEN how ELSE pc[d]]
    /\ shared' = [d \in Callers |-> IF shared[d] = c THEN NoCaller ELSE shared[d]]
    /\ inflight' = [inflight EXCEPT ![Runs[c]] = NoCaller]
    /\ refresh' = [refresh EXCEPT ![c] = FALSE]
    /\ late' = late \ {c}

\* The finally blocks: the lock file is unlinked, its own or another's.
Release(c, how) ==
    /\ Settle(c, how)
    /\ Unlink
    /\ stolen' = (stolen \/ (lock \notin {NoCaller, c} /\ AtWork(lock)))

\* Somebody else has filled the entry while c waited.
Filled(c) ==
    /\ pc[c] = "locked" /\ Turn(c)
    /\ ~refresh[c] /\ IsCacheComplete
    /\ Release(c, "returned")
    /\ UNCHANGED <<files, tools, left, harm>>

\* What there is in the entry's directory.
Present == {x \in Parts : CASE x = "lock" -> lock # NoCaller
                           [] x = "dir"  -> dir # "none"
                           [] x = "toc"  -> toc
                           [] x = "meta" -> meta}

\* What may be wrong with the entry: two calls were at work on it at once, which is
\* never forgotten, or it is spoilt: a removal of it has begun, or a tool gave up
\* over the .toc of an earlier one, and no whole expansion was made since.
Becomes(how) == harm' = IF harm = "overlap" THEN harm ELSE how

\* c goes to work on the entry.  A refresh removes all of it first: rmSync
\* lists the directory ...
Begin(c) ==
    /\ pc[c] = "locked" /\ Turn(c)
    /\ \/ /\ refresh[c]
          /\ left' = [left EXCEPT ![c] = Present]
          /\ Goto(c, "clearing")
       \/ /\ ~refresh[c] /\ ~IsCacheComplete
          /\ Goto(c, "copying")
          /\ UNCHANGED left
    /\ Becomes(IF \E d \in Callers \ {c} : Expanding(d) THEN "overlap"
               ELSE IF refresh[c] THEN "spoilt" ELSE harm)
    /\ UNCHANGED <<refresh, inflight, shared, late, locks, files, tools, stolen>>

\* ... and removes what it has listed one by one: its own lock, or whose it is
\* by now, and the files of the expansion one after the other.
Remove(c) ==
    /\ pc[c] = "clearing"
    /\ \E x \in left[c] :
        /\ left' = [left EXCEPT ![c] = IF x = "dir" /\ dir = "whole" THEN @ ELSE @ \ {x}]
        /\ IF x = "lock"
           THEN Unlink /\ stolen' = (stolen \/ (lock # NoCaller /\ AtWork(lock)))
           ELSE UNCHANGED <<locks, stolen>>
        /\ dir' = IF x # "dir" THEN dir ELSE IF dir = "whole" THEN "partial" ELSE "none"
        /\ toc' = (toc /\ x # "toc")
        /\ meta' = (meta /\ x # "meta")
    /\ UNCHANGED <<pc, refresh, inflight, shared, late, tools, harm>>

\* The directory itself goes, if nothing has appeared in it meanwhile.
Cleared(c) ==
    /\ pc[c] = "clearing" /\ left[c] = {} /\ Present = {}
    /\ Becomes("none")
    /\ Goto(c, "copying")
    /\ UNCHANGED <<refresh, inflight, shared, late, locks, files, tools, left, stolen>>

\* rmSync throws, since the directory is not empty or a file in it is in use; or
\* the copy fails, or there is no toeexpand to run.
NotSpawned(c) ==
    /\ pc[c] \in {"clearing", "copying"}
    /\ left' = [left EXCEPT ![c] = {}]
    /\ Release(c, "failed")
    /\ UNCHANGED <<files, tools, harm>>

\* The toe has been copied: toeexpand begins to fill the directory.
Spawn(c) ==
    /\ pc[c] = "copying"
    /\ dir' = "partial"
    /\ tools' = tools \union {c}
    /\ Goto(c, "expanding")
    /\ UNCHANGED <<refresh, inflight, shared, late, locks, toc, meta, left, history>>

\* toeexpand writes the .toc last.  What it wrote is whole, unless another was at
\* work on the entry.  Its parent may be dead.
ToolEnds(c) ==
    /\ c \in tools
    /\ tools' = tools \ {c}
    /\ dir' = IF harm = "overlap" THEN "partial" ELSE "whole"
    /\ toc' = TRUE
    /\ Becomes("none")
    /\ pc' = IF pc[c] = "expanding" THEN [pc EXCEPT ![c] = "closed"] ELSE pc
    /\ UNCHANGED <<refresh, inflight, shared, late, locks, meta, left, stolen>>

\* It exits early.  The code looks at the files, not at the exit code.
ToolFails(c) ==
    /\ c \in tools
    /\ tools' = tools \ {c}
    /\ Becomes(IF toc THEN "spoilt" ELSE harm)
    /\ pc' = IF pc[c] = "expanding" THEN [pc EXCEPT ![c] = "closed"] ELSE pc
    /\ UNCHANGED <<refresh, inflight, shared, late, locks, files, left, stolen>>

\* Its timer kills it.
ToolTimesOut(c) ==
    /\ pc[c] = "expanding" /\ Turn(c)
    /\ tools' = tools \ {c}
    /\ Release(c, "failed")
    /\ UNCHANGED <<files, left, harm>>

\* The directory and the .toc exist: the entry is declared complete.
Expanded(c) ==
    /\ pc[c] = "closed" /\ Turn(c)
    /\ dir # "none" /\ toc
    /\ meta' = TRUE
    /\ Release(c, "returned")
    /\ UNCHANGED <<dir, toc, tools, left, harm>>

\* A slip: the error leaves the lock behind.
NotExpandedLocked(c) ==
    /\ pc[c] = "closed" /\ Turn(c)
    /\ ~(dir # "none" /\ toc)
    /\ Settle(c, "failed")
    /\ UNCHANGED <<locks, files, tools, left, history>>

NotExpanded(c) ==
    /\ pc[c] = "closed" /\ Turn(c)
    /\ ~(dir # "none" /\ toc)
    /\ Release(c, "failed")
    /\ UNCHANGED <<files, tools, left, harm>>

\* A slip: the deadline is not looked at after a lock was reclaimed.
GiveUpAsleep(c) ==
    /\ pc[c] = "sleep" /\ Turn(c) /\ c \in late
    /\ Settle(c, "failed")
    /\ UNCHANGED <<locks, files, tools, left, history>>

\* ... and the deadline is looked at before each attempt but the first.
GiveUp(c) ==
    /\ pc[c] \in {"sleep", "again"} /\ Turn(c) /\ c \in late
    /\ Settle(c, "failed")
    /\ UNCHANGED <<locks, files, tools, left, history>>

\* A process is killed.  Its lock file stays, and so do its tools.
Kill(p) ==
    /\ \E c \in Callers : Runs[c] = p /\ pc[c] # "killed"
    /\ pc' = [c \in Callers |-> IF Runs[c] = p THEN "killed" ELSE pc[c]]
    /\ shared' = [c \in Callers |-> IF Runs[c] = p THEN NoCaller ELSE shared[c]]
    /\ inflight' = [inflight EXCEPT ![p] = NoCaller]
    /\ left' = [c \in Callers |-> IF Runs[c] = p THEN {} ELSE left[c]]
    /\ late' = {c \in late : Runs[c] # p}
    /\ refresh' = [c \in Callers |-> Runs[c] # p /\ refresh[c]]
    /\ UNCHANGED <<locks, files, tools, history>>

-----------------------------------------------------------------------------
Proceed(c) ==
    \/ Hit(c) \/ Share(c) \/ Start(c)
    \/ Open(c) \/ Write(c) \/ Inspect(c) \/ Reclaim(c) \/ Wake(c)
    \/ Filled(c) \/ Begin(c) \/ Remove(c) \/ Cleared(c) \/ NotSpawned(c)
    \/ Spawn(c) \/ Expanded(c) \/ NotExpanded(c) \/ GiveUp(c)

Tool(c) == ToolEnds(c) \/ ToolFails(c) \/ ToolTimesOut(c)

Next ==
    \/ \E c \in Callers : Call(c) \/ Proceed(c) \/ Tool(c) \/ Expire(c)
    \/ \E p \in Processes : Kill(p)
    \/ LockAges

Spec == Init /\ [][Next]_vars

\* Processes run, a tool ends or is killed by its timer, time passes for the
\* lock, and a wait that is never granted times out.
FairSpec ==
    /\ Spec
    /\ WF_vars(LockAges)
    /\ \A c \in Callers : /\ SF_vars(Proceed(c))
                          /\ WF_vars(Tool(c))
                          /\ WF_vars(Expire(c))

-----------------------------------------------------------------------------
TypeOK ==
    /\ pc \in [Callers -> {"idle", "hashing", "await", "killed"} \union Waiting \union Holding \union Ended]
    /\ refresh \in [Callers -> BOOLEAN]
    /\ inflight \in [Processes -> Callers \union {NoCaller}]
    /\ shared \in [Callers -> Callers \union {NoCaller}]
    /\ lock \in Callers \union {NoCaller}
    /\ dir \in {"none", "partial", "whole"}
    /\ {written, old, toc, meta, stolen} \subseteq BOOLEAN
    /\ harm \in {"none", "spoilt", "overlap"}
    /\ late \subseteq Callers
    /\ tools \subseteq Callers
    /\ left \in [Callers -> SUBSET Parts]

\* A lock file on disk is that of a call that is inside or of a process that
\* was killed: no path out of the lock leaves its file behind.
LockIsOwned == lock # NoCaller => pc[lock] \in Holding \union {"killed"}

\* The promise in flight is one that will settle, so who awaits it gets an
\* answer; a failed one is forgotten and the next call tries again.
InflightRuns ==
    /\ \A p \in Processes : inflight[p] # NoCaller =>
            Runs[inflight[p]] = p /\ pc[inflight[p]] \in Waiting \union Holding
    /\ \A c \in Callers : pc[c] = "await" =>
            Runs[shared[c]] = Runs[c] /\ pc[shared[c]] \in Waiting \union Holding

\* Two calls work on one entry at once (remove it, or run toeexpand) only if a
\* lock file was removed under its creator: by a refresh, as stale, or while it
\* was still empty.
OverlapOnlyIfStolen == harm = "overlap" => stolen

\* What makes that inductive: as long as no lock was stolen, whoever is at work
\* on the entry, or has a tool that is, owns the lock file.
WorkIsLocked == ~stolen => \A c \in Callers : AtWork(c) => lock = c
ToolsHaveCallers == \A c \in tools : pc[c] \in {"expanding", "killed"}
AwaitIsShared == \A c \in Callers : pc[c] = "await" => shared[c] # NoCaller

CacheInv ==
    /\ TypeOK
    /\ LockIsOwned
    /\ InflightRuns
    /\ OverlapOnlyIfStolen
    /\ WorkIsLocked
    /\ ToolsHaveCallers
    /\ AwaitIsShared

\* What a call returns is a whole expansion, unless two calls were at work on
\* the entry at once, a tool gave up over an earlier one's .toc, or a refresh in
\* another process is removing the entry, or failed or died over it: a reader
\* takes no lock, and the .toc and meta may be the last to go.
ReturnsWhole ==
    [][\A c \in Callers : pc[c] \notin Ended /\ pc'[c] = "returned" =>
            dir' = "whole" \/ harm' # "none"]_vars

\* No call hangs, whatever happens to the others: again and again it has not
\* begun, has returned or failed, or its process is dead.
EveryCallEnds == \A c \in Callers : []<>(pc[c] \in Ended \union {"idle", "killed"})

DeadLock == lock # NoCaller /\ pc[lock] = "killed"

\* The lock file of a dead process goes, if calls keep asking for the lock.
DeadLocksGo ==
    ([]<>\E c \in Callers : pc[c] = "inspect") => ([]<>~DeadLock)

=============================================================================
