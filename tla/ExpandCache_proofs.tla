-------------------------- MODULE ExpandCache_proofs --------------------------
(***************************************************************************)
(* The lock file and the shared promise of the expansion cache, for any    *)
(* number of calls and processes: neither is left behind by a call that    *)
(* has ended, and expansions overlap only after a lock was stolen.         *)
(***************************************************************************)
EXTENDS ExpandCache, TLAPS

USE DEF Waiting, OnFiles, Holding, Ended, AtWork, Expanding, Becomes, locks, files, history

\* Before the first call there is no promise, lock or tool.
LEMMA CacheStartsConsistent == Init => CacheInv
BY NoCallerAssumption
   DEF Init, CacheInv, TypeOK, LockIsOwned, InflightRuns, OverlapOnlyIfStolen,
       WorkIsLocked, ToolsHaveCallers, AwaitIsShared

(***************************************************************************)
(* The parts of the invariant by what they speak of: the promises, and the *)
(* lock with those who work under it.                                      *)
(***************************************************************************)
Promises == InflightRuns /\ AwaitIsShared
LockInv == LockIsOwned /\ OverlapOnlyIfStolen /\ WorkIsLocked /\ ToolsHaveCallers

\* The invariant by the variables that steps change together.
LEMMA CacheParts == CacheInv <=> TypeOK /\ Promises /\ LockInv
BY DEF CacheInv, Promises, LockInv

\* A call goes from one place to another that is neither an end nor a wait for
\* a promise, and touches no promise.
Moves(c) ==
    /\ \E where \in Waiting \union Holding : Goto(c, where)
    /\ pc[c] \in Waiting \union Holding
    /\ UNCHANGED <<inflight, shared>>

\* A call that goes on without settling its promise keeps the map of promises.
LEMMA MovesKeepPromises ==
    ASSUME TypeOK, Promises, NEW c \in Callers, Moves(c)
    PROVE  Promises'
BY RunsAssumption, NoCallerAssumption
   DEF Moves, Goto, TypeOK, Promises, InflightRuns, AwaitIsShared

\* A settled promise leaves nobody waiting for it and no trace in the map.
LEMMA SettleKeepsPromises ==
    ASSUME TypeOK, Promises, NEW c \in Callers, pc[c] \in Waiting \union Holding,
           NEW how \in Ended, Settle(c, how)
    PROVE  Promises'
<1> USE RunsAssumption, NoCallerAssumption
<1>1. \A d \in Callers : pc'[d] = IF d = c \/ (pc[d] = "await" /\ shared[d] = c) THEN how ELSE pc[d]
  BY DEF Settle
<1>2. \A d \in Callers : shared'[d] = IF shared[d] = c THEN NoCaller ELSE shared[d]
  BY DEF Settle
<1>3. \A p \in Processes : inflight'[p] = IF p = Runs[c] THEN NoCaller ELSE inflight[p]
  BY DEF Settle, TypeOK
<1>4. \A d \in Callers : pc'[d] = "await" => pc[d] = "await" /\ shared[d] # c /\ shared'[d] = shared[d]
  BY <1>1, <1>2
<1>5. \A d \in Callers : pc[d] \in Waiting \union Holding /\ d # c => pc'[d] = pc[d]
  BY <1>1
<1>6. AwaitIsShared'
  BY <1>4 DEF Promises, AwaitIsShared
<1>7. InflightRuns'
  <2>1. ASSUME NEW p \in Processes, inflight'[p] # NoCaller
        PROVE  Runs[inflight'[p]] = p /\ pc'[inflight'[p]] \in Waiting \union Holding
    <3>1. inflight'[p] = inflight[p] /\ p # Runs[c]
      BY <1>3, <2>1
    <3>2. /\ inflight[p] \in Callers
          /\ Runs[inflight[p]] = p
          /\ pc[inflight[p]] \in Waiting \union Holding
      BY <2>1, <3>1 DEF Promises, InflightRuns, TypeOK
    <3> QED BY <1>5, <3>1, <3>2
  <2>2. ASSUME NEW d \in Callers, pc'[d] = "await"
        PROVE  Runs[shared'[d]] = Runs[d] /\ pc'[shared'[d]] \in Waiting \union Holding
    <3>1. /\ pc[d] = "await"
          /\ shared[d] # c
          /\ shared'[d] = shared[d]
      BY <1>4, <2>2
    <3>2. /\ shared[d] \in Callers
          /\ Runs[shared[d]] = Runs[d]
          /\ pc[shared[d]] \in Waiting \union Holding
      BY <3>1 DEF Promises, InflightRuns, AwaitIsShared, TypeOK
    <3> QED BY <1>5, <3>1, <3>2
  <2> QED BY <2>1, <2>2 DEF InflightRuns
<1> QED BY <1>6, <1>7 DEF Promises

\* A call outside the lock begins, ends early, or waits for its process's
\* promise or becomes it.
LEMMA EntryKeepsPromises ==
    ASSUME TypeOK, Promises, NEW c \in Callers,
           Call(c) \/ Hit(c) \/ Share(c) \/ Start(c)
    PROVE  Promises'
<1> USE RunsAssumption, NoCallerAssumption
<1>1. CASE Call(c) \/ Hit(c)
  <2>1. /\ pc[c] \notin Waiting \union Holding
        /\ \E where \in {"hashing", "returned"} : pc' = [pc EXCEPT ![c] = where]
        /\ UNCHANGED <<inflight, shared>>
    BY <1>1 DEF Call, Hit, Goto
  <2> QED BY <2>1 DEF TypeOK, Promises, InflightRuns, AwaitIsShared
<1>2. CASE Share(c)
  <2>1. /\ pc' = [pc EXCEPT ![c] = "await"]
        /\ shared' = [shared EXCEPT ![c] = inflight[Runs[c]]]
        /\ pc[c] = "hashing" /\ inflight' = inflight /\ inflight[Runs[c]] # NoCaller
    BY <1>2 DEF Share, Goto
  <2>2. /\ inflight[Runs[c]] \in Callers
        /\ Runs[inflight[Runs[c]]] = Runs[c]
        /\ pc[inflight[Runs[c]]] \in Waiting \union Holding
    BY <2>1 DEF Promises, InflightRuns, TypeOK
  <2> QED BY <2>1, <2>2 DEF TypeOK, Promises, InflightRuns, AwaitIsShared
<1>3. CASE Start(c)
  <2>1. /\ pc' = [pc EXCEPT ![c] = "open"]
        /\ inflight' = [inflight EXCEPT ![Runs[c]] = c]
        /\ pc[c] = "hashing" /\ shared' = shared
    BY <1>3 DEF Start, Goto
  <2> QED BY <2>1 DEF TypeOK, Promises, InflightRuns, AwaitIsShared
<1> QED BY <1>1, <1>2, <1>3

\* The calls of a killed process took only promises of that process.
LEMMA KillKeepsPromises ==
    ASSUME TypeOK, Promises, NEW p \in Processes, Kill(p)
    PROVE  Promises'
<1> USE RunsAssumption, NoCallerAssumption
<1>1. \A d \in Callers : /\ Runs[d] = p => pc'[d] = "killed"
                         /\ Runs[d] # p => pc'[d] = pc[d] /\ shared'[d] = shared[d]
  BY DEF Kill
<1>2. \A q \in Processes : inflight'[q] = IF q = p THEN NoCaller ELSE inflight[q]
  BY DEF Kill, TypeOK
<1>3. AwaitIsShared'
  BY <1>1 DEF Promises, AwaitIsShared
<1>4. \A q \in Processes : inflight'[q] # NoCaller =>
        Runs[inflight'[q]] = q /\ pc'[inflight'[q]] \in Waiting \union Holding
  BY <1>1, <1>2 DEF Promises, InflightRuns, TypeOK
<1>5. \A d \in Callers : pc'[d] = "await" =>
        Runs[shared'[d]] = Runs[d] /\ pc'[shared'[d]] \in Waiting \union Holding
  BY <1>1 DEF Promises, InflightRuns, AwaitIsShared, TypeOK
<1> QED BY <1>3, <1>4, <1>5 DEF Promises, InflightRuns

\* What a call does between the promise it made and that promise's end.
LEMMA WorkKeepsPromises ==
    ASSUME TypeOK, Promises, ToolsHaveCallers, NEW c \in Callers,
           \/ Open(c) \/ Write(c) \/ Inspect(c) \/ Reclaim(c) \/ Wake(c)
           \/ Filled(c) \/ Begin(c) \/ Remove(c) \/ Cleared(c) \/ NotSpawned(c) \/ Spawn(c)
           \/ Expanded(c) \/ NotExpanded(c) \/ Tool(c) \/ GiveUp(c) \/ Expire(c)
    PROVE  Promises'
<1>1. CASE \/ Open(c) \/ Write(c) \/ Inspect(c) \/ Reclaim(c) \/ Wake(c)
           \/ Begin(c) \/ Cleared(c) \/ Spawn(c)
  <2>1. Moves(c)
    BY <1>1 DEF Open, Write, Inspect, Reclaim, Wake, Begin, Cleared, Spawn, Moves, Goto
  <2> QED BY <2>1, MovesKeepPromises
<1>2. CASE \/ Filled(c) \/ NotSpawned(c) \/ Expanded(c) \/ NotExpanded(c) \/ ToolTimesOut(c)
           \/ GiveUp(c)
  <2>1. pc[c] \in Waiting \union Holding /\ \E how \in Ended : Settle(c, how)
    BY <1>2 DEF Filled, NotSpawned, Expanded, NotExpanded, ToolTimesOut, GiveUp, Release
  <2> QED BY <2>1, SettleKeepsPromises
<1>3. CASE ToolEnds(c) \/ ToolFails(c)
  <2>1. CASE pc[c] = "expanding"
    <3>1. Moves(c)
      BY <1>3, <2>1 DEF ToolEnds, ToolFails, Moves, Goto
    <3> QED BY <3>1, MovesKeepPromises
  <2>2. CASE pc[c] # "expanding"
    BY <1>3, <2>2 DEF ToolEnds, ToolFails, Promises, InflightRuns, AwaitIsShared
  <2> QED BY <2>1, <2>2
<1>4. CASE Remove(c) \/ Expire(c)
  BY <1>4 DEF Remove, Expire, Promises, InflightRuns, AwaitIsShared
<1> QED BY <1>1, <1>2, <1>3, <1>4 DEF Tool

(***************************************************************************)
(* The lock.  Steps that neither take it nor let it go keep each call on   *)
(* its side of it.                                                         *)
(***************************************************************************)
Aside ==
    /\ \A d \in Callers : /\ pc'[d] \in Holding <=> pc[d] \in Holding
                          /\ pc'[d] = "killed" <=> pc[d] = "killed"
                          /\ d \in tools' => pc'[d] = pc[d]
    /\ tools' \subseteq tools
    /\ UNCHANGED <<lock, stolen>>
    /\ harm' = "overlap" => harm = "overlap"

\* Steps aside, that leave all that LockInv is about as it was.
LEMMA AsideKeepsLock ==
    ASSUME TypeOK, LockInv, Aside
    PROVE  LockInv'
<1>1. LockIsOwned'
  BY DEF Aside, TypeOK, LockInv, LockIsOwned
<1>2. OverlapOnlyIfStolen'
  BY DEF Aside, LockInv, OverlapOnlyIfStolen
<1>3. WorkIsLocked'
  BY DEF Aside, LockInv, WorkIsLocked
<1>4. ToolsHaveCallers'
  BY DEF Aside, TypeOK, LockInv, ToolsHaveCallers
<1> QED BY <1>1, <1>2, <1>3, <1>4 DEF LockInv

\* Steps of a call that neither takes nor leaves the lock, and the end of its tool.
LEMMA OutsideKeepsLock ==
    ASSUME TypeOK, LockInv, NEW c \in Callers,
           \/ Call(c) \/ Hit(c) \/ Share(c) \/ Start(c) \/ Write(c) \/ Inspect(c)
           \/ Wake(c) \/ GiveUp(c) \/ Expire(c) \/ ToolEnds(c) \/ ToolFails(c)
           \/ Cleared(c) \/ Spawn(c)
    PROVE  LockInv'
<1>1. CASE GiveUp(c)
  <2>1. Aside
    BY <1>1 DEF GiveUp, Settle, Aside, TypeOK, LockInv, ToolsHaveCallers
  <2> QED BY <2>1, AsideKeepsLock
<1>2. CASE ToolEnds(c) \/ ToolFails(c)
  <2>1. Aside
    BY <1>2 DEF ToolEnds, ToolFails, Aside, TypeOK
  <2> QED BY <2>1, AsideKeepsLock
<1>3. CASE Call(c) \/ Hit(c) \/ Share(c) \/ Start(c)
  <2>1. /\ pc[c] \in {"idle", "hashing"} \union Ended
        /\ \E where \in {"hashing", "returned", "await", "open"} : Goto(c, where)
        /\ UNCHANGED <<lock, stolen, harm, tools>>
    BY <1>3 DEF Call, Hit, Share, Start
  <2>2. Aside
    BY <2>1 DEF Aside, Goto, TypeOK, LockInv, ToolsHaveCallers
  <2> QED BY <2>2, AsideKeepsLock
<1>4. CASE Write(c) \/ Inspect(c) \/ Wake(c)
  <2>1. /\ \/ pc[c] \in Waiting /\ \E where \in Waiting : Goto(c, where)
           \/ pc[c] = "write" /\ Goto(c, "locked")
        /\ UNCHANGED <<lock, stolen, harm, tools>>
    BY <1>4 DEF Write, Inspect, Wake
  <2>2. Aside
    BY <2>1 DEF Aside, Goto, TypeOK, LockInv, ToolsHaveCallers
  <2> QED BY <2>2, AsideKeepsLock
<1>5. CASE Cleared(c) \/ Spawn(c) \/ Expire(c)
  <2>1. CASE Expire(c)
    BY <2>1, AsideKeepsLock DEF Expire, Aside
  <2>2. CASE Cleared(c)
    <3>1. Aside
      BY <2>2 DEF Cleared, Goto, Aside, TypeOK, LockInv, ToolsHaveCallers
    <3> QED BY <3>1, AsideKeepsLock
  <2>3. CASE Spawn(c)
    BY <2>3 DEF Spawn, Goto, TypeOK, LockInv, LockIsOwned, OverlapOnlyIfStolen, WorkIsLocked,
                ToolsHaveCallers
  <2> QED BY <1>5, <2>1, <2>2, <2>3
<1> QED BY <1>1, <1>2, <1>3, <1>4, <1>5

\* Whoever finds the lock free, while none was stolen, finds nobody at work.
LEMMA OpenKeepsLock ==
    ASSUME TypeOK, LockInv, NEW c \in Callers, Open(c)
    PROVE  LockInv'
<1>1. CASE lock # NoCaller
  <2>1. Aside
    BY <1>1 DEF Open, Goto, Aside, TypeOK, LockInv, ToolsHaveCallers
  <2> QED BY <2>1, AsideKeepsLock
<1>2. CASE lock = NoCaller
  <2>1. /\ lock' = c
        /\ pc' = [pc EXCEPT ![c] = "write"]
        /\ pc[c] \in {"open", "again"}
        /\ UNCHANGED <<tools, stolen, harm>>
    BY <1>2 DEF Open, Goto
  <2>2. LockIsOwned' /\ OverlapOnlyIfStolen' /\ ToolsHaveCallers'
    BY <2>1 DEF TypeOK, LockInv, LockIsOwned, OverlapOnlyIfStolen, ToolsHaveCallers
  <2>3. WorkIsLocked'
    BY <1>2, <2>1, NoCallerAssumption DEF TypeOK, LockInv, WorkIsLocked
  <2> QED BY <2>2, <2>3 DEF LockInv
<1> QED BY <1>1, <1>2

\* A lock that is unlinked was nobody's, or is remembered as stolen.
LEMMA ReclaimKeepsLock ==
    ASSUME TypeOK, LockInv, NEW c \in Callers, Reclaim(c)
    PROVE  LockInv'
<1>1. /\ lock' = NoCaller
      /\ pc[c] = "reclaim"
      /\ \E where \in {"sleep", "again"} : pc' = [pc EXCEPT ![c] = where]
      /\ stolen' = (stolen \/ (lock # NoCaller /\ AtWork(lock)))
      /\ UNCHANGED <<tools, harm>>
  BY DEF Reclaim, Unlink, Goto
<1>2. LockIsOwned' /\ OverlapOnlyIfStolen' /\ ToolsHaveCallers'
  BY <1>1 DEF TypeOK, LockInv, LockIsOwned, OverlapOnlyIfStolen, ToolsHaveCallers
<1>3. WorkIsLocked'
  BY <1>1, NoCallerAssumption DEF TypeOK, LockInv, WorkIsLocked
<1> QED BY <1>2, <1>3 DEF LockInv

\* The ways out of the lock: the finally block, and what it finds in the file.
LEMMA ReleaseKeepsLock ==
    ASSUME TypeOK, LockInv, NEW c \in Callers,
           Filled(c) \/ NotSpawned(c) \/ Expanded(c) \/ NotExpanded(c) \/ ToolTimesOut(c)
    PROVE  LockInv'
<1>1. PICK how \in Ended : Release(c, how)
  BY DEF Filled, NotSpawned, Expanded, NotExpanded, ToolTimesOut
<1>2. pc[c] \in Holding /\ tools' \subseteq tools /\ c \notin tools'
  BY DEF Filled, NotSpawned, Expanded, NotExpanded, ToolTimesOut, LockInv, ToolsHaveCallers
<1>3. /\ lock' = NoCaller
      /\ stolen' = (stolen \/ (lock \notin {NoCaller, c} /\ AtWork(lock)))
      /\ harm' = harm
  BY <1>1 DEF Release, Unlink, Filled, NotSpawned, Expanded, NotExpanded, ToolTimesOut
<1>4. \A d \in Callers : /\ d = c => pc'[d] = how
                         /\ pc[d] \notin {"await"} /\ d # c => pc'[d] = pc[d]
                         /\ pc[d] = "await" => pc'[d] \in {"await", how}
  BY <1>1, <1>2 DEF Release, Settle
<1>5. \A d \in Callers : pc'[d] \in Holding => pc[d] \in Holding /\ d # c
  BY <1>4
<1>6. LockIsOwned' /\ OverlapOnlyIfStolen'
  BY <1>3 DEF LockInv, LockIsOwned, OverlapOnlyIfStolen
<1>7. ToolsHaveCallers'
  BY <1>2, <1>4 DEF TypeOK, LockInv, ToolsHaveCallers
<1>8. WorkIsLocked'
  BY <1>2, <1>3, <1>5, NoCallerAssumption DEF TypeOK, LockInv, WorkIsLocked
<1> QED BY <1>6, <1>7, <1>8 DEF LockInv

\* Whoever goes to work while no lock was stolen finds nobody else at it.
LEMMA BeginKeepsLock ==
    ASSUME TypeOK, LockInv, NEW c \in Callers, Begin(c)
    PROVE  LockInv'
<1>1. /\ pc[c] = "locked"
      /\ \E where \in {"clearing", "copying"} : pc' = [pc EXCEPT ![c] = where]
      /\ UNCHANGED <<lock, stolen, tools>>
      /\ harm' = "overlap" => harm = "overlap" \/ \E d \in Callers \ {c} : Expanding(d)
  BY DEF Begin, Goto
<1>2. ~stolen => \A d \in Callers \ {c} : ~AtWork(d)
  BY <1>1 DEF LockInv, WorkIsLocked
<1>3. OverlapOnlyIfStolen'
  BY <1>1, <1>2 DEF LockInv, OverlapOnlyIfStolen
<1> QED BY <1>1, <1>3 DEF TypeOK, LockInv, LockIsOwned, WorkIsLocked, ToolsHaveCallers

\* A refresh removes its own lock, or whose it is by now, with the rest.
LEMMA RemoveKeepsLock ==
    ASSUME TypeOK, LockInv, NEW c \in Callers, Remove(c)
    PROVE  LockInv'
<1>1. pc[c] = "clearing" /\ UNCHANGED <<pc, tools, harm>>
  BY DEF Remove
<1>2. \/ UNCHANGED <<lock, stolen>>
      \/ lock' = NoCaller /\ stolen' = (stolen \/ (lock # NoCaller /\ AtWork(lock)))
  BY DEF Remove, Unlink
<1>3. ~stolen => lock = c
  BY <1>1 DEF LockInv, WorkIsLocked
<1>4. LockIsOwned' /\ OverlapOnlyIfStolen' /\ ToolsHaveCallers'
  BY <1>1, <1>2 DEF LockInv, LockIsOwned, OverlapOnlyIfStolen, ToolsHaveCallers
<1>5. WorkIsLocked'
  BY <1>1, <1>2, <1>3, NoCallerAssumption DEF LockInv, WorkIsLocked
<1> QED BY <1>4, <1>5 DEF LockInv

\* A killed process leaves its lock file and its tools behind.
LEMMA KillKeepsLock ==
    ASSUME TypeOK, LockInv, NEW p \in Processes, Kill(p)
    PROVE  LockInv'
<1>1. /\ \A d \in Callers : pc'[d] \in {pc[d], "killed"}
      /\ UNCHANGED <<lock, tools, stolen, harm>>
  BY DEF Kill
<1> QED BY <1>1 DEF TypeOK, LockInv, LockIsOwned, OverlapOnlyIfStolen, WorkIsLocked,
                    ToolsHaveCallers

-----------------------------------------------------------------------------
(* Types, and the whole.                                                   *)

\* Types, for what settling a promise changes.
LEMMA SettleKeepsTypes ==
    ASSUME TypeOK, NEW c \in Callers, NEW how \in Ended, Settle(c, how)
    PROVE  /\ pc' \in [Callers -> {"idle", "hashing", "await", "killed"}
                                  \union Waiting \union Holding \union Ended]
           /\ shared' \in [Callers -> Callers \union {NoCaller}]
           /\ inflight' \in [Processes -> Callers \union {NoCaller}]
           /\ refresh' \in [Callers -> BOOLEAN]
           /\ late' \subseteq Callers
BY RunsAssumption DEF Settle, TypeOK

\* Types, for the steps that end a call.
LEMMA EndsKeepTypes ==
    ASSUME TypeOK, NEW c \in Callers,
           \/ Filled(c) \/ NotSpawned(c) \/ Expanded(c) \/ NotExpanded(c) \/ ToolTimesOut(c)
           \/ GiveUp(c)
    PROVE  TypeOK'
<1>1. PICK how \in Ended : Settle(c, how)
  BY DEF Filled, NotSpawned, Expanded, NotExpanded, ToolTimesOut, GiveUp, Release
<1>2. /\ pc' \in [Callers -> {"idle", "hashing", "await", "killed"}
                             \union Waiting \union Holding \union Ended]
      /\ shared' \in [Callers -> Callers \union {NoCaller}]
      /\ inflight' \in [Processes -> Callers \union {NoCaller}]
      /\ refresh' \in [Callers -> BOOLEAN]
      /\ late' \subseteq Callers
  BY <1>1, SettleKeepsTypes
<1>3. /\ lock' \in {lock, NoCaller} /\ dir' = dir
      /\ {written', old', meta', stolen'} \subseteq BOOLEAN
      /\ UNCHANGED <<toc, harm>>
      /\ tools' \subseteq tools
      /\ left' \in [Callers -> SUBSET Parts]
  BY DEF Filled, NotSpawned, Expanded, NotExpanded, ToolTimesOut, GiveUp, Release, Unlink, TypeOK
<1> QED BY <1>2, <1>3 DEF TypeOK

\* Types, for all other steps.
LEMMA StepsKeepTypes ==
    ASSUME TypeOK, NEW c \in Callers,
           \/ Call(c) \/ Hit(c) \/ Share(c) \/ Start(c) \/ Open(c) \/ Write(c) \/ Inspect(c)
           \/ Reclaim(c) \/ Wake(c) \/ Expire(c) \/ Begin(c) \/ Remove(c) \/ Cleared(c) \/ Spawn(c)
           \/ ToolEnds(c) \/ ToolFails(c)
    PROVE  TypeOK'
<1> USE RunsAssumption DEF TypeOK, Goto
<1>1. CASE Call(c) \/ Hit(c) \/ Wake(c) \/ Inspect(c)
  <2>1. \E where \in {"hashing", "returned", "open", "reclaim", "sleep"} :
            pc' = [pc EXCEPT ![c] = where]
    BY <1>1 DEF Call, Hit, Wake, Inspect
  <2>2. refresh' \in [Callers -> BOOLEAN]
    BY <1>1 DEF Call, Hit, Wake, Inspect
  <2>3. UNCHANGED <<inflight, shared, late, locks, files, tools, left, history>>
    BY <1>1 DEF Call, Hit, Wake, Inspect
  <2> QED BY <2>1, <2>2, <2>3
<1>2. CASE Share(c) \/ Start(c)
  BY <1>2 DEF Share, Start
<1>3. CASE Open(c) \/ Write(c) \/ Reclaim(c)
  BY <1>3 DEF Open, Write, Reclaim, Unlink
<1>4. CASE Expire(c) \/ Cleared(c) \/ Spawn(c)
  BY <1>4 DEF Expire, Cleared, Spawn
<1>5. CASE ToolEnds(c) \/ ToolFails(c)
  BY <1>5 DEF ToolEnds, ToolFails
<1>6. CASE Begin(c)
  <2>1. Present \subseteq Parts
    BY DEF Present
  <2>2. left' \in [Callers -> SUBSET Parts]
    BY <1>6, <2>1 DEF Begin
  <2>3. harm' \in {"none", "spoilt", "overlap"}
    BY <1>6 DEF Begin
  <2>4. \E where \in {"clearing", "copying"} : pc' = [pc EXCEPT ![c] = where]
    BY <1>6 DEF Begin
  <2>5. UNCHANGED <<refresh, inflight, shared, late, locks, files, tools, stolen>>
    BY <1>6 DEF Begin
  <2> QED BY <2>2, <2>3, <2>4, <2>5
<1>7. CASE Remove(c)
  <2>1. left' \in [Callers -> SUBSET Parts]
    BY <1>7 DEF Remove
  <2>2. lock' \in {lock, NoCaller} /\ {written', old', stolen'} \subseteq BOOLEAN
    BY <1>7 DEF Remove, Unlink
  <2>3. dir' \in {"none", "partial", "whole"} /\ {toc', meta'} \subseteq BOOLEAN
    BY <1>7 DEF Remove
  <2>4. UNCHANGED <<pc, refresh, inflight, shared, late, tools, harm>>
    BY <1>7 DEF Remove
  <2> QED BY <2>1, <2>2, <2>3, <2>4
<1> QED BY <1>1, <1>2, <1>3, <1>4, <1>5, <1>6, <1>7

\* A kill, and a lock that grows old.
LEMMA KillAndAgeKeepInv ==
    ASSUME CacheInv, (\E p \in Processes : Kill(p)) \/ LockAges
    PROVE  CacheInv'
<1>1. TypeOK /\ Promises /\ LockInv
  BY CacheParts
<1>2. CASE LockAges
  <2>1. TypeOK'
    BY <1>1, <1>2 DEF LockAges, TypeOK
  <2>2. Promises' /\ LockInv'
    BY <1>1, <1>2 DEF LockAges, Promises, InflightRuns, AwaitIsShared, LockInv, LockIsOwned,
                      OverlapOnlyIfStolen, WorkIsLocked, ToolsHaveCallers
  <2> QED BY <2>1, <2>2 DEF CacheInv, Promises, LockInv
<1>3. ASSUME NEW p \in Processes, Kill(p)
      PROVE  CacheInv'
  <2>1. TypeOK'
    BY <1>1, <1>3 DEF Kill, TypeOK
  <2>2. Promises' /\ LockInv'
    BY <1>1, <1>3, KillKeepsPromises, KillKeepsLock
  <2> QED BY <2>1, <2>2 DEF CacheInv, Promises, LockInv
<1> QED BY <1>2, <1>3

\* Every step of a call that is not killed.
LEMMA CallerKeepsInv ==
    ASSUME CacheInv, NEW c \in Callers,
           Call(c) \/ Proceed(c) \/ Tool(c) \/ Expire(c)
    PROVE  CacheInv'
<1>1. TypeOK /\ Promises /\ LockInv /\ ToolsHaveCallers
  BY CacheParts DEF LockInv
<1>2. TypeOK'
  BY <1>1, EndsKeepTypes, StepsKeepTypes DEF Proceed, Tool
<1>3. Promises'
  BY <1>1, EntryKeepsPromises, WorkKeepsPromises DEF Proceed
<1>4. LockInv'
  BY <1>1, OutsideKeepsLock, OpenKeepsLock, ReclaimKeepsLock, ReleaseKeepsLock, BeginKeepsLock,
     RemoveKeepsLock
     DEF Proceed, Tool
<1> QED BY <1>2, <1>3, <1>4 DEF CacheInv, Promises, LockInv

\* The invariant is inductive.
LEMMA CacheStaysConsistent == CacheInv /\ [Next]_vars => CacheInv'
<1> SUFFICES ASSUME CacheInv, [Next]_vars
             PROVE  CacheInv'
  OBVIOUS
<1>1. CASE UNCHANGED vars
  BY <1>1 DEF vars, CacheInv, TypeOK, LockIsOwned, InflightRuns, OverlapOnlyIfStolen,
              WorkIsLocked, ToolsHaveCallers, AwaitIsShared
<1>2. CASE Next
  BY <1>2, CallerKeepsInv, KillAndAgeKeepInv DEF Next
<1> QED BY <1>1, <1>2

\* Promises and locks stay consistent: in any state, a promise in the map of
\* ensureExpandedToe is one that is still being worked on, and a lock file is
\* that of a call inside acquireExpandLock's section or of a killed process.
THEOREM CacheIsConsistent == Spec => []CacheInv
BY CacheStartsConsistent, CacheStaysConsistent, PTL DEF Spec

\* Two calls are at work on an entry at once only after one of the three paths of
\* expandCache.ts that unlink a lock took one from under a call or its tool.
THEOREM ExpansionsOverlapOnlyIfStolen == Spec => []OverlapOnlyIfStolen
<1>1. CacheInv => OverlapOnlyIfStolen
  BY DEF CacheInv
<1> QED BY <1>1, CacheIsConsistent, PTL

\* No path out of the lock leaves its file behind, and who awaits a promise
\* awaits one that will settle.
THEOREM LocksAndPromisesAreOwned == Spec => [](LockIsOwned /\ InflightRuns)
<1>1. CacheInv => LockIsOwned /\ InflightRuns
  BY DEF CacheInv
<1> QED BY <1>1, CacheIsConsistent, PTL

(***************************************************************************)
(* What is returned is whole.  As long as nothing has happened to the      *)
(* entry (`harm`), it is whole when it is declared complete or about to be *)
(* and one call at most is at work on it.                                  *)
(***************************************************************************)
OneExpands == harm # "overlap" => \A c, d \in Callers : Expanding(c) /\ Expanding(d) => c = d
DeclaredIsWhole == harm = "none" /\ meta => toc /\ dir = "whole"
ClosedIsWhole == \A c \in Callers : pc[c] = "closed" /\ toc /\ harm = "none" => dir = "whole"
ClearingSpoils == \A c \in Callers : pc[c] = "clearing" => harm # "none"
CopyingIsOpen == \A c \in Callers : pc[c] = "copying" /\ harm = "none" => ~meta

FilesInv ==
    /\ harm \in {"none", "spoilt", "overlap"}
    /\ OneExpands
    /\ DeclaredIsWhole
    /\ ClosedIsWhole
    /\ ClearingSpoils
    /\ CopyingIsOpen

\* At the start nothing is expanded and nobody is at it.
LEMMA FilesStart == Init => FilesInv
BY DEF Init, FilesInv, OneExpands, DeclaredIsWhole, ClosedIsWhole, ClearingSpoils, CopyingIsOpen

\* Nobody comes to work on the files; they stay as they are, unless they are being
\* removed.
Quiet ==
    /\ \A d \in Callers : pc'[d] \in OnFiles => pc'[d] = pc[d]
    /\ tools' \subseteq tools
    /\ UNCHANGED files \/ harm # "none"
    /\ UNCHANGED harm

\* A quiet step keeps what is said of the files.
LEMMA QuietKeepsFiles ==
    ASSUME FilesInv, Quiet
    PROVE  FilesInv'
BY DEF Quiet, FilesInv, OneExpands, DeclaredIsWhole, ClosedIsWhole, ClearingSpoils, CopyingIsOpen

\* Settling a promise brings nobody to the files.
LEMMA SettleIsQuiet ==
    ASSUME NEW c \in Callers, NEW how \in Ended, Settle(c, how), tools' \subseteq tools,
           UNCHANGED <<files, harm>>
    PROVE  Quiet
BY DEF Settle, Quiet

\* The steps that are quiet.
LEMMA QuietSteps ==
    ASSUME TypeOK, FilesInv, NEW c \in Callers,
           \/ Call(c) \/ Hit(c) \/ Share(c) \/ Start(c) \/ Open(c) \/ Write(c) \/ Inspect(c)
           \/ Reclaim(c) \/ Wake(c) \/ Expire(c) \/ Remove(c) \/ Filled(c) \/ NotSpawned(c)
           \/ NotExpanded(c) \/ ToolTimesOut(c) \/ GiveUp(c)
    PROVE  Quiet
<1>1. CASE Filled(c) \/ NotSpawned(c) \/ NotExpanded(c) \/ ToolTimesOut(c) \/ GiveUp(c)
  <2>1. \E how \in Ended : Settle(c, how)
    BY <1>1 DEF Filled, NotSpawned, NotExpanded, ToolTimesOut, GiveUp, Release
  <2>2. tools' \subseteq tools /\ UNCHANGED <<files, harm>>
    BY <1>1 DEF Filled, NotSpawned, NotExpanded, ToolTimesOut, GiveUp, Release
  <2> QED BY <2>1, <2>2, SettleIsQuiet
<1>2. CASE \/ Call(c) \/ Hit(c) \/ Share(c) \/ Start(c) \/ Open(c) \/ Write(c) \/ Inspect(c)
           \/ Reclaim(c) \/ Wake(c)
  <2>1. \E where \in {"hashing", "returned", "await", "open", "write", "inspect", "locked",
                      "reclaim", "sleep", "again"} : pc' = [pc EXCEPT ![c] = where]
    BY <1>2 DEF Call, Hit, Share, Start, Open, Write, Inspect, Reclaim, Wake, Goto
  <2>2. UNCHANGED <<tools, files, harm>>
    BY <1>2 DEF Call, Hit, Share, Start, Open, Write, Inspect, Reclaim, Wake
  <2> QED BY <2>1, <2>2 DEF Quiet, TypeOK
<1>3. CASE Remove(c)
  BY <1>3 DEF Remove, Quiet, FilesInv, ClearingSpoils
<1>4. CASE Expire(c)
  BY <1>4 DEF Expire, Quiet
<1> QED BY <1>1, <1>2, <1>3, <1>4

\* A call comes to the files: nobody else is there, or it is remembered.
LEMMA BeginKeepsFiles ==
    ASSUME TypeOK, FilesInv, NEW c \in Callers, Begin(c)
    PROVE  FilesInv'
<1>1. /\ \A d \in Callers \ {c} : pc'[d] = pc[d]
      /\ UNCHANGED <<files, tools>>
      /\ harm' = IF harm = "overlap" \/ (\E d \in Callers \ {c} : Expanding(d)) THEN "overlap"
                 ELSE IF refresh[c] THEN "spoilt" ELSE harm
  BY DEF Begin, Goto, TypeOK
<1>2. CASE harm' = "overlap"
  BY <1>2 DEF FilesInv, OneExpands, DeclaredIsWhole, ClosedIsWhole, ClearingSpoils, CopyingIsOpen
<1>3. CASE harm' # "overlap"
  <2>1. harm # "overlap" /\ \A d \in Callers \ {c} : ~Expanding(d)
    BY <1>1, <1>3
  <2>2. \A d \in Callers \ {c} : ~Expanding(d)'
    BY <1>1, <2>1
  <2>3. OneExpands'
    BY <2>2 DEF OneExpands
  <2>4. CASE refresh[c]
    <3>1. harm' = "spoilt"
      BY <1>1, <2>1, <2>4
    <3> QED BY <2>3, <3>1
            DEF FilesInv, DeclaredIsWhole, ClosedIsWhole, ClearingSpoils, CopyingIsOpen
  <2>5. CASE ~refresh[c]
    <3>1. harm' = harm /\ pc'[c] = "copying" /\ ~IsCacheComplete
      BY <1>1, <2>1, <2>5 DEF Begin, Goto, TypeOK
    <3>2. harm = "none" => ~meta
      BY <3>1 DEF IsCacheComplete, FilesInv, DeclaredIsWhole
    <3> QED BY <1>1, <2>2, <2>3, <3>1, <3>2
            DEF FilesInv, DeclaredIsWhole, ClosedIsWhole, ClearingSpoils, CopyingIsOpen
  <2> QED BY <2>4, <2>5
<1> QED BY <1>2, <1>3

\* The entry is empty, and then a tool begins to fill it.
LEMMA FillKeepsFiles ==
    ASSUME TypeOK, FilesInv, NEW c \in Callers, Cleared(c) \/ Spawn(c)
    PROVE  FilesInv'
<1>1. /\ \A d \in Callers \ {c} : pc'[d] = pc[d]
      /\ pc[c] \in OnFiles /\ pc'[c] \in {"copying", "expanding"}
      /\ tools \subseteq tools' /\ tools' \subseteq tools \union {c}
  BY DEF Cleared, Spawn, Goto, TypeOK
<1>2. harm' = "overlap" <=> harm = "overlap"
  BY DEF Cleared, Spawn, history, FilesInv
<1>3. harm # "overlap" => \A d \in Callers \ {c} : ~Expanding(d)
  BY <1>1 DEF FilesInv, OneExpands
<1>4. harm' # "overlap" => \A d \in Callers \ {c} : ~Expanding(d)'
  BY <1>1, <1>2, <1>3
<1>5. OneExpands'
  BY <1>4 DEF OneExpands
<1>6. harm' = "none" => ~meta'
  <2>1. CASE Cleared(c)
    BY <2>1 DEF Cleared, Present, Parts
  <2>2. CASE Spawn(c)
    BY <2>2 DEF Spawn, FilesInv, CopyingIsOpen
  <2> QED BY <2>1, <2>2
<1>7. harm' \in {"none", "spoilt", "overlap"}
  BY DEF Cleared, Spawn, FilesInv
<1>8. ClearingSpoils' /\ ClosedIsWhole'
  BY <1>1, <1>4 DEF ClearingSpoils, ClosedIsWhole, FilesInv
<1> QED BY <1>5, <1>6, <1>7, <1>8 DEF FilesInv, DeclaredIsWhole, CopyingIsOpen

\* toeexpand writes the directory, the .toc last.
LEMMA ToolKeepsFiles ==
    ASSUME TypeOK, ToolsHaveCallers, FilesInv, NEW c \in Callers, ToolEnds(c) \/ ToolFails(c)
    PROVE  FilesInv'
<1>1. /\ c \in tools /\ tools' = tools \ {c} /\ meta' = meta
      /\ \A d \in Callers : pc'[d] = IF d = c /\ pc[c] = "expanding" THEN "closed" ELSE pc[d]
  BY DEF ToolEnds, ToolFails, TypeOK
<1>2. pc[c] \in {"expanding", "killed"}
  BY <1>1 DEF ToolsHaveCallers
<1>3. \A d \in Callers : Expanding(d)' => Expanding(d)
  BY <1>1
<1>4. harm # "overlap" => \A d \in Callers \ {c} : ~Expanding(d)
  BY <1>1 DEF FilesInv, OneExpands
<1>5. CASE ToolEnds(c)
  <2>1. /\ toc' /\ dir' = (IF harm = "overlap" THEN "partial" ELSE "whole")
        /\ harm' = IF harm = "overlap" THEN harm ELSE "none"
    BY <1>5 DEF ToolEnds
  <2>2. OneExpands'
    BY <1>3, <2>1 DEF FilesInv, OneExpands
  <2>3. ClearingSpoils' /\ CopyingIsOpen'
    BY <1>1, <1>2, <1>4, <2>1 DEF ClearingSpoils, CopyingIsOpen
  <2> QED BY <2>1, <2>2, <2>3 DEF FilesInv, DeclaredIsWhole, ClosedIsWhole
<1>6. CASE ToolFails(c)
  <2>1. /\ dir' = dir /\ toc' = toc
        /\ harm' = IF harm # "overlap" /\ toc THEN "spoilt" ELSE harm
    BY <1>6 DEF ToolFails
  <2>2. OneExpands'
    BY <1>3, <2>1 DEF FilesInv, OneExpands
  <2>3. ClearingSpoils' /\ CopyingIsOpen'
    BY <1>1, <1>2, <2>1 DEF FilesInv, ClearingSpoils, CopyingIsOpen
  <2> QED BY <1>1, <2>1, <2>2, <2>3 DEF FilesInv, DeclaredIsWhole, ClosedIsWhole
<1> QED BY <1>5, <1>6

\* The caller sees its tool end, with or without success.
LEMMA ExpandedKeepsFiles ==
    ASSUME TypeOK, FilesInv, NEW c \in Callers, Expanded(c)
    PROVE  FilesInv'
<1>1. /\ pc[c] = "closed" /\ toc /\ meta'
      /\ UNCHANGED <<dir, toc, tools, harm>> /\ Settle(c, "returned")
  BY DEF Expanded, Release
<1>2. \A d \in Callers : pc'[d] \in OnFiles => pc'[d] = pc[d] /\ d # c
  BY <1>1 DEF Settle
<1>3. harm # "overlap" => \A d \in Callers \ {c} : ~Expanding(d)
  BY <1>1 DEF FilesInv, OneExpands
<1>4. OneExpands'
  BY <1>1, <1>2 DEF FilesInv, OneExpands
<1>5. CopyingIsOpen' /\ ClearingSpoils'
  BY <1>1, <1>2, <1>3 DEF FilesInv, CopyingIsOpen, ClearingSpoils
<1> QED BY <1>1, <1>2, <1>4, <1>5 DEF FilesInv, DeclaredIsWhole, ClosedIsWhole

\* The second invariant is inductive relative to the first.
LEMMA FilesStay == CacheInv /\ FilesInv /\ [Next]_vars => FilesInv'
<1> SUFFICES ASSUME CacheInv, FilesInv, [Next]_vars PROVE FilesInv'
  OBVIOUS
<1>1. TypeOK /\ ToolsHaveCallers
  BY DEF CacheInv
<1>2. ASSUME NEW c \in Callers, Call(c) \/ Proceed(c) \/ Tool(c) \/ Expire(c) PROVE FilesInv'
  BY <1>1, <1>2, QuietSteps, QuietKeepsFiles, BeginKeepsFiles, FillKeepsFiles, ToolKeepsFiles,
     ExpandedKeepsFiles
     DEF Proceed, Tool
<1>3. ASSUME NEW p \in Processes, Kill(p) PROVE FilesInv'
  <2>1. Quiet
    BY <1>3 DEF Kill, Quiet
  <2> QED BY <2>1, QuietKeepsFiles
<1>4. CASE LockAges \/ UNCHANGED vars
  <2>1. Quiet
    BY <1>4 DEF LockAges, vars, Quiet
  <2> QED BY <2>1, QuietKeepsFiles
<1> QED BY <1>2, <1>3, <1>4 DEF Next

\* What ensureExpandedToe returns is a whole expansion, unless two calls were at
\* work on the entry at once, a tool gave up over the .toc of an earlier one, or
\* the entry is being removed by a refresh or was left half removed by one.
THEOREM ReturnedIsWhole == Spec => ReturnsWhole
<1>1. ASSUME CacheInv, FilesInv, [Next]_vars, NEW c \in Callers, pc[c] \notin Ended, pc'[c] = "returned"
      PROVE  dir' = "whole" \/ harm' # "none"
  <2>1. TypeOK
    BY <1>1 DEF CacheInv
  <2>2. \E d \in Callers : Hit(d) \/ Filled(d) \/ Expanded(d)
    <3>1. ASSUME NEW d \in Callers, NEW where, where # "returned", Goto(d, where) PROVE FALSE
      BY <1>1, <2>1, <3>1 DEF Goto, TypeOK
    <3>2. ASSUME NEW d \in Callers, Settle(d, "failed") PROVE FALSE
      BY <1>1, <3>2 DEF Settle
    <3>3. ASSUME NEW d \in Callers, Call(d) \/ Proceed(d) \/ Tool(d) \/ Expire(d)
          PROVE  Hit(d) \/ Filled(d) \/ Expanded(d)
      <4>1. ~(Call(d) \/ Share(d) \/ Start(d) \/ Open(d) \/ Write(d) \/ Inspect(d) \/ Reclaim(d)
              \/ Wake(d) \/ Begin(d) \/ Cleared(d) \/ Spawn(d))
        BY <3>1 DEF Call, Share, Start, Open, Write, Inspect, Reclaim, Wake, Begin, Cleared, Spawn
      <4>2. ~(NotSpawned(d) \/ NotExpanded(d) \/ ToolTimesOut(d) \/ GiveUp(d))
        BY <3>2 DEF NotSpawned, NotExpanded, ToolTimesOut, GiveUp, Release
      <4>3. ~(ToolEnds(d) \/ ToolFails(d))
        BY <1>1, <2>1 DEF ToolEnds, ToolFails, TypeOK
      <4>4. ~(Remove(d) \/ Expire(d))
        BY <1>1 DEF Remove, Expire
      <4> QED BY <3>3, <4>1, <4>2, <4>3, <4>4 DEF Proceed, Tool
    <3>4. ASSUME NEW p \in Processes, Kill(p) PROVE FALSE
      BY <1>1, <3>4 DEF Kill
    <3>5. ~(LockAges \/ UNCHANGED vars)
      BY <1>1 DEF LockAges, vars
    <3> QED BY <1>1, <3>3, <3>4, <3>5 DEF Next
  <2>3. PICK d \in Callers : Hit(d) \/ Filled(d) \/ Expanded(d)
    BY <2>2
  <2>4. CASE Hit(d) \/ Filled(d)
    <3>1. meta /\ UNCHANGED <<dir, harm>>
      BY <2>4 DEF Hit, Filled, IsCacheComplete, Release
    <3> QED BY <1>1, <3>1 DEF FilesInv, DeclaredIsWhole
  <2>5. CASE Expanded(d)
    <3>1. pc[d] = "closed" /\ toc /\ UNCHANGED <<dir, harm>>
      BY <2>5 DEF Expanded, Release
    <3> QED BY <1>1, <3>1 DEF FilesInv, ClosedIsWhole
  <2> QED BY <2>3, <2>4, <2>5
<1>2. CacheInv /\ FilesInv /\ [Next]_vars =>
        [\A c \in Callers : pc[c] \notin Ended /\ pc'[c] = "returned" =>
            dir' = "whole" \/ harm' # "none"]_vars
  BY <1>1
<1>3. Spec => []FilesInv
  BY FilesStart, FilesStay, CacheIsConsistent, PTL DEF Spec
<1> QED BY <1>2, <1>3, CacheIsConsistent, PTL DEF Spec, ReturnsWhole
=============================================================================
