---------------------------- MODULE McpServer_proofs ----------------------------
(***************************************************************************)
(* Proofs about three parts of the MCP server that share no state: the     *)
(* start of the hub, the version check and the sessions of its HTTP        *)
(* transport.                                                              *)
(***************************************************************************)
EXTENDS EnsureHub, CompatCache, SessionTransport, TLAPS

(***************************************************************************)
(* Starting the hub: what the lock file guarantees (EnsureHub)             *)
(***************************************************************************)
StartInv == StartTypeOK /\ OneHolder

Places == {"idle", "release", "again", "sleep", "dead", "killed"} \cup Checking \cup Ended

\* A caller that goes to a place is there, and the others stay where they are.
LEMMA GotoMoves ==
    ASSUME StartTypeOK, NEW c \in Caller, NEW l \in Places, Goto(c, l)
    PROVE  /\ pc' \in [Caller -> Places]
           /\ answer' \in [Caller -> {"none", "up", "down"}]
           /\ pc'[c] = l
           /\ \A d \in Caller \ {c} : pc'[d] = pc[d]
<1>1. pc \in [Caller -> Places] /\ answer \in [Caller -> {"none", "up", "down"}]
  BY DEF StartTypeOK, Places
<1>2. pc' = [pc EXCEPT ![c] = l] /\ answer' = [answer EXCEPT ![c] = "none"]
  BY DEF Goto
<1>3. pc' \in [Caller -> Places]
  BY <1>1, <1>2
<1>4. answer' \in [Caller -> {"none", "up", "down"}]
  BY <1>1, <1>2
<1>5. pc'[c] = l /\ \A d \in Caller \ {c} : pc'[d] = pc[d]
  BY <1>1, <1>2
<1> QED BY <1>3, <1>4, <1>5

\* The types are kept if what a step gives the two shared variables is typed.
LEMMA GotoKeepsTypes ==
    ASSUME StartTypeOK, NEW c \in Caller, NEW l \in Places, Goto(c, l),
           built' = built, lock' \in BOOLEAN,
           hub' \in [Hub -> {"none", "starting", "serving"}],
           spawned' \in [Caller -> BOOLEAN]
    PROVE  StartTypeOK'
<1>1. pc' \in [Caller -> Places] /\ answer' \in [Caller -> {"none", "up", "down"}]
  BY GotoMoves
<1>2. built' \in BOOLEAN
  BY DEF StartTypeOK
<1> QED BY <1>1, <1>2 DEF StartTypeOK, Places

\* A step in which nobody enters the lock and the file stays.
LEMMA NobodyEnters ==
    ASSUME OneHolder, lock' = lock,
           \A d \in Caller : Holding(d)' => Holding(d)
    PROVE  OneHolder'
BY DEF OneHolder

\* The holder leaves, whatever becomes of the file.
LEMMA HolderLeaves ==
    ASSUME OneHolder, NEW c \in Caller, Holding(c), ~Holding(c)',
           \A d \in Caller \ {c} : Holding(d)' => Holding(d)
    PROVE  OneHolder'
<1>1. \A d \in Caller : Holding(d) => d = c
  BY DEF OneHolder
<1>2. \A d \in Caller : ~Holding(d)'
  BY <1>1
<1> QED BY <1>2 DEF OneHolder

\* A caller enters where no file is: nobody was inside.
LEMMA HolderEnters ==
    ASSUME OneHolder, NEW c \in Caller, ~lock, lock',
           \A d \in Caller \ {c} : Holding(d)' => Holding(d)
    PROVE  OneHolder'
<1>1. \A d \in Caller : ~Holding(d)
  BY DEF OneHolder
<1>2. \A d \in Caller : Holding(d)' => d = c
  BY <1>1
<1> QED BY <1>2 DEF OneHolder

\* A caller goes to a place, and the lock file with it stays as it is.
LEMMA GotoOutside ==
    ASSUME StartInv, NEW c \in Caller, NEW l \in Places, Goto(c, l),
           Holding(c) \/ l \notin {"locked", "release"},
           UNCHANGED <<built, lock>>,
           hub' \in [Hub -> {"none", "starting", "serving"}],
           spawned' \in [Caller -> BOOLEAN]
    PROVE  StartInv'
<1>1. StartTypeOK /\ OneHolder /\ lock \in BOOLEAN
  BY DEF StartInv, StartTypeOK
<1>2. StartTypeOK'
  BY <1>1, GotoKeepsTypes
<1>3. pc'[c] = l /\ \A d \in Caller \ {c} : pc'[d] = pc[d]
  BY <1>1, GotoMoves
<1>4. \A d \in Caller : Holding(d)' => Holding(d)
  BY <1>3 DEF Holding
<1> QED BY <1>1, <1>2, <1>4, NobodyEnters DEF StartInv

\* The holder goes to a place outside and removes the file.
LEMMA GotoUnlocking ==
    ASSUME StartInv, NEW c \in Caller, NEW l \in Places, Goto(c, l),
           Holding(c), l \notin {"locked", "release"}, lock' = FALSE,
           UNCHANGED <<built, hub>>, spawned' \in [Caller -> BOOLEAN]
    PROVE  StartInv'
<1>1. StartTypeOK /\ OneHolder /\ hub \in [Hub -> {"none", "starting", "serving"}]
  BY DEF StartInv, StartTypeOK
<1>2. StartTypeOK'
  BY <1>1, GotoKeepsTypes
<1>3. pc'[c] = l /\ \A d \in Caller \ {c} : pc'[d] = pc[d]
  BY <1>1, GotoMoves
<1>4. ~Holding(c)' /\ \A d \in Caller \ {c} : Holding(d)' => Holding(d)
  BY <1>3 DEF Holding
<1> QED BY <1>1, <1>2, <1>4, HolderLeaves DEF StartInv

\* The steps of one caller.  Only Acquire enters the lock.
LEMMA CallerKeepsLock ==
    ASSUME StartInv, NEW c \in Caller,
           \/ Call(c) \/ CheckTimesOut(c) \/ CallerStep(c)
           \/ Deadline(c) \/ CallerDies(c)
    PROVE  StartInv'
<1>1. /\ spawned \in [Caller -> BOOLEAN]
      /\ hub \in [Hub -> {"none", "starting", "serving"}]
      /\ \A b \in BOOLEAN : [spawned EXCEPT ![c] = b] \in [Caller -> BOOLEAN]
      /\ \A h \in Hub : [hub EXCEPT ![h] = "starting"] \in [Hub -> {"none", "starting", "serving"}]
  BY DEF StartInv, StartTypeOK
<1>2. /\ {"idle", "release", "again", "sleep", "dead", "killed"} \subseteq Places
      /\ {"first", "poll", "locked", "last", "wait"} \subseteq Places
      /\ {"running", "spawned", "failed"} \subseteq Places
  BY DEF Places, Checking, Ended
<1>3. CASE Healthy(c) \/ CheckTimesOut(c)
  <2>1. /\ UNCHANGED <<built, lock, hub, pc, spawned>>
        /\ \E x \in {"up", "down"} : answer' = [answer EXCEPT ![c] = x]
    BY <1>3 DEF Healthy, CheckTimesOut
  <2>2. StartTypeOK /\ answer' \in [Caller -> {"none", "up", "down"}]
    BY <2>1 DEF StartInv, StartTypeOK
  <2>3. StartTypeOK'
    BY <2>1, <2>2 DEF StartTypeOK
  <2>4. OneHolder'
    BY <2>1 DEF StartInv, OneHolder, Holding
  <2> QED BY <2>3, <2>4 DEF StartInv
<1>4. CASE Call(c)
  <2>1. Goto(c, "first") /\ spawned' = [spawned EXCEPT ![c] = FALSE] /\ UNCHANGED <<built, lock, hub>>
    BY <1>4 DEF Call
  <2> QED BY <2>1, <1>1, <1>2, GotoOutside
<1>5. CASE Found(c) \/ NotFound(c) \/ Refused(c) \/ Again(c) \/ Deadline(c)
  <2>1. /\ UNCHANGED <<built, lock, hub, spawned>>
        /\ \E l \in {"running", "spawned", "poll", "failed", "sleep", "again", "last"} : Goto(c, l)
    BY <1>5 DEF Found, NotFound, Refused, Again, Deadline
  <2> QED BY <2>1, <1>1, <1>2, GotoOutside
<1>6. CASE Acquire(c)
  <2>1. ~lock /\ lock' = TRUE /\ Goto(c, "locked") /\ UNCHANGED <<built, hub, spawned>>
    BY <1>6 DEF Acquire
  <2>2. StartTypeOK /\ OneHolder /\ "locked" \in Places
    BY <1>2 DEF StartInv
  <2>3. StartTypeOK'
    BY <2>1, <2>2, <1>1, GotoKeepsTypes
  <2>4. \A d \in Caller \ {c} : pc'[d] = pc[d]
    BY <2>1, <2>2, GotoMoves
  <2>5. \A d \in Caller \ {c} : Holding(d)' => Holding(d)
    BY <2>4 DEF Holding
  <2> QED BY <2>1, <2>2, <2>3, <2>5, HolderEnters DEF StartInv
<1>7. CASE FoundLocked(c)
  <2>1. /\ Holding(c) /\ lock' = FALSE /\ Goto(c, "running")
        /\ spawned' = [spawned EXCEPT ![c] = FALSE] /\ UNCHANGED <<built, hub>>
    BY <1>7 DEF FoundLocked, Holding
  <2> QED BY <2>1, <1>1, <1>2, GotoUnlocking
<1>8. CASE NotBuilt(c) \/ Release(c)
  <2>1. /\ Holding(c) /\ lock' = FALSE /\ UNCHANGED <<built, hub, spawned>>
        /\ \E l \in {"failed", "sleep"} : Goto(c, l)
    BY <1>8 DEF NotBuilt, Release, Holding
  <2> QED BY <2>1, <1>1, <1>2, GotoUnlocking
<1>9. CASE Spawn(c)
  <2>1. Holding(c) /\ Launch /\ Goto(c, "release") /\ spawned' = [spawned EXCEPT ![c] = TRUE]
    BY <1>9 DEF Spawn, Holding
  <2>2. hub' \in [Hub -> {"none", "starting", "serving"}]
    BY <2>1, <1>1 DEF Launch
  <2>3. UNCHANGED <<built, lock>>
    BY <1>9 DEF Spawn
  <2> QED BY <2>1, <2>2, <2>3, <1>1, <1>2, GotoOutside
<1>10. CASE TdSpawns(c)
  <2>1. UNCHANGED <<built, lock>>
    BY <1>10 DEF TdSpawns
  <2>2. CASE Launch /\ Goto(c, "wait") /\ spawned' = [spawned EXCEPT ![c] = TRUE]
    <3>1. hub' \in [Hub -> {"none", "starting", "serving"}]
      BY <2>2, <1>1 DEF Launch
    <3> QED BY <2>1, <2>2, <3>1, <1>1, <1>2, GotoOutside
  <2>3. CASE Goto(c, "failed") /\ UNCHANGED <<hub, spawned>>
    BY <2>1, <2>3, <1>1, <1>2, GotoOutside
  <2> QED BY <1>10, <2>2, <2>3 DEF TdSpawns
<1>11. CASE TdWaits(c)
  <2>1. /\ UNCHANGED <<built, lock, hub, spawned>>
        /\ \E l \in {"spawned", "wait", "failed"} : Goto(c, l)
    BY <1>11 DEF TdWaits
  <2> QED BY <2>1, <1>1, <1>2, GotoOutside
<1>12. CASE CallerDies(c)
  <2>1. /\ UNCHANGED <<built, lock, hub, spawned>>
        /\ \E l \in {"killed", "dead"} : Goto(c, l)
    BY <1>12 DEF CallerDies
  <2> QED BY <2>1, <1>1, <1>2, GotoOutside
<1> QED
  BY <1>3, <1>4, <1>5, <1>6, <1>7, <1>8, <1>9, <1>10, <1>11, <1>12 DEF CallerStep

\* A hub listens or dies: callers and lock file are as before.
LEMMA HubKeepsLock ==
    ASSUME StartInv, NEW h \in Hub, Listen(h) \/ HubDies(h)
    PROVE  StartInv'
<1>1. /\ UNCHANGED <<built, lock, pc, answer, spawned>>
      /\ \E x \in {"serving", "none"} : hub' = [hub EXCEPT ![h] = x]
  BY DEF Listen, HubDies
<1>2. StartTypeOK
  BY DEF StartInv
<1>3. hub' \in [Hub -> {"none", "starting", "serving"}]
  BY <1>1, <1>2 DEF StartTypeOK
<1>4. StartTypeOK'
  BY <1>1, <1>2, <1>3 DEF StartTypeOK
<1>5. OneHolder'
  BY <1>1 DEF StartInv, OneHolder, Holding
<1> QED BY <1>4, <1>5 DEF StartInv

\* The invariant is inductive.
LEMMA StartNextInv == StartInv /\ [StartNext]_startVars => StartInv'
<1> SUFFICES ASSUME StartInv, [StartNext]_startVars PROVE StartInv'
  OBVIOUS
<1>1. CASE StartNext
  BY <1>1, CallerKeepsLock, HubKeepsLock DEF StartNext
<1>2. CASE UNCHANGED startVars
  <2>1. UNCHANGED <<built, lock, hub, pc, answer, spawned>>
    BY <1>2 DEF startVars
  <2>2. StartTypeOK'
    BY <2>1 DEF StartInv, StartTypeOK
  <2>3. OneHolder'
    BY <2>1 DEF StartInv, OneHolder, Holding
  <2> QED BY <2>2, <2>3 DEF StartInv
<1> QED BY <1>1, <1>2

\* Nobody holds the lock at the start.
LEMMA StartInitInv == StartInit => StartInv
<1> SUFFICES ASSUME StartInit PROVE StartInv
  OBVIOUS
<1>1. \A c \in Caller : pc[c] = "idle"
  BY DEF StartInit
<1>2. OneHolder
  BY <1>1 DEF OneHolder, Holding
<1>3. pc \in [Caller -> {"idle", "release", "again", "sleep", "dead", "killed"} \cup Checking \cup Ended]
  BY DEF StartInit
<1>4. built \in BOOLEAN /\ lock \in BOOLEAN /\ hub \in [Hub -> {"none", "starting", "serving"}]
  BY DEF StartInit
<1>5. answer \in [Caller -> {"none", "up", "down"}] /\ spawned \in [Caller -> BOOLEAN]
  BY DEF StartInit
<1> QED BY <1>2, <1>3, <1>4, <1>5 DEF StartInv, StartTypeOK

\* The lock file admits one caller at a time to the second look and the spawn
\* (ensureHub), and is there as long as it is inside.
THEOREM LockExcludes == StartSpec => []OneHolder
<1>1. StartInv => OneHolder
  BY DEF StartInv
<1> QED BY <1>1, StartInitInv, StartNextInv, PTL DEF StartSpec

(***************************************************************************)
(* The version check: one verdict stands (CompatCache)                     *)
(***************************************************************************)
\* What verifyCompatibility finds, and what is too old of it dropped.
Looked(isInfo) == IF isInfo THEN Invalidated ELSE Cached

\* A cache, written or to be written, that holds at most one verdict.
IsOneVerdict(k) ==
    /\ k.error \in Ages /\ k.success \in Ages
    /\ k.error # "none" => k.success = "none" /\ ~k.notice /\ Verdict(k.about) = "error"
    /\ k.success # "none" => Verdict(k.about) # "error" /\ k.notice = (Verdict(k.about) = "warning")

\* Dropping what is too old leaves nothing of a verdict that is dropped.
LEMMA DroppingKeepsVerdict ==
    ASSUME OneVerdict, NEW isInfo \in BOOLEAN
    PROVE  IsOneVerdict(DropOld(Looked(isInfo)))
<1>1. IsOneVerdict(Invalidated)
  BY DEF IsOneVerdict, Invalidated, Ages
<1>2. IsOneVerdict(Cached)
  BY DEF OneVerdict, IsOneVerdict, Cached
<1>3. DropOld(Invalidated) = Invalidated
  BY DEF DropOld, Invalidated
<1>4. IsOneVerdict(DropOld(Cached))
  <2>1. CASE success = "old" /\ error = "none"
    BY <1>1, <2>1 DEF DropOld, Cached
  <2>2. CASE error = "old"
    <3>1. DropOld(Cached) = [error |-> "none", success |-> "none", notice |-> notice, about |-> about]
      BY <2>2 DEF DropOld, Cached
    <3> QED BY <3>1 DEF IsOneVerdict, Ages
  <2>3. CASE ~(success = "old" /\ error = "none") /\ error # "old"
    BY <1>2, <2>3 DEF DropOld, Cached
  <2> QED BY <2>1, <2>2, <2>3
<1> QED BY <1>1, <1>3, <1>4 DEF Looked

\* Whoever writes the cache as a whole leaves one verdict in it.
LEMMA WrittenIsVerdict ==
    ASSUME NEW k, IsOneVerdict(k), CacheBecomes(k)
    PROVE  OneVerdict'
<1>1. error' = k.error /\ success' = k.success /\ notice' = k.notice /\ about' = k.about
  BY DEF CacheBecomes
<1> QED BY <1>1 DEF IsOneVerdict, OneVerdict

\* The invariant is inductive.
LEMMA VerdictStays == OneVerdict /\ [CompatNext]_compatVars => OneVerdict'
<1> SUFFICES ASSUME OneVerdict, [CompatNext]_compatVars PROVE OneVerdict'
  OBVIOUS
<1>1. ASSUME UNCHANGED cache PROVE OneVerdict'
  BY <1>1 DEF cache, OneVerdict
<1>2. ASSUME NEW c \in Calls, NEW t \in Targets, NEW isInfo \in BOOLEAN, Request(c, t, isInfo)
      PROVE  OneVerdict'
  <2>1. CacheBecomes(DropOld(Looked(isInfo)))
    BY <1>2 DEF Request, Looked
  <2> QED BY <2>1, DroppingKeepsVerdict, WrittenIsVerdict
<1>3. ASSUME NEW c \in Calls, Passed(c) PROVE OneVerdict'
  <2> DEFINE v == Verdict(reply[c])
             k == [error |-> "none", success |-> "fresh", notice |-> v = "warning", about |-> reply[c]]
  <2>1. v # "error" /\ CacheBecomes(k)
    BY <1>3 DEF Passed
  <2>2. IsOneVerdict(k)
    BY <2>1 DEF IsOneVerdict, Ages
  <2> QED BY <2>1, <2>2, WrittenIsVerdict
<1>4. ASSUME NEW c \in Calls, Rejected(c) PROVE OneVerdict'
  <2> DEFINE k == [error |-> "fresh", success |-> "none", notice |-> FALSE, about |-> reply[c]]
  <2>1. Verdict(reply[c]) = "error" /\ CacheBecomes(k)
    BY <1>4 DEF Rejected
  <2>2. IsOneVerdict(k)
    BY <2>1 DEF IsOneVerdict, Ages
  <2> QED BY <2>1, <2>2, WrittenIsVerdict
<1>5. ASSUME NEW c \in Calls, TdAnswers(c) \/ Api(c) \/ Throws(c) PROVE OneVerdict'
  BY <1>1, <1>5 DEF TdAnswers, Api, Throws
<1>6. CASE Age
  BY <1>6 DEF Age, Ageing, OneVerdict, Ages
<1>7. CASE TdChanges
  BY <1>1, <1>7 DEF TdChanges
<1>8. CASE UNCHANGED compatVars
  BY <1>1, <1>8 DEF compatVars
<1> QED
  BY <1>2, <1>3, <1>4, <1>5, <1>6, <1>7, <1>8 DEF CompatNext, Proceed

\* At most one verdict is cached, with the notice that belongs to it, whatever
\* versions, targets and callers there are (verifyCompatibility).
THEOREM OneVerdictStands == CompatSpec => []OneVerdict
<1>1. CompatInit => OneVerdict
  BY DEF CompatInit, OneVerdict, Ages
<1> QED BY <1>1, VerdictStays, PTL DEF CompatSpec

(***************************************************************************)
(* The sessions (SessionTransport).  They end together in both maps; what  *)
(* the registry loses, it closes.                                          *)
(***************************************************************************)
LEMMA SessionsStartConsistent == Init => SessionInv
<1> SUFFICES ASSUME Init PROVE SessionInv
  OBVIOUS
<1>1. 0 \in 0..TtlTicks + 1
  BY TtlAssumption
<1>2. TypeOK
  BY <1>1 DEF Init, TypeOK, Kinds, Idle
<1>3. TrackedExactly /\ StreamsAreRegistered /\ DueWhileUp /\ AgesInTime /\ QuietIsAge
  BY DEF Init, TrackedExactly, StreamsAreRegistered, DueWhileUp, AgesInTime, QuietIsAge
<1> QED BY <1>2, <1>3 DEF SessionInv

\* Requests: what a client sends and what the server does with it.
LEMMA RequestsKeepSessions ==
    ASSUME SessionInv, NEW c \in Clients, Send(c) \/ Handle(c) \/ Leave(c)
    PROVE  SessionInv'
<1> USE NoSessionAssumption, TtlAssumption
<1> USE DEF SessionInv, TypeOK, TrackedExactly, StreamsAreRegistered,
            DueWhileUp, AgesInTime, QuietIsAge, Kinds, Idle
<1>1. CASE Send(c)
  BY <1>1 DEF Send
<1>2. CASE Initialize(c)
  <2>1. PICK s \in Sessions :
          /\ Fresh(s)
          /\ registry' = registry \union {s}
          /\ tracked' = tracked \union {s}
          /\ age' = [age EXCEPT ![s] = 0]
          /\ quiet' = [quiet EXCEPT ![s] = 0]
          /\ session' = [session EXCEPT ![c] = s]
    BY <1>2 DEF Initialize
  <2>2. /\ request' = [request EXCEPT ![c] = Idle]
        /\ UNCHANGED <<phase, due, streams, connected>>
    BY <1>2 DEF Initialize
  <2>3. /\ age' \in [Sessions -> 0..TtlTicks + 1]
        /\ quiet' \in [Sessions -> Nat]
        /\ \A x \in Sessions : age'[x] = IF x = s THEN 0 ELSE age[x]
        /\ \A x \in Sessions : quiet'[x] = IF x = s THEN 0 ELSE quiet[x]
    BY <2>1
  <2>4. TypeOK'
    BY <2>1, <2>2, <2>3
  <2>5. AgesInTime' /\ QuietIsAge'
    BY <2>1, <2>2, <2>3
  <2> QED BY <2>1, <2>2, <2>4, <2>5
<1>3. CASE Refuse(c)
  BY <1>3 DEF Refuse
<1>4. CASE Reuse(c)
  <2> DEFINE s == session[c]
  <2>1. s \in Sessions /\ s \in registry
    BY <1>4 DEF Reuse
  <2>2. /\ \A x \in Sessions : age'[x] = IF x = s /\ s \in tracked THEN 0 ELSE age[x]
        /\ \A x \in Sessions : quiet'[x] = IF x = s THEN 0 ELSE quiet[x]
        /\ \A x \in Sessions : streams'[x] = IF x = s THEN streams[s] \union {request[c]} ELSE streams[x]
    BY <1>4, <2>1 DEF Reuse
  <2>3. TypeOK'
    BY <1>4, <2>1 DEF Reuse
  <2>4. /\ UNCHANGED <<phase, registry, tracked, due, session>>
    BY <1>4 DEF Reuse
  <2>5. AgesInTime' /\ QuietIsAge'
    BY <2>1, <2>2, <2>4
  <2>6. StreamsAreRegistered'
    BY <2>1, <2>2, <2>4
  <2> QED BY <2>3, <2>4, <2>5, <2>6
<1>5. CASE Delete(c)
  BY <1>5 DEF Delete, CloseTransports
<1>6. CASE Leave(c)
  BY <1>6 DEF Leave
<1> QED BY <1>1, <1>2, <1>3, <1>4, <1>5, <1>6 DEF Handle

\* The interval: a tick ages what is tracked, its callback drops what is too old.
LEMMA CleanupKeepsSessions ==
    ASSUME SessionInv, Tick \/ RunCleanupTask
    PROVE  SessionInv'
<1> USE TtlAssumption
<1> USE DEF SessionInv, TypeOK, TrackedExactly, StreamsAreRegistered,
            DueWhileUp, AgesInTime, QuietIsAge
<1>1. CASE Tick
  <2>1. registry = tracked
    BY <1>1 DEF Tick
  <2>2. \A x \in Sessions : x \in tracked => age[x] + 1 \in 0..TtlTicks + 1
    BY <1>1 DEF Tick
  <2>3. age' \in [Sessions -> 0..TtlTicks + 1]
    BY <1>1, <2>2 DEF Tick
  <2>4. quiet' \in [Sessions -> Nat] /\ QuietIsAge'
    BY <1>1 DEF Tick
  <2> QED BY <1>1, <2>3, <2>4 DEF Tick
<1>2. CASE RunCleanupTask
  <2>1. \A x \in tracked' : age[x] <= TtlTicks
    BY <1>2 DEF RunCleanupTask, Expired
  <2> QED BY <1>2, <2>1 DEF RunCleanupTask, CloseTransports, Expired
<1> QED BY <1>1, <1>2

\* Answers and the stop of the server.
LEMMA StoppingKeepsSessions ==
    ASSUME SessionInv,
           \/ \E s \in Sessions : Answer(s)
           \/ Shutdown \/ Exit \/ SecondSignal
           \/ \E c \in Clients : KeepAliveEnds(c)
    PROVE  SessionInv'
<1> USE DEF SessionInv, TypeOK, TrackedExactly, StreamsAreRegistered,
            DueWhileUp, AgesInTime, QuietIsAge
<1>1. ASSUME NEW s \in Sessions, Answer(s)
      PROVE  SessionInv'
  BY <1>1 DEF Answer
<1>2. CASE Shutdown
  BY <1>2 DEF Shutdown, CloseTransports
<1>3. CASE Exit
  BY <1>3 DEF Exit
<1>4. CASE SecondSignal
  BY <1>4 DEF SecondSignal, CloseTransports
<1>5. ASSUME NEW c \in Clients, KeepAliveEnds(c)
      PROVE  SessionInv'
  BY <1>5 DEF KeepAliveEnds
<1> QED BY <1>1, <1>2, <1>3, <1>4, <1>5

\* The invariant is inductive.
LEMMA SessionsStayConsistent == SessionInv /\ [Next]_vars => SessionInv'
<1> SUFFICES ASSUME SessionInv, [Next]_vars
             PROVE  SessionInv'
  OBVIOUS
<1>1. CASE UNCHANGED vars
  BY <1>1 DEF vars, SessionInv, TypeOK, TrackedExactly, StreamsAreRegistered,
              DueWhileUp, AgesInTime, QuietIsAge
<1>2. CASE Next
  BY <1>2, RequestsKeepSessions, CleanupKeepsSessions, StoppingKeepsSessions
     DEF Next, ClientNext, ServerNext
<1> QED BY <1>1, <1>2

\* The inductive invariant holds in every run: types, agreement of the maps,
\* streams of registered sessions only, ages that the callback keeps in time.
THEOREM SessionsAreConsistent == Spec => []SessionInv
BY SessionsStartConsistent, SessionsStayConsistent, PTL DEF Spec

\* The registry and the manager hold the same sessions while the server is up.
THEOREM SessionsAreTracked == Spec => []TrackedExactly
<1>1. SessionInv => TrackedExactly
  BY DEF SessionInv
<1> QED BY <1>1, SessionsAreConsistent, PTL

(***************************************************************************)
(* A session leaves the registry by a DELETE of its client, by its age     *)
(* (which is the time since its last request), or by a shutdown.           *)
(***************************************************************************)
Reason(s) ==
    \/ \E c \in Clients : session[c] = s /\ request[c] = "delete"
    \/ quiet[s] > TtlTicks
    \/ phase' # "up"

\* A session that leaves the registry has a reason to.
LEMMA RemovalsHaveAReason ==
    ASSUME SessionInv, [Next]_vars, NEW s \in registry \ registry'
    PROVE  Reason(s)
<1> USE DEF SessionInv, TypeOK
<1>1. s \in Sessions
  OBVIOUS
<1>2. CASE \E c \in Clients : Delete(c)
  BY <1>1, <1>2 DEF Delete, CloseTransports, Reason
<1>3. CASE RunCleanupTask
  BY <1>1, <1>3 DEF RunCleanupTask, CloseTransports, Expired, QuietIsAge, Reason
<1>4. CASE Shutdown \/ SecondSignal
  BY <1>4 DEF Shutdown, SecondSignal, Reason
<1>5. CASE registry \subseteq registry'
  BY <1>5
<1>6. CASE Next
  <2>1. ASSUME NEW c \in Clients, Send(c) \/ Handle(c) \/ Leave(c) \/ KeepAliveEnds(c)
        PROVE  Delete(c) \/ registry \subseteq registry'
    BY <2>1 DEF Send, Handle, Initialize, Refuse, Reuse, Leave, KeepAliveEnds
  <2>2. ASSUME Tick \/ Exit \/ \E x \in Sessions : Answer(x)
        PROVE  registry' = registry
    BY <2>2 DEF Tick, Exit, Answer
  <2> QED BY <1>2, <1>3, <1>4, <1>5, <1>6, <2>1, <2>2 DEF Next, ClientNext, ServerNext
<1>7. CASE UNCHANGED vars
  BY <1>5, <1>7 DEF vars
<1> QED BY <1>6, <1>7

\* No session ends but for a reason.
THEOREM SessionsEndForAReason == Spec => EndsForAReason
<1>1. SessionInv /\ [Next]_vars =>
        [\A s \in registry \ registry' :
            \/ \E c \in Clients : session[c] = s /\ request[c] = "delete"
            \/ quiet[s] > TtlTicks
            \/ phase' # "up"]_vars
  BY RemovalsHaveAReason DEF Reason
<1> QED BY <1>1, SessionsAreConsistent, PTL DEF Spec, EndsForAReason
=============================================================================
