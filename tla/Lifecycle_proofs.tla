--------------------------- MODULE Lifecycle_proofs ---------------------------
(***************************************************************************)
(* The life of a project, for any number of calls and processes: as long   *)
(* as calls do not overlap and no two TDs of it run at once, state.json    *)
(* names the one a start has spawned, and a stop ends it; in any life it   *)
(* never names the TD of a copied directory.                               *)
(***************************************************************************)
EXTENDS Lifecycle, TLAPS

USE DEF AtRest, Creating, Starting, Stopping, Spawned, Waiting, Tds, SpawnedTds, Orderly, Busy,
        OfTheProject, call, proc, hub, Goto

\* Before the first call there is no TD and no file.
LEMMA LifeStartsOrderly == Init => LifecycleInv
<1> SUFFICES ASSUME Init PROVE LifecycleInv
  OBVIOUS
<1>1. TypeOK
  BY DEF Init, TypeOK
<1>2. RunningIsRecorded /\ StopEndsIt /\ OneBusy
  BY DEF Init, RunningIsRecorded, StopEndsIt, OneBusy
<1>3. NamesNoCopy /\ OneTd /\ WorksOnFile /\ SeesItsTd
  BY NoPidAssumption DEF Init, NamesNoCopy, OneTd, WorksOnFile, SeesItsTd
<1> QED BY <1>1, <1>2, <1>3 DEF LifecycleInv

\* What the invariant says of the world, and what of each call.
World ==
    /\ RunningIsRecorded
    /\ OneTd
    /\ OfTheProject(file)
    /\ past = "alone" => \A p \in Pids : kind[p] \in {"none", "td"}

CallInv(c) ==
    /\ OfTheProject(pid[c])
    /\ Orderly =>
        /\ pc[c] \in {"remove", "sync"} => SpawnedTds = {}
        /\ pc[c] \in Spawned => mine[c] \in Pids /\ kind[mine[c]] = "td" /\ SpawnedTds \subseteq {mine[c]}
        /\ pc[c] \in Spawned /\ mine[c] \in alive => pid[c] = mine[c]
        /\ pc[c] \in {"quit", "reap"} => pid[c] = file
        /\ pc[c] \in Waiting /\ mine[c] \in alive /\ peer \in Pids /\ kind[peer] # "copy"
              => peer = mine[c]
    /\ past = "alone" =>
        /\ pc[c] \in Spawned => sock \in {NoPid, mine[c]} /\ SpawnedTds \subseteq {mine[c]}
        /\ pc[c] \in {"final", "select", "ready"} => seen[c] = mine[c]

\* What happens once is remembered.
Onward == (Orderly' => Orderly) /\ (past' = "alone" => past = "alone")
KindsStay == \A p \in Pids : kind[p] # "none" => kind'[p] = kind[p]

\* The invariant as what is said of the world and of each call.
LEMMA LifeParts ==
    LifecycleInv <=> TypeOK /\ World /\ OneBusy /\ \A c \in Calls : CallInv(c)
BY DEF LifecycleInv, World, CallInv, StopEndsIt, NamesNoCopy, WorksOnFile, SeesItsTd

\* And back.
LEMMA InvFromParts ==
    ASSUME TypeOK', World', OneBusy', \A c \in Calls : CallInv(c)'
    PROVE  LifecycleInv'
BY DEF LifecycleInv, World, CallInv, StopEndsIt, NamesNoCopy, WorksOnFile, SeesItsTd

-----------------------------------------------------------------------------
(* Types                                                                   *)

\* Types, for the step that begins a call.
LEMMA BeginTypes ==
    ASSUME TypeOK, NEW c \in Calls,
           NEW where \in AtRest \union Creating \union Starting \union Stopping, Begin(c, where)
    PROVE  /\ pc' \in [Calls -> AtRest \union Creating \union Starting \union Stopping]
           /\ mine' \in [Calls -> Pids \union {NoPid}]
           /\ seen' \in [Calls -> Pids \union {NoPid}]
           /\ past' \in {"alone", "stranger", "disorder"}
BY DEF Begin, Beside, TypeOK

\* Types, for the step that ends one.
LEMMA EndTypes ==
    ASSUME TypeOK, NEW c \in Calls, End(c)
    PROVE  /\ pc' \in [Calls -> AtRest \union Creating \union Starting \union Stopping]
           /\ mine' \in [Calls -> Pids \union {NoPid}]
           /\ seen' \in [Calls -> Pids \union {NoPid}]
           /\ pid' \in [Calls -> Pids \union {NoPid, NoFile}]
BY DEF End, TypeOK

\* Types, for every step of a call.
LEMMA CallsKeepTypes ==
    ASSUME TypeOK, NEW c \in Calls,
           Create(c) \/ Start(c) \/ Stop(c) \/ Proceed(c) \/ TimesOut(c)
    PROVE  TypeOK'
<1>1. CASE Create(c) \/ Start(c) \/ Stop(c)
  <2>1. \E where \in AtRest \union Creating \union Starting \union Stopping : Begin(c, where)
    BY <1>1 DEF Create, Start, Stop
  <2>2. /\ pc' \in [Calls -> AtRest \union Creating \union Starting \union Stopping]
        /\ mine' \in [Calls -> Pids \union {NoPid}]
        /\ seen' \in [Calls -> Pids \union {NoPid}]
        /\ past' \in {"alone", "stranger", "disorder"}
    BY <2>1, BeginTypes
  <2> QED BY <1>1, <2>2 DEF Create, Start, Stop, TypeOK
<1>2. CASE Fails(c) \/ Announce(c) \/ SyncLast(c) \/ TimesOut(c)
  <2>1. End(c)
    BY <1>2 DEF Fails, Announce, SyncLast, TimesOut
  <2> QED BY <1>2, <2>1, EndTypes DEF Fails, Announce, SyncLast, TimesOut, PostExpect, TypeOK
<1>3. CASE Look(c) \/ Select(c)
  <2>1. \/ End(c)
        \/ /\ \E where \in {"probe", "ready"} : Goto(c, where)
           /\ UNCHANGED <<mine, seen>>
           /\ pid' = pid \/ pid' = [pid EXCEPT ![c] = NoPid]
    BY <1>3 DEF Look, Select
  <2>2. owned' \in BOOLEAN /\ UNCHANGED <<proc, file, hub, past>>
    BY <1>3 DEF Look, Select, TypeOK
  <2>3. CASE End(c)
    BY <2>2, <2>3, EndTypes DEF TypeOK
  <2> QED BY <2>1, <2>2, <2>3 DEF TypeOK
<1>4. CASE Spawn(c)
  BY <1>4 DEF Spawn, Launch, Beside, TypeOK
<1>5. CASE Enlist(c) \/ Expect(c) \/ Upsert(c)
  BY <1>5 DEF Enlist, Expect, Upsert, PostExpect, UpsertOwned, TypeOK
<1>6. CASE Probe(c) \/ Sleep(c) \/ Final(c)
  <2>1. /\ \E where \in {"look", "sleep", "final", "select"} : Goto(c, where)
        /\ seen' = seen \/ (sock # NoPid /\ seen' = [seen EXCEPT ![c] = sock])
        /\ pid' = pid \/ \E p \in Pids \union {NoPid, NoFile} : pid' = [pid EXCEPT ![c] = p]
    BY <1>6 DEF Probe, Sleep, Final, TypeOK
  <2>2. /\ file' \in Pids \union {NoPid, NoFile}
        /\ UNCHANGED <<mine, proc, hub, owned, past>>
    BY <1>6 DEF Probe, Sleep, Final, TypeOK
  <2> QED BY <2>1, <2>2 DEF TypeOK
<1>7. CASE Quit(c) \/ Reap(c) \/ Remove(c)
  BY <1>7 DEF Quit, Reap, Remove, Forget, TypeOK
<1> QED BY <1>1, <1>2, <1>3, <1>4, <1>5, <1>6, <1>7 DEF Proceed

\* Types, for users, exits and the hub.
LEMMA EnvironmentKeepsTypes ==
    ASSUME TypeOK, Environment
    PROVE  TypeOK'
<1>1. ASSUME NEW p \in Pids, Open(p, "user") \/ Open(p, "copy") \/ Exit(p) \/ Connect(p)
      PROVE  TypeOK'
  BY <1>1 DEF Open, Launch, Beside, Exit, Connect, TypeOK
<1>2. CASE Close \/ Sweep \/ ExpectLost \/ Sync
  BY <1>2 DEF Close, Sweep, ExpectLost, Sync, TypeOK
<1> QED BY <1>1, <1>2 DEF Environment

-----------------------------------------------------------------------------
(* Steps that neither start nor end a TD.  A call is as it was, or at rest.  *)

Same(d) == pc'[d] = pc[d] /\ mine'[d] = mine[d] /\ seen'[d] = seen[d] /\ pid'[d] = pid[d]

Rests(d) == pc'[d] \in {"idle"} \union Creating /\ pid'[d] \in {pid[d], NoPid}

Quiet ==
    /\ \A d \in Calls : Same(d) \/ Rests(d)
    /\ sock' \in {sock, NoPid}
    /\ peer' \in {peer, "none", "blank"}
    /\ UNCHANGED <<kind, file, past>>
    /\ alive' \subseteq alive

\* A quiet step keeps the invariant.
LEMMA QuietKeepsInv ==
    ASSUME LifecycleInv, TypeOK', Quiet
    PROVE  LifecycleInv'
<1>1. TypeOK /\ World /\ OneBusy /\ \A c \in Calls : CallInv(c)
  BY LifeParts
<1>2. World'
  BY <1>1 DEF World, RunningIsRecorded, OneTd, Quiet
<1>3. OneBusy'
  BY <1>1 DEF OneBusy, Quiet, Same, Rests
<1>4. ASSUME NEW d \in Calls
      PROVE  CallInv(d)'
  <2>1. CASE Rests(d)
    BY <1>1, <2>1, NoPidAssumption DEF CallInv, Quiet, Rests
  <2>2. CASE Same(d)
    BY <1>1, <2>2, PidsAssumption DEF CallInv, Quiet, Same
  <2> QED BY <2>1, <2>2 DEF Quiet
<1>5. World' /\ OneBusy' /\ \A c \in Calls : CallInv(c)'
  BY <1>2, <1>3, <1>4
<1> QED BY <1>5, InvFromParts

\* The steps of calls that are quiet.
LEMMA QuietSteps ==
    ASSUME TypeOK, NEW c \in Calls,
           \/ Fails(c) \/ TimesOut(c) \/ SyncLast(c) \/ Enlist(c) \/ Announce(c)
           \/ (Look(c) /\ End(c)) \/ (Select(c) /\ End(c))
    PROVE  Quiet
<1>1. \A d \in Calls \ {c} : Same(d)
  BY DEF Fails, TimesOut, SyncLast, Enlist, Announce, End, Same, TypeOK
<1>2. Rests(c)
  BY DEF Fails, TimesOut, SyncLast, Enlist, Announce, End, Rests, TypeOK
<1>3. /\ sock' = sock
      /\ peer' \in {peer, "blank"}
      /\ UNCHANGED <<kind, alive, file, past>>
  BY DEF Fails, TimesOut, SyncLast, Enlist, Announce, PostExpect, UpsertOwned, Look, Select
<1> QED BY <1>1, <1>2, <1>3 DEF Quiet

\* The steps of the environment that are quiet.
LEMMA QuietEnvironment ==
    ASSUME TypeOK, Close \/ Sweep \/ ExpectLost \/ Sync \/ \E p \in Pids : Exit(p)
    PROVE  Quiet
BY DEF Close, Sweep, ExpectLost, Sync, Exit, Quiet, Same

-----------------------------------------------------------------------------
(* The steps of a start or a stop.  No other is in progress in an orderly  *)
(* life, so they need to preserve only the world and their own part.       *)

\* A step of a busy call that keeps the world and its own part.
LEMMA BusyKeepsInv ==
    ASSUME LifecycleInv, TypeOK', NEW c \in Calls, Busy(c),
           \A d \in Calls \ {c} : Same(d),
           Onward, KindsStay, World', CallInv(c)'
    PROVE  LifecycleInv'
<1>1. OneBusy /\ \A d \in Calls : CallInv(d)
  BY LifeParts
<1>2. OneBusy'
  BY <1>1 DEF OneBusy, Same, Onward
<1>3. ASSUME NEW d \in Calls
      PROVE  CallInv(d)'
  <2>1. CASE d = c
    BY <2>1
  <2>2. CASE d # c
    <3>1. Same(d)
      BY <2>2
    <3>2. CASE ~Orderly'
      BY <1>1, <3>1, <3>2 DEF CallInv, Same, KindsStay
    <3>3. CASE Orderly'
      <4>1. ~Busy(d)
        BY <1>1, <2>2, <3>3 DEF OneBusy, Onward
      <4> QED BY <1>1, <3>1, <4>1 DEF CallInv, Same, Onward, KindsStay
    <3> QED BY <3>2, <3>3
  <2> QED BY <2>1, <2>2
<1> QED BY <1>2, <1>3, InvFromParts

\* None of them touches another call.
LEMMA BusyTouchesOwn ==
    ASSUME TypeOK, NEW c \in Calls,
           \/ Spawn(c) \/ Expect(c) \/ Upsert(c) \/ Look(c) \/ Probe(c) \/ Sleep(c)
           \/ Final(c) \/ Select(c) \/ Quit(c) \/ Reap(c) \/ Remove(c)
    PROVE  Busy(c) /\ \A d \in Calls \ {c} : Same(d)
<1>1. CASE Spawn(c)
  BY <1>1 DEF Spawn, Same, TypeOK
<1>2. CASE Expect(c) \/ Upsert(c) \/ Sleep(c) \/ Final(c) \/ Quit(c) \/ Reap(c) \/ Remove(c)
  BY <1>2 DEF Expect, Upsert, Sleep, Final, Quit, Reap, Forget, Remove, Same, TypeOK
<1>3. CASE Look(c) \/ Select(c)
  BY <1>3 DEF Look, Select, End, Same, TypeOK
<1>4. CASE Probe(c)
  <2>1. pc[c] = "probe" /\ mine' = mine /\ \E where \in {"sleep", "final"} : Goto(c, where)
    BY <1>4 DEF Probe
  <2>2. seen' = seen \/ seen' = [seen EXCEPT ![c] = sock]
    BY <1>4 DEF Probe
  <2>3. pid' = pid \/ \E x \in Pids \union {pid[c]} : pid' = [pid EXCEPT ![c] = x]
    BY <1>4 DEF Probe
  <2> QED BY <2>1, <2>2, <2>3 DEF Same, TypeOK
<1> QED BY <1>1, <1>2, <1>3, <1>4

\* The world stays as it is when no TD starts and the file is not written.
LEMMA WorldStays ==
    ASSUME World, alive' \subseteq alive, UNCHANGED <<kind, file, past>>
    PROVE  World'
BY DEF World, RunningIsRecorded, OneTd

\* A start finds no TD running, or remembers that it did.
LEMMA SpawnKeepsInv ==
    ASSUME LifecycleInv, TypeOK', NEW c \in Calls, Spawn(c)
    PROVE  LifecycleInv'
<1>1. TypeOK /\ World /\ CallInv(c)
  BY LifeParts
<1>2. PICK p \in Pids : /\ kind[p] = "none"
                        /\ kind' = [kind EXCEPT ![p] = "td"]
                        /\ alive' = alive \union {p}
                        /\ mine' = [mine EXCEPT ![c] = p]
                        /\ pid' = [pid EXCEPT ![c] = p]
                        /\ file' = p
  BY DEF Spawn, Launch
<1>3. /\ Onward
      /\ Orderly' => Tds = {}
      /\ past' = "alone" => sock = NoPid
      /\ pc' = [pc EXCEPT ![c] = "expect"]
      /\ UNCHANGED <<seen, hub>>
  BY DEF Spawn, Beside, Onward
<1>4. Tds' \subseteq Tds \union {p}
  BY <1>1, <1>2 DEF TypeOK
<1>5. RunningIsRecorded'
  BY <1>2, <1>3, <1>4 DEF RunningIsRecorded
<1>6. OneTd' /\ OfTheProject(file)' /\ KindsStay
  BY <1>1, <1>2, <1>3, <1>4 DEF OneTd, KindsStay, TypeOK
<1>7. (past = "alone" => \A q \in Pids : kind[q] \in {"none", "td"})'
  <2> SUFFICES ASSUME past' = "alone" PROVE \A q \in Pids : kind'[q] \in {"none", "td"}
    OBVIOUS
  <2>1. past = "alone"
    BY <1>3 DEF Onward
  <2> QED BY <1>1, <1>2, <2>1 DEF World, TypeOK
<1>9. CallInv(c)'
  BY <1>1, <1>2, <1>3, <1>4 DEF CallInv, TypeOK
<1>8. Busy(c) /\ \A d \in Calls \ {c} : Same(d)
  BY <1>1, BusyTouchesOwn
<1> QED BY <1>3, <1>5, <1>6, <1>7, <1>8, <1>9, BusyKeepsInv DEF World

\* The steps of a start that wait for the bridge, and those that write to the hub.
LEMMA WaitKeepsInv ==
    ASSUME LifecycleInv, TypeOK', NEW c \in Calls,
           \/ Expect(c) \/ Upsert(c) \/ Sleep(c)
           \/ (Look(c) /\ ~End(c)) \/ (Select(c) /\ ~End(c))
    PROVE  LifecycleInv'
<1>1. TypeOK /\ World /\ CallInv(c)
  BY LifeParts
<1>2. World'
  BY <1>1, WorldStays DEF Expect, Upsert, Sleep, Look, Select
<1>3. Busy(c) /\ \A d \in Calls \ {c} : Same(d)
  BY <1>1, BusyTouchesOwn
<1>4. Onward /\ KindsStay
  BY DEF Expect, Upsert, Sleep, Look, Select, Onward, KindsStay
<1>5. CallInv(c)'
  <2>1. CASE Expect(c) \/ Upsert(c)
    BY <1>1, <2>1, PidsAssumption
       DEF Expect, Upsert, PostExpect, UpsertOwned, CallInv, TypeOK
  <2>2. CASE Sleep(c) \/ (Look(c) /\ ~End(c))
    <3>1. /\ pc[c] \in {"sleep", "look"} /\ \E where \in {"look", "probe"} : Goto(c, where)
          /\ UNCHANGED <<mine, seen, pid, proc, file, hub, past>>
      BY <2>2 DEF Sleep, Look
    <3> QED BY <1>1, <3>1 DEF CallInv, TypeOK
  <2>3. CASE Select(c) /\ ~End(c)
    <3>1. /\ pc[c] = "select" /\ Goto(c, "ready")
          /\ pid' = [pid EXCEPT ![c] = NoPid]
          /\ UNCHANGED <<mine, seen, proc, file, hub, past>>
      BY <2>3 DEF Select
    <3> QED BY <1>1, <3>1, NoPidAssumption DEF CallInv, TypeOK
  <2> QED BY <2>1, <2>2, <2>3
<1> QED BY <1>2, <1>3, <1>4, <1>5, BusyKeepsInv

\* What passes the probe of an orderly life is the TD that was spawned.
LEMMA ProbeKeepsInv ==
    ASSUME LifecycleInv, TypeOK', NEW c \in Calls, Probe(c)
    PROVE  LifecycleInv'
<1>1. TypeOK /\ World /\ CallInv(c)
  BY LifeParts
<1>2. UNCHANGED <<mine, proc, file, hub, owned, past>> /\ pc[c] = "probe"
  BY DEF Probe
<1>3. World'
  BY <1>1, <1>2, WorldStays
<1>4. Busy(c) /\ \A d \in Calls \ {c} : Same(d)
  BY <1>1, BusyTouchesOwn
<1>5. CallInv(c)'
  <2>1. CASE ~(sock # NoPid /\ peer # "none" /\ (peer \in Pids => kind[peer] # "copy"))
    <3>1. pc' = [pc EXCEPT ![c] = "sleep"] /\ UNCHANGED <<seen, pid>>
      BY <2>1 DEF Probe
    <3> QED BY <1>1, <1>2, <3>1 DEF CallInv, TypeOK
  <2>2. CASE sock # NoPid /\ peer # "none" /\ (peer \in Pids => kind[peer] # "copy")
    <3>1. /\ pc' = [pc EXCEPT ![c] = "final"]
          /\ seen' = [seen EXCEPT ![c] = sock]
          /\ pid' = [pid EXCEPT ![c] = IF peer \in Pids THEN peer ELSE pid[c]]
      BY <2>2 DEF Probe
    <3>2. PICK x : x = IF peer \in Pids THEN peer ELSE pid[c]
      OBVIOUS
    <3>3. pc'[c] = "final" /\ seen'[c] = sock /\ pid'[c] = x
      BY <1>1, <3>1, <3>2 DEF TypeOK
    <3>4. Orderly /\ mine[c] \in alive => x = mine[c]
      <4>1. CASE peer \in Pids
        <5>1. kind[peer] \in {"td", "user"}
          BY <1>1, <2>2, <4>1, PidsAssumption DEF TypeOK
        <5> QED BY <1>1, <1>2, <3>2, <4>1, <5>1 DEF CallInv
      <4>2. CASE peer \notin Pids
        BY <1>1, <1>2, <3>2, <4>2 DEF CallInv
      <4> QED BY <4>1, <4>2
    <3>5. OfTheProject(x)
      BY <1>1, <2>2, <3>2, PidsAssumption DEF CallInv, TypeOK
    <3> QED BY <1>1, <1>2, <2>2, <3>3, <3>4, <3>5 DEF CallInv
  <2> QED BY <2>1, <2>2
<1> QED BY <1>2, <1>3, <1>4, <1>5, BusyKeepsInv DEF Onward, KindsStay

\* The last write of state.json.
LEMMA FinalKeepsInv ==
    ASSUME LifecycleInv, TypeOK', NEW c \in Calls, Final(c)
    PROVE  LifecycleInv'
<1>1. TypeOK /\ World /\ CallInv(c)
  BY LifeParts
<1>2. /\ pc[c] = "final" /\ pc' = [pc EXCEPT ![c] = "select"]
      /\ file' = pid[c]
      /\ UNCHANGED <<mine, seen, pid, proc, hub, owned, past>>
  BY DEF Final
<1>3. Orderly => \A p \in SpawnedTds : file' = p
  BY <1>1, <1>2 DEF CallInv
<1>4. World'
  BY <1>1, <1>2, <1>3 DEF World, RunningIsRecorded, OneTd, CallInv
<1>5. CallInv(c)'
  BY <1>1, <1>2, <1>3 DEF CallInv, TypeOK
<1>6. Busy(c) /\ \A d \in Calls \ {c} : Same(d)
  BY <1>1, BusyTouchesOwn
<1> QED BY <1>2, <1>4, <1>5, <1>6, BusyKeepsInv DEF Onward, KindsStay

\* A stop ends the TD the file names, and there is no other.
LEMMA StopStepsKeepInv ==
    ASSUME LifecycleInv, TypeOK', NEW c \in Calls, Quit(c) \/ Reap(c) \/ Remove(c)
    PROVE  LifecycleInv'
<1>1. TypeOK /\ World /\ CallInv(c)
  BY LifeParts
<1>2. Busy(c) /\ \A d \in Calls \ {c} : Same(d)
  BY <1>1, BusyTouchesOwn
<1>3. UNCHANGED <<kind, past>> /\ alive' \subseteq alive /\ Onward /\ KindsStay
  BY DEF Quit, Reap, Remove, Onward, KindsStay
<1>4. CASE Quit(c) \/ Remove(c)
  <2>1. World'
    BY <1>1, <1>3, <1>4, WorldStays DEF Quit, Remove
  <2>2. CallInv(c)'
    BY <1>1, <1>3, <1>4 DEF Quit, Remove, CallInv, TypeOK
  <2> QED BY <1>2, <1>3, <2>1, <2>2, BusyKeepsInv
<1>5. CASE Reap(c)
  <2>1. /\ pc[c] = "reap" /\ pc' = [pc EXCEPT ![c] = "remove"]
        /\ alive' = alive \ {pid[c]} /\ file' = NoPid /\ pid' = pid
    BY <1>5 DEF Reap, Forget
  <2>2. Orderly => SpawnedTds' = {}
    BY <1>1, <1>3, <2>1 DEF World, RunningIsRecorded, CallInv
  <2>3. World'
    BY <1>1, <1>3, <2>1, <2>2, NoPidAssumption DEF World, RunningIsRecorded, OneTd
  <2>4. CallInv(c)'
    BY <1>1, <1>3, <2>1, <2>2 DEF CallInv, TypeOK
  <2> QED BY <1>2, <1>3, <2>3, <2>4, BusyKeepsInv
<1> QED BY <1>4, <1>5

-----------------------------------------------------------------------------
(* Beginnings, and what happens outside the server.                        *)

\* Who begins beside a start or a stop is remembered.
LEMMA BeginKeepsInv ==
    ASSUME LifecycleInv, TypeOK', NEW c \in Calls, Create(c) \/ Start(c) \/ Stop(c)
    PROVE  LifecycleInv'
<1>1. TypeOK /\ World /\ OneBusy /\ \A d \in Calls : CallInv(d)
  BY LifeParts
<1>2. /\ pc[c] \in AtRest
      /\ pc'[c] \in {"enlist", "ensure", "quit"}
      /\ \A d \in Calls \ {c} : Same(d)
  <2>1. \E where \in {"enlist", "ensure", "quit"} : Begin(c, where)
    BY DEF Create, Start, Stop
  <2>2. pid' = pid \/ pid' = [pid EXCEPT ![c] = file]
    BY DEF Create, Start, Stop
  <2> QED BY <1>1, <2>1, <2>2 DEF Begin, Same, TypeOK
<1>3. /\ Onward /\ KindsStay
      /\ \A d \in Calls \ {c} : Busy(d) => ~Orderly'
  BY DEF Create, Start, Stop, Begin, Beside, Onward, KindsStay
<1>4. /\ UNCHANGED <<proc, hub>>
      /\ file' # file => file = NoFile /\ file' = NoPid /\ pc'[c] = "enlist"
      /\ pc'[c] = "quit" => pid'[c] = file
      /\ pid'[c] \in {pid[c], file}
  BY <1>1 DEF Create, Start, Stop, Begin, TypeOK
<1>5. World'
  <2>1. Orderly /\ file = NoFile => SpawnedTds = {}
    BY <1>1, NoPidAssumption DEF World, RunningIsRecorded, TypeOK
  <2> QED BY <1>1, <1>3, <1>4, <2>1, NoPidAssumption DEF World, RunningIsRecorded, OneTd, Onward
<1>6. OneBusy'
  BY <1>1, <1>2, <1>3 DEF OneBusy, Same, Onward
<1>7. ASSUME NEW d \in Calls
      PROVE  CallInv(d)'
  <2>1. CASE d = c
    BY <1>1, <1>2, <1>4, <2>1 DEF CallInv, World
  <2>2. CASE d # c
    <3>1. Same(d)
      BY <1>2, <2>2
    <3>2. CASE Busy(d)
      BY <1>1, <1>3, <1>4, <2>2, <3>1, <3>2 DEF CallInv, Same
    <3>3. CASE ~Busy(d)
      BY <1>1, <1>3, <1>4, <3>1, <3>3 DEF CallInv, Same, Onward
    <3> QED BY <3>2, <3>3
  <2> QED BY <2>1, <2>2
<1> QED BY <1>5, <1>6, <1>7, InvFromParts

\* A user opens the project, or a copy of it.
LEMMA OpenKeepsInv ==
    ASSUME LifecycleInv, TypeOK', NEW p \in Pids, Open(p, "user") \/ Open(p, "copy")
    PROVE  LifecycleInv'
<1>1. TypeOK /\ World /\ OneBusy /\ \A d \in Calls : CallInv(d)
  BY LifeParts
<1>2. /\ kind[p] = "none"
      /\ alive' = alive \union {p}
      /\ UNCHANGED <<call, file, hub>>
      /\ \/ kind' = [kind EXCEPT ![p] = "user"] /\ (Orderly' => Tds = {})
         \/ kind' = [kind EXCEPT ![p] = "copy"]
      /\ Onward /\ past' # "alone"
  BY DEF Open, Launch, Beside, Onward
<1>3. KindsStay /\ SpawnedTds' = SpawnedTds
  BY <1>1, <1>2 DEF KindsStay, TypeOK
<1>4. ASSUME Orderly'
      PROVE  OneTd' /\ \A d \in Calls : mine[d] \in alive' => mine[d] \in alive \/ mine[d] = p
  <2>1. Tds' = Tds \/ (Tds = {} /\ Tds' = {p})
    BY <1>1, <1>2, <1>4 DEF TypeOK
  <2> QED BY <1>1, <1>2, <1>4, <2>1 DEF World, OneTd, Onward
<1>5. World'
  BY <1>1, <1>2, <1>3, <1>4 DEF World, RunningIsRecorded, OneTd, KindsStay, Onward
<1>6. OneBusy'
  BY <1>1, <1>2 DEF OneBusy, Onward
<1>7. ASSUME NEW d \in Calls
      PROVE  CallInv(d)'
  BY <1>1, <1>2, <1>3, <1>4 DEF CallInv, KindsStay, Onward
<1> QED BY <1>5, <1>6, <1>7, InvFromParts

\* In an orderly life only the TD that was spawned can connect.
LEMMA ConnectKeepsInv ==
    ASSUME LifecycleInv, TypeOK', NEW p \in Pids, Connect(p)
    PROVE  LifecycleInv'
<1>1. TypeOK /\ World /\ OneBusy /\ \A d \in Calls : CallInv(d)
  BY LifeParts
<1>2. p \in alive /\ sock' = p /\ peer' = p /\ UNCHANGED <<call, proc, file, past>>
  BY DEF Connect
<1>3. World' /\ OneBusy'
  BY <1>1, <1>2 DEF World, RunningIsRecorded, OneTd, OneBusy
<1>4. Orderly /\ kind[p] # "copy" => Tds \subseteq {p}
  BY <1>1, <1>2 DEF World, OneTd, TypeOK
<1>5. past = "alone" => p \in SpawnedTds /\ Orderly
  BY <1>1, <1>2 DEF World, TypeOK
<1>6. \A d \in Calls : CallInv(d)'
  BY <1>1, <1>2, <1>4, <1>5 DEF CallInv
<1> QED BY <1>3, <1>6, InvFromParts

-----------------------------------------------------------------------------
\* The invariant is inductive.
LEMMA LifeStaysOrderly == LifecycleInv /\ [Next]_vars => LifecycleInv'
<1> SUFFICES ASSUME LifecycleInv, [Next]_vars
             PROVE  LifecycleInv'
  OBVIOUS
<1>0. TypeOK
  BY DEF LifecycleInv
<1>1. CASE UNCHANGED vars
  BY <1>1 DEF vars, LifecycleInv, TypeOK, RunningIsRecorded, StopEndsIt, NamesNoCopy, OneBusy, OneTd,
              WorksOnFile, SeesItsTd
<1>2. ASSUME NEW c \in Calls,
             Create(c) \/ Start(c) \/ Stop(c) \/ Proceed(c) \/ TimesOut(c)
      PROVE  LifecycleInv'
  <2>1. TypeOK'
    BY <1>0, <1>2, CallsKeepTypes
  <2>2. CASE Create(c) \/ Start(c) \/ Stop(c)
    BY <2>1, <2>2, BeginKeepsInv
  <2>3. CASE \/ Fails(c) \/ TimesOut(c) \/ SyncLast(c) \/ Enlist(c) \/ Announce(c)
             \/ (Look(c) /\ End(c)) \/ (Select(c) /\ End(c))
    BY <1>0, <2>1, <2>3, QuietSteps, QuietKeepsInv
  <2>4. CASE \/ Expect(c) \/ Upsert(c) \/ Sleep(c)
             \/ (Look(c) /\ ~End(c)) \/ (Select(c) /\ ~End(c))
    BY <2>1, <2>4, WaitKeepsInv
  <2>5. CASE Spawn(c) \/ Probe(c) \/ Final(c) \/ Quit(c) \/ Reap(c) \/ Remove(c)
    BY <2>1, <2>5, SpawnKeepsInv, ProbeKeepsInv, FinalKeepsInv, StopStepsKeepInv
  <2> QED BY <1>2, <2>2, <2>3, <2>4, <2>5 DEF Proceed
<1>3. CASE Environment
  <2>1. TypeOK'
    BY <1>0, <1>3, EnvironmentKeepsTypes
  <2>2. CASE Close \/ Sweep \/ ExpectLost \/ Sync \/ \E p \in Pids : Exit(p)
    BY <1>0, <2>1, <2>2, QuietEnvironment, QuietKeepsInv
  <2>3. CASE \E p \in Pids : Open(p, "user") \/ Open(p, "copy") \/ Connect(p)
    BY <2>1, <2>3, OpenKeepsInv, ConnectKeepsInv
  <2> QED BY <1>3, <2>2, <2>3 DEF Environment
<1> QED BY <1>1, <1>2, <1>3 DEF Next

\* In any life of a project the file, the hub's record and the tool calls of
\* tdProcess.ts agree on its TD as far as calls and TDs came one at a time.
THEOREM LifeIsOrderly == Spec => []LifecycleInv
BY LifeStartsOrderly, LifeStaysOrderly, PTL DEF Spec

\* startTdProject and stopTdProject never lose a TD they have spawned: state.json
\* names it while it runs, also after starts that failed and users who opened
\* the project; unless two TDs of it ran at once or calls overlapped.
THEOREM RunningTdIsRecorded == Spec => []RunningIsRecorded
<1>1. LifecycleInv => RunningIsRecorded
  BY DEF LifecycleInv
<1> QED BY <1>1, LifeIsOrderly, PTL

\* stopTdProject leaves no TD that a start has spawned running.
THEOREM StopEndsTheTd == Spec => []StopEndsIt
<1>1. LifecycleInv => StopEndsIt
  BY DEF LifecycleInv
<1> QED BY <1>1, LifeIsOrderly, PTL

\* probeTunnelReady keeps the pids of copied directories out of state.json and of
\* every call, whatever connects and however calls overlap.
THEOREM CopiesAreLeftAlone == Spec => []NamesNoCopy
<1>1. LifecycleInv => NamesNoCopy
  BY DEF LifecycleInv
<1> QED BY <1>1, LifeIsOrderly, PTL

\* startTdProject returns the TD it spawned, if nothing else had the socket.
THEOREM StartReturnsItsTd == Spec => []ReturnsItsTd
<1>1. LifecycleInv => ReturnsItsTd
  BY DEF LifecycleInv, SeesItsTd, ReturnsItsTd
<1> QED BY <1>1, LifeIsOrderly, PTL
=============================================================================
