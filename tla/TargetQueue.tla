----------------------------- MODULE TargetQueue -----------------------------
(***************************************************************************)
(* The per-target queue of an MCP server process                           *)
(* (src/core/targetQueue.ts).  queues maps a target to the promise of the  *)
(* last call that asked for it, and is never cleaned; a call waits for the *)
(* promise it found there.  That promise is resolved once its call, and    *)
(* so every call before it, has released its gate: a call's gate stands    *)
(* for its promise.                                                        *)
(*                                                                         *)
(* A Call is one invocation.  A nested one for the target that `holding`   *)
(* names runs at once, as part of the call; a nested one for another       *)
(* target is a Call of its own, and its parent waits for it.               *)
(***************************************************************************)
EXTENDS Naturals

CONSTANTS Target, NoTarget,
          Call, NoCall,
          MaxDepth            \* bound: nested invocations in one call

ASSUME QueueAssumption == NoTarget \notin Target /\ NoCall \notin Call /\ MaxDepth \in Nat

VARIABLES
    at,      \* where a call is: "idle", "waiting", "holding", "done" (gate released)
    want,    \* the target it asked for
    queues,  \* per target: the last call that asked for it
    waits,   \* per call: the call whose promise was `previous`
    parent,  \* the call in whose fn a nested call was made
    depth,   \* nested invocations for the same target a holding call is in
    ahead    \* history: the unfinished calls it found (see TargetLock)

queueVars == <<at, want, queues, waits, parent, depth, ahead>>

\* The lock this queue implements: waiting for the promise that was found in queues
\* stands for waiting for all unfinished calls.
Lock == INSTANCE TargetLock WITH at <- at, want <- want, ahead <- ahead

QueueTypeOK ==
    /\ at \in [Call -> {"idle", "waiting", "holding", "done"}]
    /\ want \in [Call -> Target \cup {NoTarget}]
    /\ queues \in [Target -> Call \cup {NoCall}]
    /\ waits \in [Call -> Call \cup {NoCall}]
    /\ parent \in [Call -> Call \cup {NoCall}]
    /\ depth \in [Call -> Nat]
    /\ ahead \in [Call -> SUBSET Call]

QueueInit ==
    /\ at = [c \in Call |-> "idle"] /\ want = [c \in Call |-> NoTarget]
    /\ queues = [t \in Target |-> NoCall] /\ waits = [c \in Call |-> NoCall]
    /\ parent = [c \in Call |-> NoCall] /\ depth = [c \in Call |-> 0]
    /\ ahead = [c \in Call |-> {}]

\* A slip: the new promise is not chained to the previous one's call.
Unchained(c, t) ==
    /\ at[c] = "idle"
    /\ at' = [at EXCEPT ![c] = "waiting"]
    /\ want' = [want EXCEPT ![c] = t]
    /\ queues' = [queues EXCEPT ![t] = c]
    /\ ahead' = [ahead EXCEPT ![c] = Lock!Unfinished(t)]
    /\ UNCHANGED waits

\* withTargetQueue up to `await previous`.
Chain(c, t) ==
    /\ at[c] = "idle"
    /\ at' = [at EXCEPT ![c] = "waiting"]
    /\ want' = [want EXCEPT ![c] = t]
    /\ waits' = [waits EXCEPT ![c] = queues[t]]
    /\ queues' = [queues EXCEPT ![t] = c]
    /\ ahead' = [ahead EXCEPT ![c] = Lock!Unfinished(t)]

Enter(c, t) == Chain(c, t) /\ UNCHANGED <<parent, depth>>

\* What call p is awaiting.
Child(p) == {c \in Call : parent[c] = p /\ at[c] # "done"}

\* A nested call for a target other than the one in holding.getStore().
EnterNested(p, c, t) ==
    /\ at[p] = "holding" /\ want[p] # t /\ Child(p) = {}
    /\ Chain(c, t)
    /\ parent' = [parent EXCEPT ![c] = p]
    /\ UNCHANGED depth

\* previous is resolved: holding.run(targetId, fn).
Turn(c) ==
    /\ at[c] = "waiting"
    /\ waits[c] # NoCall => at[waits[c]] = "done"
    /\ at' = [at EXCEPT ![c] = "holding"]
    /\ UNCHANGED <<want, queues, waits, parent, depth, ahead>>

\* A nested call for the target in holding.getStore().
Nest(c) ==
    /\ at[c] = "holding" /\ Child(c) = {} /\ depth[c] < MaxDepth
    /\ depth' = [depth EXCEPT ![c] = @ + 1]
    /\ UNCHANGED <<at, want, queues, waits, parent, ahead>>

Unnest(c) ==
    /\ at[c] = "holding" /\ depth[c] > 0
    /\ depth' = [depth EXCEPT ![c] = @ - 1]
    /\ UNCHANGED <<at, want, queues, waits, parent, ahead>>

\* fn has settled, either way: release().
Release(c) ==
    /\ at[c] = "holding" /\ Child(c) = {} /\ depth[c] = 0
    /\ at' = [at EXCEPT ![c] = "done"]
    /\ UNCHANGED <<want, queues, waits, parent, depth, ahead>>

QueueNext ==
    \E c \in Call :
        \/ Turn(c) \/ Nest(c) \/ Unnest(c) \/ Release(c)
        \/ \E t \in Target : Enter(c, t) \/ \E p \in Call : EnterNested(p, c, t)

QueueSpec == QueueInit /\ [][QueueNext]_queueVars

-----------------------------------------------------------------------------
\* The promise chain is a first-come, first-served lock per target: a call gets
\* its turn only when every call that asked for the target before it is done.
QueueIsLock == Lock!LockSpec

\* One call at a time works on a target, nested calls included (withTargetQueue).
OneAtATime ==
    \A c, d \in Call : at[c] = "holding" /\ at[d] = "holding" /\ want[c] = want[d] => c = d

(***************************************************************************)
(* The inductive invariant: the chain of `waits` passes every unfinished   *)
(* call, the last call asked for a target knows all of them, and a call    *)
(* that had its turn has nothing unfinished ahead.                         *)
(***************************************************************************)
ChainInv ==
    /\ QueueTypeOK
    /\ \A c \in Call : at[c] = "idle" => ahead[c] = {}
    /\ \A c \in Call : at[c] # "idle" => want[c] \in Target
    /\ \A c \in Call : \A d \in ahead[c] : at[d] # "idle"
    /\ \A c \in Call : waits[c] = NoCall => ahead[c] = {}
    /\ \A c \in Call : waits[c] # NoCall =>
         ahead[c] \subseteq {waits[c]} \cup ahead[waits[c]]
    /\ \A t \in Target : \A c \in Lock!Unfinished(t) :
         queues[t] # NoCall /\ c \in {queues[t]} \cup ahead[queues[t]]
    /\ \A c \in Call : at[c] \in {"holding", "done"} => \A d \in ahead[c] : at[d] = "done"
    /\ \A c, d \in Call :
         c # d /\ want[c] = want[d] /\ at[c] \in {"waiting", "holding"} /\ at[d] \in {"waiting", "holding"}
         => c \in ahead[d] \/ d \in ahead[c]
=============================================================================
