------------------------------ MODULE TargetLock ------------------------------
(***************************************************************************)
(* What withTargetQueue promises (src/core/targetQueue.ts, "Serialize      *)
(* async work per target id"): a lock per target, granted in the order of  *)
(* the calls.  ahead[c] is the set of calls for the same target that had   *)
(* not finished when c asked for it.                                       *)
(***************************************************************************)
CONSTANTS Target, NoTarget, Call

VARIABLES
    at,     \* "idle", "waiting", "holding" or "done"
    want,   \* the target a call has asked for
    ahead   \* the calls it has to wait for

Unfinished(t) == {c \in Call : want[c] = t /\ at[c] \in {"waiting", "holding"}}

LockInit ==
    /\ at = [c \in Call |-> "idle"]
    /\ want = [c \in Call |-> NoTarget]
    /\ ahead = [c \in Call |-> {}]

Ask(c, t) ==
    /\ at[c] = "idle"
    /\ at' = [at EXCEPT ![c] = "waiting"]
    /\ want' = [want EXCEPT ![c] = t]
    /\ ahead' = [ahead EXCEPT ![c] = Unfinished(t)]

Grant(c) ==
    /\ at[c] = "waiting"
    /\ \A d \in ahead[c] : at[d] = "done"
    /\ at' = [at EXCEPT ![c] = "holding"]
    /\ UNCHANGED <<want, ahead>>

GiveBack(c) ==
    /\ at[c] = "holding"
    /\ at' = [at EXCEPT ![c] = "done"]
    /\ UNCHANGED <<want, ahead>>

LockNext == \E c \in Call : Grant(c) \/ GiveBack(c) \/ \E t \in Target : Ask(c, t)

LockSpec == LockInit /\ [][LockNext]_<<at, want, ahead>>
=============================================================================
