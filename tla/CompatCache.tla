----------------------------- MODULE CompatCache -----------------------------
(***************************************************************************)
(* The version check before every API call of the MCP server's one         *)
(* TouchDesignerClient, which caches its verdict for all calls and all     *)
(* targets.  Source: touchDesignerClient.ts and compatibility.ts.          *)
(*                                                                         *)
(* A call is synchronous up to the request for TD's version; it goes on    *)
(* when the answer is there, while other calls may have changed the cache. *)
(* The age of a cached verdict is "fresh" until its TTL has passed.        *)
(***************************************************************************)
EXTENDS Naturals

CONSTANTS
    Calls,          \* callers, each of which makes one call after the other
    Targets, NoTarget,
    Versions,       \* versions a target may have, <<major, minor, patch>>
    NoVersion,      \* the answer of a component that does not know its version
    Down,           \* a request that fails, or that TouchDesigner refuses
    NoAnswer,
    McpVersion,     \* MCP_SERVER_VERSION
    MinVersion      \* MIN_COMPATIBLE_API_VERSION

(***************************************************************************)
(* compatibility.ts                                                        *)
(***************************************************************************)
Older(v, w) ==
    \E i \in 1 .. 3 : v[i] < w[i] /\ \A j \in 1 .. i - 1 : v[j] = w[j]

PolicyType(api) ==
    CASE api = NoVersion -> "noVersion"
      [] Older(api, MinVersion) -> "belowMinVersion"
      [] McpVersion[1] # api[1] -> "majorMismatch"
      [] McpVersion[2] > api[2] -> "newerMinor"
      [] McpVersion[2] < api[2] -> "olderMinor"
      [] McpVersion[3] # api[3] -> "patchDiff"
      [] OTHER -> "compatible"

Level(type) ==
    CASE type \in {"noVersion", "belowMinVersion", "majorMismatch"} -> "error"
      [] type \in {"newerMinor", "olderMinor"} -> "warning"
      [] OTHER -> "info"

\* What the client makes of the answer to getTdInfo.
Verdict(info) == IF info = Down THEN "error" ELSE Level(PolicyType(info))

VARIABLES
    td,         \* what a target's TouchDesigner answers: Down or its version
    at,
    target,     \* the target a call is for
    reply,      \* the answer on its way to a call
    error,      \* verifiedCompatibilityError: the age of the cached error, or "none"
    success,    \* cachedCompatibilityCheck: the age of the cached success, or "none"
    notice,     \* compatibilityNotice is set
    about       \* history: the answer the cached verdict comes from

cache == <<error, success, notice, about>>
compatVars == <<td, at, target, reply, cache>>

Answers == Versions \cup {NoVersion, Down}
Ages == {"none", "fresh", "old"}

CompatInit ==
    /\ td \in [Targets -> Answers]
    /\ at = [c \in Calls |-> "idle"]
    /\ target = [c \in Calls |-> NoTarget]
    /\ reply = [c \in Calls |-> NoAnswer]
    /\ error = "none" /\ success = "none" /\ notice = FALSE
    /\ about = NoAnswer

GoTo(c, l) == at' = [at EXCEPT ![c] = l]

\* invalidateCompatibilityCache
Invalidated == [error |-> "none", success |-> "none", notice |-> FALSE, about |-> NoAnswer]

Cached == [error |-> error, success |-> success, notice |-> notice, about |-> about]

CacheBecomes(k) == error' = k.error /\ success' = k.success /\ notice' = k.notice /\ about' = k.about

\* A slip: a cached error is never dropped.
ErrorStaysSlip(k) == IF k.success = "old" /\ k.error = "none" THEN Invalidated ELSE k

\* The synchronous part of verifyCompatibility drops what is too old.
DropOld(k) ==
    IF k.success = "old" /\ k.error = "none" THEN Invalidated
    ELSE IF k.error = "old" THEN [k EXCEPT !.error = "none", !.success = "none"]
    ELSE k

(***************************************************************************)
(* A call: get_td_info, which drops the cache first, or any other          *)
(***************************************************************************)
Request(c, t, isInfo) ==
    LET k == DropOld(IF isInfo THEN Invalidated ELSE Cached) IN
    /\ at[c] = "idle"
    /\ CacheBecomes(k)
    /\ IF k.error # "none" THEN UNCHANGED <<at, target>>
       ELSE /\ target' = [target EXCEPT ![c] = t]
            /\ GoTo(c, IF k.success # "none" THEN "api" ELSE "verify")
    /\ UNCHANGED <<td, reply>>

\* TouchDesigner, or the network, answers the request for its version.
TdAnswers(c) ==
    /\ at[c] = "verify"
    /\ reply' = [reply EXCEPT ![c] = td[target[c]]]
    /\ GoTo(c, "answered")
    /\ UNCHANGED <<td, target, cache>>

Return(c) ==
    /\ GoTo(c, "idle")
    /\ target' = [target EXCEPT ![c] = NoTarget]
    /\ reply' = [reply EXCEPT ![c] = NoAnswer]

Passed(c) ==
    LET v == Verdict(reply[c]) IN
    /\ at[c] = "answered" /\ v # "error"
    /\ CacheBecomes([error |-> "none", success |-> "fresh", notice |-> v = "warning", about |-> reply[c]])
    /\ GoTo(c, "api")
    /\ reply' = [reply EXCEPT ![c] = NoAnswer]
    /\ UNCHANGED <<td, target>>

\* A slip: what an earlier success left behind stays.
RejectedSlip(c) ==
    /\ at[c] = "answered" /\ Verdict(reply[c]) = "error"
    /\ error' = "fresh" /\ about' = reply[c] /\ UNCHANGED <<success, notice>>
    /\ Return(c)
    /\ UNCHANGED td

Rejected(c) ==
    /\ at[c] = "answered" /\ Verdict(reply[c]) = "error"
    /\ CacheBecomes([error |-> "fresh", success |-> "none", notice |-> FALSE, about |-> reply[c]])
    /\ Return(c)
    /\ UNCHANGED td

\* An exception that is not of the network's is passed on and not cached.
Throws(c) ==
    /\ at[c] = "answered"
    /\ Return(c)
    /\ UNCHANGED <<td, cache>>

\* The API call itself, whatever it answers.
Api(c) ==
    /\ at[c] = "api"
    /\ Return(c)
    /\ UNCHANGED <<td, cache>>

(***************************************************************************)
(* The surroundings                                                        *)
(***************************************************************************)
Ageing ==
    \/ error = "fresh" /\ error' = "old" /\ UNCHANGED success
    \/ success = "fresh" /\ success' = "old" /\ UNCHANGED error

Age ==
    /\ Ageing
    /\ UNCHANGED <<td, at, target, reply, notice, about>>

\* A TouchDesigner is started, stopped or gets another component.
TdChanges ==
    /\ \E t \in Targets, v \in Answers : td' = [td EXCEPT ![t] = v]
    /\ UNCHANGED <<at, target, reply, cache>>

Proceed(c) == TdAnswers(c) \/ Passed(c) \/ Rejected(c) \/ Api(c)

CompatNext ==
    \/ \E c \in Calls :
        \/ \E t \in Targets, isInfo \in BOOLEAN : Request(c, t, isInfo)
        \/ Proceed(c) \/ Throws(c)
    \/ Age \/ TdChanges

CompatSpec == CompatInit /\ [][CompatNext]_compatVars

\* Requests are answered or time out; the clock runs; somebody keeps calling.
CompatFairSpec ==
    /\ CompatSpec
    /\ \A c \in Calls : WF_compatVars(Proceed(c))
    /\ WF_compatVars(Age)
    /\ \A c \in Calls : WF_compatVars(\E t \in Targets : Request(c, t, FALSE))
------------------------------------------------------------------------------
\* At most one verdict stands: an error with nothing left of an earlier success,
\* or a success of the answer it comes from, with the notice that belongs to it.
\* Concurrent verifications overwrite each other as a whole.
OneVerdict ==
    /\ error \in Ages /\ success \in Ages
    /\ error # "none" => success = "none" /\ ~notice /\ Verdict(about) = "error"
    /\ success # "none" => Verdict(about) # "error" /\ notice = (Verdict(about) = "warning")

\* When every target is up and compatible from some time on, calls are not refused
\* for ever: the cached error expires and no late answer brings it back for good.
Good == \A t \in Targets : Verdict(td[t]) # "error"
Recovers == <>[]Good => <>[](error = "none")
==============================================================================
