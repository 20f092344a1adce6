----------------------------- MODULE TunnelClient -----------------------------
(***************************************************************************)
(* TouchDesigner's end of the reverse tunnel (td/modules/utils/            *)
(* tdmcp_tunnel.py): the cook thread, which starts, pauses, resumes and    *)
(* stops the client and answers requests at frame start, and the daemon    *)
(* worker that dials the hub and reads the socket.  They share _paused,    *)
(* _stop, _thread, _ws_sock and the request queue without a lock.          *)
(*                                                                         *)
(* The two threads interleave between accesses to shared state.  The       *)
(* worker's own _close_sock is one step: only the cook thread can come     *)
(* between, and it then closes the same socket twice, which is harmless.   *)
(***************************************************************************)
EXTENDS Naturals, Sequences

CONSTANTS Worker, NoWorker,  \* thread objects
          Conn, NoConn,      \* sockets, reused once nothing refers to them
          Req,               \* requests the hub sends
          Calls              \* what the cook thread calls: see Call

ASSUME ClientAssumption ==
    /\ NoWorker \notin Worker /\ NoConn \notin Conn
    /\ Calls \subseteq {"ready", "start", "pause", "resume", "stop"}

VARIABLES
    paused, stop,  \* _paused, _stop.is_set()
    thread,        \* _thread
    handle,        \* _ws_sock
    pc,            \* where each worker is; "exiting" has decided to return
    sock,          \* _session_loop's own reference to its socket
    conn,          \* a socket: "free", "open" (no hello_ack yet), "accepted",
                   \* "rejected", "gone" (closed by the hub), "closed" (by TD)
    wire,          \* frame parts on a socket that the worker has not read
    partial,       \* the request whose frame the hub has sent half of, if any
    pendingMain,   \* _pending_main: requests with the socket they came on
    request,       \* where a request stands
    stateFile,     \* .tdmcp/state.json: transport and nonce
    mainPc,        \* the cook thread: in the middle of a call, or "idle"
    mainSock,      \* the socket _close_sock has read on the cook thread
    lastCall,      \* the last call that has returned
    face           \* tdmcp_status._tunnel_state, as far as set_status drives it

workerVars == <<pc, sock>>
hubVars    == <<conn, wire, partial, request>>
mainVars   == <<mainPc, mainSock, lastCall>>
flags      == <<paused, stop, thread>>
clientVars == <<flags, handle, workerVars, hubVars, pendingMain, stateFile, mainVars, face>>

Part == [req : Req, part : {"header", "body"}]

TypeOK ==
    /\ paused \in BOOLEAN /\ stop \in BOOLEAN
    /\ thread \in Worker \cup {NoWorker}
    /\ handle \in Conn \cup {NoConn}
    /\ pc \in [Worker -> {"dead", "top", "dial", "opened", "hello", "check",
                          "header", "body", "after", "exiting"}]
    /\ sock \in [Worker -> Conn \cup {NoConn}]
    /\ conn \in [Conn -> {"free", "open", "accepted", "rejected", "gone", "closed"}]
    /\ wire \in [Conn -> Seq(Part)]
    /\ partial \in [Conn -> SUBSET Req]
    /\ pendingMain \in Seq([req : Req, sock : Conn])
    /\ request \in [Req -> {"new", "sent", "queued", "answered", "undelivered"}]
    /\ stateFile \in {"tunnel", "nononce", "http"}
    /\ mainPc \in {"idle", "start", "pause", "stop"}
    /\ mainSock \in Conn \cup {NoConn}
    /\ lastCall \in {"none", "ready", "start", "pause", "resume", "stop"}
    /\ face \in {"idle", "connecting", "connected", "disconnected", "error", "paused"}

Init ==
    /\ paused = FALSE /\ stop = FALSE /\ thread = NoWorker /\ handle = NoConn
    /\ pc = [w \in Worker |-> "dead"] /\ sock = [w \in Worker |-> NoConn]
    /\ conn = [c \in Conn |-> "free"] /\ wire = [c \in Conn |-> <<>>]
    /\ partial = [c \in Conn |-> {}] /\ pendingMain = <<>> /\ request = [r \in Req |-> "new"]
    /\ stateFile = "tunnel"
    /\ mainPc = "idle" /\ mainSock = NoConn /\ lastCall = "none"
    /\ face = "idle"

Alive(w) == pc[w] # "dead"
InSession == {"check", "header", "body"}

(***************************************************************************)
(* CPython closes a socket when the last reference to it goes, and a name  *)
(* whose socket is closed on both sides may be used again.  c is the state *)
(* of the sockets before that; the references are those after the step.    *)
(***************************************************************************)
Referenced(c) ==
    \/ handle' = c \/ mainSock' = c
    \/ \E w \in Worker : sock'[w] = c
    \/ \E k \in DOMAIN pendingMain' : pendingMain'[k].sock = c

Collected(cs) ==
    /\ conn' = [c \in Conn |-> IF cs[c] # "free" /\ ~ Referenced(c) THEN "free" ELSE cs[c]]
    /\ wire' = [c \in Conn |-> IF conn'[c] = "free" THEN <<>> ELSE wire[c]]
    /\ partial' = [c \in Conn |-> IF conn'[c] = "free" THEN {} ELSE partial[c]]

Shut(c) == IF c = NoConn \/ conn[c] = "free" THEN conn ELSE [conn EXCEPT ![c] = "closed"]

-----------------------------------------------------------------------------
(* The cook thread.                                                        *)

\* pause() and stop(): the flags, then _close_sock reads _ws_sock ...
Close(call) ==
    /\ call \in Calls /\ mainPc = "idle"
    /\ mainPc' = call
    /\ stop' = TRUE
    /\ paused' = (paused \/ call = "pause")
    /\ mainSock' = handle
    /\ UNCHANGED <<thread, handle, workerVars, hubVars, pendingMain, stateFile, lastCall, face>>

\* ... and clears and closes it.
Closed ==
    /\ mainPc \in {"pause", "stop"}
    /\ handle' = NoConn
    /\ face' = IF mainPc = "pause" THEN "paused" ELSE face
    /\ mainPc' = "idle" /\ lastCall' = mainPc /\ mainSock' = NoConn
    /\ UNCHANGED <<flags, workerVars, pendingMain, request, stateFile>>
    /\ Collected(Shut(mainSock))

Resume ==
    /\ "resume" \in Calls /\ mainPc = "idle"
    /\ paused' = FALSE /\ stop' = FALSE
    /\ lastCall' = "resume"
    /\ UNCHANGED <<thread, handle, workerVars, hubVars, pendingMain, stateFile,
                   mainPc, mainSock, face>>

\* on_bridge_ready() of a paused client.
ReadyPaused ==
    /\ "ready" \in Calls /\ mainPc = "idle" /\ paused
    /\ face' = "paused"
    /\ lastCall' = "ready"
    /\ UNCHANGED <<flags, handle, workerVars, hubVars, pendingMain, stateFile, mainPc, mainSock>>

\* start(), or on_bridge_ready() of a client that is not paused: _stop.clear() ...
Start ==
    /\ mainPc = "idle"
    /\ \/ "start" \in Calls
       \/ "ready" \in Calls /\ ~ paused
    /\ stop' = FALSE
    /\ mainPc' = "start"
    /\ UNCHANGED <<paused, thread, handle, workerVars, hubVars, pendingMain, stateFile,
                   mainSock, lastCall, face>>

\* A slip: a new thread without looking for the old one.
StartedBlindly ==
    /\ mainPc = "start"
    /\ \E w \in {v \in Worker : ~ Alive(v)} :
         thread' = w /\ pc' = [pc EXCEPT ![w] = "top"]
    /\ mainPc' = "idle"
    /\ lastCall' = "start"
    /\ UNCHANGED <<paused, stop, handle, sock, hubVars, pendingMain, stateFile, mainSock, face>>

\* ... then is_alive(), and a new thread if the old one has ended.
Started ==
    /\ mainPc = "start"
    /\ IF thread # NoWorker /\ Alive(thread)
       THEN UNCHANGED <<thread, pc>>
       ELSE \E w \in {v \in Worker : ~ Alive(v)} :
              thread' = w /\ pc' = [pc EXCEPT ![w] = "top"]
    /\ mainPc' = "idle"
    /\ lastCall' = "start"
    /\ UNCHANGED <<paused, stop, handle, sock, hubVars, pendingMain, stateFile, mainSock, face>>

\* One round of process_pending: the request runs in any case, its response
\* reaches the hub if the socket it came on is still there.
Drain ==
    /\ mainPc = "idle" /\ pendingMain # <<>>
    /\ LET m == Head(pendingMain)
       IN  request' = [request EXCEPT ![m.req] =
                         IF conn[m.sock] = "accepted" THEN "answered" ELSE "undelivered"]
    /\ pendingMain' = Tail(pendingMain)
    /\ UNCHANGED <<flags, handle, workerVars, stateFile, mainVars, face>>
    /\ Collected(conn)

-----------------------------------------------------------------------------
(* The worker: _reconnect_loop and _session_loop.                          *)

\* The loop's condition; while paused, or without the tunnel transport, it waits.
Top(w) ==
    /\ pc[w] = "top"
    /\ \/ stop
       \/ ~ paused /\ stateFile # "http"
    /\ pc' = [pc EXCEPT ![w] = IF stop THEN "exiting" ELSE "dial"]
    /\ UNCHANGED <<flags, handle, sock, hubVars, pendingMain, stateFile, mainVars, face>>

\* No nonce in state.json, the hub is down, or the handshake fails.
DialFails(w) ==
    /\ pc[w] = "dial"
    /\ pc' = [pc EXCEPT ![w] = "after"]
    /\ face' = "error"
    /\ UNCHANGED <<flags, handle, sock, hubVars, pendingMain, stateFile, mainVars>>

Dial(w) ==
    /\ pc[w] = "dial" /\ stateFile # "nononce"
    /\ \E c \in Conn : /\ conn[c] = "free"
                       /\ conn' = [conn EXCEPT ![c] = "open"]
                       /\ sock' = [sock EXCEPT ![w] = c]
    /\ pc' = [pc EXCEPT ![w] = "opened"]
    /\ face' = "connecting"
    /\ UNCHANGED <<flags, handle, wire, partial, request, pendingMain, stateFile, mainVars>>

\* _ws_sock = sock, and the hello goes out.
SayHello(w) ==
    /\ pc[w] = "opened"
    /\ handle' = sock[w]
    /\ pc' = [pc EXCEPT ![w] = "hello"]
    /\ UNCHANGED <<flags, sock, pendingMain, request, stateFile, mainVars, face>>
    /\ Collected(conn)

\* hello_ack ok.
Connected(w) ==
    /\ pc[w] = "hello" /\ conn[sock[w]] = "accepted"
    /\ pc' = [pc EXCEPT ![w] = "check"]
    /\ face' = "connected"
    /\ UNCHANGED <<flags, handle, sock, hubVars, pendingMain, stateFile, mainVars>>

\* _session_loop returns or raises: its own reference goes.
Leave(w, closing) ==
    /\ pc' = [pc EXCEPT ![w] = "after"]
    /\ sock' = [sock EXCEPT ![w] = NoConn]
    /\ handle' = IF closing THEN NoConn ELSE handle
    /\ UNCHANGED <<flags, pendingMain, request, stateFile, mainVars>>
    /\ Collected(IF closing THEN Shut(handle) ELSE conn)

\* hello_ack not ok, a close frame, or an OSError, which skips _close_sock.
NotConnected(w) ==
    /\ pc[w] = "hello" /\ conn[sock[w]] \in {"rejected", "gone", "closed"}
    /\ \/ conn[sock[w]] = "rejected" /\ face' = "error" /\ Leave(w, TRUE)
       \/ conn[sock[w]] = "gone" /\ UNCHANGED face /\ Leave(w, TRUE)
       \/ conn[sock[w]] \in {"gone", "closed"} /\ face' = "error" /\ Leave(w, FALSE)

\* while not _stop.is_set() and not _paused
Check(w) ==
    /\ pc[w] = "check" /\ ~ stop /\ ~ paused
    /\ pc' = [pc EXCEPT ![w] = "header"]
    /\ UNCHANGED <<flags, handle, sock, hubVars, pendingMain, stateFile, mainVars, face>>

SessionEnds(w) ==
    /\ pc[w] = "check" /\ (stop \/ paused)
    /\ face' = "disconnected"
    /\ Leave(w, TRUE)

\* What the worker can read next; a closed socket has nothing left.
Inbox(w) == IF conn[sock[w]] = "closed" THEN <<>> ELSE wire[sock[w]]

\* A part of a frame where the reader expects one: the header, then the body,
\* which is handed to the cook thread.
Read(w) ==
    /\ pc[w] \in {"header", "body"}
    /\ Inbox(w) # <<>> /\ Head(Inbox(w)).part = pc[w]
    /\ wire' = [wire EXCEPT ![sock[w]] = Tail(@)]
    /\ LET r == Head(Inbox(w)).req
       IN  IF pc[w] = "header"
           THEN pc' = [pc EXCEPT ![w] = "body"] /\ UNCHANGED <<pendingMain, request>>
           ELSE /\ pc' = [pc EXCEPT ![w] = "check"]
                /\ pendingMain' = Append(pendingMain, [req |-> r, sock |-> sock[w]])
                /\ request' = [request EXCEPT ![r] = "queued"]
    /\ UNCHANGED <<flags, handle, sock, conn, partial, stateFile, mainVars, face>>

\* Bytes of a body taken for a header (or the reverse): a frame that is ignored,
\* a close frame, or a payload that raises.
Misread(w) ==
    /\ pc[w] \in {"header", "body"}
    /\ Inbox(w) # <<>> /\ Head(Inbox(w)).part # pc[w]
    /\ \/ /\ wire' = [wire EXCEPT ![sock[w]] = Tail(@)]
          /\ pc' = [pc EXCEPT ![w] = "check"]
          /\ UNCHANGED <<flags, handle, sock, conn, partial, request, pendingMain,
                         stateFile, mainVars, face>>
       \/ face' = "disconnected" /\ Leave(w, TRUE)
       \/ face' = "error" /\ Leave(w, FALSE)

\* A slip: the socket has no timeout.
ReadUntimed(w) == FALSE /\ UNCHANGED clientVars

\* settimeout(30): nothing came, wherever in a frame the reader is.
ReadTimeout(w) ==
    /\ pc[w] \in {"header", "body"} /\ Inbox(w) = <<>> /\ conn[sock[w]] = "accepted"
    /\ pc' = [pc EXCEPT ![w] = "check"]
    /\ UNCHANGED <<flags, handle, sock, hubVars, pendingMain, stateFile, mainVars, face>>

\* "recv error" or "server closed", then "disconnected".
ReadEnds(w) ==
    /\ pc[w] \in {"header", "body"} /\ Inbox(w) = <<>> /\ conn[sock[w]] \in {"gone", "closed"}
    /\ face' = "disconnected"
    /\ Leave(w, TRUE)

\* A slip: a session that ends on its own is not retried.
AfterOnce(w) ==
    /\ pc[w] = "after"
    /\ pc' = [pc EXCEPT ![w] = "exiting"]
    /\ UNCHANGED <<flags, handle, sock, hubVars, pendingMain, stateFile, mainVars, face>>

\* if _stop.is_set() or _paused: break; otherwise the back-off and another round.
After(w) ==
    /\ pc[w] = "after"
    /\ pc' = [pc EXCEPT ![w] = IF stop \/ paused THEN "exiting" ELSE "top"]
    /\ UNCHANGED <<flags, handle, sock, hubVars, pendingMain, stateFile, mainVars, face>>

Exit(w) ==
    /\ pc[w] = "exiting"
    /\ pc' = [pc EXCEPT ![w] = "dead"]
    /\ UNCHANGED <<flags, handle, sock, hubVars, pendingMain, stateFile, mainVars, face>>

-----------------------------------------------------------------------------
(* The hub, and the MCP server, which writes state.json.                   *)

HubUnchanged == UNCHANGED <<flags, handle, workerVars, pendingMain, stateFile, mainVars, face>>

HubAnswers(c) ==
    /\ conn[c] = "open" /\ handle = c
    /\ conn' \in {[conn EXCEPT ![c] = a] : a \in {"accepted", "rejected"}}
    /\ HubUnchanged /\ UNCHANGED <<wire, partial, request>>

HubDrops(c) ==
    /\ conn[c] \in {"open", "accepted"}
    /\ conn' = [conn EXCEPT ![c] = "gone"]
    /\ HubUnchanged /\ UNCHANGED <<wire, partial, request>>

\* A frame arrives in two parts: TCP keeps no message boundaries.
HubSends(c, r) ==
    /\ conn[c] = "accepted" /\ request[r] = "new" /\ partial[c] = {}
    /\ wire' = [wire EXCEPT ![c] = Append(@, [req |-> r, part |-> "header"])]
    /\ partial' = [partial EXCEPT ![c] = {r}]
    /\ request' = [request EXCEPT ![r] = "sent"]
    /\ HubUnchanged /\ UNCHANGED conn

HubSendsRest(c, r) ==
    /\ conn[c] = "accepted" /\ r \in partial[c]
    /\ wire' = [wire EXCEPT ![c] = Append(@, [req |-> r, part |-> "body"])]
    /\ partial' = [partial EXCEPT ![c] = {}]
    /\ HubUnchanged /\ UNCHANGED <<conn, request>>

WriteState ==
    /\ stateFile' \in {"tunnel", "nononce", "http"}
    /\ UNCHANGED <<flags, handle, workerVars, hubVars, pendingMain, mainVars, face>>

-----------------------------------------------------------------------------
Main == Close("pause") \/ Close("stop") \/ Closed \/ Resume \/ ReadyPaused
        \/ Start \/ Started \/ Drain

WorkerStep(w) ==
    \/ Top(w) \/ DialFails(w) \/ Dial(w) \/ SayHello(w) \/ Connected(w) \/ NotConnected(w)
    \/ Check(w) \/ SessionEnds(w) \/ Read(w) \/ Misread(w) \/ ReadTimeout(w) \/ ReadEnds(w)
    \/ After(w) \/ Exit(w)

Hub == \E c \in Conn : HubAnswers(c) \/ HubDrops(c)
                       \/ \E r \in Req : HubSends(c, r) \/ HubSendsRest(c, r)

Next == Main \/ (\E w \in Worker : WorkerStep(w)) \/ Hub \/ WriteState

Spec == Init /\ [][Next]_clientVars

\* The threads run, the cook thread cooks frames, and a hub that has accepted a
\* connection answers its hello or goes away.
Fairness ==
    /\ \A w \in Worker : WF_clientVars(WorkerStep(w))
    /\ WF_clientVars(Closed) /\ WF_clientVars(Started) /\ SF_clientVars(Drain)
    /\ \A c \in Conn : WF_clientVars(conn[c] = "open" /\ (HubAnswers(c) \/ HubDrops(c)))

FairSpec == Spec /\ Fairness

-----------------------------------------------------------------------------
(* What the client promises.                                               *)

\* One worker at a time reads the socket and dials: start() never adds a second
\* one to a thread that is still alive, however the calls and the exit of the
\* thread interleave.
OneWorker == \A w \in Worker : Alive(w) => w = thread

\* The bridge's face is green only while a worker is in a session: every way out
\* of _session_loop corrects it (set_status, tdmcp_status.record).
GreenIsSession == face = "connected" => \E w \in Worker : pc[w] \in InSession

\* A request the worker has taken off the wire is waiting for the cook thread or
\* has been run, and it waits once.
QueuedOnce ==
    /\ \A r \in Req : request[r] = "queued" <=>
                        \E k \in DOMAIN pendingMain : pendingMain[k].req = r
    /\ \A j, k \in DOMAIN pendingMain : pendingMain[j].req = pendingMain[k].req => j = k

\* What makes it so: the body of a request is on one wire, in one place, and only
\* once it is complete, until the worker takes it off.
BodyOnce ==
    /\ \A c, d \in Conn : \A r \in partial[c] :
         request[r] = "sent" /\ (r \in partial[d] => c = d)
    /\ \A c, d \in Conn : \A k \in DOMAIN wire[c] :
         wire[c][k].part = "body" =>
           /\ request[wire[c][k].req] = "sent" /\ wire[c][k].req \notin partial[d]
           /\ \A j \in DOMAIN wire[d] : wire[d][j] = wire[c][k] => c = d /\ j = k

\* A worker that reads or says hello has a socket.
HasSock == \A w \in Worker : pc[w] \in {"opened", "hello"} \cup InSession => sock[w] # NoConn

\* What no interleaving of the cook thread, the workers and the hub breaks.
ClientInv == TypeOK /\ OneWorker /\ GreenIsSession /\ QueuedOnce /\ BodyOnce /\ HasSock

\* pause() disconnects even if _ws_sock did not name the socket at that moment:
\* the worker notices at its next look at the flags, 30 s later at most.
PauseDisconnects ==
    paused ~> (~ paused \/ \A c \in Conn : conn[c] \notin {"open", "accepted"})

\* Without a pause or a stop the client comes back from every failure: once the
\* hub is up for good and state.json asks for the tunnel, a session starts.
KeepsDialling ==
    ( /\ [](~ paused /\ ~ stop) /\ <>[](stateFile = "tunnel")
      /\ \A w \in Worker : <>[][~ DialFails(w)]_clientVars
      /\ \A c \in Conn : <>[][~ HubDrops(c) /\ conn'[c] # "rejected"]_clientVars )
    => (lastCall = "start" ~> \E w \in Worker : pc[w] \in InSession)

=============================================================================
