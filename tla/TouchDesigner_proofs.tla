------------------------- MODULE TouchDesigner_proofs -------------------------
(***************************************************************************)
(* The two programs that run inside TouchDesigner.  First the safety of    *)
(* its end of the tunnel, for any number of threads, sockets and requests  *)
(* and whatever the cook thread calls; then what its API service answers,  *)
(* for any project, any grid and any requests.                             *)
(***************************************************************************)
EXTENDS TunnelClient, ApiService, WellFoundedInduction, TLAPS


ConnState == {"free", "open", "accepted", "rejected", "gone", "closed"}
Asked     == {"new", "sent", "queued", "answered", "undelivered"}
Place     == {"dead", "top", "dial", "opened", "hello", "check", "header", "body",
              "after", "exiting"}

\* ClientInv by the variables a step changes together: the threads ...
ThreadTypeOK ==
    /\ paused \in BOOLEAN /\ stop \in BOOLEAN
    /\ thread \in Worker \cup {NoWorker}
    /\ handle \in Conn \cup {NoConn}
    /\ pc \in [Worker -> Place]
    /\ sock \in [Worker -> Conn \cup {NoConn}]
    /\ stateFile \in {"tunnel", "nononce", "http"}
    /\ mainPc \in {"idle", "start", "pause", "stop"}
    /\ mainSock \in Conn \cup {NoConn}
    /\ lastCall \in {"none", "ready", "start", "pause", "resume", "stop"}
    /\ face \in {"idle", "connecting", "connected", "disconnected", "error", "paused"}

ThreadInv == ThreadTypeOK /\ OneWorker /\ GreenIsSession /\ HasSock

\* ... and the requests.
WireTypeOK ==
    /\ conn \in [Conn -> ConnState]
    /\ wire \in [Conn -> Seq(Part)]
    /\ partial \in [Conn -> SUBSET Req]
    /\ pendingMain \in Seq([req : Req, sock : Conn])
    /\ request \in [Req -> Asked]

WireInv == WireTypeOK /\ QueuedOnce /\ BodyOnce

\* The parts are the invariant.
LEMMA ClientParts == ClientInv <=> ThreadInv /\ WireInv
BY DEF ClientInv, TypeOK, ThreadInv, ThreadTypeOK, WireInv, WireTypeOK, ConnState, Asked, Place

-----------------------------------------------------------------------------
\* Wires that lose what has not been read have nothing twice.
LEMMA LostParts ==
  ASSUME WireInv, conn' \in [Conn -> ConnState],
         wire' \in [Conn -> Seq(Part)], partial' \in [Conn -> SUBSET Req],
         \A c \in Conn : /\ wire'[c] = wire[c] \/ wire'[c] = <<>>
                         /\ partial'[c] = partial[c] \/ partial'[c] = {},
         UNCHANGED <<pendingMain, request>>
  PROVE  WireInv'
<1>1. WireTypeOK'  BY DEF WireInv, WireTypeOK
<1>2. QueuedOnce'  BY DEF WireInv, QueuedOnce
<1>3. \A c \in Conn : \A k \in DOMAIN wire'[c] : k \in DOMAIN wire[c] /\ wire'[c][k] = wire[c][k]
  OBVIOUS
<1>4. \A c \in Conn : partial'[c] \subseteq partial[c]  OBVIOUS
<1>5. BodyOnce'
  <2>1. \A c, d \in Conn : \A r \in partial'[c] : request'[r] = "sent" /\ (r \in partial'[d] => c = d)
    BY <1>4 DEF WireInv, BodyOnce
  <2>2. ASSUME NEW c \in Conn, NEW d \in Conn, NEW k \in DOMAIN wire'[c], wire'[c][k].part = "body"
        PROVE  /\ request'[wire'[c][k].req] = "sent" /\ wire'[c][k].req \notin partial'[d]
               /\ \A j \in DOMAIN wire'[d] : wire'[d][j] = wire'[c][k] => c = d /\ j = k
    <3>1. k \in DOMAIN wire[c] /\ wire[c][k] = wire'[c][k] /\ wire[c][k].part = "body"
      BY <1>3, <2>2
    <3>2. /\ request[wire[c][k].req] = "sent" /\ wire[c][k].req \notin partial[d]
          /\ \A j \in DOMAIN wire[d] : wire[d][j] = wire[c][k] => c = d /\ j = k
      BY <3>1 DEF WireInv, BodyOnce
    <3>3. partial'[d] \subseteq partial[d] /\ request'[wire'[c][k].req] = "sent"
      BY <1>4, <3>1, <3>2
    <3>4. ASSUME NEW j \in DOMAIN wire'[d], wire'[d][j] = wire'[c][k]
          PROVE  c = d /\ j = k
      <4>1. j \in DOMAIN wire[d] /\ wire[d][j] = wire'[d][j]  BY <1>3
      <4> QED  BY <3>1, <3>2, <3>4, <4>1
    <3> QED  BY <3>1, <3>2, <3>3, <3>4
  <2> QED  BY <2>1, <2>2 DEF BodyOnce
<1> QED  BY <1>1, <1>2, <1>5 DEF WireInv

\* A socket that is collected takes its wire along.
LEMMA CollectedWire ==
  ASSUME WireInv, NEW cs \in [Conn -> ConnState], Collected(cs),
         UNCHANGED <<pendingMain, request>>
  PROVE  WireInv'
<1>1. /\ conn' = [c \in Conn |-> IF cs[c] # "free" /\ ~ Referenced(c) THEN "free" ELSE cs[c]]
      /\ wire' = [c \in Conn |-> IF conn'[c] = "free" THEN <<>> ELSE wire[c]]
      /\ partial' = [c \in Conn |-> IF conn'[c] = "free" THEN {} ELSE partial[c]]
  BY DEF Collected
<1>2. wire \in [Conn -> Seq(Part)] /\ partial \in [Conn -> SUBSET Req]
  BY DEF WireInv, WireTypeOK
<1>3. conn' \in [Conn -> ConnState]  BY <1>1 DEF ConnState
<1>4. wire' \in [Conn -> Seq(Part)] /\ partial' \in [Conn -> SUBSET Req]  BY <1>1, <1>2
<1>5. \A c \in Conn : /\ wire'[c] = wire[c] \/ wire'[c] = <<>>
                      /\ partial'[c] = partial[c] \/ partial'[c] = {}
  BY <1>1
<1> QED  BY <1>3, <1>4, <1>5, LostParts

\* Closing a socket is a state of it.
LEMMA ShutType ==
  ASSUME WireInv, NEW c
  PROVE  Shut(c) \in [Conn -> ConnState]
BY DEF Shut, WireInv, WireTypeOK, ConnState

\* Only the sockets change.
LEMMA ConnWire ==
  ASSUME WireInv, conn' \in [Conn -> ConnState],
         UNCHANGED <<wire, partial, pendingMain, request>>
  PROVE  WireInv'
BY DEF WireInv, WireTypeOK, QueuedOnce, BodyOnce

\* The first element of a sequence and the rest of it.
LEMMA Taken ==
  ASSUME NEW S, NEW q \in Seq(S), q # <<>>
  PROVE  /\ Head(q) \in S /\ Tail(q) \in Seq(S) /\ 1 \in DOMAIN q /\ q[1] = Head(q)
         /\ \A k \in DOMAIN Tail(q) : /\ k \in Nat /\ k # 0 /\ k + 1 \in DOMAIN q
                                      /\ Tail(q)[k] = q[k + 1]
         /\ \A k \in DOMAIN q : k # 1 => k - 1 \in DOMAIN Tail(q) /\ Tail(q)[k - 1] = q[k]
OBVIOUS

\* A sequence with one more element.
LEMMA Added ==
  ASSUME NEW S, NEW q \in Seq(S), NEW e \in S
  PROVE  /\ Append(q, e) \in Seq(S)
         /\ Len(q) + 1 \in DOMAIN Append(q, e) /\ Append(q, e)[Len(q) + 1] = e
         /\ \A k \in DOMAIN Append(q, e) : k \in DOMAIN q \/ k = Len(q) + 1
         /\ \A k \in DOMAIN q : k \in DOMAIN Append(q, e) /\ Append(q, e)[k] = q[k]
OBVIOUS

\* The worker takes a part off its wire: the others stay where they are.
LEMMA PartRead ==
  ASSUME WireInv, NEW c \in Conn, wire[c] # <<>>,
         wire' = [wire EXCEPT ![c] = Tail(@)], UNCHANGED partial
  PROVE  /\ wire' \in [Conn -> Seq(Part)] /\ Head(wire[c]) \in Part
         /\ \A d \in Conn : \A k \in DOMAIN wire'[d] :
              /\ k \in Nat /\ k # 0
              /\ (IF d = c THEN k + 1 ELSE k) \in DOMAIN wire[d]
              /\ wire'[d][k] = wire[d][IF d = c THEN k + 1 ELSE k]
         /\ Head(wire[c]).part = "body" =>
              \A d \in Conn : \A k \in DOMAIN wire'[d] :
                wire'[d][k].part = "body" => wire'[d][k].req # Head(wire[c]).req
<1>1. wire \in [Conn -> Seq(Part)]  BY DEF WireInv, WireTypeOK
<1>2. /\ Head(wire[c]) \in Part /\ Tail(wire[c]) \in Seq(Part)
      /\ 1 \in DOMAIN wire[c] /\ wire[c][1] = Head(wire[c])
      /\ \A k \in DOMAIN Tail(wire[c]) : /\ k \in Nat /\ k # 0 /\ k + 1 \in DOMAIN wire[c]
                                         /\ Tail(wire[c])[k] = wire[c][k + 1]
  BY <1>1, Taken
<1>3. wire' \in [Conn -> Seq(Part)]  BY <1>1, <1>2
<1>4. \A d \in Conn : \A k \in DOMAIN wire'[d] :
        /\ k \in Nat /\ k # 0
        /\ (IF d = c THEN k + 1 ELSE k) \in DOMAIN wire[d]
        /\ wire'[d][k] = wire[d][IF d = c THEN k + 1 ELSE k]
  <2> SUFFICES ASSUME NEW d \in Conn, NEW k \in DOMAIN wire'[d]
               PROVE  /\ k \in Nat /\ k # 0
                      /\ (IF d = c THEN k + 1 ELSE k) \in DOMAIN wire[d]
                      /\ wire'[d][k] = wire[d][IF d = c THEN k + 1 ELSE k]
    OBVIOUS
  <2>1. CASE d = c  BY <1>1, <1>2, <2>1
  <2>2. CASE d # c
    <3>1. wire'[d] = wire[d] /\ wire[d] \in Seq(Part)  BY <1>1, <2>2
    <3> QED  BY <2>2, <3>1
  <2> QED  BY <2>1, <2>2
<1>5. ASSUME Head(wire[c]).part = "body", NEW d \in Conn, NEW k \in DOMAIN wire'[d],
             wire'[d][k].part = "body", wire'[d][k].req = Head(wire[c]).req
      PROVE  FALSE
  <2> DEFINE n == IF d = c THEN k + 1 ELSE k
  <2>1. n \in DOMAIN wire[d] /\ wire'[d][k] = wire[d][n] /\ k \in Nat /\ k # 0  BY <1>4
  <2>2. d = c => n # 1  BY <2>1
  <2> HIDE DEF n
  <2>3. wire[d][n] \in Part  BY <1>1, <2>1
  <2>4. wire[d][n] = wire[c][1]  BY <1>2, <1>5, <2>1, <2>3 DEF Part
  <2> QED  BY <1>2, <1>5, <2>1, <2>2, <2>4 DEF WireInv, BodyOnce
<1> QED  BY <1>2, <1>3, <1>4, <1>5

\* What is left on the wires is there once, whatever was read.
LEMMA ReadKeepsBodies ==
  ASSUME WireInv, NEW c \in Conn, wire[c] # <<>>,
         wire' = [wire EXCEPT ![c] = Tail(@)], UNCHANGED partial,
         \A r \in Req : \/ request'[r] = request[r]
                        \/ Head(wire[c]).part = "body" /\ r = Head(wire[c]).req
  PROVE  BodyOnce'
<1> DEFINE h == Head(wire[c])
           N(d, k) == IF d = c THEN k + 1 ELSE k
<1>1. /\ wire' \in [Conn -> Seq(Part)] /\ h \in Part
      /\ \A d \in Conn : \A k \in DOMAIN wire'[d] :
           k \in Nat /\ N(d, k) \in DOMAIN wire[d] /\ wire'[d][k] = wire[d][N(d, k)]
      /\ h.part = "body" =>
           \A d \in Conn : \A k \in DOMAIN wire'[d] :
             wire'[d][k].part = "body" => wire'[d][k].req # h.req
  <2>1. /\ wire' \in [Conn -> Seq(Part)] /\ Head(wire[c]) \in Part
        /\ \A d \in Conn : \A k \in DOMAIN wire'[d] :
             /\ k \in Nat /\ k # 0
             /\ (IF d = c THEN k + 1 ELSE k) \in DOMAIN wire[d]
             /\ wire'[d][k] = wire[d][IF d = c THEN k + 1 ELSE k]
        /\ Head(wire[c]).part = "body" =>
             \A d \in Conn : \A k \in DOMAIN wire'[d] :
               wire'[d][k].part = "body" => wire'[d][k].req # Head(wire[c]).req
    BY PartRead
  <2> QED  BY <2>1
<1>2. /\ wire \in [Conn -> Seq(Part)] /\ partial \in [Conn -> SUBSET Req]
      /\ BodyOnce /\ 1 \in DOMAIN wire[c] /\ wire[c][1] = h
  BY Taken DEF WireInv, WireTypeOK
<1>3. \A d \in Conn : \A k \in DOMAIN wire'[d] : wire'[d][k].req \in Req
  <2> SUFFICES ASSUME NEW d \in Conn, NEW k \in DOMAIN wire'[d]  PROVE wire'[d][k].req \in Req
    OBVIOUS
  <2>1. wire'[d] \in Seq(Part)  BY <1>1
  <2>2. wire'[d][k] \in Part  BY <2>1
  <2> QED  BY <2>2 DEF Part
<1>4. \A r \in Req : request'[r] = request[r] \/ (h.part = "body" /\ r = h.req)  OBVIOUS
<1>5. \A d, e \in Conn, j \in Nat, k \in Nat : N(d, j) = N(e, k) /\ d = e => j = k  OBVIOUS
<1> HIDE DEF h, N
<1>6. ASSUME NEW d \in Conn, NEW e \in Conn, NEW r \in partial'[d]
      PROVE  request'[r] = "sent" /\ (r \in partial'[e] => d = e)
  <2>1. partial' = partial  OBVIOUS
  <2>2. r \in Req /\ r \in partial[d] /\ request[r] = "sent" /\ (r \in partial[e] => d = e)
    BY <1>2, <2>1 DEF BodyOnce
  <2>3. h.part = "body" => h.req # r  BY <1>2, <2>2 DEF BodyOnce
  <2> QED  BY <1>4, <2>1, <2>2, <2>3
<1>7. ASSUME NEW d \in Conn, NEW e \in Conn, NEW k \in DOMAIN wire'[d], wire'[d][k].part = "body"
      PROVE  /\ request'[wire'[d][k].req] = "sent" /\ wire'[d][k].req \notin partial'[e]
             /\ \A j \in DOMAIN wire'[e] : wire'[e][j] = wire'[d][k] => d = e /\ j = k
  <2>1. N(d, k) \in DOMAIN wire[d] /\ wire'[d][k] = wire[d][N(d, k)] /\ k \in Nat  BY <1>1
  <2>2. request[wire'[d][k].req] = "sent" /\ wire'[d][k].req \notin partial[e]
    BY <1>2, <1>7, <2>1 DEF BodyOnce
  <2>3. request'[wire'[d][k].req] = "sent"  BY <1>1, <1>3, <1>4, <1>7, <2>2
  <2>4. ASSUME NEW j \in DOMAIN wire'[e], wire'[e][j] = wire'[d][k]  PROVE d = e /\ j = k
    <3>1. N(e, j) \in DOMAIN wire[e] /\ wire'[e][j] = wire[e][N(e, j)] /\ j \in Nat  BY <1>1
    <3>2. d = e /\ N(e, j) = N(d, k)  BY <1>2, <1>7, <2>1, <2>4, <3>1 DEF BodyOnce
    <3> QED  BY <1>5, <2>1, <3>1, <3>2
  <2> QED  BY <2>2, <2>3, <2>4
<1> QED  BY <1>6, <1>7 DEF BodyOnce

\* What the queue of the cook thread holds.
LEMMA Entries ==
  ASSUME NEW q \in Seq([req : Req, sock : Conn]), NEW k \in DOMAIN q
  PROVE  q[k].req \in Req /\ q[k].sock \in Conn
<1> DEFINE S == [req : Req, sock : Conn]
<1>1. q \in Seq(S)  OBVIOUS
<1>2. \A e \in S : e.req \in Req /\ e.sock \in Conn  OBVIOUS
<1> HIDE DEF S
<1>3. q[k] \in S  BY <1>1
<1> QED  BY <1>2, <1>3

\* The body of a request, and the queue of the cook thread.
LEMMA ReadWire ==
  ASSUME WireInv, ThreadInv, NEW w \in Worker, Read(w)
  PROVE  WireInv'
<1> DEFINE c == sock[w]
           h == Head(wire[c])
<1>1. sock[w] \in Conn  BY DEF Read, ThreadInv, ThreadTypeOK, HasSock, InSession
<1>2. Inbox(w) = wire[c] /\ wire[c] # <<>>  BY DEF Read, Inbox
<1>3. /\ h.part = pc[w] /\ pc[w] \in {"header", "body"}
      /\ wire' = [wire EXCEPT ![c] = Tail(@)] /\ UNCHANGED <<conn, partial>>
      /\ IF pc[w] = "header"
         THEN UNCHANGED <<pendingMain, request>>
         ELSE /\ pendingMain' = Append(pendingMain, [req |-> h.req, sock |-> c])
              /\ request' = [request EXCEPT ![h.req] = "queued"]
  BY <1>2 DEF Read
<1>4. /\ wire \in [Conn -> Seq(Part)] /\ request \in [Req -> Asked] /\ QueuedOnce /\ BodyOnce
      /\ pendingMain \in Seq([req : Req, sock : Conn])
  BY DEF WireInv, WireTypeOK
<1>5. wire[c] \in Seq(Part) /\ h \in Part /\ 1 \in DOMAIN wire[c] /\ wire[c][1] = h
  BY <1>1, <1>2, <1>4, Taken
<1>6. h.req \in Req  BY <1>5 DEF Part
<1>7. wire' \in [Conn -> Seq(Part)]  BY <1>1, <1>2, <1>3, PartRead
<1> HIDE DEF h
<1>8. \A r \in Req : request'[r] = request[r] \/ (h.part = "body" /\ r = h.req)
  BY <1>3, <1>4, <1>6
<1>9. BodyOnce'  BY <1>1, <1>2, <1>3, <1>8, ReadKeepsBodies DEF h
<1>10. CASE pc[w] = "header"
  BY <1>3, <1>7, <1>9, <1>10 DEF WireInv, WireTypeOK, QueuedOnce
<1>11. CASE pc[w] = "body"
  <2> DEFINE m == [req |-> h.req, sock |-> c]
             n == Len(pendingMain) + 1
  <2>1. m \in [req : Req, sock : Conn] /\ m.req = h.req  BY <1>1, <1>6
  <2>2. pendingMain' = Append(pendingMain, m) /\ request' = [request EXCEPT ![h.req] = "queued"]
    BY <1>3, <1>11
  <2>3. request[h.req] = "sent"  BY <1>1, <1>3, <1>4, <1>5, <1>11 DEF BodyOnce
  <2> HIDE DEF m, n, c
  <2>4. /\ pendingMain' \in Seq([req : Req, sock : Conn])
        /\ n \in DOMAIN pendingMain' /\ pendingMain'[n] = m
        /\ \A k \in DOMAIN pendingMain' : k \in DOMAIN pendingMain \/ k = n
        /\ \A k \in DOMAIN pendingMain : k \in DOMAIN pendingMain' /\ pendingMain'[k] = pendingMain[k]
    BY <1>4, <2>1, <2>2, Added DEF n
  <2>5. \A k \in DOMAIN pendingMain : pendingMain[k].req \in Req /\ pendingMain[k].req # h.req
    <3> SUFFICES ASSUME NEW k \in DOMAIN pendingMain
                 PROVE  pendingMain[k].req \in Req /\ pendingMain[k].req # h.req
      OBVIOUS
    <3>1. pendingMain[k].req \in Req  BY <1>4, Entries
    <3> QED  BY <1>4, <2>3, <3>1 DEF QueuedOnce
  <2>6. QueuedOnce'
    <3>1. ASSUME NEW r \in Req
          PROVE  request'[r] = "queued" <=> \E k \in DOMAIN pendingMain' : pendingMain'[k].req = r
      <4>1. CASE r = h.req  BY <1>4, <1>6, <2>1, <2>2, <2>4, <4>1
      <4>2. CASE r # h.req  BY <1>4, <2>1, <2>2, <2>4, <4>2 DEF QueuedOnce
      <4> QED  BY <4>1, <4>2
    <3>2. ASSUME NEW j \in DOMAIN pendingMain', NEW k \in DOMAIN pendingMain',
                 pendingMain'[j].req = pendingMain'[k].req
          PROVE  j = k
      <4>1. CASE j \in DOMAIN pendingMain /\ k \in DOMAIN pendingMain
        BY <1>4, <2>4, <3>2, <4>1 DEF QueuedOnce
      <4>2. CASE j = n /\ k \in DOMAIN pendingMain  BY <2>1, <2>4, <2>5, <3>2, <4>2
      <4>3. CASE k = n /\ j \in DOMAIN pendingMain  BY <2>1, <2>4, <2>5, <3>2, <4>3
      <4> QED  BY <2>4, <4>1, <4>2, <4>3
    <3> QED  BY <3>1, <3>2 DEF QueuedOnce
  <2>7. request' \in [Req -> Asked]  BY <1>4, <2>2 DEF Asked
  <2> QED  BY <1>3, <1>7, <1>9, <2>4, <2>6, <2>7 DEF WireInv, WireTypeOK
<1> QED  BY <1>3, <1>10, <1>11

\* A part that is misread and ignored.
LEMMA SkippedWire ==
  ASSUME WireInv, NEW c \in Conn, wire[c] # <<>>,
         wire' = [wire EXCEPT ![c] = Tail(@)], UNCHANGED <<conn, partial, pendingMain, request>>
  PROVE  WireInv'
<1>1. wire' \in [Conn -> Seq(Part)] /\ BodyOnce'  BY PartRead, ReadKeepsBodies
<1> QED  BY <1>1 DEF WireInv, WireTypeOK, QueuedOnce

\* The cook thread runs the oldest request: the others keep waiting.
LEMMA DrainWire ==
  ASSUME WireInv, Drain
  PROVE  WireInv'
<1> DEFINE m == Head(pendingMain)
           how == IF conn[m.sock] = "accepted" THEN "answered" ELSE "undelivered"
<1>1. /\ pendingMain # <<>> /\ pendingMain' = Tail(pendingMain)
      /\ request' = [request EXCEPT ![m.req] = how]
      /\ Collected(conn)
  BY DEF Drain
<1>2. /\ conn \in [Conn -> ConnState] /\ wire \in [Conn -> Seq(Part)]
      /\ partial \in [Conn -> SUBSET Req]
      /\ pendingMain \in Seq([req : Req, sock : Conn])
      /\ request \in [Req -> Asked] /\ QueuedOnce /\ BodyOnce
  BY DEF WireInv, WireTypeOK
<1>3. /\ m \in [req : Req, sock : Conn] /\ pendingMain' \in Seq([req : Req, sock : Conn])
      /\ 1 \in DOMAIN pendingMain /\ pendingMain[1] = m
      /\ \A k \in DOMAIN pendingMain' :
           k \in Nat /\ k # 0 /\ k + 1 \in DOMAIN pendingMain /\ pendingMain'[k] = pendingMain[k + 1]
      /\ \A k \in DOMAIN pendingMain :
           k # 1 => k - 1 \in DOMAIN pendingMain' /\ pendingMain'[k - 1] = pendingMain[k]
  BY <1>1, <1>2, Taken
<1>4. m.req \in Req /\ request[m.req] = "queued"  BY <1>2, <1>3 DEF QueuedOnce
<1>5. how \in {"answered", "undelivered"}  OBVIOUS
<1> HIDE DEF m, how
<1>6. request' \in [Req -> Asked]  BY <1>1, <1>2, <1>5 DEF Asked
<1>7. QueuedOnce'
  <2>1. ASSUME NEW r \in Req
        PROVE  request'[r] = "queued" <=> \E k \in DOMAIN pendingMain' : pendingMain'[k].req = r
    <3>1. CASE r = m.req
      <4>1. request'[r] # "queued"  BY <1>1, <1>2, <1>5, <3>1
      <4>2. \A k \in DOMAIN pendingMain : pendingMain[k].req = r => k = 1
        BY <1>2, <1>3, <3>1 DEF QueuedOnce
      <4>3. \A k \in DOMAIN pendingMain' : k + 1 # 1 /\ pendingMain'[k].req # r
        BY <1>3, <4>2
      <4> QED  BY <4>1, <4>3
    <3>2. CASE r # m.req
      <4>1. request'[r] = request[r]  BY <1>1, <1>2, <3>2
      <4>2. ASSUME NEW k \in DOMAIN pendingMain, pendingMain[k].req = r
            PROVE  k - 1 \in DOMAIN pendingMain' /\ pendingMain'[k - 1].req = r
        BY <1>3, <3>2, <4>2
      <4>3. ASSUME NEW k \in DOMAIN pendingMain', pendingMain'[k].req = r
            PROVE  k + 1 \in DOMAIN pendingMain /\ pendingMain[k + 1].req = r
        BY <1>3, <4>3
      <4> QED  BY <1>2, <4>1, <4>2, <4>3 DEF QueuedOnce
    <3> QED  BY <3>1, <3>2
  <2>2. ASSUME NEW j \in DOMAIN pendingMain', NEW k \in DOMAIN pendingMain',
               pendingMain'[j].req = pendingMain'[k].req
        PROVE  j = k
    <3>1. /\ j \in Nat /\ j + 1 \in DOMAIN pendingMain /\ pendingMain'[j] = pendingMain[j + 1]
          /\ k \in Nat /\ k + 1 \in DOMAIN pendingMain /\ pendingMain'[k] = pendingMain[k + 1]
      BY <1>3
    <3>2. pendingMain[j + 1].req = pendingMain[k + 1].req  BY <2>2, <3>1
    <3>3. \A x, y \in DOMAIN pendingMain : pendingMain[x].req = pendingMain[y].req => x = y
      BY <1>2 DEF QueuedOnce
    <3>4. j + 1 = k + 1  BY <3>1, <3>2, <3>3
    <3> QED  BY <3>1, <3>4
  <2> QED  BY <2>1, <2>2 DEF QueuedOnce
<1>8. BodyOnce /\ \A r \in Req : request[r] = "sent" => request'[r] = "sent"
  BY <1>1, <1>2, <1>4
<1>9. /\ conn' \in [Conn -> ConnState]
      /\ wire' \in [Conn -> Seq(Part)] /\ partial' \in [Conn -> SUBSET Req]
      /\ \A c \in Conn : /\ wire'[c] = wire[c] \/ wire'[c] = <<>>
                         /\ partial'[c] = partial[c] \/ partial'[c] = {}
  <2>1. /\ conn' = [c \in Conn |-> IF conn[c] # "free" /\ ~ Referenced(c) THEN "free" ELSE conn[c]]
        /\ wire' = [c \in Conn |-> IF conn'[c] = "free" THEN <<>> ELSE wire[c]]
        /\ partial' = [c \in Conn |-> IF conn'[c] = "free" THEN {} ELSE partial[c]]
    BY <1>1 DEF Collected
  <2>2. conn' \in [Conn -> ConnState]  BY <1>2, <2>1 DEF ConnState
  <2>3. wire' \in [Conn -> Seq(Part)] /\ partial' \in [Conn -> SUBSET Req]  BY <1>2, <2>1
  <2> QED  BY <2>1, <2>2, <2>3
<1>10. BodyOnce'
  <2>1. \A c \in Conn : /\ \A k \in DOMAIN wire'[c] : k \in DOMAIN wire[c] /\ wire'[c][k] = wire[c][k]
                        /\ partial'[c] \subseteq partial[c]
    BY <1>9
  <2>2. ASSUME NEW c \in Conn, NEW k \in DOMAIN wire'[c]  PROVE wire'[c][k].req \in Req
    <3>1. wire'[c] \in Seq(Part)  BY <1>9
    <3>2. wire'[c][k] \in Part  BY <3>1
    <3> QED  BY <3>2 DEF Part
  <2>3. ASSUME NEW c \in Conn, NEW d \in Conn, NEW r \in partial'[c]
        PROVE  request'[r] = "sent" /\ (r \in partial'[d] => c = d)
    BY <1>2, <1>8, <2>1 DEF BodyOnce
  <2>4. ASSUME NEW c \in Conn, NEW d \in Conn, NEW k \in DOMAIN wire'[c], wire'[c][k].part = "body"
        PROVE  /\ request'[wire'[c][k].req] = "sent" /\ wire'[c][k].req \notin partial'[d]
               /\ \A j \in DOMAIN wire'[d] : wire'[d][j] = wire'[c][k] => c = d /\ j = k
    <3>1. request[wire'[c][k].req] = "sent" /\ wire'[c][k].req \notin partial'[d]
      BY <1>8, <2>1, <2>4 DEF BodyOnce
    <3>2. \A j \in DOMAIN wire'[d] : wire'[d][j] = wire'[c][k] => c = d /\ j = k
      BY <1>8, <2>1, <2>4 DEF BodyOnce
    <3> QED  BY <1>8, <2>2, <3>1, <3>2
  <2> QED  BY <2>3, <2>4 DEF BodyOnce
<1> QED  BY <1>3, <1>6, <1>7, <1>9, <1>10 DEF WireInv, WireTypeOK

\* The hub sends the first half of a frame, of a request nobody has seen.
LEMMA SendWire ==
  ASSUME WireInv, NEW c \in Conn, NEW r \in Req, HubSends(c, r)
  PROVE  WireInv'
<1> DEFINE e == [req |-> r, part |-> "header"]
<1>1. /\ wire \in [Conn -> Seq(Part)] /\ partial \in [Conn -> SUBSET Req]
      /\ request \in [Req -> Asked] /\ QueuedOnce /\ BodyOnce /\ WireTypeOK
      /\ pendingMain \in Seq([req : Req, sock : Conn])
  BY DEF WireInv, WireTypeOK
<1>2. /\ request[r] = "new" /\ partial[c] = {}
      /\ wire' = [wire EXCEPT ![c] = Append(@, e)]
      /\ partial' = [partial EXCEPT ![c] = {r}]
      /\ request' = [request EXCEPT ![r] = "sent"]
      /\ UNCHANGED <<conn, pendingMain>>
  BY DEF HubSends, HubUnchanged
<1>3. e \in Part /\ e.part = "header"  BY DEF Part
<1> HIDE DEF e
<1>4. wire[c] \in Seq(Part)  BY <1>1
<1>5. /\ Append(wire[c], e) \in Seq(Part)
      /\ \A k \in DOMAIN Append(wire[c], e) :
           \/ k \in DOMAIN wire[c] /\ Append(wire[c], e)[k] = wire[c][k]
           \/ Append(wire[c], e)[k] = e
  BY <1>3, <1>4, Added
<1>6. wire' \in [Conn -> Seq(Part)]  BY <1>1, <1>2, <1>5
<1>7. WireTypeOK'
  <2>1. request' \in [Req -> Asked] /\ partial' \in [Conn -> SUBSET Req]
    BY <1>1, <1>2 DEF Asked
  <2> QED  BY <1>1, <1>2, <1>6, <2>1 DEF WireTypeOK
<1>8. QueuedOnce'
  <2>1. \A q \in Req : request'[q] = "queued" <=> request[q] = "queued"  BY <1>1, <1>2
  <2> QED  BY <1>1, <1>2, <2>1 DEF QueuedOnce
<1>9. \A d \in Conn : \A k \in DOMAIN wire'[d] :
        wire'[d][k].part = "body" => k \in DOMAIN wire[d] /\ wire'[d][k] = wire[d][k]
  BY <1>1, <1>2, <1>3, <1>5
<1>10. \A q \in Req : request[q] = "sent" => request'[q] = "sent" /\ q # r  BY <1>1, <1>2
<1>11. ASSUME NEW d \in Conn, NEW b \in Conn, NEW q \in partial'[d]
       PROVE  request'[q] = "sent" /\ (q \in partial'[b] => d = b)
  <2>1. \A x \in Conn : partial'[x] = IF x = c THEN {r} ELSE partial[x]  BY <1>1, <1>2
  <2>2. \A x \in Conn : \A y \in partial[x] : y \in Req /\ request[y] = "sent" /\ y # r
    BY <1>1, <1>2 DEF BodyOnce
  <2>3. request'[r] = "sent"  BY <1>1, <1>2
  <2>4. CASE d = c
    <3>1. q = r  BY <2>1, <2>4
    <3> QED  BY <2>1, <2>2, <2>3, <2>4, <3>1
  <2>5. CASE d # c
    <3>1. q \in partial[d] /\ q \in Req /\ request[q] = "sent" /\ q # r  BY <2>1, <2>2, <2>5
    <3>2. q \in partial'[b] => b # c /\ q \in partial[b]  BY <2>1, <3>1
    <3> QED  BY <1>1, <1>10, <3>1, <3>2 DEF BodyOnce
  <2> QED  BY <2>4, <2>5
<1>12. ASSUME NEW d \in Conn, NEW b \in Conn, NEW k \in DOMAIN wire'[d], wire'[d][k].part = "body"
       PROVE  /\ request'[wire'[d][k].req] = "sent" /\ wire'[d][k].req \notin partial'[b]
              /\ \A j \in DOMAIN wire'[b] : wire'[b][j] = wire'[d][k] => d = b /\ j = k
  <2> DEFINE q == wire'[d][k].req
  <2>1. k \in DOMAIN wire[d] /\ wire'[d][k] = wire[d][k] /\ wire[d][k].part = "body"
    BY <1>9, <1>12
  <2>2. q \in Req
    <3>1. wire[d] \in Seq(Part)  BY <1>1
    <3>2. wire[d][k] \in Part  BY <2>1, <3>1
    <3> QED  BY <2>1, <3>2 DEF Part
  <2>3. request[q] = "sent" /\ q \notin partial[b]  BY <1>1, <2>1 DEF BodyOnce
  <2>4. \A j \in DOMAIN wire'[b] : wire'[b][j] = wire'[d][k] => d = b /\ j = k
    BY <1>1, <1>9, <1>12, <2>1 DEF BodyOnce
  <2> HIDE DEF q
  <2>5. request'[q] = "sent" /\ q # r  BY <1>10, <2>2, <2>3
  <2>6. q \notin partial'[b]  BY <1>1, <1>2, <2>3, <2>5
  <2> QED  BY <2>4, <2>5, <2>6 DEF q
<1> QED  BY <1>7, <1>8, <1>11, <1>12 DEF WireInv, BodyOnce

\* The second half: the request is complete on this wire, and on no other.
LEMMA SendRestWire ==
  ASSUME WireInv, NEW c \in Conn, NEW r \in Req, HubSendsRest(c, r)
  PROVE  WireInv'
<1> DEFINE e == [req |-> r, part |-> "body"]
           n == Len(wire[c]) + 1
<1>1. /\ wire \in [Conn -> Seq(Part)] /\ partial \in [Conn -> SUBSET Req]
      /\ request \in [Req -> Asked] /\ QueuedOnce /\ BodyOnce /\ WireTypeOK
  BY DEF WireInv, WireTypeOK
<1>2. /\ r \in partial[c]
      /\ wire' = [wire EXCEPT ![c] = Append(@, e)]
      /\ partial' = [partial EXCEPT ![c] = {}]
      /\ UNCHANGED <<conn, pendingMain, request>>
  BY DEF HubSendsRest, HubUnchanged
<1>3. e \in Part /\ e.part = "body" /\ e.req = r  BY DEF Part
<1>4. wire[c] \in Seq(Part)  BY <1>1
<1> HIDE DEF e
<1>5. /\ Append(wire[c], e) \in Seq(Part)
      /\ \A k \in DOMAIN Append(wire[c], e) :
           \/ k \in DOMAIN wire[c] /\ Append(wire[c], e)[k] = wire[c][k]
           \/ k = n /\ Append(wire[c], e)[k] = e
  BY <1>3, <1>4, Added
<1> HIDE DEF n
<1>6. wire' \in [Conn -> Seq(Part)]  BY <1>1, <1>2, <1>5
<1>7. WireTypeOK'
  <2>1. partial' \in [Conn -> SUBSET Req]  BY <1>1, <1>2
  <2> QED  BY <1>1, <1>2, <1>6, <2>1 DEF WireTypeOK
<1>8. QueuedOnce'  BY <1>1, <1>2 DEF QueuedOnce
<1>9. \A d \in Conn : \A k \in DOMAIN wire'[d] :
        \/ k \in DOMAIN wire[d] /\ wire'[d][k] = wire[d][k]
        \/ d = c /\ k = n /\ wire'[d][k] = e
  BY <1>1, <1>2, <1>5
<1>10. \A d \in Conn : /\ partial'[d] \subseteq partial[d]
                       /\ r \notin partial'[d]
  BY <1>1, <1>2 DEF BodyOnce
<1>11. \A d \in Conn : \A k \in DOMAIN wire[d] : wire[d][k].part = "body" => wire[d][k].req # r
  BY <1>1, <1>2 DEF BodyOnce
<1>12. ASSUME NEW d \in Conn, NEW b \in Conn, NEW q \in partial'[d]
       PROVE  request'[q] = "sent" /\ (q \in partial'[b] => d = b)
  BY <1>1, <1>2, <1>10 DEF BodyOnce
<1>13. ASSUME NEW d \in Conn, NEW b \in Conn, NEW k \in DOMAIN wire'[d], wire'[d][k].part = "body"
       PROVE  /\ request'[wire'[d][k].req] = "sent" /\ wire'[d][k].req \notin partial'[b]
              /\ \A j \in DOMAIN wire'[b] : wire'[b][j] = wire'[d][k] => d = b /\ j = k
  <2>1. CASE k \in DOMAIN wire[d] /\ wire'[d][k] = wire[d][k]
    <3>1. wire[d][k].req # r /\ wire[d][k] # e  BY <1>3, <1>11, <1>13, <2>1
    <3> QED  BY <1>1, <1>2, <1>9, <1>10, <1>13, <2>1, <3>1 DEF BodyOnce
  <2>2. CASE d = c /\ k = n /\ wire'[d][k] = e
    <3>1. request'[r] = "sent"  BY <1>1, <1>2 DEF BodyOnce
    <3>2. ASSUME NEW j \in DOMAIN wire'[b], wire'[b][j] = e  PROVE b = c /\ j = n
      BY <1>3, <1>9, <1>11, <3>2
    <3> QED  BY <1>3, <1>10, <2>2, <3>1, <3>2
  <2> QED  BY <1>9, <2>1, <2>2
<1> QED  BY <1>7, <1>8, <1>12, <1>13 DEF WireInv, BodyOnce

-----------------------------------------------------------------------------
\* What the cook thread, the hub and state.json do leaves the workers where they are.
LEMMA OtherThreads ==
  ASSUME ThreadInv, ThreadTypeOK', UNCHANGED <<thread, pc, sock>>,
         face' = face \/ face' # "connected"
  PROVE  ThreadInv'
BY DEF ThreadInv, OneWorker, GreenIsSession, HasSock, Alive, InSession

\* The face of a worker that goes on in its session, or leaves it.
LEMMA WorkerMoves ==
  ASSUME ThreadInv, ThreadTypeOK', NEW w \in Worker, Alive(w), UNCHANGED thread,
         NEW p \in Place, pc' = [pc EXCEPT ![w] = p],
         NEW s \in Conn \cup {NoConn}, sock' = [sock EXCEPT ![w] = s],
         p \in {"opened", "hello"} \cup InSession => s # NoConn,
         face' = "connected" => p \in InSession \/ (face = "connected" /\ pc[w] \notin InSession)
  PROVE  ThreadInv'
<1>1. /\ pc \in [Worker -> Place] /\ sock \in [Worker -> Conn \cup {NoConn}]
      /\ OneWorker /\ GreenIsSession /\ HasSock
  BY DEF ThreadInv, ThreadTypeOK
<1>2. /\ pc'[w] = p /\ sock'[w] = s
      /\ \A v \in Worker \ {w} : pc'[v] = pc[v] /\ sock'[v] = sock[v]
  BY <1>1
<1>3. OneWorker'  BY <1>1, <1>2 DEF OneWorker, Alive
<1>4. GreenIsSession'  BY <1>1, <1>2 DEF GreenIsSession, InSession
<1>5. HasSock'  BY <1>1, <1>2 DEF HasSock, InSession
<1> QED  BY <1>3, <1>4, <1>5 DEF ThreadInv

\* No step of a worker brings a second one, or a face that lies.
LEMMA WorkerThreads ==
  ASSUME ThreadInv, NEW w \in Worker, WorkerStep(w)
  PROVE  ThreadInv'
<1>1. /\ ThreadTypeOK /\ pc \in [Worker -> Place] /\ sock \in [Worker -> Conn \cup {NoConn}]
      /\ HasSock
  BY DEF ThreadInv, ThreadTypeOK
<1>2. sock[w] \in Conn \cup {NoConn} /\ sock = [sock EXCEPT ![w] = sock[w]]  BY <1>1
<1>3. ASSUME NEW p \in Place, pc' = [pc EXCEPT ![w] = p], Alive(w),
             UNCHANGED <<flags, handle, sock, stateFile, mainVars>>,
             p \in {"opened", "hello"} \cup InSession => sock[w] # NoConn,
             face' = "connected" => p \in InSession \/ (face = "connected" /\ pc[w] \notin InSession),
             face' \in {face, "connecting", "connected", "error"}
      PROVE  ThreadInv'
  <2>1. ThreadTypeOK'  BY <1>1, <1>3 DEF ThreadTypeOK, flags, mainVars
  <2>2. thread' = thread /\ sock' = [sock EXCEPT ![w] = sock[w]]  BY <1>2, <1>3 DEF flags
  <2> QED  BY <1>2, <1>3, <2>1, <2>2, WorkerMoves
<1>4. ASSUME NEW closing \in BOOLEAN, Leave(w, closing), Alive(w),
             face' \in {"disconnected", "error"} \/ (face' = face /\ pc[w] \notin InSession)
      PROVE  ThreadInv'
  <2>1. /\ pc' = [pc EXCEPT ![w] = "after"] /\ sock' = [sock EXCEPT ![w] = NoConn]
        /\ handle' = IF closing THEN NoConn ELSE handle
        /\ UNCHANGED <<flags, stateFile, mainVars>>
    BY <1>4 DEF Leave
  <2>2. "after" \in Place /\ "after" \notin {"opened", "hello"} \cup InSession
    BY DEF Place, InSession
  <2>3. ThreadTypeOK'  BY <1>1, <1>4, <2>1, <2>2 DEF ThreadTypeOK, flags, mainVars
  <2>4. thread' = thread  BY <2>1 DEF flags
  <2> QED  BY <1>4, <2>1, <2>2, <2>3, <2>4, WorkerMoves
<1>5. CASE Top(w) \/ After(w) \/ Exit(w)
  <2>1. PICK p \in {"exiting", "dial", "top", "dead"} : pc' = [pc EXCEPT ![w] = p]
    BY <1>5 DEF Top, After, Exit
  <2>2. /\ p \in Place /\ p \notin {"opened", "hello"} \cup InSession
        /\ Alive(w) /\ pc[w] \notin InSession /\ face' = face
        /\ UNCHANGED <<flags, handle, sock, stateFile, mainVars>>
    BY <1>5, <2>1 DEF Top, After, Exit, Place, InSession, Alive
  <2> QED  BY <1>3, <2>1, <2>2
<1>6. CASE DialFails(w)
  <2>1. /\ "after" \in Place /\ "after" \notin {"opened", "hello"} \cup InSession
        /\ Alive(w) /\ pc' = [pc EXCEPT ![w] = "after"] /\ face' = "error"
        /\ UNCHANGED <<flags, handle, sock, stateFile, mainVars>>
    BY <1>6 DEF DialFails, Place, InSession, Alive
  <2> QED  BY <1>3, <2>1
<1>7. CASE Dial(w)
  <2>1. PICK c \in Conn : sock' = [sock EXCEPT ![w] = c]  BY <1>7 DEF Dial
  <2>2. /\ pc' = [pc EXCEPT ![w] = "opened"] /\ Alive(w) /\ face' = "connecting"
        /\ UNCHANGED <<flags, handle, stateFile, mainVars>> /\ "opened" \in Place
    BY <1>7 DEF Dial, Alive, Place
  <2>3. ThreadTypeOK' /\ thread' = thread
    BY <1>1, <2>1, <2>2 DEF ThreadTypeOK, flags, mainVars
  <2>4. c # NoConn  BY ClientAssumption
  <2> QED  BY <2>1, <2>2, <2>3, <2>4, WorkerMoves
<1>8. CASE SayHello(w)
  <2>1. /\ pc' = [pc EXCEPT ![w] = "hello"] /\ Alive(w) /\ face' = face /\ pc[w] \notin InSession
        /\ UNCHANGED <<flags, sock, stateFile, mainVars>> /\ handle' = sock[w] /\ "hello" \in Place
        /\ sock[w] # NoConn
    BY <1>1, <1>8 DEF SayHello, Alive, Place, InSession, HasSock
  <2>2. ThreadTypeOK' /\ thread' = thread
    BY <1>1, <1>2, <2>1 DEF ThreadTypeOK, flags, mainVars
  <2>3. sock' = [sock EXCEPT ![w] = sock[w]]  BY <1>2, <2>1
  <2> QED  BY <1>2, <2>1, <2>2, <2>3, WorkerMoves
<1>9. CASE Connected(w) \/ Check(w) \/ ReadTimeout(w) \/ Read(w)
  <2>1. PICK p \in InSession : pc' = [pc EXCEPT ![w] = p]
    BY <1>9 DEF Connected, Check, ReadTimeout, Read, InSession
  <2>2. /\ p \in Place /\ Alive(w) /\ sock[w] # NoConn /\ face' \in {face, "connected"}
        /\ UNCHANGED <<flags, handle, sock, stateFile, mainVars>>
    BY <1>1, <1>9 DEF Connected, Check, ReadTimeout, Read, Place, Alive, InSession, HasSock
  <2> QED  BY <1>3, <2>1, <2>2
<1>10. CASE NotConnected(w)
  <2>1. Alive(w) /\ pc[w] \notin InSession  BY <1>10 DEF NotConnected, Alive, InSession
  <2>2. PICK closing \in BOOLEAN : Leave(w, closing) /\ face' \in {face, "error"}
    BY <1>10 DEF NotConnected
  <2> QED  BY <1>4, <2>1, <2>2
<1>11. CASE SessionEnds(w) \/ ReadEnds(w)
  BY <1>4, <1>11 DEF SessionEnds, ReadEnds, Alive
<1>12. CASE Misread(w)
  <2>1. Alive(w) /\ pc[w] \in InSession /\ sock[w] # NoConn
    BY <1>1, <1>12 DEF Misread, Alive, InSession, HasSock
  <2>2. \/ /\ pc' = [pc EXCEPT ![w] = "check"]
           /\ UNCHANGED <<flags, handle, sock, stateFile, mainVars, face>>
        \/ face' \in {"disconnected", "error"} /\ \E closing \in BOOLEAN : Leave(w, closing)
    BY <1>12 DEF Misread
  <2>3. "check" \in Place /\ "check" \in InSession  BY DEF Place, InSession
  <2> QED  BY <1>3, <1>4, <2>1, <2>2, <2>3
<1> QED  BY <1>5, <1>6, <1>7, <1>8, <1>9, <1>10, <1>11, <1>12 DEF WorkerStep

\* start() replaces only a thread that has ended.
LEMMA StartedThreads ==
  ASSUME ThreadInv, Started
  PROVE  ThreadInv'
<1>1. /\ ThreadTypeOK /\ pc \in [Worker -> Place] /\ OneWorker /\ GreenIsSession /\ HasSock
  BY DEF ThreadInv, ThreadTypeOK
<1>2. /\ mainPc' = "idle" /\ lastCall' = "start"
      /\ UNCHANGED <<paused, stop, handle, sock, stateFile, mainSock, face>>
  BY DEF Started
<1>3. CASE thread # NoWorker /\ Alive(thread)
  <2>1. thread' = thread /\ pc' = pc  BY <1>3 DEF Started
  <2>2. ThreadTypeOK'  BY <1>1, <1>2, <2>1 DEF ThreadTypeOK
  <2> QED  BY <1>2, <2>1, <2>2, OtherThreads
<1>4. CASE ~(thread # NoWorker /\ Alive(thread))
  <2>1. PICK w \in Worker : thread' = w /\ pc' = [pc EXCEPT ![w] = "top"]
    BY <1>4 DEF Started
  <2>2. \A v \in Worker : ~ Alive(v)
    BY <1>1, <1>4, ClientAssumption DEF OneWorker
  <2>3. /\ pc'[w] = "top" /\ \A v \in Worker \ {w} : pc'[v] = pc[v]  BY <1>1, <2>1
  <2>4. "top" \in Place  BY DEF Place
  <2>5. ThreadTypeOK'  BY <1>1, <1>2, <2>1, <2>4 DEF ThreadTypeOK
  <2>6. OneWorker'  BY <2>1, <2>2, <2>3 DEF OneWorker, Alive
  <2>7. GreenIsSession'
    BY <1>1, <1>2, <2>2 DEF GreenIsSession, Alive, InSession
  <2>8. HasSock'  BY <1>1, <1>2, <2>2, <2>3 DEF HasSock, Alive, InSession
  <2> QED  BY <2>5, <2>6, <2>7, <2>8 DEF ThreadInv
<1> QED  BY <1>3, <1>4

\* Nor does any other step.
LEMMA ThreadNext == ThreadInv /\ [Next]_clientVars => ThreadInv'
<1> SUFFICES ASSUME ThreadInv, [Next]_clientVars  PROVE ThreadInv'  OBVIOUS
<1>1. ThreadTypeOK  BY DEF ThreadInv
<1>2. CASE Close("pause") \/ Close("stop") \/ Resume \/ ReadyPaused \/ Start
  <2> DEFINE Outside == ThreadTypeOK' /\ UNCHANGED <<thread, pc, sock>> /\ (face' = face \/ face' # "connected")
  <2>1. ASSUME NEW call \in {"pause", "stop"}, Close(call)  PROVE Outside
    BY <1>1, <2>1 DEF Close, ThreadTypeOK, flags, workerVars
  <2>2. ASSUME Resume  PROVE Outside
    BY <1>1, <2>2 DEF Resume, ThreadTypeOK, flags, workerVars
  <2>3. ASSUME ReadyPaused  PROVE Outside
    BY <1>1, <2>3 DEF ReadyPaused, ThreadTypeOK, flags, workerVars
  <2>4. ASSUME Start  PROVE Outside
    BY <1>1, <2>4 DEF Start, ThreadTypeOK, flags, workerVars
  <2>5. Outside  BY <1>2, <2>1, <2>2, <2>3, <2>4
  <2> QED  BY <2>5, OtherThreads
<1>3. CASE Closed
  <2>1. ThreadTypeOK' /\ UNCHANGED <<thread, pc, sock>> /\ (face' = face \/ face' # "connected")
    BY <1>1, <1>3 DEF Closed, ThreadTypeOK, flags, workerVars
  <2> QED  BY <2>1, OtherThreads
<1>4. CASE Drain \/ Hub \/ WriteState \/ UNCHANGED clientVars
  <2>1. /\ UNCHANGED <<flags, handle, workerVars, mainVars, face>>
        /\ stateFile' = stateFile \/ stateFile' \in {"tunnel", "nononce", "http"}
    BY <1>4 DEF Drain, Hub, HubAnswers, HubDrops, HubSends, HubSendsRest, HubUnchanged,
                WriteState, clientVars
  <2>2. ThreadTypeOK' /\ UNCHANGED <<thread, pc, sock, face>>
    BY <1>1, <2>1 DEF ThreadTypeOK, flags, workerVars, mainVars
  <2> QED  BY <2>2, OtherThreads
<1>5. CASE Started  BY <1>5, StartedThreads
<1>6. ASSUME NEW w \in Worker, WorkerStep(w)  PROVE ThreadInv'  BY <1>6, WorkerThreads
<1> QED  BY <1>2, <1>3, <1>4, <1>5, <1>6 DEF Next, Main

\* Every step keeps the requests in one place.
LEMMA WireNext == ThreadInv /\ WireInv /\ [Next]_clientVars => WireInv'
<1> SUFFICES ASSUME ThreadInv, WireInv, [Next]_clientVars  PROVE WireInv'  OBVIOUS
<1>1. conn \in [Conn -> ConnState]  BY DEF WireInv, WireTypeOK
<1>2. ASSUME UNCHANGED <<hubVars, pendingMain>>  PROVE WireInv'
  BY <1>1, <1>2, ConnWire DEF hubVars
<1>3. ASSUME NEW c, Collected(Shut(c)), UNCHANGED <<pendingMain, request>>  PROVE WireInv'
  BY <1>3, ShutType, CollectedWire
<1>4. ASSUME Collected(conn), UNCHANGED <<pendingMain, request>>  PROVE WireInv'
  BY <1>1, <1>4, CollectedWire
<1>5. CASE Close("pause") \/ Close("stop") \/ Resume \/ ReadyPaused \/ Start \/ Started
           \/ WriteState \/ UNCHANGED clientVars
  BY <1>2, <1>5 DEF Close, Resume, ReadyPaused, Start, Started, WriteState, clientVars
<1>6. CASE Closed  BY <1>3, <1>6 DEF Closed
<1>7. CASE Drain  BY <1>7, DrainWire
<1>8. CASE Hub
  <2>1. ASSUME NEW c \in Conn, HubAnswers(c) \/ HubDrops(c)  PROVE WireInv'
    <3>1. conn' \in [Conn -> ConnState] /\ UNCHANGED <<wire, partial, pendingMain, request>>
      BY <1>1, <2>1 DEF HubAnswers, HubDrops, HubUnchanged, ConnState
    <3> QED  BY <3>1, ConnWire
  <2>2. ASSUME NEW c \in Conn, NEW r \in Req, HubSends(c, r) \/ HubSendsRest(c, r)  PROVE WireInv'
    BY <2>2, SendWire, SendRestWire
  <2> QED  BY <1>8, <2>1, <2>2 DEF Hub
<1>9. ASSUME NEW w \in Worker, WorkerStep(w)  PROVE WireInv'
  <2>1. ASSUME NEW closing, Leave(w, closing)  PROVE WireInv'
    <3>1. UNCHANGED <<pendingMain, request>> /\ Collected(IF closing THEN Shut(handle) ELSE conn)
      BY <2>1 DEF Leave
    <3> QED  BY <1>3, <1>4, <3>1
  <2>2. CASE Top(w) \/ DialFails(w) \/ Connected(w) \/ Check(w) \/ ReadTimeout(w)
             \/ After(w) \/ Exit(w)
    BY <1>2, <2>2 DEF Top, DialFails, Connected, Check, ReadTimeout, After, Exit
  <2>3. CASE Dial(w)
    <3>1. conn' \in [Conn -> ConnState] /\ UNCHANGED <<wire, partial, pendingMain, request>>
      BY <1>1, <2>3 DEF Dial, ConnState
    <3> QED  BY <3>1, ConnWire
  <2>4. CASE SayHello(w)  BY <1>4, <2>4 DEF SayHello
  <2>5. CASE NotConnected(w) \/ SessionEnds(w) \/ ReadEnds(w)
    BY <2>1, <2>5 DEF NotConnected, SessionEnds, ReadEnds
  <2>6. CASE Read(w)  BY <2>6, ReadWire
  <2>7. CASE Misread(w)
    <3>1. sock[w] \in Conn
      BY <2>7 DEF Misread, ThreadInv, ThreadTypeOK, HasSock, InSession
    <3>2. wire[sock[w]] # <<>>  BY <2>7 DEF Misread, Inbox
    <3>3. \/ /\ wire' = [wire EXCEPT ![sock[w]] = Tail(@)]
             /\ UNCHANGED <<conn, partial, pendingMain, request>>
          \/ \E closing : Leave(w, closing)
      BY <2>7 DEF Misread
    <3> QED  BY <2>1, <3>1, <3>2, <3>3, SkippedWire
  <2> QED  BY <1>9, <2>2, <2>3, <2>4, <2>5, <2>6, <2>7 DEF WorkerStep
<1> QED  BY <1>5, <1>6, <1>7, <1>8, <1>9 DEF Next, Main

\* No thread, no socket, no request.
LEMMA ClientInit == Init => ClientInv
<1> SUFFICES ASSUME Init  PROVE ClientInv  OBVIOUS
<1>1. ThreadInv
  BY DEF Init, ThreadInv, ThreadTypeOK, OneWorker, GreenIsSession, HasSock, Alive, InSession, Place
<1>2. WireInv
  BY DEF Init, WireInv, WireTypeOK, QueuedOnce, BodyOnce, ConnState, Asked
<1> QED  BY <1>1, <1>2, ClientParts

\* However start, pause, resume and stop on the cook thread interleave with the worker
\* and with what the hub does: one worker, an honest face, no request twice or lost.
THEOREM ClientIsSafe == Spec => []ClientInv
BY ClientInit, ClientParts, ThreadNext, WireNext, PTL DEF Spec

\* start() never adds a second worker to one that is alive.
THEOREM OneWorkerAtATime == Spec => []OneWorker
<1>1. ClientInv => OneWorker  BY DEF ClientInv
<1> QED  BY <1>1, ClientIsSafe, PTL

\* A body that was read waits for the cook thread, once, until it has run.
THEOREM NothingRunsTwice == Spec => []QueuedOnce
<1>1. ClientInv => QueuedOnce  BY DEF ClientInv
<1> QED  BY <1>1, ClientIsSafe, PTL

-----------------------------------------------------------------------------
(***************************************************************************)
(* The API service.  The numbers its searches and scripts count with.      *)
(***************************************************************************)
Less == {z \in Nat \X Nat : z[1] < z[2]}

\* No sequence of numbers goes down for ever.
LEMMA LessIsWellFounded == IsWellFoundedOn(Less, Nat)
BY NatLessThanWellFounded DEF OpToRel, Less

\* Every set of numbers that is not empty has a least one: the first route that fits,
\* the first cell that is free.
LEMMA LeastExists ==
    ASSUME NEW S, S \subseteq Nat, S # {}
    PROVE  \E m \in S : \A j \in S : m <= j
<1>1. PICK m \in S : \A y \in S : ~(<<y, m>> \in Less)
  BY LessIsWellFounded, WFMin
<1>2. ASSUME NEW j \in S PROVE m <= j
  <2>1. <<j, m>> \notin Less /\ j \in Nat /\ m \in Nat
    BY <1>1
  <2>2. j < m => <<j, m>> \in Less
    BY <2>1 DEF Less
  <2> QED BY <2>1, <2>2
<1> QED BY <1>2

\* What holds of 0 and of every successor holds of all numbers.
LEMMA NumberByNumber ==
    ASSUME NEW S, 0 \in S, \A n \in Nat : n \in S => n + 1 \in S
    PROVE  \A n \in Nat : n \in S
<1> DEFINE T == Nat \ S
<1> SUFFICES ASSUME T # {} PROVE FALSE
  OBVIOUS
<1>1. PICK m \in T : \A j \in T : m <= j
  BY LeastExists
<1>2. m # 0 /\ m - 1 \in Nat
  OBVIOUS
<1>3. m - 1 \in T
  BY <1>2
<1> QED BY <1>1, <1>2, <1>3

(***************************************************************************)
(* The project: every node that exists has its parts                       *)
(***************************************************************************)
IsNode(r) ==
    r = [parent |-> r.parent, type |-> r.type, x |-> r.x, y |-> r.y, w |-> r.w, h |-> r.h, val |-> r.val]

IsNet(t) == t = [n \in Nodes |-> t[n]] /\ \A n \in Nodes : t[n] = NoNode \/ IsNode(t[n])

\* Nothing that was not there before.
NoneNew(t) == \A n \in Nodes : net[n] = NoNode => t[n] = NoNode

\* A line of a script changes a value of a node that exists, and creates none.
LEMMA EffectKeeps ==
    ASSUME NEW t, IsNet(t), NoneNew(t), NEW line, t[line.node] # NoNode
    PROVE  IsNet(Effect(t, line)) /\ NoneNew(Effect(t, line))
<1> DEFINE m == line.node
           u == Effect(t, line)
           new == [t[m].val EXCEPT ![line.prop] = (@ + line.value) % Wrap]
<1>1. u = [t EXCEPT ![m] = [@ EXCEPT !.val = new]]
  BY DEF Effect
<1>2. ASSUME NEW n \in Nodes, n # m PROVE u[n] = t[n]
  BY <1>1, <1>2 DEF IsNet
<1>3. u = [n \in Nodes |-> u[n]]
  BY <1>1 DEF IsNet
<1>4. ASSUME m \in Nodes PROVE IsNode(u[m])
  <2>1. IsNode(t[m])
    BY <1>4 DEF IsNet
  <2>2. u[m] = [t[m] EXCEPT !.val = new]
    BY <1>1, <1>4 DEF IsNet
  <2> HIDE DEF new
  <2> QED BY <2>1, <2>2 DEF IsNode
<1> HIDE DEF u
<1>5. \A n \in Nodes : u[n] = NoNode \/ IsNode(u[n])
  BY <1>2, <1>4 DEF IsNet
<1>6. NoneNew(u)
  BY <1>2 DEF NoneNew
<1> QED BY <1>3, <1>5, <1>6 DEF IsNet, u

\* Whatever lines run, and however far they get.
LEMMA ExecutedKeeps ==
    ASSUME IsNet(net), NEW script, Len(script) \in Nat
    PROVE  IsNet(Executed(script).net) /\ NoneNew(Executed(script).net)
<1> DEFINE N == Len(script)
           Line(before, line) ==
                IF before.raised \/ Raises(before.net, line) THEN [before EXCEPT !.raised = TRUE]
                ELSE IF line.kind \in {"expr", "stmt"} THEN [before EXCEPT !.net = Effect(@, line)]
                ELSE before
           start == [net |-> net, raised |-> FALSE]
           Runs(g) == [i \in 0 .. N |-> IF i = 0 THEN start ELSE Line(g[i - 1], script[i])]
           run == CHOOSE g : g = Runs(g)
           Upto(g, k) == g = [i \in 0 .. k |-> IF i = 0 THEN start ELSE Line(g[i - 1], script[i])]
           S == {k \in Nat : \E g : Upto(g, k)}
<1> HIDE DEF Line, start
<1>1. 0 \in S
  <2> DEFINE g == [i \in 0 .. 0 |-> start]
  <2>1. Upto(g, 0)
    OBVIOUS
  <2> QED BY <2>1
<1>2. ASSUME NEW k \in Nat, k \in S PROVE k + 1 \in S
  <2>1. PICK g : Upto(g, k)
    BY <1>2
  <2> DEFINE y == Line(g[k], script[k + 1])
             h == [i \in 0 .. k + 1 |-> IF i <= k THEN g[i] ELSE y]
  <2>2. \A i \in 0 .. k : g[i] = IF i = 0 THEN start ELSE Line(g[i - 1], script[i])
    BY <2>1
  <2>3. h[k + 1] = y /\ \A i \in 0 .. k : h[i] = g[i]
    OBVIOUS
  <2>4. ASSUME NEW i \in 0 .. k + 1 PROVE h[i] = IF i = 0 THEN start ELSE Line(h[i - 1], script[i])
    <3>1. CASE i = k + 1
      <4>1. i # 0 /\ i - 1 = k /\ k \in 0 .. k
        BY <3>1
      <4> HIDE DEF h
      <4> QED BY <2>3, <3>1, <4>1
    <3>2. CASE i # k + 1
      <4>1. i \in 0 .. k /\ (i # 0 => i - 1 \in 0 .. k)
        BY <3>2
      <4> HIDE DEF h
      <4> QED BY <2>2, <2>3, <4>1
    <3> QED BY <3>1, <3>2
  <2>5. Upto(h, k + 1)
    BY <2>4
  <2> HIDE DEF h
  <2>6. k + 1 \in Nat
    OBVIOUS
  <2> QED BY <2>5, <2>6
<1>3. N \in S
  <2> HIDE DEF S
  <2> QED BY <1>1, <1>2, NumberByNumber
<1>4. run = Runs(run)
  <2>1. \E g : Upto(g, N)
    BY <1>3
  <2> QED BY <2>1
<1>5. Executed(script) = run[N]
  BY DEF Executed, Line, start
<1> HIDE DEF run, S
<1>6. run[0] = start /\ \A i \in 1 .. N : run[i] = Line(run[i - 1], script[i])
  <2>1. \A i \in 0 .. N : run[i] = Runs(run)[i]
    BY <1>4
  <2>2. run[0] = start
    <3>1. 0 \in 0 .. N
      OBVIOUS
    <3> QED BY <2>1, <3>1
  <2>3. ASSUME NEW i \in 1 .. N PROVE run[i] = Line(run[i - 1], script[i])
    BY <2>1
  <2> QED BY <2>2, <2>3
<1> DEFINE Good(r) == r = [net |-> r.net, raised |-> r.raised] /\ IsNet(r.net) /\ NoneNew(r.net)
<1>7. ASSUME NEW r, NEW line, Good(r) PROVE Good(Line(r, line))
  <2>1. CASE r.raised \/ Raises(r.net, line)
    BY <1>7, <2>1 DEF Line
  <2>2. CASE ~(r.raised \/ Raises(r.net, line)) /\ line.kind \in {"expr", "stmt"}
    <3>1. r.net[line.node] # NoNode
      BY <2>2 DEF Raises
    <3>2. IsNet(Effect(r.net, line)) /\ NoneNew(Effect(r.net, line))
      BY <1>7, <3>1, EffectKeeps
    <3>3. Line(r, line) = [r EXCEPT !.net = Effect(r.net, line)]
      BY <2>2 DEF Line
    <3> QED BY <1>7, <3>2, <3>3
  <2>3. CASE ~(r.raised \/ Raises(r.net, line)) /\ line.kind \notin {"expr", "stmt"}
    BY <1>7, <2>3 DEF Line
  <2> QED BY <2>1, <2>2, <2>3
<1> DEFINE U == {i \in Nat : i <= N => Good(run[i])}
<1>8. 0 \in U
  BY <1>6 DEF start, NoneNew
<1> HIDE DEF Good
<1>9. ASSUME NEW i \in Nat, i \in U PROVE i + 1 \in U
  <2> SUFFICES ASSUME i + 1 <= N PROVE Good(run[i + 1])
    OBVIOUS
  <2>1. i + 1 \in 1 .. N /\ (i + 1) - 1 = i /\ i <= N
    OBVIOUS
  <2>2. run[i + 1] = Line(run[i], script[i + 1])
    BY <1>6, <2>1
  <2> QED BY <1>7, <1>9, <2>1, <2>2
<1> HIDE DEF U
<1>10. N \in U
  BY <1>8, <1>9, NumberByNumber
<1>11. Good(run[N])
  BY <1>10 DEF U
<1> QED BY <1>5, <1>11 DEF Good

(***************************************************************************)
(* Routes                                                                  *)
(***************************************************************************)
\* One route is for PATCH, one is for new nodes, one for scripts and one for methods.
LEMMA RoutesAre ==
    ASSUME NEW i \in DOMAIN Routes
    PROVE  /\ Routes[i].method = "PATCH" => Routes[i].op = "update_node"
           /\ Routes[i].op \in {"create_node", "exec_node_method", "exec_python_script", "update_node"} =>
                ~HasParam(Routes[i]) /\ Routes[i].method \in {"POST", "PATCH"}
<1>1. DOMAIN Routes = 1 .. 12
  BY DEF Routes
<1>2. Routes[i].method = "PATCH" => i = 5
  BY <1>1 DEF Routes, Route
<1>3. Routes[i].op \in {"create_node", "exec_node_method", "exec_python_script", "update_node"} => i \in {2, 5, 10, 11}
  BY <1>1 DEF Routes, Route
<1>4. /\ Routes[2] = Route("POST", <<"nodes">>, "create_node")
      /\ Routes[5] = Route("PATCH", <<"nodes", "detail">>, "update_node")
      /\ Routes[10] = Route("POST", <<"td", "nodes", "exec">>, "exec_node_method")
      /\ Routes[11] = Route("POST", <<"td", "server", "exec">>, "exec_python_script")
  BY DEF Routes
<1>5. /\ ~HasParam(Route("POST", <<"nodes">>, "create_node"))
      /\ ~HasParam(Route("PATCH", <<"nodes", "detail">>, "update_node"))
      /\ ~HasParam(Route("POST", <<"td", "nodes", "exec">>, "exec_node_method"))
      /\ ~HasParam(Route("POST", <<"td", "server", "exec">>, "exec_python_script"))
  <2>1. DOMAIN <<"nodes">> = {1} /\ DOMAIN <<"nodes", "detail">> = {1, 2} /\ DOMAIN <<"td", "server", "exec">> = {1, 2, 3}
        /\ DOMAIN <<"td", "nodes", "exec">> = {1, 2, 3}
    OBVIOUS
  <2>2. Param # "nodes" /\ Param # "detail" /\ Param # "td" /\ Param # "server" /\ Param # "exec"
    BY DEF Param
  <2>3. /\ <<"nodes">>[1] = "nodes" /\ <<"nodes", "detail">>[1] = "nodes" /\ <<"nodes", "detail">>[2] = "detail"
        /\ <<"td", "server", "exec">>[1] = "td" /\ <<"td", "server", "exec">>[2] = "server"
        /\ <<"td", "server", "exec">>[3] = "exec"
        /\ <<"td", "nodes", "exec">>[1] = "td" /\ <<"td", "nodes", "exec">>[2] = "nodes"
        /\ <<"td", "nodes", "exec">>[3] = "exec"
    OBVIOUS
  <2>4. \A r : r.pattern = <<"nodes">> => ~HasParam(r)
    BY <2>1, <2>2, <2>3 DEF HasParam
  <2>5. \A r : r.pattern = <<"nodes", "detail">> => ~HasParam(r)
    BY <2>1, <2>2, <2>3 DEF HasParam
  <2>6. \A r : r.pattern = <<"td", "server", "exec">> => ~HasParam(r)
    BY <2>1, <2>2, <2>3 DEF HasParam
  <2>8. \A r : r.pattern = <<"td", "nodes", "exec">> => ~HasParam(r)
    BY <2>1, <2>2, <2>3 DEF HasParam
  <2>7. /\ Route("POST", <<"nodes">>, "create_node").pattern = <<"nodes">>
        /\ Route("PATCH", <<"nodes", "detail">>, "update_node").pattern = <<"nodes", "detail">>
        /\ Route("POST", <<"td", "nodes", "exec">>, "exec_node_method").pattern = <<"td", "nodes", "exec">>
        /\ Route("POST", <<"td", "server", "exec">>, "exec_python_script").pattern = <<"td", "server", "exec">>
    BY DEF Route
  <2> QED BY <2>4, <2>5, <2>6, <2>7, <2>8
<1>6. /\ Routes[5].op = "update_node" /\ Routes[5].method = "PATCH"
      /\ Routes[2].method = "POST" /\ Routes[10].method = "POST" /\ Routes[11].method = "POST"
  BY <1>4 DEF Route
<1> QED BY <1>2, <1>3, <1>4, <1>5, <1>6

\* What is matched is a route of the request's method.
LEMMA MatchingIs ==
    ASSUME NEW method, NEW path, NEW r \in Matching(method, path)
    PROVE  \E i \in DOMAIN Routes : r = Routes[i] /\ r.method = method
<1> DEFINE exact == {i \in DOMAIN Routes : Routes[i].method = method /\ Routes[i].pattern = path}
           fits == {i \in DOMAIN Routes :
                       Routes[i].method = method /\ HasParam(Routes[i]) /\ Fits(Routes[i], path)}
           First(S) == CHOOSE i \in S : \A j \in S : i <= j
<1>1. DOMAIN Routes \subseteq Nat
  <2>1. DOMAIN Routes = 1 .. 12
    BY DEF Routes
  <2> QED BY <2>1
<1>2. ASSUME NEW S, S \subseteq DOMAIN Routes, S # {} PROVE First(S) \in S
  BY <1>1, <1>2, LeastExists
<1>3. (r = Routes[First(exact)] /\ exact # {}) \/ (r = Routes[First(fits)] /\ fits # {})
  BY DEF Matching
<1> HIDE DEF First
<1>4. CASE r = Routes[First(exact)] /\ exact # {}
  <2>1. First(exact) \in exact
    BY <1>2, <1>4
  <2> QED BY <1>4, <2>1
<1>5. CASE r = Routes[First(fits)] /\ fits # {}
  <2>1. First(fits) \in fits
    BY <1>2, <1>5
  <2> QED BY <1>5, <2>1
<1> QED BY <1>3, <1>4, <1>5

\* The arguments of a route without a parameter are those of the body and the query.
LEMMA ArgsAre ==
    ASSUME NEW r, ~HasParam(r), NEW req, ReadsBody(req)
    PROVE  /\ DOMAIN Args(r, req) = DOMAIN Wanted(req)
           /\ \A a \in DOMAIN Wanted(req) : Args(r, req)[a] = Wanted(req)[a]
<1>1. PathParams(r, req.path) = <<>> /\ DOMAIN <<>> = {}
  BY DEF PathParams
<1>2. Args(r, req) = Over(Wanted(req), <<>>)
  BY <1>1 DEF Args, Wanted
<1> QED BY <1>1, <1>2 DEF Over

(***************************************************************************)
(* What each service does to the project                                   *)
(***************************************************************************)
\* An assignment keeps a node's parts, and sets just the parameters that can be set.
LEMMA AssignKeeps ==
    ASSUME NEW node, IsNode(node), NEW props
    PROVE  /\ IsNode(Assign(node, props))
           /\ Assign(node, props).parent = node.parent
           /\ Assign(node, props).w = node.w /\ Assign(node, props).h = node.h
           /\ \A p \in Pars : Assign(node, props).val[p] = IF p \in Updated(props) THEN props[p] ELSE node.val[p]
<1> DEFINE set == {p \in DOMAIN props : Settable(p, props[p])}
           v == [p \in Pars |-> IF p \in set THEN props[p] ELSE node.val[p]]
           x == IF "nodeX" \in set THEN props["nodeX"] ELSE node.x
           y == IF "nodeY" \in set THEN props["nodeY"] ELSE node.y
<1>1. Assign(node, props) = [node EXCEPT !.val = v, !.x = x, !.y = y]
  BY DEF Assign
<1>2. set = Updated(props)
  BY DEF Updated
<1>3. \A p \in Pars : v[p] = IF p \in Updated(props) THEN props[p] ELSE node.val[p]
  BY <1>2
<1> HIDE DEF v, x, y
<1>4. Assign(node, props) = [parent |-> node.parent, type |-> node.type, x |-> x, y |-> y,
                             w |-> node.w, h |-> node.h, val |-> v]
  BY <1>1 DEF IsNode
<1>5. Assign(node, props).val = v
  BY <1>4
<1> QED BY <1>3, <1>4, <1>5 DEF IsNode

\* A cell that is chosen is free, and none is when none is chosen.
LEMMA FreeCellIs ==
    ASSUME NEW w, NEW h, NEW boxes
    PROVE  /\ \A c \in FreeCell(w, h, boxes) :
                c.w = w /\ c.h = h /\ \A b \in boxes : ~Overlap(c, b, Gap)
           /\ FreeCell(w, h, boxes) = {} =>
                \A k \in 0 .. MaxCells - 1 : \E b \in boxes : Overlap(Cell(k, w, h), b, Gap)
<1> DEFINE Free == {k \in 0 .. MaxCells - 1 : IsFree(k, w, h, boxes)}
           First(k) == IsFree(k, w, h, boxes) /\ \A j \in 0 .. k - 1 : ~IsFree(j, w, h, boxes)
           first == CHOOSE k \in 0 .. MaxCells - 1 : First(k)
<1>1. ASSUME Free # {} PROVE first \in 0 .. MaxCells - 1 /\ First(first)
  <2>1. PICK k \in Free : \A j \in Free : k <= j
    <3>1. Free \subseteq Nat
      BY GridAssumption
    <3> HIDE DEF Free
    <3> QED BY <1>1, <3>1, LeastExists
  <2>2. ASSUME NEW j \in 0 .. k - 1 PROVE ~IsFree(j, w, h, boxes)
    <3>1. j \in 0 .. MaxCells - 1 /\ ~(k <= j)
      BY <2>1, GridAssumption
    <3> QED BY <2>1, <3>1
  <2>3. k \in 0 .. MaxCells - 1 /\ First(k)
    BY <2>1, <2>2
  <2> HIDE DEF First
  <2> QED BY <2>3
<1>2. FreeCell(w, h, boxes) = IF Free # {} THEN {Cell(first, w, h)} ELSE {}
  <2>1. (\E k \in 0 .. MaxCells - 1 : IsFree(k, w, h, boxes)) <=> Free # {}
    OBVIOUS
  <2> QED BY <2>1 DEF FreeCell
<1>3. ASSUME NEW c \in FreeCell(w, h, boxes)
      PROVE  c.w = w /\ c.h = h /\ \A b \in boxes : ~Overlap(c, b, Gap)
  <2>1. Free # {} /\ c = Cell(first, w, h)
    BY <1>2, <1>3
  <2>2. IsFree(first, w, h, boxes)
    BY <1>1, <2>1
  <2>3. \A b \in boxes : ~Overlap(Cell(first, w, h), b, Gap)
    BY <2>2 DEF IsFree
  <2> HIDE DEF first
  <2>4. Cell(first, w, h).w = w /\ Cell(first, w, h).h = h
    BY DEF Cell
  <2> QED BY <2>1, <2>3, <2>4
<1>4. ASSUME FreeCell(w, h, boxes) = {}, NEW k \in 0 .. MaxCells - 1
      PROVE  \E b \in boxes : Overlap(Cell(k, w, h), b, Gap)
  <2>1. Free = {}
    BY <1>2, <1>4
  <2>2. ~IsFree(k, w, h, boxes)
    BY <2>1
  <2> QED BY <2>2 DEF IsFree
<1> QED BY <1>3, <1>4

\* Where a new node is put.
LEMMA AlignedIs ==
    ASSUME NEW node, IsNode(node), NEW props, NEW r \in Aligned(node, props)
    PROVE  /\ IsNode(r) /\ r.parent = node.parent
           /\ \/ Position \cap DOMAIN props # {}
              \/ \A k \in 0 .. MaxCells - 1 : \E m \in Children(r.parent) : Overlap(Cell(k, r.w, r.h), net[m], Gap)
              \/ \A m \in Children(r.parent) : ~Overlap(r, net[m], Gap)
<1> DEFINE boxes == {net[c] : c \in Children(node.parent)}
           cells == FreeCell(node.w, node.h, boxes)
<1>1. CASE Position \cap DOMAIN props # {}
  BY <1>1 DEF Aligned
<1>2. CASE Position \cap DOMAIN props = {} /\ cells = {}
  <2>1. r = node
    BY <1>2 DEF Aligned
  <2>2. \A k \in 0 .. MaxCells - 1 : \E b \in boxes : Overlap(Cell(k, node.w, node.h), b, Gap)
    BY <1>2, FreeCellIs
  <2> QED BY <2>1, <2>2
<1>3. CASE Position \cap DOMAIN props = {} /\ cells # {}
  <2>1. PICK c \in cells : r = [node EXCEPT !.x = c.x, !.y = c.y]
    BY <1>3 DEF Aligned
  <2>2. /\ IsNode(r) /\ r.parent = node.parent /\ r.x = c.x /\ r.y = c.y /\ r.w = node.w /\ r.h = node.h
    BY <2>1 DEF IsNode
  <2>3. c.w = r.w /\ c.h = r.h /\ \A b \in boxes : ~Overlap(c, b, Gap)
    BY <2>1, <2>2, FreeCellIs
  <2>4. \A b : Overlap(r, b, Gap) <=> Overlap(c, b, Gap)
    BY <2>2, <2>3 DEF Overlap
  <2> QED BY <2>2, <2>3, <2>4
<1> QED BY <1>1, <1>2, <1>3

\* A new node is where the caller wanted it, or clear of its siblings, or all is crowded;
\* and nothing else moves.
Placed(t, n, a) ==
    LET sibs == {m \in Nodes \ {n} : t[m] # NoNode /\ t[m].parent = t[n].parent} IN
    /\ \/ "parameters" \in DOMAIN a /\ Position \cap DOMAIN a.parameters # {}
       \/ \A k \in 0 .. MaxCells - 1 : \E m \in sibs : Overlap(Cell(k, t[n].w, t[n].h), t[m], Gap)
       \/ \A m \in sibs : ~Overlap(t[n], t[m], Gap)
    /\ \A m \in Nodes \ {n} : t[m] = net[m]

\* What is set is what is listed.
SetAsListed(o, a) ==
    /\ \A m \in Nodes \ {a.nodePath} : o.net[m] = net[m]
    /\ \A p \in Pars : o.net[a.nodePath].val[p] =
            IF p \in o.answer.data THEN a.properties[p] ELSE net[a.nodePath].val[p]
    /\ o.answer.data \subseteq DOMAIN a.properties

Lawful(o, op, a) ==
    /\ IsNet(o.net)
    /\ ~o.answer.ok => o.net = net \/ op \in {"exec_node_method", "exec_python_script"}
    /\ op = "update_node" /\ o.answer.ok => SetAsListed(o, a)
    /\ \A n \in Nodes : net[n] = NoNode /\ o.net[n] # NoNode => op = "create_node" /\ Placed(o.net, n, a)

\* An answer that leaves the project as it is, a refusal unless it answers an update.
LEMMA ReadsAreLawful ==
    ASSUME IsNet(net), NEW answer, NEW op, NEW a, op = "update_node" => ~answer.ok
    PROVE  Lawful(Only(answer), op, a)
<1>1. Only(answer).net = net /\ Only(answer).answer = answer
  BY DEF Only, Outcome
<1> QED BY <1>1 DEF Lawful

\* What create_node answers.
LEMMA CreateIsLawful ==
    ASSUME IsNet(net), NEW a, NEW o \in CreateNode(a)
    PROVE  Lawful(o, "create_node", a)
<1> DEFINE props == IF "parameters" \in DOMAIN a THEN a.parameters ELSE <<>>
           made == Assign(New(a.parentPath, a.nodeType), props)
<1>1. CASE o = Only(Refused)
  BY <1>1, ReadsAreLawful
<1>2. CASE o # Only(Refused)
  <2>1. PICK n \in Nodes : /\ net[n] = NoNode
                           /\ \E node \in Aligned(made, props) : o = Created(n, node)
    <3>1. o \in {Created(n, node) : n \in {n \in Nodes : net[n] = NoNode}, node \in Aligned(made, props)}
      BY <1>2 DEF CreateNode
    <3> HIDE DEF made, props
    <3> QED BY <3>1
  <2>2. PICK node \in Aligned(made, props) : o = Created(n, node)
    BY <2>1
  <2>3. IsNode(made)
    <3>1. IsNode(New(a.parentPath, a.nodeType))
      BY DEF New, IsNode
    <3> QED BY <3>1, AssignKeeps
  <2> HIDE DEF made
  <2>4. /\ IsNode(node)
        /\ \/ Position \cap DOMAIN props # {}
           \/ \A k \in 0 .. MaxCells - 1 : \E m \in Children(node.parent) : Overlap(Cell(k, node.w, node.h), net[m], Gap)
           \/ \A m \in Children(node.parent) : ~Overlap(node, net[m], Gap)
    BY <2>3, AlignedIs
  <2>5. o.answer.ok /\ o.net = [net EXCEPT ![n] = node]
    BY <2>2 DEF Created, Outcome, Success
  <2>6. o.net[n] = node /\ (\A m \in Nodes \ {n} : o.net[m] = net[m]) /\ o.net = [m \in Nodes |-> o.net[m]]
    BY <2>5 DEF IsNet
  <2>7. IsNet(o.net)
    BY <2>4, <2>6 DEF IsNet
  <2>8. Placed(o.net, n, a)
    <3> DEFINE sibs == {m \in Nodes \ {n} : o.net[m] # NoNode /\ o.net[m].parent = o.net[n].parent}
    <3>1. Children(node.parent) = sibs
      BY <2>1, <2>6 DEF Children
    <3>2. \A m \in sibs : o.net[m] = net[m]
      BY <2>6
    <3>3. "parameters" \notin DOMAIN a => DOMAIN props = {}
      OBVIOUS
    <3>4. Position \cap DOMAIN props # {} => "parameters" \in DOMAIN a /\ Position \cap DOMAIN a.parameters # {}
      BY <3>3
    <3> HIDE DEF sibs, props
    <3>5. \/ "parameters" \in DOMAIN a /\ Position \cap DOMAIN a.parameters # {}
          \/ \A k \in 0 .. MaxCells - 1 : \E m \in sibs : Overlap(Cell(k, o.net[n].w, o.net[n].h), o.net[m], Gap)
          \/ \A m \in sibs : ~Overlap(o.net[n], o.net[m], Gap)
      BY <2>4, <2>6, <3>1, <3>2, <3>4
    <3> QED BY <2>6, <3>5 DEF Placed, sibs
  <2>9. \A m \in Nodes : net[m] = NoNode /\ o.net[m] # NoNode => m = n
    BY <2>6
  <2> QED BY <2>5, <2>7, <2>8, <2>9 DEF Lawful
<1> QED BY <1>1, <1>2

\* Taking a node and what is below it away adds none.
LEMMA WithoutKeeps ==
    ASSUME IsNet(net), NEW n
    PROVE  IsNet(Without(n)) /\ NoneNew(Without(n))
<1> DEFINE gone == Below(n) \cup {n}
<1>1. Without(n) = [m \in Nodes |-> IF m \in gone THEN NoNode ELSE net[m]]
  BY DEF Without
<1> HIDE DEF gone
<1> QED BY <1>1 DEF IsNet, NoneNew

\* What delete_node answers.
LEMMA DeleteIsLawful ==
    ASSUME IsNet(net), NEW a
    PROVE  Lawful(DeleteNode(a), "delete_node", a)
<1> DEFINE o == Outcome(Success({a.nodePath}), Without(a.nodePath))
<1>1. Lawful(Only(Refused), "delete_node", a)
  BY ReadsAreLawful
<1>2. DeleteNode(a) = Only(Refused) \/ DeleteNode(a) = o
  BY DEF DeleteNode
<1>3. o.net = Without(a.nodePath) /\ o.answer.ok
  BY DEF Outcome, Success
<1> HIDE DEF o
<1>4. Lawful(o, "delete_node", a)
  BY <1>3, WithoutKeeps DEF Lawful, NoneNew
<1> QED BY <1>1, <1>2, <1>4

\* What exec_node_method answers, whatever the method did.
LEMMA MethodIsLawful ==
    ASSUME IsNet(net), NEW a, NEW o \in ExecMethod(a)
    PROVE  Lawful(o, "exec_node_method", a)
<1> DEFINE n == a.nodePath
           step(p) == [node |-> n, prop |-> p, value |-> 1]
<1>1. CASE o = Only(Refused)
  BY <1>1, ReadsAreLawful
<1>2. CASE o # Only(Refused)
  <2>1. n # Root /\ Exists(n) /\ o.net \in MethodLeaves(n)
    BY <1>2 DEF ExecMethod, Outcome
  <2>2. net[n] # NoNode
    BY <2>1 DEF Exists
  <2>3. o.net = net \/ o.net = Without(n) \/ \E p \in Pars : o.net = Effect(net, step(p))
    BY <2>1 DEF MethodLeaves
  <2>4. NoneNew(net)
    BY DEF NoneNew
  <2>5. ASSUME NEW p \in Pars PROVE IsNet(Effect(net, step(p))) /\ NoneNew(Effect(net, step(p)))
    <3>1. net[step(p).node] # NoNode
      BY <2>2
    <3> HIDE DEF step
    <3> QED BY <2>4, <3>1, EffectKeeps
  <2> HIDE DEF step, n
  <2>6. IsNet(o.net) /\ NoneNew(o.net)
    BY <2>3, <2>4, <2>5, WithoutKeeps
  <2> QED BY <2>6 DEF Lawful, NoneNew
<1> QED BY <1>1, <1>2

\* What update_node answers.
LEMMA UpdateIsLawful ==
    ASSUME IsNet(net), NEW a
    PROVE  Lawful(UpdateNode(a), "update_node", a)
<1> DEFINE n == a.nodePath
           t == [net EXCEPT ![n] = Assign(net[n], a.properties)]
           o == Outcome(Success(Updated(a.properties)), t)
<1>1. CASE UpdateNode(a) = Only(Refused)
  <2>1. ~Refused.ok
    BY DEF Refused, Failure
  <2> QED BY <1>1, <2>1, ReadsAreLawful
<1>2. CASE UpdateNode(a) # Only(Refused)
  <2>1. UpdateNode(a) = o /\ n # Root /\ Exists(n)
    BY <1>2 DEF UpdateNode
  <2>2. n \in Nodes /\ IsNode(net[n])
    BY <2>1 DEF Exists, IsNet
  <2>3. /\ IsNode(Assign(net[n], a.properties))
        /\ \A p \in Pars : Assign(net[n], a.properties).val[p] =
                IF p \in Updated(a.properties) THEN a.properties[p] ELSE net[n].val[p]
    BY <2>2, AssignKeeps
  <2>4. o.net = t /\ o.answer.ok /\ o.answer.data = Updated(a.properties)
    BY DEF Outcome, Success
  <2>5. t[n] = Assign(net[n], a.properties) /\ (\A m \in Nodes \ {n} : t[m] = net[m]) /\ t = [m \in Nodes |-> t[m]]
    BY <2>2 DEF IsNet
  <2> HIDE DEF o, t
  <2>6. IsNet(o.net)
    BY <2>3, <2>4, <2>5 DEF IsNet
  <2>7. SetAsListed(o, a)
    <3>1. Updated(a.properties) \subseteq DOMAIN a.properties
      BY DEF Updated
    <3> QED BY <2>3, <2>4, <2>5, <3>1 DEF SetAsListed
  <2>8. \A m \in Nodes : ~(net[m] = NoNode /\ o.net[m] # NoNode)
    <3>1. net[n] # NoNode
      BY <2>1 DEF Exists
    <3> QED BY <2>4, <2>5, <3>1
  <2>9. Lawful(o, "update_node", a)
    BY <2>4, <2>6, <2>7, <2>8 DEF Lawful
  <2> QED BY <2>1, <2>9
<1> QED BY <1>1, <1>2

\* What exec_python_script answers.
LEMMA ScriptIsLawful ==
    ASSUME IsNet(net), NEW a, Len(a.script) \in Nat
    PROVE  Lawful(ExecScript(a), "exec_python_script", a)
<1> DEFINE s == a.script
           done == Executed(s)
           tail == s[Len(s)]
           o == ExecScript(a)
<1>1. IsNet(done.net) /\ NoneNew(done.net)
  BY ExecutedKeeps
<1>2. done.net[tail.node] # NoNode => IsNet(Effect(done.net, tail)) /\ NoneNew(Effect(done.net, tail))
  BY <1>1, EffectKeeps
<1>3. o.net = done.net \/ (o.net = Effect(done.net, tail) /\ done.net[tail.node] # NoNode)
  BY DEF ExecScript, Outcome
<1> HIDE DEF o, done, tail
<1>4. IsNet(o.net) /\ NoneNew(o.net)
  BY <1>1, <1>2, <1>3
<1> QED BY <1>4 DEF Lawful, NoneNew, o


(***************************************************************************)
(* From a request to its answer                                            *)
(***************************************************************************)
Ops == {"get_nodes", "create_node", "delete_node", "get_node_detail", "update_node", "get_node_errors",
        "get_td_python_classes", "get_td_python_class_details", "get_module_help", "exec_node_method",
        "exec_python_script", "get_td_info"}

\* What any service answers.
LEMMA ServiceIsLawful ==
    ASSUME IsNet(net), NEW op \in Ops, NEW a, NEW o \in Service(op, a),
           op = "exec_python_script" => Len(a.script) \in Nat
    PROVE  Lawful(o, op, a)
<1>1. CASE op = "create_node"
  <2>1. o \in CreateNode(a)
    BY <1>1 DEF Service
  <2> QED BY <1>1, <2>1, CreateIsLawful
<1>2. CASE op = "delete_node"
  <2>1. o = DeleteNode(a)
    BY <1>2 DEF Service
  <2> QED BY <1>2, <2>1, DeleteIsLawful
<1>3. CASE op = "exec_node_method"
  <2>1. o \in ExecMethod(a)
    BY <1>3 DEF Service
  <2> QED BY <1>3, <2>1, MethodIsLawful
<1>4. CASE op = "update_node"
  <2>1. o = UpdateNode(a)
    BY <1>4 DEF Service
  <2> QED BY <1>4, <2>1, UpdateIsLawful
<1>5. CASE op = "exec_python_script"
  <2>1. o = ExecScript(a)
    BY <1>5 DEF Service
  <2> QED BY <1>5, <2>1, ScriptIsLawful
<1>6. CASE op \in Ops \ {"create_node", "delete_node", "exec_node_method", "update_node", "exec_python_script"}
  <2>1. \/ o = GetNodes(a) \/ o = NodeDetail(a) \/ o = NodeErrors(a)
        \/ o = ClassDetails(a) \/ o = ModuleHelp(a)
        \/ o = Only(Success(ClassNames)) \/ o = Only(Success({}))
    BY <1>6 DEF Service, Ops
  <2>2. \E answer : o = Only(answer)
    <3>1. (\E answer : GetNodes(a) = Only(answer)) /\ (\E answer : NodeErrors(a) = Only(answer))
      BY DEF GetNodes, NodeErrors
    <3>2. (\E answer : NodeDetail(a) = Only(answer)) /\ (\E answer : ClassDetails(a) = Only(answer))
      BY DEF NodeDetail, ClassDetails
    <3>3. \E answer : ModuleHelp(a) = Only(answer)
      BY DEF ModuleHelp
    <3> QED BY <2>1, <3>1, <3>2, <3>3
  <2>3. op # "update_node"
    BY <1>6
  <2> QED BY <2>2, <2>3, ReadsAreLawful
<1> QED BY <1>1, <1>2, <1>3, <1>4, <1>5, <1>6

\* Each route leads to one of the services.
LEMMA RoutesLead ==
    ASSUME NEW i \in DOMAIN Routes
    PROVE  Routes[i].op \in Ops
<1>1. DOMAIN Routes = 1 .. 12
  BY DEF Routes
<1> QED BY <1>1 DEF Routes, Route, Ops

\* An answer is a refusal that changes nothing, the answer to OPTIONS, or what the
\* service of a route of the request's method answers.
LEMMA ServedIs ==
    ASSUME NEW req, NEW o \in Serve(req)
    PROVE  \/ o = Only(o.answer) /\ (req.method = "OPTIONS" \/ ~o.answer.ok)
           \/ \E i \in DOMAIN Routes :
                /\ Routes[i].method = req.method
                /\ Required(Routes[i].op) \subseteq DOMAIN Args(Routes[i], req)
                /\ o \in Service(Routes[i].op, Args(Routes[i], req))
<1> DEFINE found == Matching(req.method, req.path)
<1>0. \A answer : Only(answer) = Only(Only(answer).answer) /\ Only(answer).answer = answer
  BY DEF Only, Outcome
<1>1. CASE req.method = "OPTIONS"
  <2>1. o = Only(Success({}))
    BY <1>1 DEF Serve
  <2> QED BY <1>0, <1>1, <2>1
<1>2. CASE req.method # "OPTIONS" /\ found = {}
  <2>1. o = Only(Failure("NOT_FOUND"))
    BY <1>2 DEF Serve
  <2>2. ~Failure("NOT_FOUND").ok
    BY DEF Failure
  <2> QED BY <1>0, <2>1, <2>2
<1>3. CASE req.method # "OPTIONS" /\ found # {}
  <2>1. PICK r \in found : o \in Handler(r, req)
    <3>1. o \in UNION {Handler(r, req) : r \in found}
      BY <1>3 DEF Serve
    <3> HIDE DEF found
    <3> QED BY <3>1
  <2>2. PICK i \in DOMAIN Routes : r = Routes[i] /\ r.method = req.method
    BY <2>1, MatchingIs
  <2>3. o = Only(Refused) \/ (Required(r.op) \subseteq DOMAIN Args(r, req) /\ o \in Service(r.op, Args(r, req)))
    BY <2>1 DEF Handler
  <2>4. ~Refused.ok
    BY DEF Refused, Failure
  <2> QED BY <1>0, <2>2, <2>3, <2>4
<1> QED BY <1>1, <1>2, <1>3

\* One step of the service: what the properties say of it.
LEMMA RequestIsLawful ==
    ASSUME IsNet(net), NEW req \in Requests, NEW o \in Serve(req)
    PROVE  /\ IsNet(o.net)
           /\ ~o.answer.ok => o.net = net \/ {"script", "method"} \cap DOMAIN Wanted(req) # {}
           /\ o.answer.ok /\ req.method = "PATCH" => SetAsListed(o, Wanted(req))
           /\ \A n \in Nodes : net[n] = NoNode /\ o.net[n] # NoNode => Placed(o.net, n, Wanted(req))
<1>1. CASE o = Only(o.answer) /\ (req.method = "OPTIONS" \/ ~o.answer.ok)
  <2>1. o.net = net
    BY <1>1 DEF Only, Outcome
  <2> QED BY <1>1, <2>1
<1>2. ASSUME NEW i \in DOMAIN Routes,
             Routes[i].method = req.method,
             Required(Routes[i].op) \subseteq DOMAIN Args(Routes[i], req),
             o \in Service(Routes[i].op, Args(Routes[i], req))
      PROVE  /\ IsNet(o.net)
             /\ ~o.answer.ok => o.net = net \/ {"script", "method"} \cap DOMAIN Wanted(req) # {}
             /\ o.answer.ok /\ req.method = "PATCH" => SetAsListed(o, Wanted(req))
             /\ \A n \in Nodes : net[n] = NoNode /\ o.net[n] # NoNode => Placed(o.net, n, Wanted(req))
  <2> DEFINE op == Routes[i].op
             a == Args(Routes[i], req)
             w == Wanted(req)
  <2>1. op \in {"create_node", "exec_node_method", "exec_python_script", "update_node"} =>
            DOMAIN a = DOMAIN w /\ \A x \in DOMAIN w : a[x] = w[x]
    <3> SUFFICES ASSUME op \in {"create_node", "exec_node_method", "exec_python_script", "update_node"}
                 PROVE  DOMAIN a = DOMAIN w /\ \A x \in DOMAIN w : a[x] = w[x]
      OBVIOUS
    <3>1. ~HasParam(Routes[i]) /\ ReadsBody(req)
      BY <1>2, RoutesAre DEF ReadsBody
    <3> QED BY <3>1, ArgsAre
  <2>2. (op = "exec_python_script" => "script" \in DOMAIN w) /\ (op = "exec_node_method" => "method" \in DOMAIN w)
    BY <1>2, <2>1 DEF Required
  <2>3. op = "exec_python_script" => Len(a.script) \in Nat
    BY <2>1, <2>2, ScriptsAssumption
  <2>4. op = "update_node" => "nodePath" \in DOMAIN w /\ "properties" \in DOMAIN w
    BY <1>2, <2>1 DEF Required
  <2>5. op \in Ops
    BY RoutesLead
  <2>6. req.method = "PATCH" => op = "update_node"
    BY <1>2, RoutesAre
  <2>7. o \in Service(op, a)
    BY <1>2
  <2> HIDE DEF op, a, w
  <2>8. Lawful(o, op, a)
    BY <2>3, <2>5, <2>7, ServiceIsLawful
  <2>9. o.answer.ok /\ req.method = "PATCH" => SetAsListed(o, w)
    <3> SUFFICES ASSUME o.answer.ok, req.method = "PATCH" PROVE SetAsListed(o, w)
      OBVIOUS
    <3>1. SetAsListed(o, a)
      BY <2>6, <2>8 DEF Lawful
    <3>2. a.nodePath = w.nodePath /\ a.properties = w.properties
      BY <2>1, <2>4, <2>6
    <3> QED BY <3>1, <3>2 DEF SetAsListed
  <2>10. ASSUME NEW n \in Nodes, net[n] = NoNode, o.net[n] # NoNode PROVE Placed(o.net, n, w)
    <3>1. op = "create_node" /\ Placed(o.net, n, a)
      BY <2>8, <2>10 DEF Lawful
    <3>2. DOMAIN a = DOMAIN w /\ ("parameters" \in DOMAIN w => a.parameters = w.parameters)
      BY <2>1, <3>1
    <3> QED BY <3>1, <3>2 DEF Placed
  <2> QED BY <2>2, <2>8, <2>9, <2>10 DEF Lawful, w
<1> QED BY <1>1, <1>2, ServedIs

\* From its start on every node of the project has its parts.
LEMMA NetIsKept == ApiSpec => []IsNet(net)
<1>1. ApiInit => IsNet(net)
  BY DEF ApiInit, IsNet
<1>2. IsNet(net) /\ [ApiNext]_apiVars => IsNet(net)'
  <2> SUFFICES ASSUME IsNet(net), [ApiNext]_apiVars PROVE IsNet(net')
    BY DEF IsNet
  <2>1. CASE ApiNext
    <3>1. PICK req \in Requests : Request(req)
      BY <2>1 DEF ApiNext
    <3>2. PICK o \in Serve(req) : net' = o.net
      BY <3>1 DEF Request
    <3> QED BY <3>2, RequestIsLawful
  <2>2. CASE UNCHANGED apiVars
    BY <2>2 DEF apiVars
  <2> QED BY <2>1, <2>2
<1> QED BY <1>1, <1>2, PTL DEF ApiSpec

\* A created node without a position is clear of its siblings, whatever the project
\* looks like and however often nodes were moved, or every cell is too close to one.
THEOREM NewNodesAreClear == ApiSpec => PlacedClear
<1> DEFINE Clear == \A n \in Nodes : net[n] = NoNode /\ net'[n] # NoNode =>
        LET sibs == {m \in Nodes \ {n} : net'[m] # NoNode /\ net'[m].parent = net'[n].parent}
            asked == Wanted(last'.req)
            given == "parameters" \in DOMAIN asked /\ Position \cap DOMAIN asked.parameters # {}
            crowded == \A k \in 0 .. MaxCells - 1 :
                \E m \in sibs : Overlap(Cell(k, net'[n].w, net'[n].h), net'[m], Gap)
        IN  /\ given \/ crowded \/ \A m \in sibs : ~Overlap(net'[n], net'[m], Gap)
            /\ \A m \in Nodes \ {n} : net'[m] = net[m]
<1>1. ASSUME IsNet(net), ApiNext PROVE Clear
  <2>1. PICK req \in Requests : Request(req)
    BY <1>1 DEF ApiNext
  <2>2. PICK o \in Serve(req) : net' = o.net /\ last' = [req |-> req, answer |-> o.answer]
    BY <2>1 DEF Request
  <2> SUFFICES ASSUME NEW n \in Nodes, net[n] = NoNode, net'[n] # NoNode
               PROVE  LET sibs == {m \in Nodes \ {n} : net'[m] # NoNode /\ net'[m].parent = net'[n].parent}
                          asked == Wanted(last'.req)
                          given == "parameters" \in DOMAIN asked /\ Position \cap DOMAIN asked.parameters # {}
                          crowded == \A k \in 0 .. MaxCells - 1 :
                              \E m \in sibs : Overlap(Cell(k, net'[n].w, net'[n].h), net'[m], Gap)
                      IN  /\ given \/ crowded \/ \A m \in sibs : ~Overlap(net'[n], net'[m], Gap)
                          /\ \A m \in Nodes \ {n} : net'[m] = net[m]
    OBVIOUS
  <2>3. last'.req = req
    BY <2>2
  <2>4. Placed(net', n, Wanted(last'.req))
    BY <1>1, <2>2, <2>3, RequestIsLawful
  <2> QED BY <2>4 DEF Placed
<1>2. IsNet(net) /\ [ApiNext]_apiVars => [Clear]_apiVars
  BY <1>1
<1> QED BY <1>2, NetIsKept, PTL DEF ApiSpec, PlacedClear

\* After a refusal the project is as it was, unless a script or a node's method failed
\* half-way, and an update has set exactly what it lists.
THEOREM AnswersAreTrue == ApiSpec => AnswerIsTrue
<1> DEFINE Told ==
        LET asked == Wanted(last'.req)  answer == last'.answer IN
        /\ ~answer.ok => net' = net \/ {"script", "method"} \cap DOMAIN asked # {}
        /\ answer.ok /\ last'.req.method = "PATCH" =>
            LET n == asked.nodePath  props == asked.properties IN
            /\ \A m \in Nodes \ {n} : net'[m] = net[m]
            /\ \A p \in Pars : net'[n].val[p] = IF p \in answer.data THEN props[p] ELSE net[n].val[p]
            /\ answer.data \subseteq DOMAIN props
<1>1. ASSUME IsNet(net), ApiNext PROVE Told
  <2>1. PICK req \in Requests : Request(req)
    BY <1>1 DEF ApiNext
  <2>2. PICK o \in Serve(req) : net' = o.net /\ last' = [req |-> req, answer |-> o.answer]
    BY <2>1 DEF Request
  <2>3. last'.req = req /\ last'.answer = o.answer
    BY <2>2
  <2>4. /\ ~o.answer.ok => o.net = net \/ {"script", "method"} \cap DOMAIN Wanted(req) # {}
        /\ o.answer.ok /\ req.method = "PATCH" => SetAsListed(o, Wanted(req))
    BY <1>1, RequestIsLawful
  <2> QED BY <2>2, <2>3, <2>4 DEF SetAsListed
<1>2. IsNet(net) /\ [ApiNext]_apiVars => [Told]_apiVars
  BY <1>1
<1> HIDE DEF Told
<1>3. ApiSpec => [][Told]_apiVars
  BY <1>2, NetIsKept, PTL DEF ApiSpec
<1> QED BY <1>3 DEF AnswerIsTrue, Told

===============================================================================
