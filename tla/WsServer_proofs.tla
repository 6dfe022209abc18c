--------------------------- MODULE WsServer_proofs ---------------------------
(***************************************************************************)
(* Proofs about WsServer, for any clients, kinds, queries, capacity and    *)
(* numbers of messages and requests.                                       *)
(***************************************************************************)
EXTENDS WsServer, TLAPS, SequenceTheorems

Views == [on : BOOLEAN, next : Nat, sure : BOOLEAN, last : Nat, heard : Nat]

(* What a kind of frames says. *)
Telling == [type : {"ack", "unack", "data", "lag"}, kind : Kinds, n : Nat]

(* A task waits at the socket with a frame. *)
OneFrame(c) == outbox[c] = NoFrame <=> conn[c] # "send"

-----------------------------------------------------------------------------
(* The model's operators, on values of their types. *)

LEMMA FrameIs ==
  /\ \A f \in Telling : /\ f \in Frame /\ f # NoFrame /\ f.type # "answer" /\ f.type # "none"
                        /\ f.type \in {"ack", "unack", "data", "lag"} /\ f.kind \in Kinds /\ f.n \in Nat
  /\ [type |-> "answer"] \in Frame /\ [type |-> "answer"] # NoFrame
  /\ \A f \in Frame : f \in Telling \/ f = [type |-> "answer"]
  /\ NoFrame.type = "none" /\ [type |-> "answer"].type = "answer"
<1>1. \A f \in Telling : /\ f.type \in {"ack", "unack", "data", "lag"} /\ f.kind \in Kinds
                         /\ f.n \in Nat
  BY DEF Telling
<1>2. NoFrame.type = "none" /\ [type |-> "answer"].type = "answer"
  BY DEF NoFrame
<1>3. \A f \in Telling : f.type # "answer" /\ f.type # "none"
  BY <1>1
<1>4. \A f \in Telling : f # NoFrame
  BY <1>2, <1>3
<1>5. [type |-> "answer"] # NoFrame
  BY <1>2
<1>6. [type |-> "answer"] \in [type : {"answer"}]
  OBVIOUS
<1>7. \A f \in [type : {"answer"}] : f = [type |-> "answer"]
  OBVIOUS
<1>8. Frame = Telling \union [type : {"answer"}]
  BY DEF Frame, Telling
<1>9. QED
  BY <1>1, <1>2, <1>3, <1>4, <1>5, <1>6, <1>7, <1>8

(* The four kinds of frames, as the client reads them. *)
LEMMA ViewIs ==
  ASSUME NEW v \in Views
  PROVE  /\ v.on \in BOOLEAN /\ v.sure \in BOOLEAN
         /\ v.next \in Nat /\ v.last \in Nat /\ v.heard \in Nat
         /\ v = [on |-> v.on, next |-> v.next, sure |-> v.sure, last |-> v.last,
                 heard |-> v.heard]
BY DEF Views

LEMMA ToldAck ==
  ASSUME NEW v \in Views, NEW f \in Telling, f.type = "ack"
  PROVE  /\ Told(v, f) \in Views
         /\ Told(v, f).on = TRUE /\ Told(v, f).next = f.n + 1 /\ Told(v, f).sure = FALSE
         /\ Told(v, f).last = v.last /\ Told(v, f).heard = v.heard
<1>1. f.n \in Nat
  BY DEF Telling
<1>2. Told(v, f) = [v EXCEPT !.on = TRUE, !.next = f.n + 1, !.sure = FALSE]
  BY DEF Told
<1>3. Told(v, f) = [on |-> TRUE, next |-> f.n + 1, sure |-> FALSE, last |-> v.last,
                    heard |-> v.heard]
  BY <1>2, ViewIs
<1>4. QED
  BY <1>1, <1>3, ViewIs DEF Views

LEMMA ToldData ==
  ASSUME NEW v \in Views, NEW f \in Telling, f.type = "data"
  PROVE  /\ Told(v, f) \in Views
         /\ Told(v, f).on = v.on /\ Told(v, f).next = f.n + 1 /\ Told(v, f).sure = TRUE
         /\ Told(v, f).last = f.n /\ Told(v, f).heard = v.heard + 1
<1>1. f.n \in Nat
  BY DEF Telling
<1>2. Told(v, f) = [v EXCEPT !.next = f.n + 1, !.sure = TRUE, !.last = f.n, !.heard = @ + 1]
  BY DEF Told
<1>3. Told(v, f) = [on |-> v.on, next |-> f.n + 1, sure |-> TRUE, last |-> f.n,
                    heard |-> v.heard + 1]
  BY <1>2, ViewIs
<1>4. QED
  BY <1>1, <1>3, ViewIs DEF Views

LEMMA ToldLag ==
  ASSUME NEW v \in Views, NEW f \in Telling, f.type = "lag"
  PROVE  /\ Told(v, f) \in Views
         /\ Told(v, f).on = v.on /\ Told(v, f).next = v.next + f.n /\ Told(v, f).sure = v.sure
         /\ Told(v, f).last = v.last /\ Told(v, f).heard = v.heard
<1>1. f.n \in Nat
  BY DEF Telling
<1>2. Told(v, f) = [v EXCEPT !.next = @ + f.n]
  BY DEF Told
<1>3. Told(v, f) = [on |-> v.on, next |-> v.next + f.n, sure |-> v.sure, last |-> v.last,
                    heard |-> v.heard]
  BY <1>2, ViewIs
<1>4. QED
  BY <1>1, <1>3, ViewIs DEF Views

LEMMA ToldUnack ==
  ASSUME NEW v \in Views, NEW f \in Telling, f.type = "unack"
  PROVE  /\ Told(v, f) \in Views
         /\ Told(v, f).on = FALSE /\ Told(v, f).next = v.next /\ Told(v, f).sure = v.sure
         /\ Told(v, f).last = v.last /\ Told(v, f).heard = v.heard
<1>1. f.n \in Nat
  BY DEF Telling
<1>2. Told(v, f) = [v EXCEPT !.on = FALSE]
  BY DEF Told
<1>3. Told(v, f) = [on |-> FALSE, next |-> v.next, sure |-> v.sure, last |-> v.last,
                    heard |-> v.heard]
  BY <1>2, ViewIs
<1>4. QED
  BY <1>1, <1>3, ViewIs DEF Views

LEMMA ToldType ==
  ASSUME NEW v \in Views, NEW f \in Telling
  PROVE  Told(v, f) \in Views
<1>1. f.type \in {"ack", "unack", "data", "lag"}
  BY DEF Telling
<1>2. QED
  BY <1>1, ToldAck, ToldData, ToldLag, ToldUnack

LEMMA OldestType ==
  ASSUME WsAssumption, TypeOK, NEW k \in Kinds
  PROVE  /\ Oldest(k) \in 1 .. Len(log[k]) + 1
         /\ Len(log[k]) > 0 => Oldest(k) <= Len(log[k])
<1>1. Len(log[k]) \in Nat
  BY DEF TypeOK
<1>2. Capacity \in Nat /\ Capacity >= 1
  BY DEF WsAssumption
<1>3. QED
  BY <1>1, <1>2 DEF Oldest

(* A query names places, and kinds that exist. *)
LEMMA QueryType ==
  ASSUME WsAssumption, NEW q \in Queries
  PROVE  SubscriptionsFromQuery(q) \subseteq Nat \X Kinds
<1>1. q \in Seq(Kinds \union {"other"})
  BY DEF WsAssumption
<1>2. DOMAIN q \subseteq Nat
  BY <1>1
<1>3. QED
  BY <1>2 DEF SubscriptionsFromQuery

-----------------------------------------------------------------------------
(* Types. *)

LEMMA InitType == WsAssumption /\ Init => TypeOK
<1> SUFFICES ASSUME WsAssumption, Init PROVE TypeOK
  OBVIOUS
<1> USE DEF Init, Off, None
<1>1. offered \in [Kinds -> Nat] /\ \A k \in Kinds : offered[k] <= MaxItems[k]
  BY DEF WsAssumption
<1>2. log \in [Kinds -> Seq(Nat)] /\ pub \in [Kinds -> {"idle", "send"}]
  OBVIOUS
<1>3. rx \in [Clients -> [Kinds -> Nat]]
      /\ \A c \in Clients, k \in Kinds : rx[c][k] <= Len(log[k]) + 1
  OBVIOUS
<1>4. asked \in [Clients -> Nat] /\ \A c \in Clients : asked[c] <= MaxRequests[c]
  BY DEF WsAssumption
<1>5. view \in [Clients -> [Kinds -> Views]]
  BY DEF Views
<1>6. hello \in [Clients -> SUBSET (Nat \X Kinds)] /\ requests \in [Clients -> Seq(Request)]
  OBVIOUS
<1>7. QED
  BY <1>1, <1>2, <1>3, <1>4, <1>5, <1>6 DEF TypeOK, Views

(* Publishing. *)
LEMMA PublishCheckType ==
  ASSUME WsAssumption, TypeOK, NEW k \in Kinds, PublishCheck(k)
  PROVE  TypeOK'
<1>1. MaxItems[k] \in Nat
  BY DEF WsAssumption
<1>2. offered' \in [Kinds -> Nat] /\ \A j \in Kinds : offered'[j] <= MaxItems[j]
  BY <1>1 DEF PublishCheck, TypeOK
<1>3. pub' \in [Kinds -> {"idle", "send"}]
  BY DEF PublishCheck, TypeOK
<1>4. QED
  BY <1>2, <1>3 DEF PublishCheck, TypeOK, connection

LEMMA PublishSendType ==
  ASSUME WsAssumption, TypeOK, NEW k \in Kinds, PublishSend(k)
  PROVE  TypeOK'
<1>1. pub' \in [Kinds -> {"idle", "send"}]
  BY DEF PublishSend, TypeOK
<1>2. log[k] \in Seq(Nat) /\ offered[k] \in Nat
  BY DEF TypeOK
<1>3. Append(log[k], offered[k]) \in Seq(Nat)
      /\ Len(Append(log[k], offered[k])) = Len(log[k]) + 1
  BY <1>2
<1>4. log' \in [Kinds -> Seq(Nat)]
  BY <1>2, <1>3 DEF PublishSend, TypeOK
<1>5. \A j \in Kinds : Len(log'[j]) >= Len(log[j])
  BY <1>2, <1>3 DEF PublishSend, TypeOK
<1>6. \A c \in Clients, j \in Kinds : rx[c][j] <= Len(log'[j]) + 1
  <2> SUFFICES ASSUME NEW c \in Clients, NEW j \in Kinds PROVE rx[c][j] <= Len(log'[j]) + 1
    OBVIOUS
  <2>1. Len(log'[j]) \in Nat
    BY <1>4
  <2>2. Len(log[j]) \in Nat /\ rx[c][j] \in Nat /\ rx[c][j] <= Len(log[j]) + 1
    BY DEF TypeOK
  <2>3. QED
    BY <1>5, <2>1, <2>2
<1>7. QED
  BY <1>1, <1>4, <1>6 DEF PublishSend, TypeOK, connection

(* Connections. *)
LEMMA AcceptType ==
  ASSUME WsAssumption, TypeOK, NEW c \in Clients, Accept(c)
  PROVE  TypeOK'
<1>1. PICK q \in Queries : hello' = [hello EXCEPT ![c] = SubscriptionsFromQuery(q)]
  BY DEF Accept
<1>2. hello' \in [Clients -> SUBSET (Nat \X Kinds)]
  BY <1>1, QueryType DEF TypeOK
<1>3. conn' \in [Clients -> {"none", "hello", "select", "send", "closed"}]
  BY DEF Accept, TypeOK
<1>4. QED
  BY <1>2, <1>3 DEF Accept, TypeOK, publisher

(* A frame is sent and the receiver of one kind moves. *)
LEMMA SendType ==
  ASSUME TypeOK, NEW c \in Clients, NEW f \in Frame, Send(c, f)
  PROVE  /\ outbox' \in [Clients -> Frame \union {NoFrame}]
         /\ conn' \in [Clients -> {"none", "hello", "select", "send", "closed"}]
BY DEF Send, TypeOK

LEMMA MoveType ==
  ASSUME TypeOK, NEW c \in Clients, NEW k \in Kinds, NEW n \in Nat, n <= Len(log[k]) + 1,
         rx' = [rx EXCEPT ![c][k] = n]
  PROVE  /\ rx' \in [Clients -> [Kinds -> Nat]]
         /\ \A d \in Clients, j \in Kinds : rx'[d][j] <= Len(log[j]) + 1
         /\ \A d \in Clients, j \in Kinds : rx'[d][j] = IF d = c /\ j = k THEN n ELSE rx[d][j]
<1>1. rx \in [Clients -> [Kinds -> Nat]]
  BY DEF TypeOK
<1>2. rx' \in [Clients -> [Kinds -> Nat]]
  BY <1>1
<1>3. \A d \in Clients, j \in Kinds : rx'[d][j] = IF d = c /\ j = k THEN n ELSE rx[d][j]
  BY <1>1
<1>4. \A d \in Clients, j \in Kinds : rx'[d][j] <= Len(log[j]) + 1
  <2> SUFFICES ASSUME NEW d \in Clients, NEW j \in Kinds PROVE rx'[d][j] <= Len(log[j]) + 1
    OBVIOUS
  <2>1. rx[d][j] <= Len(log[j]) + 1
    BY DEF TypeOK
  <2>2. (rx'[d][j] = n /\ j = k) \/ rx'[d][j] = rx[d][j]
    BY <1>3
  <2>3. QED
    BY <2>1, <2>2
<1>5. QED
  BY <1>2, <1>3, <1>4

LEMMA SubscribeType ==
  ASSUME TypeOK, NEW c \in Clients, NEW k \in Kinds, Subscribe(c, k)
  PROVE  /\ rx' \in [Clients -> [Kinds -> Nat]]
         /\ \A d \in Clients, j \in Kinds : rx'[d][j] <= Len(log[j]) + 1
         /\ outbox' \in [Clients -> Frame \union {NoFrame}]
         /\ conn' \in [Clients -> {"none", "hello", "select", "send", "closed"}]
<1>1. Len(log[k]) + 1 \in Nat
  BY DEF TypeOK
<1>2. [type |-> "ack", kind |-> k, n |-> offered[k]] \in Telling
  BY DEF TypeOK, Telling
<1>3. [type |-> "ack", kind |-> k, n |-> offered[k]] \in Frame
  BY <1>2, FrameIs
<1>4. rx' = [rx EXCEPT ![c][k] = Len(log[k]) + 1]
      /\ Send(c, [type |-> "ack", kind |-> k, n |-> offered[k]])
  BY DEF Subscribe
<1> DEFINE f == [type |-> "ack", kind |-> k, n |-> offered[k]]
           n == Len(log[k]) + 1
<1> HIDE DEF f, n
<1>5. n \in Nat /\ n <= Len(log[k]) + 1 /\ f \in Frame
  BY <1>1, <1>3 DEF n, f
<1>6. rx' = [rx EXCEPT ![c][k] = n] /\ Send(c, f)
  BY <1>4 DEF n, f
<1>7. QED
  BY <1>5, <1>6, MoveType, SendType

LEMMA UnsubscribeType ==
  ASSUME TypeOK, NEW c \in Clients, NEW k \in Kinds, Unsubscribe(c, k)
  PROVE  /\ rx' \in [Clients -> [Kinds -> Nat]]
         /\ \A d \in Clients, j \in Kinds : rx'[d][j] <= Len(log[j]) + 1
         /\ outbox' \in [Clients -> Frame \union {NoFrame}]
         /\ conn' \in [Clients -> {"none", "hello", "select", "send", "closed"}]
<1>1. 0 <= Len(log[k]) + 1
  BY DEF TypeOK
<1>2. [type |-> "unack", kind |-> k, n |-> 0] \in Telling
  BY DEF Telling
<1>3. QED
  BY <1>1, <1>2, FrameIs, MoveType, SendType DEF Unsubscribe

LEMMA HelloSubscribeType ==
  ASSUME WsAssumption, TypeOK, NEW c \in Clients, HelloSubscribe(c)
  PROVE  TypeOK'
<1>1. PICK s \in hello[c] : Subscribe(c, s[2]) /\ hello' = [hello EXCEPT ![c] = @ \ {s}]
  BY DEF HelloSubscribe
<1>2. s[2] \in Kinds
  BY DEF TypeOK
<1>3. hello' \in [Clients -> SUBSET (Nat \X Kinds)]
  BY <1>1 DEF TypeOK
<1>4. QED
  BY <1>1, <1>2, <1>3, SubscribeType DEF HelloSubscribe, TypeOK, publisher

(* The request at hand is one a client can make. *)
LEMMA RequestType ==
  ASSUME TypeOK, NEW c \in Clients, requests[c] # << >>
  PROVE  /\ Head(requests[c]) \in Request /\ Tail(requests[c]) \in Seq(Request)
         /\ Head(requests[c]).method \in {"subscribe", "unsubscribe"}
              => Head(requests[c]).kind \in Kinds
<1>1. requests[c] \in Seq(Request)
  BY DEF TypeOK
<1>2. Head(requests[c]) \in Request /\ Tail(requests[c]) \in Seq(Request)
  BY <1>1
<1>3. QED
  BY <1>2 DEF Request

LEMMA HandleRequestType ==
  ASSUME WsAssumption, TypeOK, NEW c \in Clients, HandleRequest(c)
  PROVE  TypeOK'
<1>1. requests' \in [Clients -> Seq(Request)]
  BY RequestType DEF HandleRequest, TypeOK
<1> DEFINE r == Head(requests[c])
<1>2. \/ r.kind \in Kinds /\ Subscribe(c, r.kind)
      \/ r.kind \in Kinds /\ Unsubscribe(c, r.kind)
      \/ Send(c, [type |-> "answer"]) /\ UNCHANGED rx
  BY RequestType DEF HandleRequest
<1> HIDE DEF r
<1>3. UNCHANGED <<offered, pub, log, listening, hello, asked, view>>
  BY DEF HandleRequest, publisher
<1>4. CASE r.kind \in Kinds /\ Subscribe(c, r.kind)
  BY <1>1, <1>3, <1>4, SubscribeType DEF TypeOK
<1>5. CASE r.kind \in Kinds /\ Unsubscribe(c, r.kind)
  BY <1>1, <1>3, <1>5, UnsubscribeType DEF TypeOK
<1>6. CASE Send(c, [type |-> "answer"]) /\ UNCHANGED rx
  BY <1>1, <1>3, <1>6, SendType, FrameIs DEF TypeOK
<1>7. QED
  BY <1>2, <1>4, <1>5, <1>6

LEMMA ReceiveType ==
  ASSUME WsAssumption, TypeOK, NEW c \in Clients, NEW k \in Kinds, Receive(c, k)
  PROVE  TypeOK'
<1>1. rx[c][k] \in 1 .. Len(log[k]) /\ Len(log[k]) \in Nat /\ log[k][rx[c][k]] \in Nat
  <2>1. log[k] \in Seq(Nat)
    BY DEF TypeOK
  <2>2. Len(log[k]) \in Nat /\ \A i \in 1 .. Len(log[k]) : log[k][i] \in Nat
    BY <2>1
  <2>3. rx[c][k] \in Nat
    BY DEF TypeOK
  <2>4. rx[c][k] # 0 /\ rx[c][k] <= Len(log[k])
    BY DEF Receive, Ready
  <2>5. rx[c][k] \in 1 .. Len(log[k])
    BY <2>2, <2>3, <2>4
  <2>6. QED
    BY <2>2, <2>5
<1>2. UNCHANGED <<offered, pub, log, listening, hello, requests, asked, view>>
  BY DEF Receive, publisher
<1>3. CASE /\ Send(c, [type |-> "data", kind |-> k, n |-> log[k][rx[c][k]]])
           /\ rx' = [rx EXCEPT ![c][k] = @ + 1]
  <2>1. [type |-> "data", kind |-> k, n |-> log[k][rx[c][k]]] \in Telling
    BY <1>1 DEF Telling
  <2>2. rx' = [rx EXCEPT ![c][k] = rx[c][k] + 1]
    BY <1>3 DEF TypeOK
  <2>3. rx[c][k] + 1 \in Nat /\ rx[c][k] + 1 <= Len(log[k]) + 1
    BY <1>1
  <2>4. QED
    BY <1>2, <1>3, <2>1, <2>2, <2>3, FrameIs, SendType, MoveType DEF TypeOK
<1>4. CASE /\ rx[c][k] < Oldest(k)
           /\ Send(c, [type |-> "lag", kind |-> k, n |-> Missed(c, k)])
           /\ rx' = [rx EXCEPT ![c][k] = Oldest(k)]
  <2>1. Oldest(k) \in Nat /\ Oldest(k) <= Len(log[k]) + 1 /\ Missed(c, k) \in Nat
    <3>1. Oldest(k) \in 1 .. Len(log[k]) + 1
      BY OldestType
    <3>2. Missed(c, k) = Oldest(k) - rx[c][k]
      BY DEF Missed
    <3>3. QED
      BY <1>1, <1>4, <3>1, <3>2
  <2>2. [type |-> "lag", kind |-> k, n |-> Missed(c, k)] \in Telling
    BY <2>1 DEF Telling
  <2>3. QED
    BY <1>2, <1>4, <2>1, <2>2, FrameIs, SendType, MoveType DEF TypeOK
<1>5. QED
  BY <1>3, <1>4 DEF Receive

(* What the client has received of every kind, after a frame. *)
LEMMA FlushView ==
  ASSUME TypeOK, NEW c \in Clients, OneFrame(c), Flush(c)
  PROVE  /\ view' \in [Clients -> [Kinds -> Views]]
         /\ \A d \in Clients, j \in Kinds :
              view'[d][j] = IF d = c /\ outbox[c] \in Telling /\ outbox[c].kind = j
                            THEN Told(view[d][j], outbox[c]) ELSE view[d][j]
<1> DEFINE f == outbox[c]
<1>1. view \in [Clients -> [Kinds -> Views]]
  BY DEF TypeOK, Views
<1>2. f \in Telling \/ f.type = "answer"
  BY FrameIs DEF TypeOK, OneFrame, Flush
<1>3. CASE f.type = "answer"
  BY <1>1, <1>3, FrameIs DEF Flush
<1>4. CASE f \in Telling
  <2>1. f.kind \in Kinds /\ f.type # "answer"
    BY <1>4, FrameIs
  <2>2. view' = [view EXCEPT ![c][f.kind] = Told(view[c][f.kind], f)]
    BY <2>1 DEF Flush
  <2>3. Told(view[c][f.kind], f) \in Views
    BY <1>1, <1>4, <2>1, ToldType
  <2> HIDE DEF f
  <2>4. view' \in [Clients -> [Kinds -> Views]]
    BY <1>1, <2>1, <2>2, <2>3
  <2>5. \A d \in Clients, j \in Kinds :
          view'[d][j] = IF d = c /\ f.kind = j THEN Told(view[d][j], f) ELSE view[d][j]
    BY <1>1, <2>1, <2>2
  <2>6. QED
    BY <1>4, <2>4, <2>5 DEF f
<1>5. QED
  BY <1>2, <1>3, <1>4

LEMMA FlushType ==
  ASSUME WsAssumption, TypeOK, NEW c \in Clients, OneFrame(c), Flush(c)
  PROVE  TypeOK'
<1>1. view' \in [Clients -> [Kinds -> Views]]
  BY FlushView
<1>2. conn' \in [Clients -> {"none", "hello", "select", "send", "closed"}]
      /\ outbox' \in [Clients -> Frame \union {NoFrame}]
  BY DEF Flush, TypeOK
<1>3. QED
  BY <1>1, <1>2 DEF Flush, TypeOK, publisher, Views

LEMMA DisconnectMoves ==
  ASSUME TypeOK, NEW c \in Clients, Disconnect(c)
  PROVE  /\ rx' \in [Clients -> [Kinds -> Nat]]
         /\ \A d \in Clients, j \in Kinds : rx'[d][j] = IF d = c THEN 0 ELSE rx[d][j]
         /\ \A d \in Clients : outbox'[d] = IF d = c THEN NoFrame ELSE outbox[d]
BY DEF Disconnect, TypeOK, Off

LEMMA DisconnectType ==
  ASSUME WsAssumption, TypeOK, NEW c \in Clients, Disconnect(c)
  PROVE  TypeOK'
<1>1. \A d \in Clients, j \in Kinds : rx'[d][j] <= Len(log[j]) + 1
  <2> SUFFICES ASSUME NEW d \in Clients, NEW j \in Kinds PROVE rx'[d][j] <= Len(log[j]) + 1
    OBVIOUS
  <2>1. Len(log[j]) \in Nat
    BY DEF TypeOK
  <2>2. rx[d][j] <= Len(log[j]) + 1
    BY DEF TypeOK
  <2>3. rx'[d][j] = IF d = c THEN 0 ELSE rx[d][j]
    BY DisconnectMoves
  <2>4. QED
    BY <2>1, <2>2, <2>3
<1>2. conn' \in [Clients -> {"none", "hello", "select", "send", "closed"}]
      /\ outbox' \in [Clients -> Frame \union {NoFrame}]
  BY DEF Disconnect, TypeOK
<1>3. QED
  BY <1>1, <1>2, DisconnectMoves DEF Disconnect, TypeOK, publisher

LEMMA ClientAsksType ==
  ASSUME WsAssumption, TypeOK, NEW c \in Clients, ClientAsks(c)
  PROVE  TypeOK'
<1>1. PICK r \in Request : requests' = [requests EXCEPT ![c] = Append(@, r)]
  BY DEF ClientAsks
<1>2. requests' \in [Clients -> Seq(Request)]
  BY <1>1 DEF TypeOK
<1>3. MaxRequests[c] \in Nat
  BY DEF WsAssumption
<1>4. asked' \in [Clients -> Nat] /\ \A d \in Clients : asked'[d] <= MaxRequests[d]
  BY <1>3 DEF ClientAsks, TypeOK
<1>5. QED
  BY <1>2, <1>4 DEF ClientAsks, TypeOK, publisher

(* Types and the frame at the socket are an invariant of their own. *)
TypeInv == TypeOK /\ \A c \in Clients : OneFrame(c)

(* A step either leaves both alone, or is one of these. *)
LEMMA OneFrameKeeps ==
  ASSUME TypeInv, NEW c \in Clients,
         \/ UNCHANGED <<conn, outbox>>
         \/ \E f \in Frame : Send(c, f)
         \/ /\ conn' = [conn EXCEPT ![c] = "closed"] \/ conn' = [conn EXCEPT ![c] = "select"]
               \/ conn' = [conn EXCEPT ![c] = "hello"]
            /\ outbox' = [outbox EXCEPT ![c] = NoFrame]
  PROVE  \A d \in Clients : OneFrame(d)'
<1>1. \A f \in Frame : f # NoFrame
  BY FrameIs
<1>2. QED
  BY <1>1 DEF TypeInv, TypeOK, OneFrame, Send

LEMMA NextType ==
  ASSUME WsAssumption, TypeInv, [Next]_vars
  PROVE  TypeInv'
<1>1. TypeOK /\ \A c \in Clients : OneFrame(c)
  BY DEF TypeInv
<1>2. ASSUME NEW k \in Kinds, Publish(k) PROVE TypeInv'
  <2>1. UNCHANGED <<conn, outbox>>
    BY <1>2 DEF Publish, PublishCheck, PublishSend, connection
  <2>2. TypeOK'
    BY <1>1, <1>2, PublishCheckType, PublishSendType DEF Publish
  <2>3. QED
    BY <1>1, <2>1, <2>2 DEF TypeInv, OneFrame
<1>3. CASE AcceptFails
  BY <1>1, <1>3 DEF AcceptFails, TypeInv, OneFrame, TypeOK, publisher, connection
<1>4. ASSUME NEW c \in Clients, Accept(c) PROVE TypeInv'
  <2>1. outbox[c] = NoFrame /\ outbox' = outbox
    BY <1>1, <1>4 DEF Accept, OneFrame
  <2>2. conn' = [conn EXCEPT ![c] = "select"] \/ conn' = [conn EXCEPT ![c] = "hello"]
    BY <1>4 DEF Accept
  <2>3. outbox' = [outbox EXCEPT ![c] = NoFrame]
    BY <1>1, <2>1 DEF TypeOK
  <2>4. QED
    BY <1>1, <1>4, <2>2, <2>3, AcceptType, OneFrameKeeps DEF TypeInv
<1>5. ASSUME NEW c \in Clients, HelloSubscribe(c) PROVE TypeInv'
  <2>1. PICK k \in Kinds : Subscribe(c, k)
    BY <1>1, <1>5 DEF HelloSubscribe, TypeOK
  <2>2. \E f \in Frame : Send(c, f)
    <3>1. [type |-> "ack", kind |-> k, n |-> offered[k]] \in Telling
      BY <1>1 DEF Telling, TypeOK
    <3>2. QED
      BY <2>1, <3>1, FrameIs DEF Subscribe
  <2>3. QED
    BY <1>1, <1>5, <2>2, HelloSubscribeType, OneFrameKeeps DEF TypeInv
<1>6. ASSUME NEW c \in Clients, HandleRequest(c) PROVE TypeInv'
  <2>1. \E f \in Frame : Send(c, f)
    <3>1. \A k \in Kinds : /\ [type |-> "ack", kind |-> k, n |-> offered[k]] \in Telling
                           /\ [type |-> "unack", kind |-> k, n |-> 0] \in Telling
      BY <1>1 DEF Telling, TypeOK
    <3>2. QED
      BY <1>1, <1>6, <3>1, FrameIs, RequestType DEF HandleRequest, Subscribe, Unsubscribe
  <2>2. QED
    BY <1>1, <1>6, <2>1, HandleRequestType, OneFrameKeeps DEF TypeInv
<1>7. ASSUME NEW c \in Clients, NEW k \in Kinds, Receive(c, k) PROVE TypeInv'
  <2>1. \E f \in Frame : Send(c, f)
    <3>1. Oldest(k) \in Nat
      <4>1. Len(log[k]) \in Nat
        BY <1>1 DEF TypeOK
      <4>2. QED
        BY <1>1, <4>1, OldestType
    <3>2. rx[c][k] \in 1 .. Len(log[k]) /\ log[k] \in Seq(Nat)
      BY <1>1, <1>7 DEF Receive, Ready, TypeOK
    <3>3. [type |-> "data", kind |-> k, n |-> log[k][rx[c][k]]] \in Telling
      <4>1. \A i \in 1 .. Len(log[k]) : log[k][i] \in Nat
        BY <3>2
      <4>2. log[k][rx[c][k]] \in Nat
        BY <3>2, <4>1
      <4>3. QED
        BY <4>2 DEF Telling
    <3>4. rx[c][k] < Oldest(k) => [type |-> "lag", kind |-> k, n |-> Missed(c, k)] \in Telling
      BY <3>1, <3>2 DEF Telling, Missed
    <3>5. QED
      BY <1>7, <3>3, <3>4, FrameIs DEF Receive
  <2>2. QED
    BY <1>1, <1>7, <2>1, ReceiveType, OneFrameKeeps DEF TypeInv
<1>8. ASSUME NEW c \in Clients, Flush(c) PROVE TypeInv'
  BY <1>1, <1>8, FlushType, OneFrameKeeps DEF TypeInv, Flush
<1>9. ASSUME NEW c \in Clients, Disconnect(c) PROVE TypeInv'
  BY <1>1, <1>9, DisconnectType, OneFrameKeeps DEF TypeInv, Disconnect
<1>10. ASSUME NEW c \in Clients, ClientAsks(c) PROVE TypeInv'
  BY <1>1, <1>10, ClientAsksType DEF TypeInv, ClientAsks, OneFrame
<1>11. CASE UNCHANGED vars
  BY <1>1, <1>11 DEF vars, publisher, connection, TypeInv, TypeOK, OneFrame
<1>12. QED
  BY <1>2, <1>3, <1>4, <1>5, <1>6, <1>7, <1>8, <1>9, <1>10, <1>11 DEF Next, Serve

-----------------------------------------------------------------------------
(* The inductive invariant. *)

(* The frame waiting at the socket of c is of kind k. *)
Waiting(c, k) == outbox[c] \in Telling /\ outbox[c].kind = k

(* What c knows of kind k once it has taken the frame. *)
Shown(c, k) == IF Waiting(c, k) THEN Told(view[c][k], outbox[c]) ELSE view[c][k]

(* The next message that the channel of k can accept, how many it has from *)
(* its place i on, and the message that the receiver of c reads next.      *)
NextNumber(k) == IF pub[k] = "send" THEN offered[k] ELSE offered[k] + 1
Behind(k, i)  == (Len(log[k]) + 1) - i
Awaited(c, k) == NextNumber(k) - Behind(k, rx[c][k])

(* From a receiver's place on, the channel has accepted every message. *)
LogIsComplete(c, k) ==
  rx[c][k] # 0 => \A i \in rx[c][k] .. Len(log[k]) :
                    log[k][i] = NextNumber(k) - Behind(k, i)

(* The receiver stands where the client thinks it does. *)
ReceiverAgrees(c, k) ==
  rx[c][k] # 0 =>
    /\ Shown(c, k).on /\ Shown(c, k).last < Awaited(c, k)
    /\ \/ Awaited(c, k) = Shown(c, k).next
       \/ ~ Shown(c, k).sure /\ Awaited(c, k) = Shown(c, k).next - 1

(* No client knows of a message that the channel may still accept. *)
NothingAhead(c, k) ==
  view[c][k].last < NextNumber(k) /\ Shown(c, k).last < NextNumber(k)

(* The frame that waits is one the client may get now. *)
FrameFits(c, k) ==
  Waiting(c, k) =>
    LET v == view[c][k]
        n == outbox[c].n
    IN  /\ outbox[c].type = "ack" => v.last <= n /\ n <= offered[k]
        /\ outbox[c].type = "data" =>
             /\ v.on /\ v.last < n /\ n <= offered[k]
             /\ n = v.next \/ (~ v.sure /\ n = v.next - 1)
        /\ outbox[c].type = "lag" => v.on /\ 0 < n /\ v.next + n <= offered[k] + 1

Agrees(c, k) ==
  LogIsComplete(c, k) /\ ReceiverAgrees(c, k) /\ NothingAhead(c, k) /\ FrameFits(c, k)

IInv == TypeInv /\ \A c \in Clients, k \in Kinds : Agrees(c, k)

(* Types of what the invariant speaks of. *)
LEMMA PairTypes ==
  ASSUME TypeInv, NEW c \in Clients, NEW k \in Kinds
  PROVE  /\ rx[c][k] \in Nat /\ log[k] \in Seq(Nat) /\ Len(log[k]) \in Nat
         /\ rx[c][k] <= Len(log[k]) + 1
         /\ offered[k] \in Nat /\ NextNumber(k) \in Nat /\ Awaited(c, k) \in Int
         /\ NextNumber(k) <= offered[k] + 1
         /\ view[c][k] \in Views /\ Shown(c, k) \in Views
         /\ outbox[c] \in Telling => outbox[c].n \in Nat
<1>1. TypeOK
  BY DEF TypeInv
<1>2. rx[c][k] \in Nat /\ log[k] \in Seq(Nat) /\ Len(log[k]) \in Nat
  BY <1>1 DEF TypeOK
<1>3. rx[c][k] <= Len(log[k]) + 1
  BY <1>1 DEF TypeOK
<1>4. offered[k] \in Nat
  BY <1>1 DEF TypeOK
<1>5. NextNumber(k) \in Nat /\ NextNumber(k) <= offered[k] + 1
  BY <1>4 DEF NextNumber
<1>6. Awaited(c, k) \in Int
  BY <1>2, <1>5 DEF Awaited, Behind
<1>7. view[c][k] \in Views
  BY <1>1 DEF TypeOK, Views
<1>8. Shown(c, k) \in Views
  BY <1>7, ToldType DEF Shown, Waiting
<1>9. QED
  BY <1>2, <1>3, <1>4, <1>5, <1>6, <1>7, <1>8, FrameIs

(* At first. *)
LEMMA InitHolds == WsAssumption /\ Init => IInv
<1> SUFFICES ASSUME WsAssumption, Init PROVE IInv
  OBVIOUS
<1>1. TypeInv
  BY InitType DEF Init, TypeInv, OneFrame
<1>2. ASSUME NEW c \in Clients, NEW k \in Kinds PROVE Agrees(c, k)
  <2>1. rx[c][k] = 0 /\ outbox[c] = NoFrame
    BY DEF Init, Off
  <2>2. view[c][k].last = 0
    BY DEF Init, None
  <2>3. NextNumber(k) = 1
    BY DEF Init, Off, NextNumber
  <2>4. ~ Waiting(c, k)
    BY <2>1, FrameIs DEF Waiting
  <2>5. QED
    BY <2>1, <2>2, <2>3, <2>4
       DEF Agrees, LogIsComplete, ReceiverAgrees, NothingAhead, FrameFits, Shown
<1>3. QED
  BY <1>1, <1>2 DEF IInv

(* Nothing of a client and a kind changes. *)
LEMMA SamePair ==
  ASSUME NEW c \in Clients, NEW k \in Kinds, Agrees(c, k),
         offered'[k] = offered[k], pub'[k] = pub[k], log'[k] = log[k],
         rx'[c][k] = rx[c][k], view'[c][k] = view[c][k],
         \/ outbox'[c] = outbox[c]
         \/ ~ Waiting(c, k) /\ ~ Waiting(c, k)'
  PROVE  Agrees(c, k)'
<1>1. NextNumber(k)' = NextNumber(k)
  BY DEF NextNumber
<1>2. Awaited(c, k)' = Awaited(c, k) /\ \A i : Behind(k, i)' = Behind(k, i)
  BY <1>1 DEF Awaited, Behind
<1>3. Waiting(c, k)' <=> Waiting(c, k)
  BY DEF Waiting
<1>4. Waiting(c, k) => outbox'[c] = outbox[c]
  BY <1>3
<1>5. Shown(c, k)' = Shown(c, k)
  BY <1>3, <1>4 DEF Shown
<1>6. LogIsComplete(c, k)'
  BY <1>1, <1>2 DEF Agrees, LogIsComplete
<1>7. ReceiverAgrees(c, k)'
  BY <1>2, <1>5 DEF Agrees, ReceiverAgrees
<1>8. NothingAhead(c, k)'
  BY <1>1, <1>5 DEF Agrees, NothingAhead
<1>9. FrameFits(c, k)'
  BY <1>3, <1>4 DEF Agrees, FrameFits
<1>10. QED
  BY <1>6, <1>7, <1>8, <1>9 DEF Agrees

(* A message is offered.  While there is a receiver it keeps its number    *)
(* until the channel accepts it, without one it has gone.                  *)
LEMMA PublishCheckKeeps ==
  ASSUME WsAssumption, IInv, TypeInv', NEW k \in Kinds, PublishCheck(k)
  PROVE  IInv'
<1>1. TypeInv /\ TypeOK
  BY DEF IInv, TypeInv
<1>2. UNCHANGED <<log, rx, outbox, view>>
  BY DEF PublishCheck, connection
<1>3. ASSUME NEW c \in Clients, NEW j \in Kinds PROVE Agrees(c, j)'
  <2>1. Agrees(c, j)
    BY DEF IInv
  <2>2. CASE j # k
    <3>1. offered'[j] = offered[j] /\ pub'[j] = pub[j]
      BY <1>1, <2>2 DEF PublishCheck, TypeOK
    <3>2. QED
      BY <1>2, <2>1, <3>1, SamePair
  <2>3. CASE j = k
    <3>1. offered'[k] = offered[k] + 1 /\ offered[k] \in Nat /\ pub[k] = "idle"
          /\ pub'[k] = (IF HasReceiver(k) THEN "send" ELSE "idle")
      BY <1>1 DEF PublishCheck, TypeOK
    <3>2. NextNumber(k) = offered[k] + 1
          /\ NextNumber(k)' = IF HasReceiver(k) THEN offered[k] + 1 ELSE offered[k] + 2
      BY <3>1 DEF NextNumber
    <3>3. /\ \A i : Behind(k, i)' = Behind(k, i)
          /\ rx[c][k] # 0 => NextNumber(k)' = NextNumber(k) /\ Awaited(c, k)' = Awaited(c, k)
      BY <1>2, <3>2 DEF HasReceiver, Awaited, Behind
    <3>4. Shown(c, k)' = Shown(c, k) /\ (Waiting(c, k)' <=> Waiting(c, k))
      BY <1>2 DEF Shown, Waiting
    <3>5. LogIsComplete(c, k)' /\ ReceiverAgrees(c, k)'
      BY <1>2, <2>1, <2>3, <3>3, <3>4 DEF Agrees, LogIsComplete, ReceiverAgrees
    <3>6. view[c][k].last \in Nat /\ Shown(c, k).last \in Nat
      BY <1>1, PairTypes DEF Views
    <3>7. NothingAhead(c, k)'
      BY <1>2, <2>1, <2>3, <3>1, <3>2, <3>4, <3>6 DEF Agrees, NothingAhead
    <3>8. FrameFits(c, k)'
      <4>1. view[c][k].next \in Nat /\ (Waiting(c, k) => outbox[c].n \in Nat)
        BY <1>1, PairTypes DEF Views, Waiting
      <4>2. QED
        BY <1>2, <2>1, <2>3, <3>1, <3>4, <3>6, <4>1 DEF Agrees, FrameFits
    <3>9. QED
      BY <2>3, <3>5, <3>7, <3>8 DEF Agrees
  <2>4. QED
    BY <2>2, <2>3
<1>4. QED
  BY <1>3 DEF IInv

LEMMA LaterByOne == \A a, b \in Int : (a + 1) - (b + 1) = a - b
  OBVIOUS

(* The channel accepts the message, or there is nobody to hear it. *)
LEMMA PublishSendKeeps ==
  ASSUME WsAssumption, IInv, TypeInv', NEW k \in Kinds, PublishSend(k)
  PROVE  IInv'
<1>1. TypeInv /\ TypeOK
  BY DEF IInv, TypeInv
<1>2. UNCHANGED <<offered, rx, outbox, view>>
  BY DEF PublishSend, connection
<1>3. ASSUME NEW c \in Clients, NEW j \in Kinds PROVE Agrees(c, j)'
  <2>1. Agrees(c, j)
    BY DEF IInv
  <2>2. CASE j # k
    <3>1. log'[j] = log[j] /\ pub'[j] = pub[j]
      BY <1>1, <2>2 DEF PublishSend, TypeOK
    <3>2. QED
      BY <1>2, <2>1, <3>1, SamePair
  <2>3. CASE j = k
    <3>1. pub[k] = "send" /\ pub'[k] = "idle"
          /\ log'[k] = (IF HasReceiver(k) THEN Append(log[k], offered[k]) ELSE log[k])
      BY <1>1 DEF PublishSend, TypeOK
    <3>2. NextNumber(k) = offered[k] /\ NextNumber(k)' = offered[k] + 1
      BY <1>2, <3>1 DEF NextNumber
    <3>3. /\ rx[c][k] \in Nat /\ log[k] \in Seq(Nat) /\ Len(log[k]) \in Nat
          /\ offered[k] \in Nat
      BY <1>1, PairTypes
    <3>4. Shown(c, k)' = Shown(c, k) /\ (Waiting(c, k)' <=> Waiting(c, k))
      BY <1>2 DEF Shown, Waiting
    <3>5. ASSUME rx[c][k] # 0 PROVE LogIsComplete(c, k)' /\ ReceiverAgrees(c, k)'
      <4>1. log'[k] = Append(log[k], offered[k])
        BY <3>1, <3>5 DEF HasReceiver
      <4>2. /\ Len(log'[k]) = Len(log[k]) + 1 /\ log'[k][Len(log[k]) + 1] = offered[k]
            /\ \A i \in 1 .. Len(log[k]) : log'[k][i] = log[k][i]
        BY <3>3, <4>1
      <4>3. Awaited(c, k)' = Awaited(c, k)
        <5>1. Behind(k, rx[c][k])' = Behind(k, rx[c][k]) + 1 /\ Behind(k, rx[c][k]) \in Int
          <6>1. /\ Behind(k, rx[c][k])' = (Len(log'[k]) + 1) - rx[c][k]
                /\ Behind(k, rx[c][k]) = (Len(log[k]) + 1) - rx[c][k]
            BY <1>2 DEF Behind
          <6>2. Len(log'[k]) = Len(log[k]) + 1
            BY <4>2
          <6>3. Behind(k, rx[c][k])' = ((Len(log[k]) + 1) + 1) - rx[c][k]
            BY <6>1, <6>2
          <6>4. /\ Behind(k, rx[c][k]) \in Int
                /\ ((Len(log[k]) + 1) + 1) - rx[c][k] = Behind(k, rx[c][k]) + 1
            <7>1. Len(log[k]) \in Nat /\ rx[c][k] \in Nat
              BY <3>3
            <7>2. \A l, i \in Nat : (l + 1) - i \in Int /\ ((l + 1) + 1) - i = ((l + 1) - i) + 1
              OBVIOUS
            <7>3. QED
              BY <6>1, <7>1, <7>2
          <6>5. QED
            BY <6>3, <6>4
        <5>2. Awaited(c, k)' = (offered[k] + 1) - (Behind(k, rx[c][k]) + 1)
          BY <1>2, <3>2, <5>1 DEF Awaited
        <5>3. Awaited(c, k) = offered[k] - Behind(k, rx[c][k])
          BY <3>2 DEF Awaited
        <5>4. (offered[k] + 1) - (Behind(k, rx[c][k]) + 1) = offered[k] - Behind(k, rx[c][k])
          <6>1. offered[k] \in Int /\ Behind(k, rx[c][k]) \in Int
            BY <3>3, <5>1
          <6>2. QED
            BY <6>1, LaterByOne
        <5>5. QED
          BY <5>2, <5>3, <5>4
      <4>4. ASSUME NEW i \in rx[c][k] .. Len(log'[k])
            PROVE  log'[k][i] = NextNumber(k)' - Behind(k, i)'
        <5>1. i \in 1 .. Len(log[k]) + 1
          BY <3>3, <3>5, <4>2
        <5>2. Behind(k, i)' = Behind(k, i) + 1 /\ Behind(k, i) \in Int
          <6>1. Behind(k, i)' = (Len(log'[k]) + 1) - i /\ Behind(k, i) = (Len(log[k]) + 1) - i
            BY DEF Behind
          <6>2. Len(log'[k]) = Len(log[k]) + 1
            BY <4>2
          <6>3. Behind(k, i)' = ((Len(log[k]) + 1) + 1) - i
            BY <6>1, <6>2
          <6>4. Behind(k, i) \in Int /\ ((Len(log[k]) + 1) + 1) - i = Behind(k, i) + 1
            BY <3>3, <5>1, <6>1
          <6>5. QED
            BY <6>3, <6>4
        <5>3. CASE i = Len(log[k]) + 1
          <6>1. Behind(k, i) = 0
            BY <3>3, <5>3 DEF Behind
          <6>2. QED
            BY <3>2, <3>3, <4>2, <5>2, <5>3, <6>1
        <5>4. CASE i \in 1 .. Len(log[k])
          <6>1. i \in rx[c][k] .. Len(log[k])
            BY <3>3, <5>4
          <6>2. log[k][i] = offered[k] - Behind(k, i)
            BY <2>1, <2>3, <3>2, <3>5, <6>1 DEF Agrees, LogIsComplete
          <6>3. log'[k][i] = offered[k] - Behind(k, i)
            BY <4>2, <5>4, <6>2
          <6>4. NextNumber(k)' - Behind(k, i)' = (offered[k] + 1) - (Behind(k, i) + 1)
            BY <3>2, <5>2
          <6>5. offered[k] \in Int /\ Behind(k, i) \in Int
            BY <3>3, <5>2
          <6>6. (offered[k] + 1) - (Behind(k, i) + 1) = offered[k] - Behind(k, i)
            BY <6>5, LaterByOne
          <6>7. QED
            BY <6>3, <6>4, <6>6
        <5>5. i = Len(log[k]) + 1 \/ i \in 1 .. Len(log[k])
          <6>1. Len(log[k]) \in Nat
            BY <3>3
          <6>2. QED
            BY <5>1, <6>1
        <5>6. QED
          BY <5>3, <5>4, <5>5
      <4>5. LogIsComplete(c, k)'
        BY <1>2, <4>4 DEF LogIsComplete
      <4>6. ReceiverAgrees(c, k)'
        BY <1>2, <2>1, <2>3, <3>4, <4>3 DEF Agrees, ReceiverAgrees
      <4>7. QED
        BY <4>5, <4>6
    <3>6. LogIsComplete(c, k)' /\ ReceiverAgrees(c, k)'
      BY <1>2, <3>5 DEF LogIsComplete, ReceiverAgrees
    <3>7. view[c][k].last \in Nat /\ Shown(c, k).last \in Nat
      BY <1>1, PairTypes DEF Views
    <3>8. NothingAhead(c, k)'
      BY <1>2, <2>1, <2>3, <3>2, <3>3, <3>4, <3>7 DEF Agrees, NothingAhead
    <3>9. FrameFits(c, k)'
      BY <1>2, <2>1, <2>3, <3>4 DEF Agrees, FrameFits
    <3>10. QED
      BY <2>3, <3>6, <3>8, <3>9 DEF Agrees
  <2>4. QED
    BY <2>2, <2>3
<1>4. QED
  BY <1>3 DEF IInv

(* A task that is not at the socket sends a frame of kind k, and moves its *)
(* receiver of k at most.                                                  *)
SendsOfKind(c, k, f, n) ==
  /\ f \in Telling /\ f.kind = k
  /\ conn[c] # "send" /\ Send(c, f)
  /\ rx' = [rx EXCEPT ![c][k] = n]
  /\ UNCHANGED <<offered, pub, log, view>>

OthersAgree(c, k) == \A d \in Clients, j \in Kinds : (d # c \/ j # k) => Agrees(d, j)

LEMMA Sent ==
  ASSUME IInv, NEW c \in Clients, NEW k \in Kinds, NEW f, NEW n, SendsOfKind(c, k, f, n)
  PROVE  /\ OthersAgree(c, k)'
         /\ rx'[c][k] = n /\ outbox'[c] = f /\ Waiting(c, k)'
         /\ Shown(c, k) = view[c][k] /\ Shown(c, k)' = Told(view[c][k], f)
         /\ NextNumber(k)' = NextNumber(k)
         /\ \A i : Behind(k, i)' = Behind(k, i)
         /\ Awaited(c, k)' = NextNumber(k) - Behind(k, n)
<1> USE DEF SendsOfKind
<1>1. TypeInv /\ TypeOK
  BY DEF IInv, TypeInv
<1>2. outbox[c] = NoFrame /\ outbox' = [outbox EXCEPT ![c] = f]
  BY <1>1 DEF TypeInv, OneFrame, Send
<1>3. outbox'[c] = f /\ \A d \in Clients : d # c => outbox'[d] = outbox[d]
  BY <1>1, <1>2 DEF TypeOK
<1>4. rx \in [Clients -> [Kinds -> Nat]]
  BY <1>1 DEF TypeOK
<1>5. rx'[c][k] = n
  BY <1>4
<1>6. \A d \in Clients, j \in Kinds : (d # c \/ j # k) => rx'[d][j] = rx[d][j]
  BY <1>4
<1>7. \A j \in Kinds : ~ Waiting(c, j) /\ (Waiting(c, j)' <=> j = k)
  BY <1>2, <1>3, FrameIs DEF Waiting
<1>8. ASSUME NEW d \in Clients, NEW j \in Kinds, d # c \/ j # k PROVE Agrees(d, j)'
  <2>1. Agrees(d, j) /\ rx'[d][j] = rx[d][j]
    BY <1>6, <1>8 DEF IInv
  <2>2. \/ outbox'[d] = outbox[d]
        \/ ~ Waiting(d, j) /\ ~ Waiting(d, j)'
    BY <1>3, <1>7, <1>8
  <2>3. QED
    BY <2>1, <2>2, SamePair
<1>9. NextNumber(k)' = NextNumber(k) /\ \A i : Behind(k, i)' = Behind(k, i)
  BY DEF NextNumber, Behind
<1>10. Awaited(c, k)' = NextNumber(k) - Behind(k, n)
  BY <1>5, <1>9 DEF Awaited
<1>11. Shown(c, k) = view[c][k] /\ Shown(c, k)' = Told(view[c][k], f)
  BY <1>3, <1>7 DEF Shown
<1>12. OthersAgree(c, k)'
  BY <1>8 DEF OthersAgree
<1>13. QED
  BY <1>3, <1>5, <1>7, <1>9, <1>10, <1>11, <1>12

(* The receiver is there before the answer, and stands at the message that *)
(* the channel accepts next: the answer is one behind it at most.          *)
LEMMA SubscribeKeeps ==
  ASSUME IInv, NEW c \in Clients, NEW k \in Kinds, conn[c] # "send", Subscribe(c, k),
         UNCHANGED <<offered, pub, log, view>>
  PROVE  \A d \in Clients, j \in Kinds : Agrees(d, j)'
<1> PICK f : f = [type |-> "ack", kind |-> k, n |-> offered[k]]
  OBVIOUS
<1> PICK n : n = Len(log[k]) + 1
  OBVIOUS
<1>1. TypeInv /\ Agrees(c, k)
  BY DEF IInv
<1>2. /\ log[k] \in Seq(Nat) /\ Len(log[k]) \in Nat /\ offered[k] \in Nat
      /\ NextNumber(k) \in Nat /\ NextNumber(k) <= offered[k] + 1 /\ view[c][k] \in Views
  BY <1>1, PairTypes
<1>3. f \in Telling /\ f.kind = k /\ f.type = "ack" /\ f.n = offered[k]
  BY <1>2 DEF Telling
<1>4. rx' = [rx EXCEPT ![c][k] = n] /\ Send(c, f) /\ n = Len(log[k]) + 1
  BY DEF Subscribe
<1>5. /\ OthersAgree(c, k)'
      /\ rx'[c][k] = n /\ outbox'[c] = f /\ Waiting(c, k)'
      /\ Shown(c, k) = view[c][k] /\ Shown(c, k)' = Told(view[c][k], f)
      /\ NextNumber(k)' = NextNumber(k)
      /\ Awaited(c, k)' = NextNumber(k) - Behind(k, n)
  <2>1. SendsOfKind(c, k, f, n)
    BY <1>3, <1>4 DEF SendsOfKind
  <2>2. QED
    BY <2>1, Sent
<1>6. view[c][k].last \in Nat /\ view[c][k].last < NextNumber(k)
  BY <1>1, <1>2 DEF Agrees, NothingAhead, Views
<1>7. Awaited(c, k)' = NextNumber(k)
  BY <1>2, <1>4, <1>5 DEF Behind
<1>8. NextNumber(k) = offered[k] + 1 \/ NextNumber(k) = offered[k]
  BY DEF NextNumber
<1>9. /\ Shown(c, k)'.on = TRUE /\ Shown(c, k)'.next = offered[k] + 1
      /\ Shown(c, k)'.sure = FALSE /\ Shown(c, k)'.last = view[c][k].last
  <2>1. /\ Told(view[c][k], f).on = TRUE /\ Told(view[c][k], f).next = f.n + 1
        /\ Told(view[c][k], f).sure = FALSE /\ Told(view[c][k], f).last = view[c][k].last
    BY <1>2, <1>3, ToldAck
  <2>2. QED
    BY <1>3, <1>5, <2>1
<1>10. LogIsComplete(c, k)'
  BY <1>2, <1>4, <1>5 DEF LogIsComplete
<1>11. ReceiverAgrees(c, k)'
  BY <1>2, <1>6, <1>7, <1>8, <1>9 DEF ReceiverAgrees
<1>12. NothingAhead(c, k)'
  BY <1>5, <1>6, <1>9 DEF NothingAhead
<1>13. FrameFits(c, k)'
  BY <1>2, <1>3, <1>5, <1>6 DEF FrameFits
<1>14. QED
  BY <1>5, <1>10, <1>11, <1>12, <1>13 DEF Agrees, OthersAgree

LEMMA UnsubscribeKeeps ==
  ASSUME IInv, NEW c \in Clients, NEW k \in Kinds, conn[c] # "send", Unsubscribe(c, k),
         UNCHANGED <<offered, pub, log, view>>
  PROVE  \A d \in Clients, j \in Kinds : Agrees(d, j)'
<1> PICK f : f = [type |-> "unack", kind |-> k, n |-> 0]
  OBVIOUS
<1>1. TypeInv /\ Agrees(c, k)
  BY DEF IInv
<1>2. view[c][k] \in Views
  BY <1>1, PairTypes
<1>3. f \in Telling /\ f.kind = k /\ f.type = "unack"
  BY DEF Telling
<1>4. rx' = [rx EXCEPT ![c][k] = 0] /\ Send(c, f)
  BY DEF Unsubscribe
<1>5. /\ OthersAgree(c, k)'
      /\ rx'[c][k] = 0 /\ outbox'[c] = f
      /\ Shown(c, k)' = Told(view[c][k], f) /\ NextNumber(k)' = NextNumber(k)
  <2>1. SendsOfKind(c, k, f, 0)
    BY <1>3, <1>4 DEF SendsOfKind
  <2>2. QED
    BY <2>1, Sent
<1>6. Shown(c, k)'.last = view[c][k].last
  <2>1. Told(view[c][k], f).last = view[c][k].last
    BY <1>2, <1>3, ToldUnack
  <2>2. QED
    BY <1>5, <2>1
<1>7. NothingAhead(c, k)'
  BY <1>1, <1>5, <1>6 DEF Agrees, NothingAhead
<1>8. QED
  BY <1>3, <1>5, <1>7 DEF Agrees, OthersAgree, LogIsComplete, ReceiverAgrees, FrameFits

(* A frame of no kind. *)
LEMMA AnswerKeeps ==
  ASSUME IInv, NEW c \in Clients, conn[c] # "send", Send(c, [type |-> "answer"]),
         UNCHANGED <<offered, pub, log, view, rx>>
  PROVE  \A d \in Clients, j \in Kinds : Agrees(d, j)'
<1>1. TypeInv /\ TypeOK
  BY DEF IInv, TypeInv
<1>2. outbox[c] = NoFrame /\ outbox' = [outbox EXCEPT ![c] = [type |-> "answer"]]
  BY <1>1 DEF TypeInv, OneFrame, Send
<1>3. outbox'[c] = [type |-> "answer"] /\ \A d \in Clients : d # c => outbox'[d] = outbox[d]
  BY <1>1, <1>2 DEF TypeOK
<1>4. outbox[c] \notin Telling /\ outbox'[c] \notin Telling
  BY <1>2, <1>3, FrameIs
<1> SUFFICES ASSUME NEW d \in Clients, NEW j \in Kinds PROVE Agrees(d, j)'
  OBVIOUS
<1>5. Agrees(d, j)
  BY DEF IInv
<1>6. outbox'[d] = outbox[d] \/ (~ Waiting(d, j) /\ ~ Waiting(d, j)')
  BY <1>3, <1>4 DEF Waiting
<1>7. QED
  BY <1>5, <1>6, SamePair

(* The next message, or a report of the messages that were overwritten.    *)
LEMMA ReceiveKeeps ==
  ASSUME WsAssumption, IInv, NEW c \in Clients, NEW k \in Kinds, Receive(c, k)
  PROVE  \A d \in Clients, j \in Kinds : Agrees(d, j)'
<1> PICK v : v = view[c][k]
  OBVIOUS
<1>1. TypeInv /\ TypeOK /\ Agrees(c, k)
  BY DEF IInv, TypeInv
<1>2. /\ rx[c][k] \in Nat /\ Len(log[k]) \in Nat
      /\ offered[k] \in Nat /\ NextNumber(k) \in Nat /\ NextNumber(k) <= offered[k] + 1
  BY <1>1, PairTypes
<1>3. v \in Views /\ v.next \in Nat /\ v.last \in Nat
  <2>1. v \in Views
    BY <1>1, PairTypes
  <2>2. QED
    BY <2>1 DEF Views
<1>4. conn[c] = "select" /\ rx[c][k] # 0 /\ rx[c][k] <= Len(log[k])
      /\ UNCHANGED <<offered, pub, log, view>>
  BY DEF Receive, Ready, publisher
<1>5. Behind(k, rx[c][k]) \in Int /\ Behind(k, rx[c][k]) >= 1
  BY <1>2, <1>4 DEF Behind
<1>6. Shown(c, k) = v
  BY <1>1, <1>4, FrameIs DEF TypeInv, OneFrame, Shown, Waiting
<1>7. /\ v.on /\ v.last < Awaited(c, k)
      /\ Awaited(c, k) = v.next \/ (~ v.sure /\ Awaited(c, k) = v.next - 1)
  BY <1>1, <1>4, <1>6 DEF Agrees, ReceiverAgrees
<1>8. Awaited(c, k) = NextNumber(k) - Behind(k, rx[c][k]) /\ Awaited(c, k) \in Int
      /\ Awaited(c, k) <= offered[k] /\ Awaited(c, k) < NextNumber(k)
  BY <1>2, <1>5 DEF Awaited
<1>9. \A i \in rx[c][k] .. Len(log[k]) : log[k][i] = NextNumber(k) - Behind(k, i)
  BY <1>1, <1>4 DEF Agrees, LogIsComplete
<1>10. log[k][rx[c][k]] = Awaited(c, k)
  <2>1. rx[c][k] \in rx[c][k] .. Len(log[k])
    BY <1>2, <1>4
  <2>2. QED
    BY <1>8, <1>9, <2>1
<1>11. CASE /\ Send(c, [type |-> "data", kind |-> k, n |-> log[k][rx[c][k]]])
            /\ rx' = [rx EXCEPT ![c][k] = @ + 1]
  <2> PICK f : f = [type |-> "data", kind |-> k, n |-> log[k][rx[c][k]]]
    OBVIOUS
  <2> PICK n : n = rx[c][k] + 1
    OBVIOUS
  <2>1. log[k][rx[c][k]] \in Nat
    <3>1. log[k] \in Seq(Nat)
      BY <1>1, PairTypes
    <3>2. \A i \in 1 .. Len(log[k]) : log[k][i] \in Nat
      BY <3>1
    <3>3. rx[c][k] \in 1 .. Len(log[k])
      BY <1>2, <1>4
    <3>4. QED
      BY <3>2, <3>3
  <2>2. f \in Telling /\ f.kind = k /\ f.type = "data" /\ f.n = Awaited(c, k)
    BY <1>10, <2>1 DEF Telling
  <2>3. rx' = [rx EXCEPT ![c][k] = n] /\ Send(c, f) /\ n = rx[c][k] + 1
    BY <1>1, <1>11 DEF TypeOK
  <2>4. conn[c] # "send"
    BY <1>4
  <2>5. /\ OthersAgree(c, k)'
        /\ rx'[c][k] = n /\ outbox'[c] = f /\ Waiting(c, k)'
        /\ Shown(c, k)' = Told(v, f) /\ NextNumber(k)' = NextNumber(k)
        /\ \A i : Behind(k, i)' = Behind(k, i)
        /\ Awaited(c, k)' = NextNumber(k) - Behind(k, n)
    <3>1. SendsOfKind(c, k, f, n)
      BY <1>4, <2>2, <2>3, <2>4 DEF SendsOfKind
    <3>2. QED
      BY <3>1, Sent
  <2>6. Behind(k, n) = Behind(k, rx[c][k]) - 1
    BY <1>2, <2>3 DEF Behind
  <2>7. Awaited(c, k)' = Awaited(c, k) + 1
    BY <1>2, <1>5, <1>8, <2>5, <2>6
  <2>8. /\ Shown(c, k)'.on = v.on /\ Shown(c, k)'.next = Awaited(c, k) + 1
        /\ Shown(c, k)'.last = Awaited(c, k)
    <3>1. Told(v, f).on = v.on /\ Told(v, f).next = f.n + 1 /\ Told(v, f).last = f.n
      <4>1. v \in Views /\ f \in Telling /\ f.type = "data"
        BY <1>3, <2>2
      <4>2. QED
        BY <4>1, ToldData
    <3>2. QED
      BY <2>2, <2>5, <3>1
  <2>9. LogIsComplete(c, k)'
    <3>1. \A i \in n .. Len(log[k]) : i \in rx[c][k] .. Len(log[k])
      BY <1>2, <2>3
    <3>2. \A i \in n .. Len(log[k]) : log[k][i] = NextNumber(k) - Behind(k, i)
      BY <1>9, <3>1
    <3>3. QED
      BY <1>4, <2>5, <3>2 DEF LogIsComplete
  <2>10. ReceiverAgrees(c, k)'
    BY <1>7, <1>8, <2>7, <2>8 DEF ReceiverAgrees
  <2>11. NothingAhead(c, k)'
    <3>1. v.last < NextNumber(k)
      BY <1>2, <1>3, <1>7, <1>8
    <3>2. view'[c][k] = v /\ Shown(c, k)'.last < NextNumber(k)
      BY <1>4, <1>8, <2>8
    <3>3. QED
      BY <2>5, <3>1, <3>2 DEF NothingAhead
  <2>12. FrameFits(c, k)'
    BY <1>4, <1>7, <1>8, <2>2, <2>5 DEF FrameFits
  <2>13. QED
    BY <2>5, <2>9, <2>10, <2>11, <2>12 DEF Agrees, OthersAgree
<1>12. CASE /\ rx[c][k] < Oldest(k)
            /\ Send(c, [type |-> "lag", kind |-> k, n |-> Missed(c, k)])
            /\ rx' = [rx EXCEPT ![c][k] = Oldest(k)]
  <2> PICK f : f = [type |-> "lag", kind |-> k, n |-> Missed(c, k)]
    OBVIOUS
  <2> PICK n : n = Oldest(k)
    OBVIOUS
  <2>1. n \in Nat /\ n <= Len(log[k]) /\ rx[c][k] < n
    BY <1>1, <1>2, <1>4, <1>12, OldestType
  <2>2. Missed(c, k) = n - rx[c][k] /\ Missed(c, k) \in Nat /\ Missed(c, k) > 0
    <3>1. Missed(c, k) = n - rx[c][k]
      BY DEF Missed
    <3>2. QED
      BY <1>2, <2>1, <3>1
  <2>3. f \in Telling /\ f.kind = k /\ f.type = "lag" /\ f.n = Missed(c, k)
    BY <2>2 DEF Telling
  <2>4. rx' = [rx EXCEPT ![c][k] = n] /\ Send(c, f)
    BY <1>12
  <2>5. conn[c] # "send"
    BY <1>4
  <2>6. /\ OthersAgree(c, k)'
        /\ rx'[c][k] = n /\ outbox'[c] = f /\ Waiting(c, k)'
        /\ Shown(c, k)' = Told(v, f) /\ NextNumber(k)' = NextNumber(k)
        /\ \A i : Behind(k, i)' = Behind(k, i)
        /\ Awaited(c, k)' = NextNumber(k) - Behind(k, n)
    <3>1. SendsOfKind(c, k, f, n)
      BY <1>4, <2>3, <2>4, <2>5 DEF SendsOfKind
    <3>2. QED
      BY <3>1, Sent
  <2>7. Behind(k, n) = Behind(k, rx[c][k]) - Missed(c, k) /\ Behind(k, n) >= 1
        /\ Behind(k, n) \in Int
    <3>1. Behind(k, n) = (Len(log[k]) + 1) - n /\ Behind(k, rx[c][k]) = (Len(log[k]) + 1) - rx[c][k]
      BY DEF Behind
    <3>2. ((Len(log[k]) + 1) - rx[c][k]) - (n - rx[c][k]) = (Len(log[k]) + 1) - n
      BY <1>2, <2>1
    <3>3. (Len(log[k]) + 1) - n \in Int /\ (Len(log[k]) + 1) - n >= 1
      BY <1>2, <2>1
    <3>4. QED
      BY <2>2, <3>1, <3>2, <3>3
  <2>8. Awaited(c, k)' = Awaited(c, k) + Missed(c, k)
    BY <1>2, <1>5, <1>8, <2>2, <2>6, <2>7
  <2>9. Awaited(c, k)' < NextNumber(k)
    BY <1>2, <2>6, <2>7
  <2>10. /\ Shown(c, k)'.on = v.on /\ Shown(c, k)'.next = v.next + Missed(c, k)
         /\ Shown(c, k)'.sure = v.sure /\ Shown(c, k)'.last = v.last
    <3>1. /\ Told(v, f).on = v.on /\ Told(v, f).next = v.next + f.n
          /\ Told(v, f).sure = v.sure /\ Told(v, f).last = v.last
      <4>1. v \in Views /\ f \in Telling /\ f.type = "lag"
        BY <1>3, <2>3
      <4>2. QED
        BY <4>1, ToldLag
    <3>2. QED
      BY <2>3, <2>6, <3>1
  <2>11. LogIsComplete(c, k)'
    <3>1. \A i \in n .. Len(log[k]) : i \in rx[c][k] .. Len(log[k])
      BY <1>2, <2>1
    <3>2. \A i \in n .. Len(log[k]) : log[k][i] = NextNumber(k) - Behind(k, i)
      BY <1>9, <3>1
    <3>3. QED
      BY <1>4, <2>6, <3>2 DEF LogIsComplete
  <2>12. ReceiverAgrees(c, k)'
    <3>1. \/ Awaited(c, k)' = v.next + Missed(c, k)
          \/ ~ v.sure /\ Awaited(c, k)' = (v.next + Missed(c, k)) - 1
      <4>1. (v.next - 1) + Missed(c, k) = (v.next + Missed(c, k)) - 1
        <5>1. \A x, m \in Nat : (x - 1) + m = (x + m) - 1
          OBVIOUS
        <5>2. QED
          BY <1>3, <2>2, <5>1
      <4>2. QED
        BY <1>7, <2>8, <4>1
    <3>2. v.last < Awaited(c, k)'
      BY <1>3, <1>7, <1>8, <2>2, <2>8
    <3>3. QED
      BY <1>7, <2>10, <3>1, <3>2 DEF ReceiverAgrees
  <2>13. NothingAhead(c, k)'
    BY <1>2, <1>3, <1>4, <1>7, <1>8, <2>6, <2>10 DEF NothingAhead
  <2>14. v.next + Missed(c, k) <= offered[k] + 1
    <3>1. Awaited(c, k) + Missed(c, k) < NextNumber(k)
      BY <2>8, <2>9
    <3>2. v.next <= Awaited(c, k) + 1
      BY <1>3, <1>7, <1>8
    <3>3. \A a \in Int : \A m, x, o, n1 \in Nat :
            a + m < n1 /\ x <= a + 1 /\ n1 <= o + 1 => x + m <= o + 1
      OBVIOUS
    <3>4. /\ Awaited(c, k) \in Int /\ Missed(c, k) \in Nat /\ v.next \in Nat
          /\ offered[k] \in Nat /\ NextNumber(k) \in Nat /\ NextNumber(k) <= offered[k] + 1
      BY <1>2, <1>3, <1>8, <2>2
    <3>5. QED
      BY <3>1, <3>2, <3>3, <3>4
  <2>15. FrameFits(c, k)'
    BY <1>4, <1>7, <2>2, <2>3, <2>6, <2>14 DEF FrameFits
  <2>16. QED
    BY <2>6, <2>11, <2>12, <2>13, <2>15 DEF Agrees, OthersAgree
<1>13. QED
  BY <1>11, <1>12 DEF Receive

(* The frame is handed over: what is shown comes true. *)
LEMMA FlushKeeps ==
  ASSUME IInv, NEW c \in Clients, Flush(c)
  PROVE  \A d \in Clients, j \in Kinds : Agrees(d, j)'
<1>1. TypeInv /\ TypeOK /\ OneFrame(c)
  BY DEF IInv, TypeInv
<1>2. outbox' = [outbox EXCEPT ![c] = NoFrame] /\ UNCHANGED <<offered, pub, log, rx>>
  BY DEF Flush, publisher
<1>3. outbox'[c] = NoFrame /\ \A d \in Clients : d # c => outbox'[d] = outbox[d]
  BY <1>1, <1>2 DEF TypeOK
<1> SUFFICES ASSUME NEW d \in Clients, NEW j \in Kinds PROVE Agrees(d, j)'
  OBVIOUS
<1>4. Agrees(d, j)
  BY DEF IInv
<1>5. view'[d][j] = IF d = c /\ outbox[c] \in Telling /\ outbox[c].kind = j
                    THEN Told(view[d][j], outbox[c]) ELSE view[d][j]
  BY <1>1, FlushView
<1>6. CASE d # c
  BY <1>2, <1>3, <1>4, <1>5, <1>6, SamePair
<1>7. CASE d = c
  <2>1. ~ Waiting(c, j)'
    BY <1>3, FrameIs DEF Waiting
  <2>2. view'[c][j] = Shown(c, j) /\ Shown(c, j)' = Shown(c, j)
    BY <1>5, <1>7, <2>1 DEF Shown, Waiting
  <2>3. /\ NextNumber(j)' = NextNumber(j) /\ Awaited(c, j)' = Awaited(c, j)
        /\ \A i : Behind(j, i)' = Behind(j, i)
    BY <1>2 DEF NextNumber, Awaited, Behind
  <2>4. LogIsComplete(c, j)'
    BY <1>2, <1>4, <1>7, <2>3 DEF Agrees, LogIsComplete
  <2>5. ReceiverAgrees(c, j)'
    BY <1>2, <1>4, <1>7, <2>2, <2>3 DEF Agrees, ReceiverAgrees
  <2>6. NothingAhead(c, j)'
    BY <1>4, <1>7, <2>2, <2>3 DEF Agrees, NothingAhead
  <2>7. FrameFits(c, j)'
    BY <2>1 DEF FrameFits
  <2>8. QED
    BY <1>7, <2>4, <2>5, <2>6, <2>7 DEF Agrees
<1>8. QED
  BY <1>6, <1>7

LEMMA DisconnectKeeps ==
  ASSUME IInv, NEW c \in Clients, Disconnect(c)
  PROVE  \A d \in Clients, j \in Kinds : Agrees(d, j)'
<1>1. TypeInv /\ TypeOK
  BY DEF IInv, TypeInv
<1>2. UNCHANGED <<offered, pub, log, view>>
  BY DEF Disconnect, publisher
<1> SUFFICES ASSUME NEW d \in Clients, NEW j \in Kinds PROVE Agrees(d, j)'
  OBVIOUS
<1>3. Agrees(d, j)
  BY DEF IInv
<1>4. /\ rx'[d][j] = IF d = c THEN 0 ELSE rx[d][j]
      /\ outbox'[d] = IF d = c THEN NoFrame ELSE outbox[d]
  BY <1>1, DisconnectMoves
<1>5. CASE d # c
  BY <1>2, <1>3, <1>4, <1>5, SamePair
<1>6. CASE d = c
  <2>1. rx'[d][j] = 0 /\ ~ Waiting(d, j)'
    BY <1>4, <1>6, FrameIs DEF Waiting
  <2>2. Shown(d, j)' = view[d][j] /\ NextNumber(j)' = NextNumber(j)
    BY <1>2, <2>1 DEF Shown, NextNumber
  <2>3. NothingAhead(d, j)'
    BY <1>2, <1>3, <2>2 DEF Agrees, NothingAhead
  <2>4. QED
    BY <2>1, <2>3 DEF Agrees, LogIsComplete, ReceiverAgrees, FrameFits
<1>7. QED
  BY <1>5, <1>6

(* Every step of the server keeps the invariant. *)
LEMMA NextKeeps ==
  ASSUME WsAssumption, IInv, [Next]_vars
  PROVE  IInv'
<1>1. TypeInv /\ TypeOK
  BY DEF IInv, TypeInv
<1>2. TypeInv'
  BY <1>1, NextType
<1>3. ASSUME NEW k \in Kinds, Publish(k) PROVE IInv'
  BY <1>2, <1>3, PublishCheckKeeps, PublishSendKeeps DEF Publish
<1>4. ASSUME UNCHANGED <<offered, pub, log, rx, outbox, view>> PROVE IInv'
  <2>1. ASSUME NEW c \in Clients, NEW k \in Kinds PROVE Agrees(c, k)'
    BY <1>4, SamePair DEF IInv
  <2>2. QED
    BY <1>2, <2>1 DEF IInv
<1>5. CASE AcceptFails \/ UNCHANGED vars
  BY <1>4, <1>5 DEF AcceptFails, vars, publisher, connection
<1>6. ASSUME NEW c \in Clients, Accept(c) \/ ClientAsks(c) PROVE IInv'
  BY <1>4, <1>6 DEF Accept, ClientAsks, publisher
<1>7. ASSUME NEW c \in Clients, HelloSubscribe(c) PROVE IInv'
  <2>1. PICK k \in Kinds : Subscribe(c, k)
    BY <1>1, <1>7 DEF HelloSubscribe, TypeOK
  <2>2. conn[c] # "send" /\ UNCHANGED <<offered, pub, log, view>>
    BY <1>7 DEF HelloSubscribe, publisher
  <2>3. \A d \in Clients, j \in Kinds : Agrees(d, j)'
    BY <2>1, <2>2, SubscribeKeeps
  <2>4. QED
    BY <1>2, <2>3 DEF IInv
<1>8. ASSUME NEW c \in Clients, HandleRequest(c) PROVE IInv'
  <2>1. conn[c] # "send" /\ UNCHANGED <<offered, pub, log, view>>
    BY <1>8 DEF HandleRequest, publisher
  <2>2. \/ \E k \in Kinds : Subscribe(c, k) \/ Unsubscribe(c, k)
        \/ Send(c, [type |-> "answer"]) /\ UNCHANGED rx
    BY <1>1, <1>8, RequestType DEF HandleRequest
  <2>3. \A d \in Clients, j \in Kinds : Agrees(d, j)'
    BY <2>1, <2>2, SubscribeKeeps, UnsubscribeKeeps, AnswerKeeps
  <2>4. QED
    BY <1>2, <2>3 DEF IInv
<1>9. ASSUME NEW c \in Clients, NEW k \in Kinds, Receive(c, k) PROVE IInv'
  BY <1>2, <1>9, ReceiveKeeps DEF IInv
<1>10. ASSUME NEW c \in Clients, Flush(c) PROVE IInv'
  BY <1>2, <1>10, FlushKeeps DEF IInv
<1>11. ASSUME NEW c \in Clients, Disconnect(c) PROVE IInv'
  BY <1>2, <1>11, DisconnectKeeps DEF IInv
<1>12. QED
  BY <1>3, <1>5, <1>6, <1>7, <1>8, <1>9, <1>10, <1>11 DEF Next, Serve

(* Every reachable state of the server satisfies the invariant. *)
LEMMA Invariance == WsAssumption /\ Spec => []IInv
<1> SUFFICES ASSUME WsAssumption PROVE Spec => []IInv
  OBVIOUS
<1>1. Init => IInv
  BY InitHolds
<1>2. IInv /\ [Next]_vars => IInv'
  BY NextKeeps
<1>3. QED
  BY <1>1, <1>2, PTL DEF Spec

(* The state of the server is well typed, whatever clients connect, ask    *)
(* for and leave unread.                                                   *)
THEOREM WsTypeCorrect ==
  ASSUME WsAssumption
  PROVE  Spec => []TypeOK
<1>1. Spec => []IInv
  BY Invariance
<1>2. IInv => TypeOK
  BY DEF IInv, TypeInv
<1>3. QED
  BY <1>1, <1>2, PTL

-----------------------------------------------------------------------------
(* The server implements Subscription for every client and kind. *)

PromiseStep(c, k) == [Promise(c, k)!Next]_<<offered[k], view[c][k]>>

LEMMA PromiseInit ==
  ASSUME Init, NEW c \in Clients, NEW k \in Kinds
  PROVE  Promise(c, k)!Init
<1>1. offered[k] = 0 /\ view[c][k] = None
  BY DEF Init, Off
<1>2. QED
  BY <1>1 DEF Promise!Init, None

(* A frame of kind k is handed over to c. *)
LEMMA FlushImplements ==
  ASSUME IInv, NEW c \in Clients, NEW k \in Kinds, Flush(c)
  PROVE  PromiseStep(c, k)
<1>1. TypeInv /\ TypeOK /\ OneFrame(c) /\ FrameFits(c, k)
  BY DEF IInv, TypeInv, Agrees
<1>2. offered'[k] = offered[k] /\ offered[k] \in Nat
  BY <1>1 DEF Flush, publisher, TypeOK
<1>3. view'[c][k] = IF outbox[c] \in Telling /\ outbox[c].kind = k
                    THEN Told(view[c][k], outbox[c]) ELSE view[c][k]
  BY <1>1, FlushView
<1>4. CASE ~ Waiting(c, k)
  BY <1>2, <1>3, <1>4 DEF Waiting, PromiseStep
<1>5. CASE Waiting(c, k)
  <2> PICK v : v = view[c][k]
    OBVIOUS
  <2> PICK f : f = outbox[c]
    OBVIOUS
  <2> PICK w : w = view'[c][k]
    OBVIOUS
  <2>1. v \in Views /\ f \in Telling
    BY <1>1, <1>5, PairTypes DEF Waiting
  <2> w = Told(v, f)
    BY <1>3, <1>5 DEF Waiting
  <2>2. f.type \in {"ack", "unack", "data", "lag"} /\ f.n \in Nat
    BY <2>1, FrameIs
  <2>3. v.next \in Nat /\ v.last \in Nat /\ v.heard \in Nat
    BY <2>1 DEF Views
  <2>4. CASE f.type = "ack"
    <3>1. /\ w.on = TRUE /\ w.next = f.n + 1 /\ w.sure = FALSE
          /\ w.last = v.last /\ w.heard = v.heard
      <4>1. /\ Told(v, f).on = TRUE /\ Told(v, f).next = f.n + 1 /\ Told(v, f).sure = FALSE
            /\ Told(v, f).last = v.last /\ Told(v, f).heard = v.heard
        BY <2>1, <2>4, ToldAck
      <4>2. QED
        BY <4>1
    <3>2. v.last <= f.n /\ f.n <= offered[k]
      BY <1>1, <1>5, <2>4 DEF FrameFits
    <3>3. w.next \in v.last + 1 .. offered[k] + 1
      BY <1>2, <2>2, <2>3, <3>1, <3>2
    <3>4. Promise(c, k)!Begin
      BY <1>2, <3>1, <3>3 DEF Promise!Begin
    <3>5. QED
      BY <3>4 DEF PromiseStep, Promise!Next
  <2>5. CASE f.type = "data"
    <3>1. /\ w.on = v.on /\ w.next = f.n + 1 /\ w.sure = TRUE
          /\ w.last = f.n /\ w.heard = v.heard + 1
      <4>1. /\ Told(v, f).on = v.on /\ Told(v, f).next = f.n + 1 /\ Told(v, f).sure = TRUE
            /\ Told(v, f).last = f.n /\ Told(v, f).heard = v.heard + 1
        BY <2>1, <2>5, ToldData
      <4>2. QED
        BY <4>1
    <3>2. /\ v.on /\ v.last < f.n /\ f.n <= offered[k]
          /\ f.n = v.next \/ (~ v.sure /\ f.n = v.next - 1)
      BY <1>1, <1>5, <2>5 DEF FrameFits
    <3>3. f.n \in {v.next} \union (IF v.sure THEN {} ELSE {v.next - 1}) /\ f.n > v.last
      BY <2>2, <2>3, <3>2
    <3>4. Promise(c, k)!Deliver
      BY <1>2, <3>1, <3>2, <3>3 DEF Promise!Deliver
    <3>5. QED
      BY <3>4 DEF PromiseStep, Promise!Next
  <2>6. CASE f.type = "lag"
    <3>1. /\ w.on = v.on /\ w.next = v.next + f.n /\ w.sure = v.sure
          /\ w.last = v.last /\ w.heard = v.heard
      <4>1. /\ Told(v, f).on = v.on /\ Told(v, f).next = v.next + f.n /\ Told(v, f).sure = v.sure
            /\ Told(v, f).last = v.last /\ Told(v, f).heard = v.heard
        BY <2>1, <2>6, ToldLag
      <4>2. QED
        BY <4>1
    <3>2. v.on /\ 0 < f.n /\ v.next + f.n <= offered[k] + 1
      BY <1>1, <1>5, <2>6 DEF FrameFits
    <3>3. w.next \in v.next + 1 .. offered[k] + 1
      BY <1>2, <2>2, <2>3, <3>1, <3>2
    <3>4. Promise(c, k)!Miss
      BY <1>2, <3>1, <3>2, <3>3 DEF Promise!Miss
    <3>5. QED
      BY <3>4 DEF PromiseStep, Promise!Next
  <2>7. CASE f.type = "unack"
    <3>1. /\ w.on = FALSE /\ w.next = v.next /\ w.sure = v.sure
          /\ w.last = v.last /\ w.heard = v.heard
      <4>1. /\ Told(v, f).on = FALSE /\ Told(v, f).next = v.next /\ Told(v, f).sure = v.sure
            /\ Told(v, f).last = v.last /\ Told(v, f).heard = v.heard
        BY <2>1, <2>7, ToldUnack
      <4>2. QED
        BY <4>1
    <3>2. Promise(c, k)!End
      BY <1>2, <3>1 DEF Promise!End
    <3>3. QED
      BY <3>2 DEF PromiseStep, Promise!Next
  <2>8. QED
    BY <2>2, <2>4, <2>5, <2>6, <2>7
<1>6. QED
  BY <1>4, <1>5

(* A step of the server is one of the client's subscription, or none. *)
LEMMA NextImplements ==
  ASSUME IInv, [Next]_vars, NEW c \in Clients, NEW k \in Kinds
  PROVE  PromiseStep(c, k)
<1>1. TypeInv /\ TypeOK
  BY DEF IInv, TypeInv
<1>2. ASSUME NEW j \in Kinds, PublishCheck(j) PROVE PromiseStep(c, k)
  <2>1. view'[c][k] = view[c][k]
    BY <1>2 DEF PublishCheck, connection
  <2>2. CASE j = k
    <3>1. offered'[k] = offered[k] + 1
      BY <1>1, <1>2, <2>2 DEF PublishCheck, TypeOK
    <3>2. Promise(c, k)!Offer
      BY <2>1, <3>1 DEF Promise!Offer
    <3>3. QED
      BY <3>2 DEF PromiseStep, Promise!Next
  <2>3. CASE j # k
    <3>1. offered'[k] = offered[k]
      BY <1>1, <1>2, <2>3 DEF PublishCheck, TypeOK
    <3>2. QED
      BY <2>1, <3>1 DEF PromiseStep
  <2>4. QED
    BY <2>2, <2>3
<1>3. ASSUME UNCHANGED <<offered, view>> PROVE PromiseStep(c, k)
  BY <1>3 DEF PromiseStep
<1>4. ASSUME NEW j \in Kinds, PublishSend(j) PROVE PromiseStep(c, k)
  BY <1>3, <1>4 DEF PublishSend, connection
<1>5. CASE AcceptFails \/ UNCHANGED vars
  BY <1>3, <1>5 DEF AcceptFails, vars, publisher, connection
<1>6. ASSUME NEW d \in Clients, Accept(d) \/ ClientAsks(d) \/ Disconnect(d) PROVE PromiseStep(c, k)
  BY <1>3, <1>6 DEF Accept, ClientAsks, Disconnect, publisher
<1>7. ASSUME NEW d \in Clients, Serve(d) PROVE PromiseStep(c, k)
  BY <1>3, <1>7 DEF Serve, HelloSubscribe, HandleRequest, Receive, publisher
<1>8. ASSUME NEW d \in Clients, Flush(d) PROVE PromiseStep(c, k)
  <2>1. CASE d = c
    BY <1>8, <2>1, FlushImplements
  <2>2. CASE d # c
    <3>1. offered' = offered /\ view'[c][k] = view[c][k]
      BY <1>1, <1>8, <2>2, FlushView DEF Flush, publisher, TypeInv
    <3>2. QED
      BY <3>1 DEF PromiseStep
  <2>3. QED
    BY <2>1, <2>2
<1>9. QED
  BY <1>2, <1>4, <1>5, <1>6, <1>7, <1>8 DEF Next, Publish

(* README: clients that fall behind are told and skip ahead.  Every client *)
(* has for every kind what Subscription promises: each message once and in *)
(* order from the answer to its subscribe on, or a report that counts it   *)
(* as missed, at any capacity and however the tasks interleave.            *)
THEOREM ServerImplementsSubscription ==
  ASSUME WsAssumption
  PROVE  Spec => ImplementsSubscription
<1>1. Init => \A c \in Clients, k \in Kinds : Promise(c, k)!Init
  BY PromiseInit
<1>2. IInv /\ [Next]_vars =>
        [\A c \in Clients, k \in Kinds :
          [Promise(c, k)!Next]_<<offered[k], view[c][k]>>]_vars
  BY NextImplements DEF PromiseStep
<1>3. Spec => []IInv
  BY Invariance
<1>4. QED
  BY <1>1, <1>2, <1>3, PTL DEF Spec, ImplementsSubscription
=============================================================================
