------------------------------ MODULE WsServer ------------------------------
(***************************************************************************)
(* The websocket server (src/src/websocket/server.rs): streams publish     *)
(* messages of a kind on a broadcast channel of limited capacity, and one  *)
(* task per connection serves the requests of its client and forwards the  *)
(* messages of the kinds it subscribed to.                                 *)
(*                                                                         *)
(* A publisher never waits for a client.  A receiver that falls more than  *)
(* Capacity messages behind skips ahead and its client is told by how many *)
(* messages.  Messages of a kind are numbered in the order of publication. *)
(* Batches without rows are not published and have no number.              *)
(***************************************************************************)
EXTENDS Integers, Sequences

CONSTANTS
  Clients,      \* the clients that connect
  Kinds,        \* the SubscriptionKinds, one stream publishes each
  Queries,      \* query strings of a connection: sequences of values
  Capacity,     \* CHANNEL_CAPACITY (4096 in the code)
  MaxItems,     \* MaxItems[k]: messages published of kind k (bound)
  MaxRequests   \* MaxRequests[c]: requests of client c (bound)

ASSUME WsAssumption ==
  /\ Queries \subseteq Seq(Kinds \union {"other"})
  /\ Capacity \in Nat \ {0}
  /\ MaxItems \in [Kinds -> Nat] /\ MaxRequests \in [Clients -> Nat]

VARIABLES
  offered,      \* offered[k]: messages for which send() was called
  pub,          \* pub[k]: "send" between the receiver check and tx.send
  log,          \* log[k]: the messages the channel of k has accepted
  listening,    \* the accept loop runs
  conn,         \* conn[c]: "none", "hello", "select", "send", "closed"
  hello,        \* hello[c]: query subscriptions still to be made, with their places
  rx,           \* rx[c][k]: index in log[k] read next, 0 without receiver
  requests,     \* requests[c]: requests the client sent, not yet read
  asked,        \* asked[c]: how many requests the client sent
  outbox,       \* outbox[c]: the frame that sink.send waits to hand over
  view          \* view[c][k]: what c has received of kind k (history)

publisher  == <<offered, pub, log>>
connection == <<conn, hello, rx, requests, asked, outbox, view>>
vars       == <<publisher, listening, connection>>

(* A ping, a protocol ping and an invalid request are "other": answered by *)
(* a frame that is of no kind.                                             *)
Request == [method : {"subscribe", "unsubscribe"}, kind : Kinds] \union [method : {"other"}]
Frame   == [type : {"ack", "unack", "data", "lag"}, kind : Kinds, n : Nat]
             \union [type : {"answer"}]
NoFrame == [type |-> "none"]

TypeOK ==
  /\ offered \in [Kinds -> Nat] /\ \A k \in Kinds : offered[k] <= MaxItems[k]
  /\ pub \in [Kinds -> {"idle", "send"}]
  /\ log \in [Kinds -> Seq(Nat)]
  /\ listening \in BOOLEAN
  /\ conn \in [Clients -> {"none", "hello", "select", "send", "closed"}]
  /\ hello \in [Clients -> SUBSET (Nat \X Kinds)]
  /\ rx \in [Clients -> [Kinds -> Nat]]
  /\ \A c \in Clients, k \in Kinds : rx[c][k] <= Len(log[k]) + 1
  /\ requests \in [Clients -> Seq(Request)]
  /\ asked \in [Clients -> Nat] /\ \A c \in Clients : asked[c] <= MaxRequests[c]
  /\ outbox \in [Clients -> Frame \union {NoFrame}]
  /\ view \in [Clients -> [Kinds -> [on : BOOLEAN, next : Nat, sure : BOOLEAN,
                                     last : Nat, heard : Nat]]]

Off  == [k \in Kinds |-> 0]
None == [on |-> FALSE, next |-> 1, sure |-> FALSE, last |-> 0, heard |-> 0]

Init ==
  /\ offered = Off /\ pub = [k \in Kinds |-> "idle"] /\ log = [k \in Kinds |-> << >>]
  /\ listening = TRUE
  /\ conn = [c \in Clients |-> "none"] /\ hello = [c \in Clients |-> {}]
  /\ rx = [c \in Clients |-> Off]
  /\ requests = [c \in Clients |-> << >>] /\ asked = [c \in Clients |-> 0]
  /\ outbox = [c \in Clients |-> NoFrame] 
  /\ view = [c \in Clients |-> [k \in Kinds |-> None]]

-----------------------------------------------------------------------------
(* Publishing: WsServer::send, called from Stream::write. *)

HasReceiver(k) == \E c \in Clients : rx[c][k] # 0

(* receiver_count() = 0: the message is not even formatted. *)
PublishCheck(k) ==
  /\ pub[k] = "idle" /\ offered[k] < MaxItems[k]
  /\ offered' = [offered EXCEPT ![k] = @ + 1]
  /\ pub' = [pub EXCEPT ![k] = IF HasReceiver(k) THEN "send" ELSE "idle"]
  /\ UNCHANGED <<log, listening, connection>>

(* Not the code: a bounded queue that waits for the slowest receiver. *)
PublishSend_Waits(k) ==
  /\ pub[k] = "send"
  /\ \A c \in Clients : rx[c][k] # 0 => Len(log[k]) - rx[c][k] + 1 < Capacity
  /\ pub' = [pub EXCEPT ![k] = "idle"]
  /\ log' = [log EXCEPT ![k] = IF HasReceiver(k) THEN Append(@, offered[k]) ELSE @]
  /\ UNCHANGED <<offered, listening, connection>>

(* tx.send, whose error (the last receiver left meanwhile) is ignored. *)
PublishSend(k) ==
  /\ pub[k] = "send"
  /\ pub' = [pub EXCEPT ![k] = "idle"]
  /\ log' = [log EXCEPT ![k] = IF HasReceiver(k) THEN Append(@, offered[k]) ELSE @]
  /\ UNCHANGED <<offered, listening, connection>>

-----------------------------------------------------------------------------
(* Connections: run and handle_connection. *)

(* subscriptions_from_query: each known value once, at its first place. *)
SubscriptionsFromQuery(query) ==
  LET first == {i \in DOMAIN query : \A j \in 1 .. i - 1 : query[j] # query[i]}
  IN  {<<i, query[i]>> : i \in {i \in first : query[i] \in Kinds}}

(* A connection is accepted with the kinds its query names. *)
Accept(c) ==
  /\ listening /\ conn[c] = "none"
  /\ hello' \in {[hello EXCEPT ![c] = SubscriptionsFromQuery(q)] : q \in Queries}
  /\ conn' = [conn EXCEPT ![c] = IF hello'[c] = {} THEN "select" ELSE "hello"]
  /\ UNCHANGED <<publisher, listening, rx, requests, asked, outbox, view>>

(* accept() fails: the server task ends, and with it the listener only. *)
AcceptFails ==
  /\ listening /\ listening' = FALSE
  /\ UNCHANGED <<publisher, connection>>

(* sink.send(frame).await *)
Send(c, frame) ==
  /\ outbox' = [outbox EXCEPT ![c] = frame]
  /\ conn' = [conn EXCEPT ![c] = "send"]

(* Oldest message of k that the channel still holds. *)
Oldest(k) == IF Len(log[k]) > Capacity THEN Len(log[k]) - Capacity + 1 ELSE 1

(* Not the code: the receiver begins with the backlog, or one too late. *)
Subscribe_Backlog(c, k) ==
  /\ rx' = [rx EXCEPT ![c][k] = Oldest(k)]
  /\ Send(c, [type |-> "ack", kind |-> k, n |-> offered[k]])

Subscribe_Late(c, k) ==
  /\ rx' = [rx EXCEPT ![c][k] = Len(log[k]) + 2]
  /\ Send(c, [type |-> "ack", kind |-> k, n |-> offered[k]])

(* A new receiver sees what is sent from now on; one that was there is     *)
(* dropped with its backlog.  The ack carries, for the properties only,    *)
(* how many messages had been offered.                                     *)
Subscribe(c, k) ==
  /\ rx' = [rx EXCEPT ![c][k] = Len(log[k]) + 1]
  /\ Send(c, [type |-> "ack", kind |-> k, n |-> offered[k]])

(* Not the code: unsubscribe answers and keeps the receiver. *)
Unsubscribe_KeepRx(c, k) ==
  UNCHANGED rx /\ Send(c, [type |-> "unack", kind |-> k, n |-> 0])

Unsubscribe(c, k) ==
  /\ rx' = [rx EXCEPT ![c][k] = 0]
  /\ Send(c, [type |-> "unack", kind |-> k, n |-> 0])

(* Subscriptions of the query string, one after the other. *)
HelloSubscribe(c) ==
  /\ conn[c] = "hello"
  /\ \E s \in hello[c] :
       /\ \A r \in hello[c] : s[1] <= r[1]
       /\ Subscribe(c, s[2])
       /\ hello' = [hello EXCEPT ![c] = @ \ {s}]
  /\ UNCHANGED <<publisher, listening, requests, asked, view>>

(* The select: a request of the client. *)
HandleRequest(c) ==
  /\ conn[c] = "select" /\ requests[c] # << >>
  /\ requests' = [requests EXCEPT ![c] = Tail(@)]
  /\ LET r == Head(requests[c]) IN
       \/ r.method = "subscribe" /\ Subscribe(c, r.kind)
       \/ r.method = "unsubscribe" /\ Unsubscribe(c, r.kind)
       \/ r.method = "other" /\ Send(c, [type |-> "answer"]) /\ UNCHANGED rx
  /\ UNCHANGED <<publisher, listening, hello, asked, view>>

(* Not the code: the last message waits for a next one; a lag is reported  *)
(* with one message too few.                                               *)
Ready_OneBehind(c, k) == rx[c][k] # 0 /\ rx[c][k] < Len(log[k])
Missed_OneLess(c, k)  == Oldest(k) - rx[c][k] - 1

(* rx.recv() has something to say. *)
Ready(c, k) == rx[c][k] # 0 /\ rx[c][k] <= Len(log[k])

(* Messages that were overwritten before the receiver came to them. *)
Missed(c, k) == Oldest(k) - rx[c][k]

(* The select: rx.recv() yields the next message, or Lagged(n) and the     *)
(* receiver stands at the oldest message.                                  *)
Receive(c, k) ==
  /\ conn[c] = "select" /\ Ready(c, k)
  /\ \/ /\ rx[c][k] >= Oldest(k)
        /\ Send(c, [type |-> "data", kind |-> k, n |-> log[k][rx[c][k]]])
        /\ rx' = [rx EXCEPT ![c][k] = @ + 1]
     \/ /\ rx[c][k] < Oldest(k)
        /\ Send(c, [type |-> "lag", kind |-> k, n |-> Missed(c, k)])
        /\ rx' = [rx EXCEPT ![c][k] = Oldest(k)]
  /\ UNCHANGED <<publisher, listening, hello, requests, asked, view>>

(* What a frame of kind k tells the client. *)
Told(v, f) ==
  CASE f.type = "ack"   -> [v EXCEPT !.on = TRUE, !.next = f.n + 1, !.sure = FALSE]
    [] f.type = "data"  -> [v EXCEPT !.next = f.n + 1, !.sure = TRUE, !.last = f.n, !.heard = @ + 1]
    [] f.type = "lag"   -> [v EXCEPT !.next = @ + f.n]
    [] f.type = "unack" -> [v EXCEPT !.on = FALSE]

(* The frame is handed over, as soon as the client reads. *)
Flush(c) ==
  /\ conn[c] = "send"
  /\ LET f == outbox[c] IN
       view' = IF f.type = "answer" THEN view
               ELSE [view EXCEPT ![c][f.kind] = Told(@, f)]
  /\ outbox' = [outbox EXCEPT ![c] = NoFrame]
  /\ conn' = [conn EXCEPT ![c] = IF hello[c] = {} THEN "select" ELSE "hello"]
  /\ UNCHANGED <<publisher, listening, hello, rx, requests, asked>>

(* Close frame, end of the socket or an error: the task ends and drops its *)
(* receivers, with whatever it was sending.                                *)
Disconnect(c) ==
  /\ conn[c] \notin {"none", "closed"}
  /\ conn' = [conn EXCEPT ![c] = "closed"]
  /\ rx' = [rx EXCEPT ![c] = Off]
  /\ outbox' = [outbox EXCEPT ![c] = NoFrame]
  /\ UNCHANGED <<publisher, listening, hello, requests, asked, view>>

(* The client sends a request, at any time. *)
ClientAsks(c) ==
  /\ conn[c] \notin {"none", "closed"} /\ asked[c] < MaxRequests[c]
  /\ \E r \in Request : requests' = [requests EXCEPT ![c] = Append(@, r)]
  /\ asked' = [asked EXCEPT ![c] = @ + 1]
  /\ UNCHANGED <<publisher, listening, conn, hello, rx, outbox, view>>

-----------------------------------------------------------------------------
Publish(k)    == PublishCheck(k) \/ PublishSend(k)
Serve(c)      == HelloSubscribe(c) \/ HandleRequest(c) \/ \E k \in Kinds : Receive(c, k)

Next ==
  \/ \E k \in Kinds : Publish(k)
  \/ AcceptFails
  \/ \E c \in Clients : Accept(c) \/ Serve(c) \/ Flush(c) \/ Disconnect(c) \/ ClientAsks(c)

(* Streams and connection tasks run; a client reads or does not.           *)
PublisherFairness == \A k \in Kinds : WF_vars(Publish(k))
ReaderFairness    == \A c \in Clients : WF_vars(Serve(c)) /\ WF_vars(Flush(c))

Spec     == Init /\ [][Next]_vars
SlowSpec == Spec /\ PublisherFairness

-----------------------------------------------------------------------------
(* README: "Slow consumers that fall behind the 4096-message buffer        *)
(* receive an error message and skip ahead".  Every client has, for every  *)
(* kind, what Subscription promises: messages and reports only between the *)
(* answers to its requests, although the receiver exists before the answer *)
(* is sent; nothing from before; no gap that the reports do not count,     *)
(* none counted that is not there, no message twice, however publishing,   *)
(* lagging, other kinds and other clients interleave.                      *)
Promise(c, k) ==
  INSTANCE Subscription WITH
    offered <- offered[k], on <- view[c][k].on, next <- view[c][k].next,
    sure <- view[c][k].sure, last <- view[c][k].last, heard <- view[c][k].heard

ImplementsSubscription ==
  /\ \A c \in Clients, k \in Kinds : Promise(c, k)!Init
  /\ [][\A c \in Clients, k \in Kinds :
          [Promise(c, k)!Next]_<<offered[k], view[c][k]>>]_vars

(* README: "rather than stalling ingestion".  The streams publish all they *)
(* have, even if no client ever reads a frame.                             *)
IngestionNeverStalls == <>(\A k \in Kinds : offered[k] = MaxItems[k] /\ pub[k] = "idle")

(* Clients that read catch up with what they subscribed to, or leave. *)
ReadersCatchUp ==
  ReaderFairness => <>[](\A c \in Clients, k \in Kinds :
    rx[c][k] # 0 => rx[c][k] = Len(log[k]) + 1 /\ outbox[c] = NoFrame)
=============================================================================
