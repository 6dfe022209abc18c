---------------------------- MODULE Subscription ----------------------------
(***************************************************************************)
(* What one client of the websocket server may rely on for one kind of     *)
(* messages, without channel, capacity, tasks or sockets.  Messages are    *)
(* numbered as the streams offer them.  From the answer to a subscribe     *)
(* to the answer to an unsubscribe the client hears of every message, in   *)
(* order: it gets the message or a report that counts it as missed.  No    *)
(* message comes twice, over all its subscriptions.  The message that was  *)
(* being published when the subscription began may come or not.            *)
(***************************************************************************)
EXTENDS Integers

VARIABLES
  offered,   \* messages the streams have offered
  on,        \* the client has the answer to its subscribe
  next,      \* the message it has to hear of next
  sure,      \* FALSE: that may still be the one before it
  last,      \* the last message it got, 0 for none
  heard      \* how many messages it got

Init == offered = 0 /\ on = FALSE /\ next = 1 /\ sure = FALSE /\ last = 0 /\ heard = 0

Offer ==
  /\ offered' = offered + 1
  /\ UNCHANGED <<on, next, sure, last, heard>>

(* The answer to a subscribe: nothing that was heard comes again. *)
Begin ==
  /\ on' = TRUE /\ sure' = FALSE
  /\ next' \in last + 1 .. offered + 1
  /\ UNCHANGED <<offered, last, heard>>

Deliver ==
  /\ on
  /\ \E m \in {next} \union (IF sure THEN {} ELSE {next - 1}) :
       /\ m > last /\ m <= offered
       /\ last' = m /\ next' = m + 1
  /\ sure' = TRUE /\ heard' = heard + 1
  /\ UNCHANGED <<offered, on>>

(* A report of n missed messages. *)
Miss ==
  /\ on /\ next' \in next + 1 .. offered + 1
  /\ UNCHANGED <<offered, on, sure, last, heard>>

End ==
  /\ on' = FALSE
  /\ UNCHANGED <<offered, next, sure, last, heard>>

Next == Offer \/ Begin \/ Deliver \/ Miss \/ End

Spec == Init /\ [][Next]_<<offered, on, next, sure, last, heard>>
=============================================================================
