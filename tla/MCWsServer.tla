----------------------------- MODULE MCWsServer -----------------------------
(* Values for TLC: two clients, one of which makes a request besides its   *)
(* query; queries with a kind twice and an unknown value, or with nothing. *)
EXTENDS WsServer

CONSTANTS c1, c2

MCClients     == {c1, c2}
MCKinds       == {"blocks", "nodeFills"}
MCQueries     == {<< >>, <<"blocks", "other", "blocks">>, <<"nodeFills">>}
MCMaxItems    == [k \in MCKinds |-> IF k = "blocks" THEN 3 ELSE 1]
MCMaxRequests == [c \in MCClients |-> IF c = c1 THEN 1 ELSE 0]

=============================================================================
