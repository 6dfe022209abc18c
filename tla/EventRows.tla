------------------------------ MODULE EventRows ------------------------------
(***************************************************************************)
(* How the lines of the event streams become rows: node_fills,             *)
(* misc_events, node_twap_statuses, system_and_core_writer_actions and     *)
(* hip3_oracle_updates (the parse functions of src/src/streams).  A line   *)
(* is a record of events of one block; the node may write several records  *)
(* of a block, at different times.  Here the records of one block are      *)
(* parsed in turn.                                                         *)
(*                                                                         *)
(* All fields of an event that may fail to parse are one BOOLEAN `ok'; for *)
(* a misc event it includes that `inner' has one key, for a system action  *)
(* that `type' is a string.  `own' is what the event itself adds to the    *)
(* ORDER BY key of its row: tid, user, hash and oid of a fill, type, time  *)
(* and payload of a misc event (not its hash), time and twap_id of a       *)
(* status, nonce and transaction hash of a system action.                  *)
(***************************************************************************)
EXTENDS Integers, Sequences, FiniteSets, SequencesExt

CONSTANTS
  Own,          \* what events may differ in
  MaxRecords,   \* records of a block (bound)
  MaxEvents,    \* events of a record (bound)
  Hip3Records   \* what the records of a block may be in hip3_oracle_updates

BadPx == 0   \* a price that does not parse, or whose time or daily price does not

Entry == [coin : STRING, px : Nat]

(* A HIP-3 update: coin_to_oracle_px and the lists it is joined with. *)
Hip3Update == [oracle : Seq(Entry), mark : Seq(Entry), external : Seq(Entry), spot : Seq(Entry)]

ASSUME EventsAssumption ==
  /\ MaxRecords \in Nat /\ MaxEvents \in Nat
  /\ Hip3Records \subseteq Seq([header_ok : BOOLEAN, events : Seq(Hip3Update)])

VARIABLES
  stream,       \* which of the streams the records belong to
  records,      \* the lines: [header_ok, events]
  record, event_index,   \* the record being parsed and its events done
  rows,         \* rows of that record so far
  written       \* written[n]: the rows of record n, << >> if it was rejected

eventVars == <<stream, records, record, event_index, rows, written>>

IndexedStreams == {"misc_events", "node_twap_statuses", "system_and_core_writer_actions"}

Event  == [ok : BOOLEAN, own : Own]
Record == [header_ok : BOOLEAN, events : BoundedSeq(Event, MaxEvents)]

EventsInit ==
  /\ \/ /\ stream \in IndexedStreams \union {"node_fills"}
        /\ records \in BoundedSeq(Record, MaxRecords)
     \/ /\ stream = "hip3_oracle_updates"
        /\ records \in Hip3Records
  /\ record = 1 /\ event_index = 0 /\ rows = << >> /\ written = << >>

-----------------------------------------------------------------------------
Current == records[record]

(* The record is done: its rows are handed on, or dropped with an error. *)
FinishRecord(result) ==
  /\ written' = Append(written, result)
  /\ record' = record + 1 /\ event_index' = 0 /\ rows' = << >>
  /\ UNCHANGED <<stream, records>>

(* Not the code: the identity leaves out the time the node wrote the record. *)
EventId_NoLocalTime(n, i, own) == <<"id", i, own>>

(* event_id: a hash over block number, local_time, event index, and the    *)
(* event's own fields.  The n stands for the local_time of record n: the   *)
(* node writes the records of a block at different times.                  *)
EventId(n, i, own) == <<"id", n, i, own>>

(* The row's ORDER BY key. *)
RowKey(own) ==
  CASE stream = "misc_events" -> EventId(record, event_index, own)
    [] stream = "node_fills"  -> <<own>>
    [] OTHER                  -> <<own, event_index>>

(* One event of the four simple streams: one row, or the end of the record. *)
ParseEvent ==
  /\ stream # "hip3_oracle_updates" /\ record <= Len(records)
  /\ Current.header_ok /\ event_index < Len(Current.events)
  /\ LET e == Current.events[event_index + 1] IN
       \/ ~e.ok /\ FinishRecord(<< >>)
       \/ /\ e.ok
          /\ rows' = Append(rows, [key |-> RowKey(e.own), own |-> e.own])
          /\ event_index' = event_index + 1
          /\ UNCHANGED <<stream, records, record, written>>

(* A list of entries collected into a HashMap: the last entry of a coin.   *)
PxOf(list, coin) == list[CHOOSE i \in DOMAIN list :
                           /\ list[i].coin = coin
                           /\ \A j \in DOMAIN list : list[j].coin = coin => j <= i].px

Listed(list, coin) == \E i \in DOMAIN list : list[i].coin = coin

(* Not the code: a missing spot price is the oracle price of the first asset. *)
SpotPx_First(e, entry) ==
  IF Listed(e.spot, entry.coin) THEN PxOf(e.spot, entry.coin) ELSE e.oracle[1].px

SpotPx(e, entry) == IF Listed(e.spot, entry.coin) THEN PxOf(e.spot, entry.coin) ELSE entry.px

(* Mark and external price must be there, and the four prices parse. *)
Joins(e, entry) ==
  /\ Listed(e.mark, entry.coin) /\ PxOf(e.mark, entry.coin) # BadPx
  /\ Listed(e.external, entry.coin) /\ PxOf(e.external, entry.coin) # BadPx
  /\ entry.px # BadPx /\ SpotPx(e, entry) # BadPx

Hip3Row(e, entry) ==
  [coin |-> entry.coin, oracle_px |-> entry.px, mark_px |-> PxOf(e.mark, entry.coin),
   external_px |-> PxOf(e.external, entry.coin), spot_px |-> SpotPx(e, entry)]

(* One HIP-3 update: a row for each entry of coin_to_oracle_px. *)
ParseUpdate ==
  /\ stream = "hip3_oracle_updates" /\ record <= Len(records)
  /\ Current.header_ok /\ event_index < Len(Current.events)
  /\ LET e == Current.events[event_index + 1] IN
       \/ (\E entry \in Range(e.oracle) : ~Joins(e, entry)) /\ FinishRecord(<< >>)
       \/ /\ \A entry \in Range(e.oracle) : Joins(e, entry)
          /\ rows' = rows \o [i \in DOMAIN e.oracle |-> Hip3Row(e, e.oracle[i])]
          /\ event_index' = event_index + 1
          /\ UNCHANGED <<stream, records, record, written>>

EndRecord ==
  /\ record <= Len(records)
  /\ \/ ~Current.header_ok /\ FinishRecord(<< >>)
     \/ Current.header_ok /\ event_index = Len(Current.events) /\ FinishRecord(rows)

EventsNext == ParseEvent \/ ParseUpdate \/ EndRecord

EventsSpec == EventsInit /\ [][EventsNext]_eventVars

-----------------------------------------------------------------------------
(* Misc events, twap statuses and system actions: no event of a record     *)
(* replaces another one in its table, even if the two have the same        *)
(* content; a misc event is told apart from all events of its block,       *)
(* whichever record they are in.  (event_index, event_id.)  Nothing is     *)
(* said of the other two streams, whose keys have no index: fills are told *)
(* apart by identifiers of the node alone, HIP-3 updates of a block by     *)
(* their class and asset.                                                  *)
EventsKeptApart ==
  stream \in IndexedStreams =>
    \A m, n \in DOMAIN written : m = n \/ stream = "misc_events" =>
      \A i \in DOMAIN written[m], j \in DOMAIN written[n] :
        written[m][i].key = written[n][j].key => m = n /\ i = j

(* A price of the coin in a list of an update. *)
PricesOf(list, coin) == {p.px : p \in {q \in Range(list) : q.coin = coin}}

(* A record is written as a whole or not at all: with a row for every      *)
(* event, or for every oracle price of a HIP-3 update.  The row of an      *)
(* asset has no price of another asset; only its spot price may be absent  *)
(* from the update, and is then the oracle price.                          *)
RecordComplete ==
  \A n \in DOMAIN written :
    LET r == records[n]
        updates == FlattenSeq([i \in DOMAIN r.events |->
                     [k \in DOMAIN r.events[i].oracle |-> [e |-> r.events[i], at |-> k]]])
        right(row, u) ==
          LET entry == u.e.oracle[u.at] IN
            /\ row.coin = entry.coin /\ row.oracle_px = entry.px
            /\ row.mark_px \in PricesOf(u.e.mark, row.coin) \ {BadPx}
            /\ row.external_px \in PricesOf(u.e.external, row.coin) \ {BadPx}
            /\ row.spot_px \in IF PricesOf(u.e.spot, row.coin) = {} THEN {entry.px}
                               ELSE PricesOf(u.e.spot, row.coin)
        valid == r.header_ok /\ \A i \in DOMAIN r.events : r.events[i].ok
        clean == r.header_ok /\ \A i \in DOMAIN updates :
                   LET e == updates[i].e  coin == e.oracle[updates[i].at].coin IN
                     /\ PricesOf(e.mark, coin) # {} /\ PricesOf(e.external, coin) # {}
                     /\ BadPx \notin UNION {PricesOf(list, coin) :
                                            list \in {e.oracle, e.mark, e.external, e.spot}}
    IN  IF stream = "hip3_oracle_updates"
        THEN /\ written[n] # << >> =>
                  /\ r.header_ok /\ Len(written[n]) = Len(updates)
                  /\ \A i \in DOMAIN updates : right(written[n][i], updates[i])
             /\ clean => Len(written[n]) = Len(updates)
        ELSE [i \in DOMAIN written[n] |-> written[n][i].own]
               = IF valid THEN [i \in DOMAIN r.events |-> r.events[i].own] ELSE << >>
=============================================================================
