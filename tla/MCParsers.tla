------------------------------ MODULE MCParsers ------------------------------
(***************************************************************************)
(* The pure parts of the indexer in one instance for TLC: lines of         *)
(* evm_block_and_receipts, replica_cmds and the event streams, numbers and *)
(* RLP items.                                                              *)
(* They share no state; a behaviour parses one input of one of them while  *)
(* the others have the empty input of their own.                           *)
(***************************************************************************)
EXTENDS EvmRows, ReplicaRows, EventRows, Rlp, Decimals

(* No precompile, two of them, the second of three without calls, and one  *)
(* whose address does not parse.                                           *)
MCCallLists ==
  LET with(counts) == [p \in DOMAIN counts |-> [ok |-> TRUE, calls |-> counts[p]]]
  IN  {<< >>, with(<<2, 1>>), with(<<1, 0, 2>>),
       <<[ok |-> TRUE, calls |-> 1], [ok |-> FALSE, calls |-> 1]>>}

Repeat(n) == [i \in 1 .. n |-> 7]

(* Around every limit of the encoding: one byte, 0x80, 56 and 256 bytes. *)
MCStrings == {<< >>, <<0>>, <<1>>, <<127>>, <<128>>, <<255>>, <<0, 0>>, <<128, 1>>}
               \union {Repeat(n) : n \in {2, 54, 55, 56, 57, 255, 256, 257}}

(* All digits at the limits, up to one digit more than fits. *)
MCHexStrings == BoundedSeq({0, 1, 8, 15, 16}, 5)

MCAccessLists ==
  {<< >>, <<[address |-> <<0, 1, 2, 3>>, keys |-> << >>]>>,
   <<[address |-> <<1, 2>>, keys |-> << >>]>>,
   <<[address |-> <<0, 1, 2, 3>>, keys |-> <<<<0, 3, 0, 0>>, <<9, 9, 9, 9>>>>],
     [address |-> <<5, 6, 7, 8>>, keys |-> [i \in 1 .. 20 |-> <<0, 0, 0, 0>>]]>>}

(* A quantity that both parsers take, one that only one of them takes, and *)
(* one byte, 0x80 and more. *)
MCQuantities == {<< >>, <<0>>, <<0, 5>>, <<16, 1>>, <<8, 0>>, <<1, 0, 0>>}

MCFees ==
  [gas_price : MCQuantities]
    \union [max_fee_per_gas : MCQuantities, max_priority_fee_per_gas : {<<7>>, <<9>>}]

MCTx ==
  [type |-> "Legacy", chain_id |-> None, nonce |-> <<1>>, prices |-> [gas_price |-> <<2>>],
   gas |-> <<3>>, to |-> <<0, 0, 8, 0>>, value |-> <<4>>, input |-> << >>,
   access_list |-> << >>, y_parity |-> <<0>>, r |-> <<5>>, s |-> <<6>>]

(* Envelopes with any v, one field at a time, and two strings that only    *)
(* one side takes. *)
MCTxs ==
  LET chains == {<<0>>, <<1>>, <<16, 1>>, <<6, 13>>, <<6, 14>>, <<6, 15>>, <<15, 15>>, <<1, 0, 0>>}
      envelopes ==
        {[MCTx EXCEPT !.chain_id = c, !.y_parity = p] :
           c \in chains \union {None}, p \in {<<0>>, <<0, 1>>, <<2>>, << >>}}
        \union
        {[MCTx EXCEPT !.type = "Eip2930", !.chain_id = c, !.y_parity = p, !.access_list = list] :
           c \in chains, p \in {<<0>>, <<1>>, <<2>>}, list \in MCAccessLists}
        \union
        {[MCTx EXCEPT !.type = "Eip1559", !.chain_id = c, !.prices = fees, !.access_list = list] :
           c \in {<<0>>, <<1>>, <<15, 15>>}, list \in MCAccessLists,
           fees \in MCFees \ [gas_price : MCQuantities]}
      base == {[MCTx EXCEPT !.prices = fees, !.chain_id = <<1>>,
                            !.type = IF "gas_price" \in DOMAIN fees THEN "Eip2930" ELSE "Eip1559"] :
                 fees \in MCFees} \union {MCTx}
  IN  envelopes
        \union {[t EXCEPT !.nonce = q] : t \in base, q \in MCQuantities}
        \union {[t EXCEPT !.gas = q, !.value = p] : t \in base, q \in MCQuantities, p \in MCQuantities}
        \union {[t EXCEPT !.to = a] : t \in base, a \in {None, << >>, <<1, 2>>}}
        \union {[t EXCEPT !.input = d] : t \in base,
                  d \in {<<0, 0>>, <<8, 0>>, <<1>>, <<16, 1>>, [i \in 1 .. 120 |-> 1]}}
        \union {[t EXCEPT !.r = q, !.s = p] : t \in base, q \in MCQuantities, p \in MCQuantities}

Entries(pxs) == [coin : {"A"}, px : pxs] \union [coin : {"B"}, px : {10 * p : p \in pxs}]

(* One or two assets, with prices missing, doubled or unreadable. *)
MCHip3Updates ==
  [oracle : BoundedSeq(Entries({1}), 2) \union {<<[coin |-> "A", px |-> BadPx]>>},
   mark : BoundedSeq(Entries({2, BadPx}), 2), external : BoundedSeq(Entries({3}), 2),
   spot : BoundedSeq(Entries({4, BadPx}), 1)]

(* An update without prices, one with an asset, one with two, one of them  *)
(* with a spot price, and one without a mark price. *)
MCFewUpdates ==
  LET A(px) == [coin |-> "A", px |-> px]  B(px) == [coin |-> "B", px |-> px]
  IN  {[oracle |-> << >>, mark |-> << >>, external |-> << >>, spot |-> << >>],
       [oracle |-> <<A(1)>>, mark |-> <<A(2)>>, external |-> <<A(3)>>, spot |-> << >>],
       [oracle |-> <<A(5), B(6)>>, mark |-> <<B(7), A(8)>>, external |-> <<A(9), B(9)>>,
        spot |-> <<B(4)>>],
       [oracle |-> <<B(6)>>, mark |-> << >>, external |-> <<B(9)>>, spot |-> << >>]}

(* A record of any update; one of up to three of a few; two of those.      *)
MCHip3Records ==
  LET of(lists) == [header_ok : BOOLEAN, events : lists]
      singles   == {<<u>> : u \in MCHip3Updates}
  IN  BoundedSeq(of(singles), 1) \union BoundedSeq(of(BoundedSeq(MCFewUpdates, 3)), 1)
        \union BoundedSeq(of(BoundedSeq(MCFewUpdates, 1)), 2)

(* The others have parsed an empty input. *)
EvmDone ==
  /\ block = [header |-> TRUE, transactions |-> << >>, receipts |-> << >>,
              system_txs |-> << >>, calls |-> << >>]
  /\ step = "ok" /\ index = 0 /\ previous_cumulative_gas = 0
  /\ transactions = << >> /\ receipts = << >> /\ logs = << >> /\ read_precompile_calls = << >>

ReplicaDone ==
  /\ command = [ok |-> TRUE, bundles |-> << >>, resps |-> << >>]
  /\ stage = "ok" /\ responses = << >> /\ bundles = << >> /\ actions = << >>

EventsDone ==
  /\ stream = "node_fills" /\ records = << >>
  /\ record = 1 /\ event_index = 0 /\ rows = << >> /\ written = << >>

RlpDone ==
  /\ input = [kind |-> "string", value |-> << >>]
  /\ output = RlpBytes(<< >>) /\ txRow = NoRow

DecimalsDone ==
  /\ s = << >> /\ parsing = "error"
  /\ negative = FALSE /\ whole = << >> /\ frac = << >> /\ value = 0

ParsersInit ==
  \/ EvmInit /\ ReplicaDone /\ EventsDone /\ RlpDone /\ DecimalsDone
  \/ EvmDone /\ ReplicaInit /\ EventsDone /\ RlpDone /\ DecimalsDone
  \/ EvmDone /\ ReplicaDone /\ EventsInit /\ RlpDone /\ DecimalsDone
  \/ EvmDone /\ ReplicaDone /\ EventsDone /\ RlpInit /\ DecimalsDone
  \/ EvmDone /\ ReplicaDone /\ EventsDone /\ RlpDone /\ DecimalsInit

ParsersNext ==
  \/ EvmNext /\ UNCHANGED <<replicaVars, eventVars, rlpVars, decimalVars>>
  \/ ReplicaNext /\ UNCHANGED <<evmVars, eventVars, rlpVars, decimalVars>>
  \/ EventsNext /\ UNCHANGED <<evmVars, replicaVars, rlpVars, decimalVars>>
  \/ Encode /\ UNCHANGED <<evmVars, replicaVars, eventVars, decimalVars>>
  \/ DecimalsNext /\ UNCHANGED <<evmVars, replicaVars, eventVars, rlpVars>>

ParsersSpec == ParsersInit /\ [][ParsersNext]_<<evmVars, replicaVars, eventVars, rlpVars, decimalVars>>

(* The types of all parts; an unsigned number never becomes negative. *)
ParsersTypeOK == EvmTypeOK /\ ReplicaTypeOK /\ DecimalsTypeOK
=============================================================================
