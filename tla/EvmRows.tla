------------------------------- MODULE EvmRows -------------------------------
(***************************************************************************)
(* How one line of evm_block_and_receipts becomes rows (parse_data,        *)
(* transaction_row and append_receipt of                                   *)
(* src/src/streams/evm_blocks_and_receipts.rs) and what ClickHouse keeps   *)
(* of them: every table is a ReplacingMergeTree, so rows of a table that   *)
(* share their ORDER BY key become one.                                    *)
(*                                                                         *)
(* The fields that may fail to parse are one BOOLEAN for each part of the  *)
(* line: its header, a transaction, a system transaction, a precompile.    *)
(* That of a transaction includes its signature and its receipt's log      *)
(* addresses and topics.  Fields that are copied from the line are left    *)
(* out, except for what tells transactions, logs and calls apart: their    *)
(* place in the line.                                                      *)
(***************************************************************************)
EXTENDS Integers, Sequences, FiniteSets, SequencesExt

CONSTANTS
  MaxTxs,      \* regular transactions of a block (bound)
  MaxSystem,   \* system transactions of a block (bound)
  MaxGas,      \* cumulative gas of a receipt (bound)
  Addresses,   \* contracts that emit logs
  CallLists    \* lists of read precompiles

(* A read precompile: whether its address parses, and its recorded calls. *)
ReadPrecompile == [ok : BOOLEAN, calls : Nat]

ASSUME EvmAssumption ==
  /\ {MaxTxs, MaxSystem, MaxGas} \subseteq Nat
  /\ CallLists \subseteq Seq(ReadPrecompile)

VARIABLES
  block,           \* the line: [header, transactions, receipts, system_txs, calls]
  step,            \* the part parse_data is in, then "ok" or "error"
  index,           \* items of that loop done
  previous_cumulative_gas,
  transactions, receipts, logs, read_precompile_calls   \* rows so far

evmVars == <<block, step, index, previous_cumulative_gas, transactions, receipts, logs,
             read_precompile_calls>>

Receipt == [cumulative_gas_used : 0 .. MaxGas, logs : BoundedSeq(Addresses, 2)]
SystemTx == [ok : BOOLEAN, receipt : Receipt]

EvmBlock ==
  [header : BOOLEAN, transactions : BoundedSeq(BOOLEAN, MaxTxs),
   receipts : BoundedSeq(Receipt, MaxTxs), system_txs : BoundedSeq(SystemTx, MaxSystem),
   calls : CallLists]

EvmTypeOK ==
  /\ block \in EvmBlock
  /\ step \in {"header", "regular", "system", "calls", "ok", "error"}
  /\ index \in Nat
  /\ previous_cumulative_gas \in 0 .. MaxGas
  /\ \A r \in Range(receipts) : r.gas_used \in Nat

EvmInit ==
  /\ block \in EvmBlock
  /\ step = "header" /\ index = 0 /\ previous_cumulative_gas = 0
  /\ transactions = << >> /\ receipts = << >> /\ logs = << >>
  /\ read_precompile_calls = << >>

-----------------------------------------------------------------------------
RejectLine ==
  /\ step' = "error"
  /\ UNCHANGED <<block, index, previous_cumulative_gas, transactions, receipts, logs,
                 read_precompile_calls>>

CountsMatch == Len(block.transactions) = Len(block.receipts)

(* Local time, number, timestamp and the other fields of the block must    *)
(* parse, and every transaction must have a receipt.                       *)
ParseHeader ==
  /\ step = "header"
  /\ \/ ~(block.header /\ CountsMatch) /\ RejectLine
     \/ /\ block.header /\ CountsMatch /\ step' = "regular"
        /\ UNCHANGED <<block, index, previous_cumulative_gas, transactions, receipts, logs,
                       read_precompile_calls>>

(* Not the code: logs are numbered through the block. *)
AppendReceipt_BlockLogIndex(i, hash, is_system, r) ==
  /\ receipts' = Append(receipts,
       [transaction_index |-> i, transaction_hash |-> hash, is_system |-> is_system,
        cumulative_gas_used |-> r.cumulative_gas_used,
        gas_used |-> r.cumulative_gas_used - previous_cumulative_gas,
        log_count |-> Len(r.logs)])
  /\ logs' = logs \o [n \in 1 .. Len(r.logs) |->
       [transaction_index |-> i, log_index |-> Len(logs) + n - 1, address |-> r.logs[n]]]
  /\ previous_cumulative_gas' = r.cumulative_gas_used

(* append_receipt: gas used is the difference to the receipt before, with  *)
(* checked_sub; a log counts within its receipt.                           *)
AppendReceipt(i, hash, is_system, r) ==
  /\ receipts' = Append(receipts,
       [transaction_index |-> i, transaction_hash |-> hash, is_system |-> is_system,
        cumulative_gas_used |-> r.cumulative_gas_used,
        gas_used |-> r.cumulative_gas_used - previous_cumulative_gas,
        log_count |-> Len(r.logs)])
  /\ logs' = logs \o [n \in 1 .. Len(r.logs) |->
                       [transaction_index |-> i, log_index |-> n - 1, address |-> r.logs[n]]]
  /\ previous_cumulative_gas' = r.cumulative_gas_used

(* Not the code: a plain subtraction. *)
GasDecreases_Never(r) == FALSE

GasDecreases(r) == r.cumulative_gas_used < previous_cumulative_gas

Hash(i) == <<"hash of transaction", i>>
NoHash == <<>>

(* Not the code: the system transactions are numbered from 0 again. *)
SystemIndex_FromZero(i) == i

(* System transactions are numbered behind the regular ones. *)
SystemIndex(i) == Len(block.transactions) + i

(* A field that does not parse, or gas that decreases, rejects the line. *)
RegularTransaction ==
  /\ step = "regular" /\ index < Len(block.transactions)
  /\ LET r == block.receipts[index + 1] IN
       \/ (~block.transactions[index + 1] \/ GasDecreases(r)) /\ RejectLine
       \/ /\ block.transactions[index + 1] /\ ~GasDecreases(r)
          /\ transactions' = Append(transactions,
               [transaction_index |-> index, hash |-> Hash(index), is_system |-> FALSE])
          /\ AppendReceipt(index, Hash(index), FALSE, r)
          /\ index' = index + 1
          /\ UNCHANGED <<block, step, read_precompile_calls>>

(* Not the code: the system receipts go on from the regular ones. *)
StartSystem_KeepGas ==
  /\ step = "regular" /\ index = Len(block.transactions)
  /\ step' = "system" /\ index' = 0
  /\ UNCHANGED <<block, previous_cumulative_gas, transactions, receipts, logs,
                 read_precompile_calls>>

StartSystem ==
  /\ step = "regular" /\ index = Len(block.transactions)
  /\ step' = "system" /\ index' = 0 /\ previous_cumulative_gas' = 0
  /\ UNCHANGED <<block, transactions, receipts, logs, read_precompile_calls>>

SystemTransaction ==
  /\ step = "system" /\ index < Len(block.system_txs)
  /\ LET tx == block.system_txs[index + 1] IN
       \/ (~tx.ok \/ GasDecreases(tx.receipt)) /\ RejectLine
       \/ /\ tx.ok /\ ~GasDecreases(tx.receipt)
          /\ transactions' = Append(transactions,
               [transaction_index |-> SystemIndex(index), hash |-> NoHash, is_system |-> TRUE])
          /\ AppendReceipt(SystemIndex(index), NoHash, TRUE, tx.receipt)
          /\ index' = index + 1
          /\ UNCHANGED <<block, step, read_precompile_calls>>

StartCalls ==
  /\ step = "system" /\ index = Len(block.system_txs)
  /\ step' = "calls" /\ index' = 0
  /\ UNCHANGED <<block, previous_cumulative_gas, transactions, receipts, logs,
                 read_precompile_calls>>

(* The calls of one read precompile, with a count of their own. *)
PrecompileCalls ==
  /\ step = "calls" /\ index < Len(block.calls)
  /\ LET precompile == block.calls[index + 1] IN
       \/ ~precompile.ok /\ RejectLine
       \/ /\ precompile.ok
          /\ read_precompile_calls' = read_precompile_calls \o
               [n \in 1 .. precompile.calls |-> [precompile_index |-> index, call_index |-> n - 1]]
          /\ index' = index + 1
          /\ UNCHANGED <<block, step, previous_cumulative_gas, transactions, receipts, logs>>

AcceptLine ==
  /\ step = "calls" /\ index = Len(block.calls)
  /\ step' = "ok"
  /\ UNCHANGED <<block, index, previous_cumulative_gas, transactions, receipts, logs,
                 read_precompile_calls>>

EvmNext ==
  \/ ParseHeader \/ RegularTransaction \/ StartSystem \/ SystemTransaction
  \/ StartCalls \/ PrecompileCalls \/ AcceptLine

EvmSpec == EvmInit /\ [][EvmNext]_evmVars

-----------------------------------------------------------------------------
(* Rows of a sequence that ClickHouse merges into one: same ORDER BY key.  *)
KeptApart(rows, Key(_)) ==
  \A i, j \in DOMAIN rows : Key(rows[i]) = Key(rows[j]) => i = j

(* No row of a block replaces another one: the ORDER BY keys               *)
(* (block_number, transaction_index) of evm_transactions and evm_receipts, *)
(* (address, block_number, transaction_index, log_index) of evm_logs and   *)
(* (block_number, precompile_index, call_index) tell the rows apart.       *)
NoRowReplaced ==
  /\ KeptApart(transactions, LAMBDA t : t.transaction_index)
  /\ KeptApart(receipts, LAMBDA r : r.transaction_index)
  /\ KeptApart(logs, LAMBDA l : <<l.address, l.transaction_index, l.log_index>>)
  /\ KeptApart(read_precompile_calls, LAMBDA c : <<c.precompile_index, c.call_index>>)

(* A transaction, its receipt and its logs are found under one index: the  *)
(* receipt has the hash of its transaction, and log_count rows of evm_logs *)
(* belong to it, numbered from 0.                                          *)
RowsJoin ==
  /\ Len(transactions) = Len(receipts)
  /\ \A n \in DOMAIN receipts :
       LET r == receipts[n]  t == transactions[n]
           mine == {l \in Range(logs) : l.transaction_index = r.transaction_index}
       IN  /\ r.transaction_index = t.transaction_index
           /\ r.transaction_hash = t.hash /\ r.is_system = t.is_system
           /\ {l.log_index : l \in mine} = 0 .. r.log_count - 1

(* The gas used by the first n transactions that are regular, or system.   *)
GasUsed(system) ==
  LET sum[n \in 0 .. Len(receipts)] ==
        IF n = 0 THEN 0
        ELSE sum[n - 1] + IF receipts[n].is_system = system THEN receipts[n].gas_used ELSE 0
  IN  sum

(* gas_used adds up: at each receipt to its cumulative figure, over those  *)
(* of the regular transactions and, separately, of the system transactions,*)
(* which count from 0 again.                                               *)
GasAddsUp ==
  \A n \in DOMAIN receipts :
    GasUsed(receipts[n].is_system)[n] = receipts[n].cumulative_gas_used

(* A line is accepted when every field of it parses, there is a receipt    *)
(* for each transaction and cumulative gas never decreases.  Then every    *)
(* transaction has its row, the regular ones first; so has its receipt,    *)
(* with the gas the line has for it; and there is a row for each log of a  *)
(* receipt and each call of a precompile and no other, under the numbers   *)
(* they have in the line.                                                  *)
AcceptedComplete ==
  LET monotone(rs) == \A i, j \in DOMAIN rs :
                        i < j => rs[i].cumulative_gas_used <= rs[j].cumulative_gas_used
      system == [n \in DOMAIN block.system_txs |-> block.system_txs[n].receipt]
      all    == block.receipts \o system
      valid  == /\ block.header /\ CountsMatch
                /\ \A n \in DOMAIN block.transactions : block.transactions[n]
                /\ \A n \in DOMAIN block.system_txs : block.system_txs[n].ok
                /\ \A n \in DOMAIN block.calls : block.calls[n].ok
                /\ monotone(block.receipts) /\ monotone(system)
  IN  /\ step = "error" => ~valid
      /\ step = "ok" =>
           /\ valid
           /\ Len(transactions) = Len(all) /\ Len(receipts) = Len(all)
           /\ \A n \in DOMAIN all :
                /\ transactions[n].is_system = (n > Len(block.transactions))
                /\ receipts[n].cumulative_gas_used = all[n].cumulative_gas_used
           /\ {<<l.transaction_index, l.log_index, l.address>> : l \in Range(logs)}
                = UNION {{<<n - 1, k - 1, all[n].logs[k]>> : k \in DOMAIN all[n].logs} : n \in DOMAIN all}
           /\ {<<c.precompile_index, c.call_index>> : c \in Range(read_precompile_calls)}
                = UNION {{p - 1} \X (0 .. block.calls[p].calls - 1) : p \in DOMAIN block.calls}
=============================================================================
