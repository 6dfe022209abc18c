------------------------------ MODULE Rows_proofs ------------------------------
(***************************************************************************)
(* Proofs about the parsers that turn a line into rows (EvmRows,           *)
(* ReplicaRows, EventRows), for lines of any length: any number of         *)
(* transactions, logs, calls, bundles, actions and events.                 *)
(***************************************************************************)
EXTENDS EvmRows, ReplicaRows, EventRows, TLAPS, SequenceTheorems, FiniteSetTheorems,
        WellFoundedInduction

-----------------------------------------------------------------------------
(* Sequences. *)

LEMMA LeastNat ==
  ASSUME NEW S, S \subseteq Nat, S # {}
  PROVE  \E i \in S : \A j \in S : i <= j
<1>1. IsWellFoundedOn({ss \in Nat \X Nat : ss[1] < ss[2]}, Nat)
  BY NatLessThanWellFounded DEF OpToRel
<1>2. PICK i \in S : \A j \in S : <<j, i>> \notin {ss \in Nat \X Nat : ss[1] < ss[2]}
  BY <1>1, WFMin
<1>3. \A j \in S : ~ (j < i)
  BY <1>2
<1>4. \A j \in S : i <= j
  BY <1>3
<1>5. QED
  BY <1>4

LEMMA GreatestBelow ==
  ASSUME NEW n \in Nat, NEW S, S \subseteq 1 .. n, S # {}
  PROVE  \E i \in S : \A j \in S : j <= i
<1> DEFINE fromEnd == {n - i : i \in S}
<1>1. \A i \in S : i \in Int /\ n - i \in Nat
  OBVIOUS
<1>2. fromEnd \subseteq Nat
  BY <1>1
<1>3. fromEnd # {}
  <2>1. PICK i \in S : TRUE
    OBVIOUS
  <2>2. n - i \in fromEnd
    BY <2>1
  <2>3. QED
    BY <2>2
<1>4. PICK d \in fromEnd : \A x \in fromEnd : d <= x
  <2> HIDE DEF fromEnd
  <2>1. QED
    BY <1>2, <1>3, LeastNat
<1>5. PICK i \in S : d = n - i
  BY <1>4
<1>6. ASSUME NEW j \in S PROVE j <= i
  <2>1. n - j \in fromEnd
    OBVIOUS
  <2>2. n - i <= n - j
    BY <1>4, <1>5, <2>1
  <2>3. QED
    BY <1>1, <2>2
<1>7. QED
  BY <1>6

(* Induction, over a set instead of a predicate. *)
LEMMA Inductive ==
  ASSUME NEW S, 0 \in S, \A n \in Nat : n \in S => n + 1 \in S
  PROVE  Nat \subseteq S
<1> SUFFICES ASSUME Nat \ S # {} PROVE FALSE
  OBVIOUS
<1>1. PICK i \in Nat \ S : \A j \in Nat \ S : i <= j
  BY LeastNat
<1>2. i # 0 /\ i - 1 \in Nat
  BY <1>1
<1>3. i - 1 \in S
  BY <1>1, <1>2
<1>4. QED
  BY <1>1, <1>2, <1>3

LEMMA BoundedIsSeq ==
  ASSUME NEW S, NEW n \in Nat, NEW s \in BoundedSeq(S, n)
  PROVE  s \in Seq(S) /\ Len(s) <= n
<1>1. PICK m \in 0 .. n : s \in [1 .. m -> S]
  BY DEF BoundedSeq, SeqOf
<1>2. QED
  BY <1>1

(* A sequence s followed by the sequence of f[1] .. f[n]. *)
LEMMA Added ==
  ASSUME NEW S, NEW s \in Seq(S), NEW n \in Nat, NEW f \in [1 .. n -> S]
  PROVE  /\ s \o f \in Seq(S) /\ Len(s \o f) = Len(s) + n
         /\ \A i \in 1 .. Len(s) : (s \o f)[i] = s[i]
         /\ \A i \in 1 .. n : (s \o f)[Len(s) + i] = f[i]
<1>1. f \in Seq(S) /\ Len(f) = n
  OBVIOUS
<1>2. /\ s \o f \in Seq(S) /\ Len(s \o f) = Len(s) + Len(f)
      /\ \A i \in 1 .. Len(s) + Len(f) : (s \o f)[i] = IF i <= Len(s) THEN s[i] ELSE f[i - Len(s)]
  BY <1>1, ConcatProperties
<1>3. Len(s) \in Nat
  BY LenProperties
<1>4. \A i \in 1 .. Len(s) : (s \o f)[i] = s[i]
  BY <1>1, <1>2, <1>3
<1>5. ASSUME NEW i \in 1 .. n PROVE (s \o f)[Len(s) + i] = f[i]
  <2>1. Len(s) + i \in 1 .. Len(s) + Len(f) /\ ~ (Len(s) + i <= Len(s)) /\ Len(s) + i - Len(s) = i
    BY <1>1, <1>3
  <2>2. QED
    BY <1>2, <2>1
<1>6. QED
  BY <1>1, <1>2, <1>4, <1>5

LEMMA OldOrNew ==
  ASSUME NEW m \in Nat, NEW n \in Nat
  PROVE  \A i \in 1 .. m + n : i \in 1 .. m \/ \E k \in 1 .. n : i = m + k
<1>1. ASSUME NEW i \in 1 .. m + n, i \notin 1 .. m PROVE \E k \in 1 .. n : i = m + k
  <2>1. i - m \in 1 .. n /\ i = m + (i - m)
    BY <1>1
  <2>2. QED
    BY <2>1
<1>2. QED
  BY <1>1

-----------------------------------------------------------------------------
(* Lines of evm_block_and_receipts. *)

Regulars == Len(block.transactions)
Systems  == Len(block.system_txs)
ReceiptOf(n) ==
  IF n <= Regulars THEN block.receipts[n] ELSE block.system_txs[n - Regulars].receipt

SomeHash == {NoHash} \union {Hash(i) : i \in Nat}
TransactionRows == [transaction_index : Nat, hash : SomeHash, is_system : BOOLEAN]
ReceiptRows == [transaction_index : Nat, transaction_hash : SomeHash, is_system : BOOLEAN,
                cumulative_gas_used : Nat, gas_used : Int, log_count : Nat]
LogRows  == [transaction_index : Nat, log_index : Nat, address : Addresses]
CallRows == [precompile_index : Nat, call_index : Nat]

(* The columns of the n-th transaction that do not come from the line. *)
HashOf(n) == IF n <= Regulars THEN Hash(n - 1) ELSE NoHash

BlockTypes ==
  /\ block.transactions \in Seq(BOOLEAN) /\ block.receipts \in Seq(Receipt)
  /\ block.system_txs \in Seq(SystemTx) /\ block.calls \in Seq(ReadPrecompile)

RowTypes ==
  /\ transactions \in Seq(TransactionRows) /\ receipts \in Seq(ReceiptRows)
  /\ logs \in Seq(LogRows) /\ read_precompile_calls \in Seq(CallRows)

(* How far the loops have come. *)
Progress ==
  /\ Len(transactions) = Len(receipts)
  /\ Len(receipts) <= Regulars + Systems
  /\ step = "header" => Len(receipts) = 0 /\ index = 0 /\ previous_cumulative_gas = 0
                          /\ logs = << >>
  /\ step \in {"regular", "system", "calls", "ok"} =>
       block.header /\ Regulars = Len(block.receipts)
  /\ step = "regular" => index = Len(receipts) /\ index <= Regulars
  /\ step = "system" => index <= Systems /\ Len(receipts) = Regulars + index
  /\ step \in {"calls", "ok"} => Len(receipts) = Regulars + Systems
  /\ step = "calls" => index <= Len(block.calls)
  /\ step = "ok" => index = Len(block.calls)

(* The n-th transaction and its receipt come from the line. *)
ParsedAs(n, t, r) ==
  LET source == ReceiptOf(n) IN
    /\ t.transaction_index = n - 1 /\ r.transaction_index = n - 1
    /\ t.hash = HashOf(n) /\ r.transaction_hash = HashOf(n)
    /\ t.is_system = (n > Regulars) /\ r.is_system = (n > Regulars)
    /\ r.cumulative_gas_used = source.cumulative_gas_used
    /\ r.log_count = Len(source.logs)

FieldsParse(n) == IF n <= Regulars THEN block.transactions[n] ELSE block.system_txs[n - Regulars].ok

(* The cumulative gas at the receipt before: none at the first one of each kind. *)
GasBefore(n) == IF n \in {1, Regulars + 1} THEN 0 ELSE receipts[n - 1].cumulative_gas_used

Parsed ==
  \A n \in 1 .. Len(receipts) :
    /\ ParsedAs(n, transactions[n], receipts[n]) /\ FieldsParse(n)
    /\ receipts[n].gas_used \in Nat
    /\ receipts[n].gas_used = receipts[n].cumulative_gas_used - GasBefore(n)

GasSoFar ==
  /\ previous_cumulative_gas \in 0 .. MaxGas
  /\ step = "regular" => previous_cumulative_gas =
       IF index = 0 THEN 0 ELSE receipts[Len(receipts)].cumulative_gas_used
  /\ step = "system" => previous_cumulative_gas =
       IF index = 0 THEN 0 ELSE receipts[Len(receipts)].cumulative_gas_used

(* Each transaction has as many logs as its receipt, numbered from 0. *)
LogsNumbered ==
  /\ \A i \in 1 .. Len(logs) :
       /\ logs[i].transaction_index + 1 \in 1 .. Len(receipts)
       /\ logs[i].log_index < receipts[logs[i].transaction_index + 1].log_count
  /\ \A n \in 1 .. Len(receipts) : \A k \in 0 .. receipts[n].log_count - 1 :
         \E i \in 1 .. Len(logs) : logs[i].transaction_index = n - 1 /\ logs[i].log_index = k
  /\ \A i, j \in 1 .. Len(logs) :
       logs[i].transaction_index = logs[j].transaction_index
         /\ logs[i].log_index = logs[j].log_index => i = j

(* The row of a log has the address of that log of that receipt. *)
LogContents ==
  \A i \in 1 .. Len(logs) :
    logs[i].address = ReceiptOf(logs[i].transaction_index + 1).logs[logs[i].log_index + 1]

(* Likewise the calls of the precompiles that are done. *)
CallsNumbered ==
  /\ step \in {"header", "regular", "system"} => read_precompile_calls = << >>
  /\ \A i \in 1 .. Len(read_precompile_calls) :
       LET c == read_precompile_calls[i] IN
         /\ c.precompile_index + 1 \in 1 .. Len(block.calls)
         /\ step = "calls" => c.precompile_index < index
         /\ c.call_index < block.calls[c.precompile_index + 1].calls
  /\ step \in {"calls", "ok"} =>
       \A p \in 1 .. index :
         /\ block.calls[p].ok
         /\ \A k \in 0 .. block.calls[p].calls - 1 :
              \E i \in 1 .. Len(read_precompile_calls) :
                read_precompile_calls[i].precompile_index = p - 1
                  /\ read_precompile_calls[i].call_index = k
  /\ \A i, j \in 1 .. Len(read_precompile_calls) :
       read_precompile_calls[i].precompile_index = read_precompile_calls[j].precompile_index
         /\ read_precompile_calls[i].call_index = read_precompile_calls[j].call_index => i = j

(* What a line may be rejected for. *)
Reasons ==
  \/ ~block.header
  \/ Regulars # Len(block.receipts)
  \/ \E n \in 1 .. Regulars : ~block.transactions[n]
  \/ \E n \in 1 .. Systems : ~block.system_txs[n].ok
  \/ \E n \in 1 .. Len(block.calls) : ~block.calls[n].ok
  \/ \E n \in 2 .. Regulars :
       block.receipts[n].cumulative_gas_used < block.receipts[n - 1].cumulative_gas_used
  \/ \E n \in 2 .. Systems :
       block.system_txs[n].receipt.cumulative_gas_used
         < block.system_txs[n - 1].receipt.cumulative_gas_used

Rejected == step = "error" => Reasons

EvmInv ==
  /\ EvmTypeOK /\ BlockTypes /\ RowTypes
  /\ Progress /\ Parsed /\ GasSoFar /\ LogsNumbered /\ LogContents /\ CallsNumbered
  /\ Rejected

LEMMA BlockParts ==
  ASSUME EvmAssumption, EvmTypeOK
  PROVE  BlockTypes /\ Regulars \in Nat /\ Systems \in Nat /\ Len(block.receipts) \in Nat
                    /\ Len(block.calls) \in Nat
<1>1. /\ block.transactions \in BoundedSeq(BOOLEAN, MaxTxs)
      /\ block.receipts \in BoundedSeq(Receipt, MaxTxs)
      /\ block.system_txs \in BoundedSeq(SystemTx, MaxSystem)
      /\ block.calls \in CallLists
  BY DEF EvmTypeOK, EvmBlock
<1>2. MaxTxs \in Nat /\ MaxSystem \in Nat /\ CallLists \subseteq Seq(ReadPrecompile)
  BY DEF EvmAssumption
<1>3. block.transactions \in Seq(BOOLEAN) /\ block.receipts \in Seq(Receipt)
  BY <1>1, <1>2, BoundedIsSeq
<1>4. block.system_txs \in Seq(SystemTx)
  BY <1>1, <1>2, BoundedIsSeq
<1>5. BlockTypes
  BY <1>1, <1>2, <1>3, <1>4 DEF BlockTypes
<1>6. QED
  BY <1>5, LenProperties DEF BlockTypes, Regulars, Systems

LEMMA ReceiptType ==
  ASSUME EvmAssumption, NEW r \in Receipt
  PROVE  /\ r.cumulative_gas_used \in 0 .. MaxGas /\ r.cumulative_gas_used \in Nat
         /\ r.logs \in Seq(Addresses) /\ Len(r.logs) \in Nat /\ MaxGas \in Nat
<1>1. MaxGas \in Nat
  BY DEF EvmAssumption
<1>2. r.cumulative_gas_used \in 0 .. MaxGas /\ r.logs \in BoundedSeq(Addresses, 2)
  BY DEF Receipt
<1>3. r.logs \in Seq(Addresses)
  BY <1>2, BoundedIsSeq
<1>4. QED
  BY <1>1, <1>2, <1>3, LenProperties

(* The receipt of the n-th transaction. *)
LEMMA ReceiptOfType ==
  ASSUME EvmAssumption, EvmTypeOK, Regulars = Len(block.receipts), NEW n \in 1 .. Regulars + Systems
  PROVE  ReceiptOf(n) \in Receipt
<1>1. BlockTypes /\ Regulars \in Nat /\ Systems \in Nat
  BY BlockParts
<1>2. CASE n <= Regulars
  <2>1. n \in 1 .. Len(block.receipts)
    BY <1>1, <1>2
  <2>2. QED
    BY <1>1, <1>2, <2>1, ElementOfSeq DEF BlockTypes, ReceiptOf
<1>3. CASE ~ (n <= Regulars)
  <2>1. n - Regulars \in 1 .. Systems
    BY <1>1, <1>3
  <2>2. block.system_txs[n - Regulars] \in SystemTx
    BY <1>1, <2>1, ElementOfSeq DEF BlockTypes, Systems
  <2>3. QED
    BY <1>3, <2>2 DEF SystemTx, ReceiptOf
<1>4. QED
  BY <1>2, <1>3

LEMMA EvmInitInv ==
  ASSUME EvmAssumption, EvmInit
  PROVE  EvmInv
<1>1. receipts = << >> /\ transactions = << >> /\ logs = << >> /\ read_precompile_calls = << >>
  BY DEF EvmInit
<1>2. Len(receipts) = 0 /\ Len(transactions) = 0 /\ Len(logs) = 0 /\ Len(read_precompile_calls) = 0
  BY <1>1
<1>3. MaxGas \in Nat
  BY DEF EvmAssumption
<1>4. EvmTypeOK
  <2>1. Range(receipts) = {}
    BY <1>1 DEF Range
  <2>2. QED
    BY <1>3, <2>1 DEF EvmInit, EvmTypeOK
<1>5. BlockTypes /\ Regulars \in Nat /\ Systems \in Nat
  BY <1>4, BlockParts
<1>6. RowTypes
  BY <1>1 DEF RowTypes
<1>7. Progress
  BY <1>2, <1>5 DEF Progress, EvmInit
<1>8. Parsed
  BY <1>2 DEF Parsed
<1>9. GasSoFar
  BY <1>3 DEF GasSoFar, EvmInit
<1>10. LogsNumbered /\ LogContents
  BY <1>2 DEF LogsNumbered, LogContents
<1>11. CallsNumbered
  BY <1>2 DEF CallsNumbered, EvmInit
<1>12. Rejected
  BY DEF Rejected, EvmInit
<1>13. QED
  BY <1>4, <1>5, <1>6, <1>7, <1>8, <1>9, <1>10, <1>11, <1>12 DEF EvmInv

(* The next transaction, its receipt and its logs get their rows. *)
LEMMA LogsAdded ==
  ASSUME EvmAssumption, EvmInv, NEW r \in Receipt, NEW row \in ReceiptRows,
         row.log_count = Len(r.logs), block' = block, r = ReceiptOf(Len(receipts) + 1),
         receipts' = Append(receipts, row),
         logs' = logs \o [n \in 1 .. Len(r.logs) |->
                   [transaction_index |-> Len(receipts), log_index |-> n - 1, address |-> r.logs[n]]]
  PROVE  LogsNumbered' /\ LogContents' /\ logs' \in Seq(LogRows)
<1> DEFINE n == Len(receipts)
           new == [k \in 1 .. Len(r.logs) |->
                     [transaction_index |-> n, log_index |-> k - 1, address |-> r.logs[k]]]
<1>1. receipts \in Seq(ReceiptRows) /\ logs \in Seq(LogRows) /\ n \in Nat /\ Len(logs) \in Nat
  BY LenProperties DEF EvmInv, RowTypes
<1>2. r.logs \in Seq(Addresses) /\ Len(r.logs) \in Nat
  BY ReceiptType
<1>3. new \in [1 .. Len(r.logs) -> LogRows]
  <2>1. ASSUME NEW k \in 1 .. Len(r.logs)
        PROVE  [transaction_index |-> n, log_index |-> k - 1, address |-> r.logs[k]] \in LogRows
    <3>1. r.logs[k] \in Addresses
      BY <1>2, ElementOfSeq
    <3>2. QED
      BY <1>1, <3>1 DEF LogRows
  <2>2. QED
    BY <2>1
<1> DEFINE count == Len(r.logs)
<1>3a. logs' = logs \o new
  OBVIOUS
<1>3b. /\ count \in Nat /\ new \in [1 .. count -> LogRows]
       /\ \A k \in 1 .. count : /\ new[k].transaction_index = n /\ new[k].log_index = k - 1
                                /\ new[k].address = r.logs[k]
  BY <1>2, <1>3
<1> HIDE DEF new
<1>4. /\ logs' \in Seq(LogRows) /\ Len(logs') = Len(logs) + count
      /\ \A i \in 1 .. Len(logs) : logs'[i] = logs[i]
      /\ \A i \in 1 .. count : logs'[Len(logs) + i] = new[i]
      /\ \A i \in 1 .. Len(logs) + count :
           i \in 1 .. Len(logs) \/ \E k \in 1 .. count : i = Len(logs) + k
  <2> HIDE DEF count
  <2>1. count \in Nat /\ new \in [1 .. count -> LogRows] /\ logs \in Seq(LogRows)
    BY <1>1, <1>3b
  <2>2. /\ logs \o new \in Seq(LogRows) /\ Len(logs \o new) = Len(logs) + count
        /\ \A i \in 1 .. Len(logs) : (logs \o new)[i] = logs[i]
        /\ \A i \in 1 .. count : (logs \o new)[Len(logs) + i] = new[i]
    <3> DEFINE both == logs \o new
    <3>1. /\ both \in Seq(LogRows) /\ Len(both) = Len(logs) + count
          /\ \A i \in 1 .. Len(logs) : both[i] = logs[i]
          /\ \A i \in 1 .. count : both[Len(logs) + i] = new[i]
      BY <2>1, Added
    <3>2. QED
      BY <3>1
  <2>3. \A i \in 1 .. Len(logs) + count :
          i \in 1 .. Len(logs) \/ \E k \in 1 .. count : i = Len(logs) + k
    BY <1>1, <2>1, OldOrNew
  <2>4. QED
    BY ONLY <1>3a, <2>2, <2>3
<1>4a. Len(logs') = Len(logs) + count /\ Len(logs) \in Nat /\ count \in Nat
  BY <1>1, <1>3b, <1>4
<1>4b. \A i \in 1 .. Len(logs') :
         i \in 1 .. Len(logs) \/ \E k \in 1 .. Len(r.logs) : i = Len(logs) + k
  BY ONLY <1>4
<1>5. /\ receipts' \in Seq(ReceiptRows) /\ Len(receipts') = n + 1 /\ receipts'[n + 1] = row
      /\ \A i \in 1 .. n : receipts'[i] = receipts[i]
  BY <1>1, AppendProperties
<1>6. \A k \in 1 .. Len(r.logs) : /\ logs'[Len(logs) + k].transaction_index = n
                                  /\ logs'[Len(logs) + k].log_index = k - 1
                                  /\ logs'[Len(logs) + k].address = r.logs[k]
  BY <1>3b, <1>4
<1>7. \A i \in 1 .. Len(logs) :
        /\ logs'[i] = logs[i] /\ logs[i].transaction_index \in Nat /\ logs[i].log_index \in Nat
        /\ logs[i].transaction_index + 1 \in 1 .. n
        /\ logs[i].log_index < receipts[logs[i].transaction_index + 1].log_count
  <2>1. \A i \in 1 .. Len(logs) : logs[i] \in LogRows
    BY <1>1, ElementOfSeq
  <2>2. QED
    BY <1>4, <2>1 DEF EvmInv, LogsNumbered, LogRows
<1>8. ASSUME NEW i \in 1 .. Len(logs')
      PROVE  /\ logs'[i].transaction_index + 1 \in 1 .. Len(receipts')
             /\ logs'[i].log_index < receipts'[logs'[i].transaction_index + 1].log_count
  <2>1. CASE i \in 1 .. Len(logs)
    <3>1. logs'[i] = logs[i] /\ logs[i].transaction_index + 1 \in 1 .. n
          /\ logs[i].log_index < receipts[logs[i].transaction_index + 1].log_count
      BY <1>7, <2>1
    <3>2. receipts'[logs[i].transaction_index + 1] = receipts[logs[i].transaction_index + 1]
      BY <1>5, <3>1
    <3>3. logs[i].transaction_index + 1 \in 1 .. n + 1
      BY <1>1, <3>1
    <3>4. QED
      BY <1>5, <3>1, <3>2, <3>3
  <2>2. CASE \E k \in 1 .. Len(r.logs) : i = Len(logs) + k
    <3>1. PICK k \in 1 .. Len(r.logs) : i = Len(logs) + k
      BY <2>2
    <3>2. logs'[i].transaction_index = n /\ logs'[i].log_index = k - 1
      BY <1>6, <3>1
    <3>3. n + 1 \in 1 .. n + 1
      BY <1>1
    <3>4. k - 1 < row.log_count
      BY <1>2, <3>1
    <3>5. QED
      BY <1>5, <3>2, <3>3, <3>4
  <2>3. QED
    BY <1>4, <2>1, <2>2
<1>9. ASSUME NEW m \in 1 .. Len(receipts'), NEW k \in 0 .. receipts'[m].log_count - 1
      PROVE  \E i \in 1 .. Len(logs') : logs'[i].transaction_index = m - 1 /\ logs'[i].log_index = k
  <2>1. CASE m \in 1 .. n
    <3>1. PICK i \in 1 .. Len(logs) : logs[i].transaction_index = m - 1 /\ logs[i].log_index = k
      BY <1>5, <1>9, <2>1 DEF EvmInv, LogsNumbered
    <3>2. i \in 1 .. Len(logs')
      BY <1>1, <1>2, <1>4
    <3>3. QED
      BY <1>7, <3>1, <3>2
  <2>2. CASE m = n + 1
    <3>1. k + 1 \in 1 .. Len(r.logs) /\ k + 1 - 1 = k
      BY <1>2, <1>5, <2>2
    <3>2. Len(logs) + (k + 1) \in 1 .. Len(logs')
      BY ONLY <1>4a, <3>1
    <3>3. /\ logs'[Len(logs) + (k + 1)].transaction_index = n
          /\ logs'[Len(logs) + (k + 1)].log_index = k + 1 - 1
      <4>1. \A c \in 1 .. Len(r.logs) : /\ logs'[Len(logs) + c].transaction_index = n
                                        /\ logs'[Len(logs) + c].log_index = c - 1
        BY Zenon, <1>6
      <4>2. QED
        BY ONLY <3>1, <4>1
    <3>4. n = m - 1
      BY ONLY <1>1, <2>2
    <3> DEFINE i == Len(logs) + (k + 1)
    <3>5. i \in 1 .. Len(logs') /\ logs'[i].transaction_index = m - 1 /\ logs'[i].log_index = k
      BY Zenon, <3>1, <3>2, <3>3, <3>4
    <3> HIDE DEF i
    <3>6. QED
      BY Zenon, <3>5
  <2>3. m \in 1 .. n + 1
    BY <1>5
  <2>4. m \in 1 .. n \/ m = n + 1
    BY <1>1, <2>3
  <2>5. QED
    BY <2>1, <2>2, <2>4
<1>10. ASSUME NEW i \in 1 .. Len(logs'), NEW j \in 1 .. Len(logs'),
              logs'[i].transaction_index = logs'[j].transaction_index,
              logs'[i].log_index = logs'[j].log_index
       PROVE  i = j
  <2>1. CASE i \in 1 .. Len(logs) /\ j \in 1 .. Len(logs)
    BY <1>7, <1>10, <2>1 DEF EvmInv, LogsNumbered
  <2>2. ASSUME NEW a \in 1 .. Len(logs), NEW b \in 1 .. Len(r.logs),
               logs'[a].transaction_index = logs'[Len(logs) + b].transaction_index
        PROVE  FALSE
    <3>1. logs[a].transaction_index = n
      BY <1>6, <1>7, <2>2
    <3>2. logs[a].transaction_index + 1 \in 1 .. n
      BY <1>7
    <3>3. QED
      BY <1>1, <3>1, <3>2
  <2>3. CASE i \in 1 .. Len(logs) /\ \E k \in 1 .. Len(r.logs) : j = Len(logs) + k
    BY <1>10, <2>2, <2>3
  <2>4. CASE j \in 1 .. Len(logs) /\ \E k \in 1 .. Len(r.logs) : i = Len(logs) + k
    BY <1>10, <2>2, <2>4
  <2>5. ASSUME NEW a \in 1 .. Len(r.logs), NEW b \in 1 .. Len(r.logs),
               i = Len(logs) + a, j = Len(logs) + b
        PROVE  i = j
    <3>1. a - 1 = b - 1
      BY <1>6, <1>10, <2>5
    <3>2. QED
      BY <2>5, <3>1
  <2>6. /\ i \in 1 .. Len(logs) \/ \E k \in 1 .. Len(r.logs) : i = Len(logs) + k
        /\ j \in 1 .. Len(logs) \/ \E k \in 1 .. Len(r.logs) : j = Len(logs) + k
    BY Zenon, <1>4b
  <2>7. QED
    BY Zenon, <2>1, <2>3, <2>4, <2>5, <2>6
<1>11. LogContents'
  <2>1. ASSUME NEW i \in 1 .. Len(logs')
        PROVE  logs'[i].address
                 = ReceiptOf(logs'[i].transaction_index + 1).logs[logs'[i].log_index + 1]
    <3>1. CASE i \in 1 .. Len(logs)
      BY <1>7, <3>1 DEF EvmInv, LogContents
    <3>2. ASSUME NEW k \in 1 .. count, i = Len(logs) + k
          PROVE  logs'[i].address
                   = ReceiptOf(logs'[i].transaction_index + 1).logs[logs'[i].log_index + 1]
      <4>1. /\ logs'[i].address = r.logs[k] /\ logs'[i].transaction_index = n
            /\ logs'[i].log_index = k - 1 /\ k - 1 + 1 = k
        BY <1>3b, <1>6, <3>2
      <4>2. QED
        BY <4>1
    <3>3. QED
      BY <1>4, <3>1, <3>2
  <2>2. \A i \in Nat : ReceiptOf(i)' = ReceiptOf(i)
    BY DEF ReceiptOf, Regulars
  <2>3. ASSUME NEW i \in 1 .. Len(logs') PROVE logs'[i].transaction_index + 1 \in Nat
    <3>1. logs'[i].transaction_index + 1 \in 1 .. Len(receipts')
      BY Zenon, <1>8
    <3>2. QED
      BY ONLY <3>1
  <2>4. ASSUME NEW i \in 1 .. Len(logs')
        PROVE  logs'[i].address
                 = (ReceiptOf(logs[i].transaction_index + 1).logs[logs[i].log_index + 1])'
    <3>1. (ReceiptOf(logs[i].transaction_index + 1))' = ReceiptOf(logs'[i].transaction_index + 1)
      BY <2>2, <2>3
    <3>2. logs'[i].address
            = ReceiptOf(logs'[i].transaction_index + 1).logs[logs'[i].log_index + 1]
      BY Zenon, <2>1
    <3>3. QED
      BY ONLY <3>1, <3>2
  <2>5. QED
    BY Zenon, <2>4 DEF LogContents
<1>12. QED
  BY <1>4, <1>8, <1>9, <1>10, <1>11 DEF LogsNumbered

(* The n-th transaction, with its receipt and its logs, gets its rows. *)
LEMMA NextTransaction ==
  ASSUME EvmAssumption, EvmInv, NEW n \in 1 .. Regulars + Systems, n = Len(receipts) + 1,
         \/ step = "regular" /\ index < Regulars
         \/ step = "system" /\ index < Systems,
         FieldsParse(n), ~GasDecreases(ReceiptOf(n)),
         transactions' = Append(transactions,
           [transaction_index |-> n - 1, hash |-> HashOf(n), is_system |-> n > Regulars]),
         AppendReceipt(n - 1, HashOf(n), n > Regulars, ReceiptOf(n)),
         index' = index + 1, UNCHANGED <<block, step, read_precompile_calls>>
  PROVE  EvmInv'
<1> DEFINE source == ReceiptOf(n)
           t == [transaction_index |-> n - 1, hash |-> HashOf(n), is_system |-> n > Regulars]
           r == [transaction_index |-> n - 1, transaction_hash |-> HashOf(n),
                 is_system |-> n > Regulars, cumulative_gas_used |-> source.cumulative_gas_used,
                 gas_used |-> source.cumulative_gas_used - previous_cumulative_gas,
                 log_count |-> Len(source.logs)]
<1>1. /\ BlockTypes /\ Regulars \in Nat /\ Systems \in Nat
      /\ Regulars = Len(block.receipts) /\ EvmTypeOK /\ index \in Nat
  BY BlockParts DEF EvmInv, Progress, EvmTypeOK
<1>2. source \in Receipt
  BY <1>1, ReceiptOfType
<1>3. /\ source.cumulative_gas_used \in 0 .. MaxGas /\ Len(source.logs) \in Nat /\ MaxGas \in Nat
  BY <1>2, ReceiptType
<1>4. /\ transactions \in Seq(TransactionRows) /\ receipts \in Seq(ReceiptRows)
      /\ Len(receipts) = n - 1 /\ Len(transactions) = n - 1
  BY <1>1 DEF EvmInv, RowTypes, Progress
<1>5. HashOf(n) \in SomeHash
  BY DEF HashOf, SomeHash
<1>6. /\ previous_cumulative_gas \in 0 .. MaxGas
      /\ source.cumulative_gas_used - previous_cumulative_gas \in Nat
  BY <1>3 DEF EvmInv, GasSoFar, GasDecreases
<1>7. t \in TransactionRows /\ r \in ReceiptRows /\ r.gas_used \in Nat
  BY <1>1, <1>3, <1>5, <1>6 DEF TransactionRows, ReceiptRows
<1>8. receipts' = Append(receipts, r) /\ transactions' = Append(transactions, t)
  BY DEF AppendReceipt
<1>9. previous_cumulative_gas' = source.cumulative_gas_used
  BY DEF AppendReceipt
<1>10. /\ transactions' \in Seq(TransactionRows) /\ Len(transactions') = n
       /\ transactions'[n] = t /\ \A i \in 1 .. n - 1 : transactions'[i] = transactions[i]
  BY <1>4, <1>7, <1>8, AppendProperties
<1>11. /\ receipts' \in Seq(ReceiptRows) /\ Len(receipts') = n
       /\ receipts'[n] = r /\ \A i \in 1 .. n - 1 : receipts'[i] = receipts[i]
  BY <1>4, <1>7, <1>8, AppendProperties
<1>12. Regulars' = Regulars /\ Systems' = Systems
  BY DEF Regulars, Systems
<1>13. \A i \in 1 .. n : ReceiptOf(i)' = ReceiptOf(i) /\ HashOf(i)' = HashOf(i)
  BY <1>12 DEF ReceiptOf, HashOf
<1>14. LogsNumbered' /\ LogContents' /\ logs' \in Seq(LogRows)
  <2>1. logs' = logs \o [k \in 1 .. Len(source.logs) |->
                  [transaction_index |-> Len(receipts), log_index |-> k - 1,
                   address |-> source.logs[k]]]
    BY <1>4 DEF AppendReceipt
  <2>2. r.log_count = Len(source.logs)
    OBVIOUS
  <2>3. source = ReceiptOf(Len(receipts) + 1)
    OBVIOUS
  <2> HIDE DEF r, source
  <2>4. QED
    BY <1>2, <1>7, <1>8, <2>1, <2>2, <2>3, LogsAdded
<1>15. EvmTypeOK'
  <2>1. \A k \in DOMAIN receipts' : receipts'[k].gas_used \in Nat
    <3>1. ASSUME NEW k \in 1 .. n PROVE receipts'[k].gas_used \in Nat
      <4>1. CASE k = n
        BY <1>7, <1>11, <4>1
      <4>2. CASE k # n
        <5>1. k \in 1 .. n - 1 /\ k \in 1 .. Len(receipts)
          BY <1>4, <4>2
        <5>2. receipts[k].gas_used \in Nat
          BY <5>1 DEF EvmInv, Parsed
        <5>3. QED
          BY <1>11, <5>1, <5>2
      <4>3. QED
        BY <4>1, <4>2
    <3>2. QED
      BY <1>11, <3>1
  <2>2. \A row \in Range(receipts') : row.gas_used \in Nat
    BY <2>1 DEF Range
  <2>3. QED
    BY <1>1, <1>3, <1>9, <2>2 DEF EvmTypeOK
<1>16. RowTypes'
  BY <1>10, <1>11, <1>14 DEF EvmInv, RowTypes
<1>17. Progress'
  <2>1. Len(receipts') = n /\ Len(transactions') = n /\ n <= Regulars + Systems
    BY <1>10, <1>11
  <2>2. CASE step = "regular" /\ index < Regulars
    BY <1>1, <1>4, <1>12, <2>1, <2>2 DEF EvmInv, Progress
  <2>3. CASE step = "system" /\ index < Systems
    <3>1. n - 1 = Regulars + index /\ index + 1 <= Systems /\ block.header
      BY <1>1, <1>4, <2>3 DEF EvmInv, Progress
    <3>2. n \in Nat /\ n = Regulars + (index + 1)
      <4>1. n \in Nat
        BY <1>1
      <4>2. ASSUME NEW a \in Nat, NEW b \in Nat, n - 1 = a + b PROVE n = a + (b + 1)
        BY ONLY <4>1, <4>2
      <4>3. QED
        BY ONLY <1>1, <3>1, <4>1, <4>2
    <3>3. step' = "system" /\ index' = index + 1 /\ block' = block
      BY <2>3
    <3>4. QED
      BY <1>1, <1>12, <2>1, <3>1, <3>2, <3>3 DEF Progress
  <2>4. QED
    BY <2>2, <2>3
<1>18. GasSoFar'
  BY <1>1, <1>3, <1>9, <1>11 DEF GasSoFar
<1>19. Parsed'
  <2>1. \A i \in 1 .. n : FieldsParse(i)' = FieldsParse(i)
    BY <1>12 DEF FieldsParse
  <2>2. \A i \in 1 .. n : GasBefore(i)' = GasBefore(i)
    <3>1. \A i \in 1 .. n : i \notin {1, Regulars + 1} => receipts'[i - 1] = receipts[i - 1]
      BY <1>11
    <3>2. QED
      BY <1>12, <3>1 DEF GasBefore
  <2>3. ASSUME NEW i \in 1 .. n - 1
        PROVE  /\ ParsedAs(i, transactions[i], receipts[i])' /\ FieldsParse(i)'
               /\ receipts'[i].gas_used \in Nat
               /\ receipts'[i].gas_used = receipts'[i].cumulative_gas_used - GasBefore(i)'
    <3>1. /\ i \in 1 .. Len(receipts) /\ i \in 1 .. n
          /\ receipts'[i] = receipts[i] /\ transactions'[i] = transactions[i]
      BY <1>4, <1>10, <1>11
    <3>2. /\ ParsedAs(i, transactions[i], receipts[i]) /\ FieldsParse(i)
          /\ receipts[i].gas_used \in Nat
          /\ receipts[i].gas_used = receipts[i].cumulative_gas_used - GasBefore(i)
      BY <3>1 DEF EvmInv, Parsed
    <3>3. ReceiptOf(i)' = ReceiptOf(i) /\ HashOf(i)' = HashOf(i)
      BY <1>13, <3>1
    <3>4. ParsedAs(i, transactions[i], receipts[i])'
      BY <1>12, <3>1, <3>2, <3>3 DEF ParsedAs
    <3>5. QED
      BY <2>1, <2>2, <3>1, <3>2, <3>4
  <2>4. previous_cumulative_gas = GasBefore(n)
    <3>1. n - 1 = IF step = "regular" THEN index ELSE Regulars + index
      BY <1>1, <1>4 DEF EvmInv, Progress
    <3>2. index = 0 <=> n \in {1, Regulars + 1}
      <4>1. CASE step = "regular" /\ index < Regulars
        BY <1>1, <3>1, <4>1
      <4>2. CASE step = "system" /\ index < Systems
        BY <1>1, <3>1, <4>2
      <4>3. QED
        BY <4>1, <4>2
    <3>3. QED
      BY <1>4, <3>2 DEF EvmInv, GasSoFar, GasBefore
  <2>5. /\ ParsedAs(n, transactions[n], receipts[n])' /\ FieldsParse(n)'
        /\ receipts'[n].gas_used \in Nat
        /\ receipts'[n].gas_used = receipts'[n].cumulative_gas_used - GasBefore(n)'
    <3>1. ReceiptOf(n)' = ReceiptOf(n) /\ HashOf(n)' = HashOf(n)
      BY <1>13
    <3>2. ParsedAs(n, transactions[n], receipts[n])'
      BY <1>10, <1>11, <1>12, <3>1 DEF ParsedAs
    <3>3. FieldsParse(n)' /\ GasBefore(n)' = previous_cumulative_gas
      BY <2>1, <2>2, <2>4
    <3>4. /\ receipts'[n].gas_used = source.cumulative_gas_used - previous_cumulative_gas
          /\ receipts'[n].cumulative_gas_used = source.cumulative_gas_used
      BY <1>11
    <3>5. QED
      BY <1>6, <3>2, <3>3, <3>4
  <2>6. \A i \in 1 .. n : i \in 1 .. n - 1 \/ i = n
    OBVIOUS
  <2>7. QED
    BY <1>11, <2>3, <2>5, <2>6 DEF Parsed
<1>20. CallsNumbered'
  BY DEF EvmInv, CallsNumbered
<1>21. Rejected'
  BY DEF Rejected
<1>22. BlockTypes'
  BY <1>1 DEF BlockTypes
<1>23. QED
  BY <1>14, <1>15, <1>16, <1>17, <1>18, <1>19, <1>20, <1>21, <1>22 DEF EvmInv

(* A step that adds no row. *)
LEMMA NoNewRow ==
  ASSUME EvmAssumption, EvmInv,
         UNCHANGED <<block, transactions, receipts, logs>>
  PROVE  /\ BlockTypes' /\ Parsed' /\ LogsNumbered' /\ LogContents'
         /\ Regulars' = Regulars /\ Systems' = Systems
         /\ BlockTypes /\ Regulars \in Nat /\ Systems \in Nat /\ Len(block.calls) \in Nat
<1>1. Regulars' = Regulars /\ Systems' = Systems
  BY DEF Regulars, Systems
<1>2. BlockTypes /\ Regulars \in Nat /\ Systems \in Nat /\ Len(block.calls) \in Nat
  BY BlockParts DEF EvmInv
<1>3. BlockTypes'
  BY DEF EvmInv, BlockTypes
<1>4. LogsNumbered' /\ LogContents'
  <2>1. \A i \in Nat : ReceiptOf(i)' = ReceiptOf(i)
    BY <1>1 DEF ReceiptOf
  <2>2. \A i \in 1 .. Len(logs) : logs[i].transaction_index + 1 \in Nat
    BY LenProperties DEF EvmInv, LogsNumbered, RowTypes
  <2>3. QED
    BY <2>1, <2>2 DEF EvmInv, LogsNumbered, LogContents
<1>5. Parsed'
  <2>1. ASSUME NEW n \in 1 .. Len(receipts)
        PROVE  /\ ParsedAs(n, transactions[n], receipts[n])' /\ FieldsParse(n)'
               /\ receipts[n].gas_used \in Nat
               /\ receipts[n].gas_used = receipts[n].cumulative_gas_used - GasBefore(n)'
    <3>1. /\ ParsedAs(n, transactions[n], receipts[n]) /\ FieldsParse(n)
          /\ receipts[n].gas_used \in Nat
          /\ receipts[n].gas_used = receipts[n].cumulative_gas_used - GasBefore(n)
      BY DEF EvmInv, Parsed
    <3>2. ReceiptOf(n)' = ReceiptOf(n) /\ HashOf(n)' = HashOf(n)
      BY <1>1 DEF ReceiptOf, HashOf
    <3>3. FieldsParse(n)' = FieldsParse(n) /\ GasBefore(n)' = GasBefore(n)
      BY <1>1 DEF FieldsParse, GasBefore
    <3>4. ParsedAs(n, transactions[n], receipts[n])'
      BY <1>1, <3>1, <3>2 DEF ParsedAs
    <3>5. QED
      BY <3>1, <3>3, <3>4
  <2>2. QED
    BY <2>1 DEF Parsed
<1>6. QED
  BY <1>1, <1>2, <1>3, <1>4, <1>5

LEMMA RejectInv ==
  ASSUME EvmAssumption, EvmInv, step # "error", RejectLine, Reasons
  PROVE  EvmInv'
<1>1. /\ BlockTypes' /\ Parsed' /\ LogsNumbered' /\ LogContents'
      /\ Regulars' = Regulars /\ Systems' = Systems
  BY NoNewRow DEF RejectLine
<1>2. EvmTypeOK'
  BY DEF EvmInv, EvmTypeOK, RejectLine
<1>3. Progress'
  BY <1>1 DEF EvmInv, Progress, RejectLine
<1>4. GasSoFar'
  BY DEF EvmInv, GasSoFar, RejectLine
<1>5. CallsNumbered'
  BY DEF EvmInv, CallsNumbered, RejectLine
<1>6. Rejected'
  BY <1>1 DEF Reasons, RejectLine, Rejected
<1>7. RowTypes'
  BY DEF EvmInv, RowTypes, RejectLine
<1>8. QED
  BY <1>1, <1>2, <1>3, <1>4, <1>5, <1>6, <1>7 DEF EvmInv

LEMMA ParseHeaderInv ==
  ASSUME EvmAssumption, EvmInv, ParseHeader
  PROVE  EvmInv'
<1>1. CASE ~(block.header /\ CountsMatch) /\ RejectLine
  <2>1. Reasons /\ step # "error"
    BY <1>1 DEF Reasons, Regulars, CountsMatch, ParseHeader
  <2>2. QED
    BY <1>1, <2>1, RejectInv
<1>2. CASE /\ block.header /\ CountsMatch /\ step' = "regular"
           /\ UNCHANGED <<block, index, previous_cumulative_gas, transactions, receipts, logs,
                          read_precompile_calls>>
  <2>1. /\ BlockTypes' /\ Parsed' /\ LogsNumbered' /\ LogContents'
        /\ Regulars' = Regulars /\ Systems' = Systems /\ Regulars \in Nat /\ Systems \in Nat
    BY <1>2, NoNewRow
  <2>2. /\ step = "header" /\ Len(receipts) = 0 /\ Len(transactions) = 0
        /\ index = 0 /\ previous_cumulative_gas = 0 /\ Regulars = Len(block.receipts)
    BY <1>2 DEF ParseHeader, CountsMatch, EvmInv, Progress, Regulars
  <2>3. EvmTypeOK'
    BY <1>2 DEF EvmInv, EvmTypeOK
  <2>4. Progress'
    BY <1>2, <2>1, <2>2 DEF Progress
  <2>5. GasSoFar'
    BY <1>2, <2>2 DEF EvmInv, GasSoFar
  <2>6. CallsNumbered'
    BY <1>2, <2>2 DEF EvmInv, CallsNumbered
  <2>7. Rejected'
    BY <1>2 DEF Rejected
  <2>8. RowTypes'
    BY <1>2 DEF EvmInv, RowTypes
  <2>9. QED
    BY <2>8, <2>1, <2>3, <2>4, <2>5, <2>6, <2>7 DEF EvmInv
<1>3. QED
  BY <1>1, <1>2 DEF ParseHeader

LEMMA StartSystemInv ==
  ASSUME EvmAssumption, EvmInv, StartSystem
  PROVE  EvmInv'
<1>1. /\ BlockTypes' /\ Parsed' /\ LogsNumbered' /\ LogContents'
      /\ Regulars' = Regulars /\ Systems' = Systems /\ Regulars \in Nat /\ Systems \in Nat
  BY NoNewRow DEF StartSystem
<1>2. /\ step = "regular" /\ step' = "system" /\ index' = 0 /\ previous_cumulative_gas' = 0
      /\ Len(receipts) = Regulars /\ Regulars = Len(block.receipts)
      /\ Len(transactions) = Len(receipts) /\ block.header
  BY DEF StartSystem, EvmInv, Progress, Regulars
<1>3. EvmTypeOK'
  <2>1. MaxGas \in Nat
    BY DEF EvmAssumption
  <2>2. QED
    BY <1>2, <2>1 DEF EvmInv, EvmTypeOK, StartSystem
<1>4. Progress'
  BY <1>1, <1>2 DEF Progress, StartSystem
<1>5. GasSoFar'
  BY <1>2, <1>3 DEF GasSoFar, EvmTypeOK
<1>6. CallsNumbered'
  BY <1>2 DEF EvmInv, CallsNumbered, StartSystem
<1>7. Rejected'
  BY <1>2 DEF Rejected
<1>8. RowTypes'
  BY DEF EvmInv, RowTypes, StartSystem
<1>9. QED
  BY <1>1, <1>3, <1>4, <1>5, <1>6, <1>7, <1>8 DEF EvmInv

LEMMA StartCallsInv ==
  ASSUME EvmAssumption, EvmInv, StartCalls
  PROVE  EvmInv'
<1>1. /\ BlockTypes' /\ Parsed' /\ LogsNumbered' /\ LogContents'
      /\ Regulars' = Regulars /\ Systems' = Systems /\ Regulars \in Nat /\ Systems \in Nat
      /\ Len(block.calls) \in Nat
  BY NoNewRow DEF StartCalls
<1>2. /\ step = "system" /\ step' = "calls" /\ index' = 0
      /\ Len(receipts) = Regulars + Systems /\ Regulars = Len(block.receipts)
      /\ Len(transactions) = Len(receipts) /\ read_precompile_calls' = << >> /\ block.header
  BY DEF StartCalls, EvmInv, Progress, CallsNumbered, Systems
<1>3. EvmTypeOK'
  BY <1>2 DEF EvmInv, EvmTypeOK, StartCalls
<1>4. Progress'
  <2>1. /\ Len(receipts') = Regulars + Systems /\ Regulars + Systems \in Nat
        /\ Len(transactions') = Len(receipts')
        /\ Len(block.receipts)' = Len(block.receipts) /\ Len(block.calls)' = Len(block.calls)
        /\ block'.header
    BY <1>1, <1>2 DEF StartCalls
  <2>2. QED
    BY <1>1, <1>2, <2>1 DEF Progress
<1>5. GasSoFar'
  BY <1>2 DEF EvmInv, GasSoFar, StartCalls
<1>6. CallsNumbered'
  <2>1. Len(read_precompile_calls') = 0
    BY <1>2
  <2>2. QED
    BY <1>2, <2>1 DEF CallsNumbered
<1>7. Rejected'
  BY <1>2 DEF Rejected
<1>8. RowTypes'
  BY DEF EvmInv, RowTypes, StartCalls
<1>9. QED
  BY <1>1, <1>3, <1>4, <1>5, <1>6, <1>7, <1>8 DEF EvmInv

LEMMA AcceptLineInv ==
  ASSUME EvmAssumption, EvmInv, AcceptLine
  PROVE  EvmInv'
<1>1. /\ BlockTypes' /\ Parsed' /\ LogsNumbered' /\ LogContents'
      /\ Regulars' = Regulars /\ Systems' = Systems
  BY NoNewRow DEF AcceptLine
<1>2. step = "calls" /\ step' = "ok" /\ index = Len(block.calls)
  BY DEF AcceptLine
<1>3. EvmTypeOK'
  BY <1>2 DEF EvmInv, EvmTypeOK, AcceptLine
<1>4. Progress'
  BY <1>1, <1>2 DEF EvmInv, Progress, AcceptLine
<1>5. GasSoFar'
  BY <1>2 DEF EvmInv, GasSoFar, AcceptLine
<1>6. CallsNumbered'
  BY <1>2 DEF EvmInv, CallsNumbered, AcceptLine
<1>7. Rejected'
  BY <1>2 DEF Rejected
<1>8. RowTypes'
  BY DEF EvmInv, RowTypes, AcceptLine
<1>9. QED
  BY <1>1, <1>3, <1>4, <1>5, <1>6, <1>7, <1>8 DEF EvmInv

LEMMA RegularTransactionInv ==
  ASSUME EvmAssumption, EvmInv, RegularTransaction
  PROVE  EvmInv'
<1> DEFINE n == index + 1
<1>1. /\ BlockTypes /\ Regulars \in Nat /\ Systems \in Nat /\ index \in Nat
      /\ step = "regular" /\ index < Regulars /\ index = Len(receipts)
      /\ Regulars = Len(block.receipts)
  BY BlockParts DEF EvmInv, EvmTypeOK, Progress, RegularTransaction, Regulars
<1>2. n \in 1 .. Regulars /\ n \in 1 .. Regulars + Systems /\ n <= Regulars /\ n - 1 = index
  BY <1>1
<1>3. /\ ReceiptOf(n) = block.receipts[n] /\ HashOf(n) = Hash(index)
      /\ FieldsParse(n) = block.transactions[n] /\ (n > Regulars) = FALSE
  BY <1>1, <1>2 DEF ReceiptOf, HashOf, FieldsParse
<1>4. CASE (~block.transactions[n] \/ GasDecreases(block.receipts[n])) /\ RejectLine
  <2>1. CASE ~block.transactions[n]
    <3>1. Reasons
      BY <1>2, <2>1 DEF Reasons
    <3>2. QED
      BY <1>1, <1>4, <3>1, RejectInv
  <2>2. CASE GasDecreases(block.receipts[n])
    <3>1. block.receipts[n].cumulative_gas_used \in Nat
      BY <1>1, <1>2, <1>3, ReceiptOfType, ReceiptType DEF EvmInv
    <3>2. index # 0
      BY <1>1, <2>2, <3>1 DEF GasDecreases, EvmInv, GasSoFar
    <3>3. n \in 2 .. Regulars /\ n - 1 \in 1 .. Len(receipts) /\ n - 1 <= Regulars
      BY <1>1, <1>2, <3>2
    <3>4. previous_cumulative_gas = receipts[n - 1].cumulative_gas_used
      BY <1>1, <1>2, <3>2 DEF EvmInv, GasSoFar
    <3>5. receipts[n - 1].cumulative_gas_used = block.receipts[n - 1].cumulative_gas_used
      BY <3>3 DEF EvmInv, Parsed, ParsedAs, ReceiptOf
    <3>6. block.receipts[n].cumulative_gas_used < block.receipts[n - 1].cumulative_gas_used
      BY <2>2, <3>4, <3>5 DEF GasDecreases
    <3>7. Reasons
      BY <3>3, <3>6 DEF Reasons
    <3>8. QED
      BY <1>1, <1>4, <3>7, RejectInv
  <2>3. QED
    BY <1>4, <2>1, <2>2
<1>5. CASE /\ block.transactions[n] /\ ~GasDecreases(block.receipts[n])
           /\ transactions' = Append(transactions,
                [transaction_index |-> index, hash |-> Hash(index), is_system |-> FALSE])
           /\ AppendReceipt(index, Hash(index), FALSE, block.receipts[n])
           /\ index' = index + 1
           /\ UNCHANGED <<block, step, read_precompile_calls>>
  <2>1. /\ transactions' = Append(transactions,
             [transaction_index |-> n - 1, hash |-> HashOf(n), is_system |-> n > Regulars])
        /\ AppendReceipt(n - 1, HashOf(n), n > Regulars, ReceiptOf(n))
        /\ FieldsParse(n) /\ ~GasDecreases(ReceiptOf(n)) /\ n = Len(receipts) + 1
    BY <1>1, <1>2, <1>3, <1>5
  <2> HIDE DEF n
  <2>2. QED
    BY <1>1, <1>2, <1>5, <2>1, NextTransaction
<1>6. QED
  BY <1>4, <1>5 DEF RegularTransaction

LEMMA SystemTransactionInv ==
  ASSUME EvmAssumption, EvmInv, SystemTransaction
  PROVE  EvmInv'
<1> DEFINE k == index + 1
           n == Regulars + index + 1
           tx == block.system_txs[k]
<1>1. /\ BlockTypes /\ Regulars \in Nat /\ Systems \in Nat /\ index \in Nat
      /\ step = "system" /\ index < Systems /\ Len(receipts) = Regulars + index
      /\ Regulars = Len(block.receipts)
  BY BlockParts DEF EvmInv, EvmTypeOK, Progress, SystemTransaction, Systems
<1>2. /\ k \in 1 .. Systems /\ n \in 1 .. Regulars + Systems /\ ~ (n <= Regulars) /\ n > Regulars
      /\ n - 1 = Regulars + index /\ n - Regulars = k /\ n = Len(receipts) + 1
  <2>1. ASSUME NEW a \in Nat, NEW b \in Nat, NEW i \in Nat, i < b
        PROVE  /\ i + 1 \in 1 .. b /\ a + i + 1 \in 1 .. a + b
               /\ ~ (a + i + 1 <= a) /\ a + i + 1 > a
               /\ a + i + 1 - 1 = a + i /\ a + i + 1 - a = i + 1
    BY <2>1
  <2>2. /\ k \in 1 .. Systems /\ n \in 1 .. Regulars + Systems /\ ~ (n <= Regulars) /\ n > Regulars
        /\ n - 1 = Regulars + index /\ n - Regulars = k
    <3>1. Regulars \in Nat /\ Systems \in Nat /\ index \in Nat /\ index < Systems
      BY <1>1
    <3>2. QED
      BY ONLY <2>1, <3>1
  <2>3. n = Len(receipts) + 1
    BY <1>1
  <2>4. QED
    BY <2>2, <2>3
<1>3. /\ ReceiptOf(n) = tx.receipt /\ HashOf(n) = NoHash
      /\ FieldsParse(n) = tx.ok /\ (n > Regulars) = TRUE
  BY <1>1, <1>2 DEF ReceiptOf, HashOf, FieldsParse
<1>4. CASE (~tx.ok \/ GasDecreases(tx.receipt)) /\ RejectLine
  <2>1. CASE ~tx.ok
    <3>1. Reasons
      BY <1>2, <2>1 DEF Reasons
    <3>2. QED
      BY <1>1, <1>4, <3>1, RejectInv
  <2>2. CASE GasDecreases(tx.receipt)
    <3>1. tx.receipt.cumulative_gas_used \in Nat
      BY <1>1, <1>2, <1>3, ReceiptOfType, ReceiptType DEF EvmInv
    <3>2. index # 0
      BY <1>1, <2>2, <3>1 DEF GasDecreases, EvmInv, GasSoFar
    <3>3. /\ k \in 2 .. Systems /\ n - 1 \in 1 .. Len(receipts) /\ ~ (n - 1 <= Regulars)
          /\ n - 1 - Regulars = k - 1
      BY <1>1, <1>2, <3>2
    <3>4. previous_cumulative_gas = receipts[n - 1].cumulative_gas_used
      BY <1>1, <1>2, <3>2 DEF EvmInv, GasSoFar
    <3>5. receipts[n - 1].cumulative_gas_used = ReceiptOf(n - 1).cumulative_gas_used
      BY <3>3 DEF EvmInv, Parsed, ParsedAs
    <3>6. ReceiptOf(n - 1) = block.system_txs[k - 1].receipt
      BY <3>3 DEF ReceiptOf
    <3>7. block.system_txs[k].receipt.cumulative_gas_used
            < block.system_txs[k - 1].receipt.cumulative_gas_used
      BY <2>2, <3>4, <3>5, <3>6 DEF GasDecreases
    <3>8. Reasons
      BY <3>3, <3>7 DEF Reasons
    <3>9. QED
      BY <1>1, <1>4, <3>8, RejectInv
  <2>3. QED
    BY <1>4, <2>1, <2>2
<1>5. CASE /\ tx.ok /\ ~GasDecreases(tx.receipt)
           /\ transactions' = Append(transactions,
                [transaction_index |-> SystemIndex(index), hash |-> NoHash, is_system |-> TRUE])
           /\ AppendReceipt(SystemIndex(index), NoHash, TRUE, tx.receipt)
           /\ index' = index + 1
           /\ UNCHANGED <<block, step, read_precompile_calls>>
  <2>1. SystemIndex(index) = n - 1
    BY <1>2 DEF SystemIndex, Regulars
  <2>2. /\ transactions' = Append(transactions,
             [transaction_index |-> n - 1, hash |-> HashOf(n), is_system |-> n > Regulars])
        /\ AppendReceipt(n - 1, HashOf(n), n > Regulars, ReceiptOf(n))
        /\ FieldsParse(n) /\ ~GasDecreases(ReceiptOf(n))
    BY <1>3, <1>5, <2>1
  <2> HIDE DEF n
  <2>3. QED
    BY <1>1, <1>2, <1>5, <2>2, NextTransaction
<1>6. QED
  BY <1>4, <1>5 DEF SystemTransaction

LEMMA PrecompileCallsInv ==
  ASSUME EvmAssumption, EvmInv, PrecompileCalls
  PROVE  EvmInv'
<1> DEFINE p == index + 1
           precompile == block.calls[p]
           count == precompile.calls
           new == [n \in 1 .. count |-> [precompile_index |-> index, call_index |-> n - 1]]
<1>1. /\ BlockTypes /\ index \in Nat /\ Len(block.calls) \in Nat /\ step = "calls"
      /\ index < Len(block.calls) /\ read_precompile_calls \in Seq(CallRows) /\ Len(read_precompile_calls) \in Nat
  BY BlockParts, LenProperties DEF EvmInv, EvmTypeOK, RowTypes, PrecompileCalls
<1>2. p \in 1 .. Len(block.calls) /\ precompile \in ReadPrecompile
  <2>1. p \in 1 .. Len(block.calls)
    BY <1>1
  <2>2. QED
    BY <1>1, <2>1, ElementOfSeq DEF BlockTypes
<1>3. count \in Nat
  BY <1>2 DEF ReadPrecompile
<1>4. CASE ~precompile.ok /\ RejectLine
  <2>1. Reasons
    BY <1>2, <1>4 DEF Reasons
  <2>2. QED
    BY <1>1, <1>4, <2>1, RejectInv
<1>5. CASE /\ precompile.ok
           /\ read_precompile_calls' = read_precompile_calls \o new
           /\ index' = index + 1
           /\ UNCHANGED <<block, step, previous_cumulative_gas, transactions, receipts, logs>>
  <2>1. new \in [1 .. count -> CallRows]
    BY <1>1, <1>3 DEF CallRows
  <2>2. \A n \in 1 .. count : new[n].precompile_index = index /\ new[n].call_index = n - 1
    OBVIOUS
  <2>3. read_precompile_calls' = read_precompile_calls \o new
    BY <1>5
  <2> HIDE DEF new, count
  <2>3a. read_precompile_calls \in Seq(CallRows) /\ count \in Nat /\ new \in [1 .. count -> CallRows]
    BY <1>1, <1>3, <2>1
  <2>4. /\ read_precompile_calls \o new \in Seq(CallRows)
        /\ Len(read_precompile_calls \o new) = Len(read_precompile_calls) + count
        /\ \A i \in 1 .. Len(read_precompile_calls) :
             (read_precompile_calls \o new)[i] = read_precompile_calls[i]
        /\ \A i \in 1 .. count :
             (read_precompile_calls \o new)[Len(read_precompile_calls) + i] = new[i]
    BY <2>3a, Added
  <2> DEFINE rows_after == read_precompile_calls'
             before == Len(read_precompile_calls)
  <2>4a. \A i \in 1 .. before + count : i \in 1 .. before \/ \E k \in 1 .. count : i = before + k
    BY <1>1, <2>3a, OldOrNew
  <2>5. /\ rows_after \in Seq(CallRows) /\ Len(rows_after) = before + count
        /\ \A i \in 1 .. before : rows_after[i] = read_precompile_calls[i]
        /\ \A i \in 1 .. count : /\ rows_after[before + i].precompile_index = index
                                 /\ rows_after[before + i].call_index = i - 1
        /\ \A i \in 1 .. before + count : i \in 1 .. before \/ \E k \in 1 .. count : i = before + k
    BY <2>2, <2>3, <2>4, <2>4a
  <2>6. \A i \in 1 .. before :
          /\ read_precompile_calls[i].precompile_index \in Nat /\ read_precompile_calls[i].call_index \in Nat
          /\ read_precompile_calls[i].precompile_index + 1 \in 1 .. Len(block.calls)
          /\ read_precompile_calls[i].precompile_index < index
          /\ read_precompile_calls[i].call_index < block.calls[read_precompile_calls[i].precompile_index + 1].calls
    <3>1. \A i \in 1 .. before : read_precompile_calls[i] \in CallRows
      BY <1>1, ElementOfSeq
    <3>2. QED
      BY <1>1, <3>1 DEF EvmInv, CallsNumbered, CallRows
  <2> HIDE DEF rows_after, before
  <2>7. before \in Nat /\ count \in Nat /\ index \in Nat
    BY <1>1, <1>3 DEF before
  <2>8. ASSUME NEW i \in 1 .. Len(rows_after)
        PROVE  /\ rows_after[i].precompile_index + 1 \in 1 .. Len(block.calls)
               /\ rows_after[i].precompile_index < index + 1
               /\ rows_after[i].call_index < block.calls[rows_after[i].precompile_index + 1].calls
    <3>1. CASE i \in 1 .. before
      <4>1. rows_after[i] = read_precompile_calls[i]
        BY <2>5, <3>1
      <4>2. read_precompile_calls[i].precompile_index < index + 1
        BY <2>6, <2>7, <3>1
      <4>3. QED
        BY <2>6, <3>1, <4>1, <4>2
    <3>2. CASE \E k \in 1 .. count : i = before + k
      <4>1. PICK k \in 1 .. count : i = before + k
        BY <3>2
      <4>2. rows_after[i].precompile_index = index /\ rows_after[i].call_index = k - 1
        BY <2>5, <4>1
      <4>3. k - 1 < count /\ index < index + 1
        BY <2>7
      <4>4. QED
        BY <1>2, <4>2, <4>3 DEF count
    <3>3. QED
      BY <2>5, <3>1, <3>2
  <2>9. ASSUME NEW q \in 1 .. index + 1
        PROVE  /\ block.calls[q].ok
               /\ \A k \in 0 .. block.calls[q].calls - 1 :
                    \E i \in 1 .. Len(rows_after) : /\ rows_after[i].precompile_index = q - 1
                                                    /\ rows_after[i].call_index = k
    <3>1. CASE q \in 1 .. index
      <4>1. block.calls[q].ok
        BY <1>1, <3>1 DEF EvmInv, CallsNumbered
      <4>2. ASSUME NEW k \in 0 .. block.calls[q].calls - 1
            PROVE  \E i \in 1 .. Len(rows_after) : /\ rows_after[i].precompile_index = q - 1
                                                   /\ rows_after[i].call_index = k
        <5>1. PICK i \in 1 .. before : /\ read_precompile_calls[i].precompile_index = q - 1
                                       /\ read_precompile_calls[i].call_index = k
          BY <1>1, <3>1 DEF EvmInv, CallsNumbered, before
        <5>2. rows_after[i] = read_precompile_calls[i] /\ i \in 1 .. Len(rows_after)
          BY <2>5, <2>7
        <5>3. QED
          BY <5>1, <5>2
      <4>3. QED
        BY <4>1, <4>2
    <3>2. CASE q = index + 1
      <4>1. ASSUME NEW k \in 0 .. count - 1
            PROVE  \E i \in 1 .. Len(rows_after) : /\ rows_after[i].precompile_index = q - 1
                                                   /\ rows_after[i].call_index = k
        <5>1. k + 1 \in 1 .. count /\ k + 1 - 1 = k /\ q - 1 = index
          BY <2>7, <3>2
        <5>2. before + (k + 1) \in 1 .. Len(rows_after)
          BY <2>5, <2>7, <5>1
        <5>3. QED
          BY <2>5, <5>1, <5>2
      <4>2. QED
        BY <1>5, <3>2, <4>1 DEF count
    <3>3. QED
      BY <2>7, <3>1, <3>2
  <2>10. ASSUME NEW i \in 1 .. Len(rows_after), NEW j \in 1 .. Len(rows_after),
                rows_after[i].precompile_index = rows_after[j].precompile_index,
                rows_after[i].call_index = rows_after[j].call_index
         PROVE  i = j
    <3>1. CASE i \in 1 .. before /\ j \in 1 .. before
      <4>1. rows_after[i] = read_precompile_calls[i] /\ rows_after[j] = read_precompile_calls[j]
        BY <2>5, <3>1
      <4>2. read_precompile_calls[i].precompile_index = read_precompile_calls[j].precompile_index
            /\ read_precompile_calls[i].call_index = read_precompile_calls[j].call_index
        BY <2>10, <4>1
      <4>3. QED
        BY <3>1, <4>2 DEF EvmInv, CallsNumbered, before
    <3>2. ASSUME NEW a \in 1 .. before, NEW b \in 1 .. count,
                 rows_after[a].precompile_index = rows_after[before + b].precompile_index
          PROVE  FALSE
      <4>1. read_precompile_calls[a].precompile_index = index
        BY <2>5, <3>2
      <4>2. QED
        BY <2>6, <2>7, <4>1
    <3>3. CASE i \in 1 .. before /\ \E k \in 1 .. count : j = before + k
      BY <2>10, <3>2, <3>3
    <3>4. CASE j \in 1 .. before /\ \E k \in 1 .. count : i = before + k
      BY <2>10, <3>2, <3>4
    <3>5. ASSUME NEW a \in 1 .. count, NEW b \in 1 .. count, i = before + a, j = before + b
          PROVE  i = j
      <4>1. a - 1 = b - 1
        BY <2>5, <2>10, <3>5
      <4>2. QED
        BY <2>7, <3>5, <4>1
    <3>6. QED
      BY <2>5, <3>1, <3>3, <3>4, <3>5
  <2>11. CallsNumbered'
    <3>1. step' = "calls" /\ index' = index + 1 /\ block' = block
      BY <1>1, <1>5
    <3>2. QED
      BY <2>8, <2>9, <2>10, <3>1 DEF CallsNumbered, rows_after
  <2>12. /\ BlockTypes' /\ Parsed' /\ LogsNumbered' /\ LogContents'
          /\ Regulars' = Regulars /\ Systems' = Systems
    BY <1>5, NoNewRow
  <2>13. RowTypes'
    BY <1>5, <2>5 DEF EvmInv, RowTypes, rows_after
  <2>14. EvmTypeOK'
    BY <1>1, <1>5 DEF EvmInv, EvmTypeOK
  <2>15. Progress'
    BY <1>1, <1>5, <2>12 DEF EvmInv, Progress
  <2>16. GasSoFar' /\ Rejected'
    BY <1>1, <1>5 DEF EvmInv, GasSoFar, Rejected
  <2>17. QED
    BY <2>11, <2>12, <2>13, <2>14, <2>15, <2>16 DEF EvmInv
<1>6. QED
  BY <1>4, <1>5 DEF PrecompileCalls

LEMMA EvmInvHolds == ASSUME EvmAssumption PROVE EvmSpec => []EvmInv
<1>1. EvmInit => EvmInv
  BY EvmInitInv
<1>2. EvmInv /\ [EvmNext]_evmVars => EvmInv'
  <2> SUFFICES ASSUME EvmInv, [EvmNext]_evmVars PROVE EvmInv'
    OBVIOUS
  <2>1. CASE ParseHeader
    BY <2>1, ParseHeaderInv
  <2>2. CASE RegularTransaction
    BY <2>2, RegularTransactionInv
  <2>3. CASE StartSystem
    BY <2>3, StartSystemInv
  <2>4. CASE SystemTransaction
    BY <2>4, SystemTransactionInv
  <2>5. CASE StartCalls
    BY <2>5, StartCallsInv
  <2>6. CASE PrecompileCalls
    BY <2>6, PrecompileCallsInv
  <2>7. CASE AcceptLine
    BY <2>7, AcceptLineInv
  <2>8. CASE UNCHANGED evmVars
    <3>1. /\ BlockTypes' /\ Parsed' /\ LogsNumbered' /\ LogContents'
          /\ Regulars' = Regulars /\ Systems' = Systems
      BY <2>8, NoNewRow DEF evmVars
    <3>2. EvmTypeOK' /\ RowTypes'
      BY <2>8 DEF evmVars, EvmInv, EvmTypeOK, RowTypes
    <3>3. Progress'
      <4>1. Progress
        BY DEF EvmInv
      <4>2. QED
        BY <2>8, <3>1, <4>1 DEF evmVars, Progress
    <3>4. GasSoFar'
      BY <2>8 DEF evmVars, EvmInv, GasSoFar
    <3>5. CallsNumbered'
      <4>1. /\ CallsNumbered /\ read_precompile_calls' = read_precompile_calls
            /\ block' = block /\ step' = step /\ index' = index
        BY <2>8 DEF EvmInv, evmVars
      <4>2. QED
        BY ONLY <4>1 DEF CallsNumbered
    <3>6. Rejected'
      BY <2>8, <3>1 DEF evmVars, EvmInv, Rejected, Reasons
    <3>7. QED
      BY <3>1, <3>2, <3>3, <3>4, <3>5, <3>6 DEF EvmInv
  <2>9. QED
    BY <2>1, <2>2, <2>3, <2>4, <2>5, <2>6, <2>7, <2>8 DEF EvmNext
<1>3. QED
  BY <1>1, <1>2, PTL DEF EvmSpec

(* The columns of the rows have their types; no gas used is negative. *)
THEOREM EvmTypes == ASSUME EvmAssumption PROVE EvmSpec => []EvmTypeOK
<1>1. EvmInv => EvmTypeOK
  BY DEF EvmInv
<1>2. QED
  BY <1>1, EvmInvHolds, PTL

(* No row of a line replaces another row of it in its table. *)
THEOREM EvmNoRowReplaced == ASSUME EvmAssumption PROVE EvmSpec => []NoRowReplaced
<1>1. ASSUME EvmInv PROVE NoRowReplaced
  <2>1. /\ DOMAIN transactions = 1 .. Len(receipts) /\ DOMAIN receipts = 1 .. Len(receipts)
        /\ DOMAIN logs = 1 .. Len(logs)
        /\ DOMAIN read_precompile_calls = 1 .. Len(read_precompile_calls)
    BY <1>1, LenProperties DEF EvmInv, RowTypes, Progress
  <2>2. ASSUME NEW i \in 1 .. Len(receipts), NEW j \in 1 .. Len(receipts), i - 1 = j - 1
        PROVE  i = j
    <3>1. Len(receipts) \in Nat
      BY <1>1, LenProperties DEF EvmInv, RowTypes
    <3>2. QED
      BY <2>2, <3>1
  <2>3. KeptApart(transactions, LAMBDA t : t.transaction_index)
    <3>1. \A i \in 1 .. Len(receipts) : transactions[i].transaction_index = i - 1
      BY <1>1 DEF EvmInv, Parsed, ParsedAs
    <3>2. QED
      BY <2>1, <2>2, <3>1 DEF KeptApart
  <2>4. KeptApart(receipts, LAMBDA r : r.transaction_index)
    <3>1. \A i \in 1 .. Len(receipts) : receipts[i].transaction_index = i - 1
      BY <1>1 DEF EvmInv, Parsed, ParsedAs
    <3>2. QED
      BY <2>1, <2>2, <3>1 DEF KeptApart
  <2>5. KeptApart(logs, LAMBDA l : <<l.address, l.transaction_index, l.log_index>>)
    BY <1>1, <2>1 DEF EvmInv, LogsNumbered, KeptApart
  <2>6. KeptApart(read_precompile_calls, LAMBDA c : <<c.precompile_index, c.call_index>>)
    BY <1>1, <2>1 DEF EvmInv, CallsNumbered, KeptApart
  <2>7. QED
    BY <2>3, <2>4, <2>5, <2>6 DEF NoRowReplaced
<1>2. QED
  BY <1>1, EvmInvHolds, PTL

(* A transaction, its receipt and its logs are found under one index. *)
THEOREM EvmRowsJoin == ASSUME EvmAssumption PROVE EvmSpec => []RowsJoin
<1>1. ASSUME EvmInv PROVE RowsJoin
  <2>1. /\ DOMAIN receipts = 1 .. Len(receipts) /\ DOMAIN logs = 1 .. Len(logs)
        /\ Len(transactions) = Len(receipts) /\ Len(receipts) \in Nat
    BY <1>1, LenProperties DEF EvmInv, RowTypes, Progress
  <2>2. Range(logs) = {logs[i] : i \in 1 .. Len(logs)}
    BY <2>1 DEF Range
  <2>3. ASSUME NEW n \in 1 .. Len(receipts)
        PROVE  LET r == receipts[n]  t == transactions[n]
                   mine == {l \in Range(logs) : l.transaction_index = r.transaction_index}
               IN  /\ r.transaction_index = t.transaction_index
                   /\ r.transaction_hash = t.hash /\ r.is_system = t.is_system
                   /\ {l.log_index : l \in mine} = 0 .. r.log_count - 1
    <3> DEFINE r == receipts[n]
               mine == {l \in Range(logs) : l.transaction_index = r.transaction_index}
    <3>1. /\ r.transaction_index = transactions[n].transaction_index
          /\ r.transaction_hash = transactions[n].hash /\ r.is_system = transactions[n].is_system
          /\ r.transaction_index = n - 1
      BY <1>1 DEF EvmInv, Parsed, ParsedAs
    <3>2. r.log_count \in Nat
      <4>1. receipts[n] \in ReceiptRows
        BY <1>1, ElementOfSeq DEF EvmInv, RowTypes
      <4>2. QED
        BY <4>1 DEF ReceiptRows
    <3>3. ASSUME NEW l \in mine PROVE l.log_index \in 0 .. r.log_count - 1
      <4>1. PICK i \in 1 .. Len(logs) : l = logs[i]
        BY <2>2
      <4>2. logs[i] \in LogRows
        BY <1>1, ElementOfSeq DEF EvmInv, RowTypes
      <4>3. l.log_index \in Nat /\ l.transaction_index = n - 1
        BY <3>1, <4>1, <4>2 DEF LogRows
      <4>4. l.log_index < receipts[l.transaction_index + 1].log_count
        BY <1>1, <4>1 DEF EvmInv, LogsNumbered
      <4>5. l.transaction_index + 1 = n
        BY <2>1, <4>3
      <4>6. QED
        BY <3>2, <4>3, <4>4, <4>5
    <3>4. ASSUME NEW k \in 0 .. r.log_count - 1 PROVE \E l \in mine : l.log_index = k
      <4>1. PICK i \in 1 .. Len(logs) : logs[i].transaction_index = n - 1 /\ logs[i].log_index = k
        BY <1>1 DEF EvmInv, LogsNumbered
      <4>2. logs[i] \in mine
        BY <2>2, <3>1, <4>1
      <4>3. QED
        BY <4>1, <4>2
    <3> HIDE DEF mine
    <3>5. {l.log_index : l \in mine} = 0 .. r.log_count - 1
      BY <3>3, <3>4
    <3>6. QED
      BY <3>1, <3>5 DEF mine
  <2>4. QED
    BY <2>1, <2>3 DEF RowsJoin
<1>2. QED
  BY <1>1, EvmInvHolds, PTL

-----------------------------------------------------------------------------
(* A sum is a recursive function: there is one, so it is what it says. *)
LEMMA SumExists ==
  ASSUME NEW N \in Nat, NEW F
  PROVE  \E g : g = [n \in 0 .. N |-> IF n = 0 THEN 0 ELSE g[n - 1] + F[n]]
<1> DEFINE Is(g, m) == g = [n \in 0 .. m |-> IF n = 0 THEN 0 ELSE g[n - 1] + F[n]]
           S == {m \in Nat : \E g : Is(g, m)}
<1>1. 0 \in S
  <2>1. Is([n \in 0 .. 0 |-> 0], 0)
    OBVIOUS
  <2>2. QED
    BY <2>1
<1>2. ASSUME NEW m \in Nat, m \in S PROVE m + 1 \in S
  <2>1. PICK g : Is(g, m)
    BY <1>2
  <2> DEFINE h == [n \in 0 .. m + 1 |-> IF n = m + 1 THEN g[m] + F[m + 1] ELSE g[n]]
  <2>2. \A n \in 0 .. m : h[n] = g[n]
    OBVIOUS
  <2>3. ASSUME NEW n \in 0 .. m + 1 PROVE h[n] = IF n = 0 THEN 0 ELSE h[n - 1] + F[n]
    <3>1. CASE n = m + 1
      BY <2>2, <3>1
    <3>2. CASE n \in 0 .. m
      <4>1. g[n] = IF n = 0 THEN 0 ELSE g[n - 1] + F[n]
        BY <2>1, <3>2
      <4>2. n # 0 => h[n - 1] = g[n - 1]
        BY <2>2, <3>2
      <4>3. QED
        BY <2>2, <3>2, <4>1, <4>2
    <3>3. QED
      BY <3>1, <3>2
  <2>4. Is(h, m + 1)
    <3>1. h = [n \in 0 .. m + 1 |-> h[n]]
      OBVIOUS
    <3> HIDE DEF h
    <3>2. QED
      BY <2>3, <3>1
  <2> HIDE DEF Is, h
  <2>5. m + 1 \in Nat /\ \E f : Is(f, m + 1)
    BY <2>4
  <2>6. QED
    BY <2>5
<1> HIDE DEF S
<1>3. Nat \subseteq S
  BY <1>1, <1>2, Inductive
<1>4. QED
  BY <1>3 DEF S

(* The gas used by the n-th transaction, if it is of that kind. *)
GasOf(n, system) == IF receipts[n].is_system = system THEN receipts[n].gas_used ELSE 0

LEMMA GasUsedSums ==
  ASSUME Len(receipts) \in Nat, NEW system
  PROVE  /\ GasUsed(system)[0] = 0
         /\ \A n \in 1 .. Len(receipts) :
              GasUsed(system)[n] = GasUsed(system)[n - 1] + GasOf(n, system)
<1> DEFINE N == Len(receipts)
           F == [n \in 1 .. N |-> GasOf(n, system)]
           Is(g) == g = [n \in 0 .. N |->
                      IF n = 0 THEN 0
                      ELSE g[n - 1] + IF receipts[n].is_system = system THEN receipts[n].gas_used ELSE 0]
<1>1. PICK g : g = [n \in 0 .. N |-> IF n = 0 THEN 0 ELSE g[n - 1] + F[n]]
  BY SumExists
<1>2. Is(g)
  <2>1. \A n \in 0 .. N :
          n # 0 => F[n] = IF receipts[n].is_system = system THEN receipts[n].gas_used ELSE 0
    BY DEF GasOf
  <2> HIDE DEF F
  <2>2. QED
    BY <1>1, <2>1
<1>3. GasUsed(system) = CHOOSE sum : Is(sum)
  BY DEF GasUsed
<1> HIDE DEF Is
<1>4. Is(GasUsed(system))
  BY <1>2, <1>3
<1>5. QED
  BY <1>4 DEF Is, GasOf

(* Each sum is the one before and the difference to the total before. *)
SumsDifferences(sum, total, first, to) ==
  /\ sum[first - 1] = 0
  /\ \A n \in first .. to :
       /\ total[n] \in Nat
       /\ sum[n] = sum[n - 1] + (total[n] - IF n = first THEN 0 ELSE total[n - 1])

LEMMA Telescopes ==
  ASSUME NEW first \in Nat, NEW to \in Nat, NEW sum, NEW total,
         SumsDifferences(sum, total, first, to)
  PROVE  \A n \in first .. to : sum[n] = total[n]
<1> USE DEF SumsDifferences
<1> DEFINE bad == {n \in first .. to : sum[n] # total[n]}
<1> SUFFICES ASSUME bad # {} PROVE FALSE
  OBVIOUS
<1>1. bad \subseteq Nat
  OBVIOUS
<1>2. PICK i \in bad : \A j \in bad : i <= j
  BY <1>1, LeastNat
<1>3. i \in first .. to /\ i - 1 \notin bad
  BY <1>1, <1>2
<1>4. CASE i = first
  <2>1. sum[i] = 0 + (total[i] - 0) /\ total[i] \in Nat
    BY <1>3, <1>4
  <2>2. QED
    BY <1>2, <2>1
<1>5. CASE i # first
  <2>1. i - 1 \in first .. to
    BY <1>3, <1>5
  <2>2. sum[i - 1] = total[i - 1] /\ total[i - 1] \in Nat /\ total[i] \in Nat
    BY <1>3, <2>1
  <2>3. sum[i] = sum[i - 1] + (total[i] - total[i - 1])
    BY <1>3, <1>5
  <2>4. QED
    BY <1>2, <2>2, <2>3
<1>6. QED
  BY <1>4, <1>5

(* A sum to which nothing is added. *)
LEMMA StaysZero ==
  ASSUME NEW to \in Nat, NEW sum, sum[0] = 0, \A n \in 1 .. to : sum[n] = sum[n - 1] + 0
  PROVE  sum[to] = 0
<1> DEFINE bad == {n \in 0 .. to : sum[n] # 0}
<1> SUFFICES ASSUME bad # {} PROVE FALSE
  OBVIOUS
<1>1. bad \subseteq Nat
  OBVIOUS
<1>2. PICK i \in bad : \A j \in bad : i <= j
  BY <1>1, LeastNat
<1>3. i \in 1 .. to /\ i - 1 \in 0 .. to /\ i - 1 \notin bad
  BY <1>1, <1>2
<1>4. sum[i - 1] = 0
  BY <1>3
<1>5. sum[i] = 0
  BY <1>3, <1>4
<1>6. QED
  BY <1>2, <1>5

(* The gas used adds up to the cumulative gas of the receipts. *)
THEOREM EvmGasAddsUp == ASSUME EvmAssumption PROVE EvmSpec => []GasAddsUp
<1>1. ASSUME EvmInv PROVE GasAddsUp
  <2> DEFINE N == Len(receipts)
             total == [n \in 1 .. N |-> receipts[n].cumulative_gas_used]
             regular == IF N <= Regulars THEN N ELSE Regulars
  <2>1. /\ N \in Nat /\ Regulars \in Nat /\ DOMAIN receipts = 1 .. N
    BY <1>1, BlockParts, LenProperties DEF EvmInv, RowTypes
  <2>2. \A s : GasUsed(s)[0] = 0 /\ \A n \in 1 .. N : GasUsed(s)[n] = GasUsed(s)[n - 1] + GasOf(n, s)
    BY <2>1, GasUsedSums
  <2>3. ASSUME NEW n \in 1 .. N
        PROVE  /\ total[n] \in Nat /\ total[n] = receipts[n].cumulative_gas_used
               /\ receipts[n].is_system = (n > Regulars)
               /\ receipts[n].gas_used
                    = total[n] - IF n \in {1, Regulars + 1} THEN 0 ELSE total[n - 1]
    <3>1. receipts[n] \in ReceiptRows
      BY <1>1, ElementOfSeq DEF EvmInv, RowTypes
    <3>2. total[n] \in Nat /\ total[n] = receipts[n].cumulative_gas_used
      BY <3>1 DEF ReceiptRows
    <3>3. /\ receipts[n].is_system = (n > Regulars)
          /\ receipts[n].gas_used = receipts[n].cumulative_gas_used - GasBefore(n)
      BY <1>1 DEF EvmInv, Parsed, ParsedAs
    <3>4. GasBefore(n) = IF n \in {1, Regulars + 1} THEN 0 ELSE total[n - 1]
      BY <2>1 DEF GasBefore
    <3>5. QED
      BY <3>2, <3>3, <3>4
  <2>4. ASSUME NEW n \in 1 .. N, n <= Regulars
        PROVE  /\ receipts[n].is_system = FALSE /\ GasOf(n, TRUE) = 0
               /\ GasOf(n, FALSE) = total[n] - IF n = 1 THEN 0 ELSE total[n - 1]
    <3>1. (n > Regulars) = FALSE /\ n # Regulars + 1
      BY <2>1, <2>4
    <3>2. receipts[n].is_system = FALSE
      BY <2>3, <3>1
    <3>3. receipts[n].gas_used = total[n] - IF n = 1 THEN 0 ELSE total[n - 1]
      BY <2>3, <3>1
    <3>4. QED
      BY <3>2, <3>3 DEF GasOf
  <2>5. ASSUME NEW n \in 1 .. N, n > Regulars
        PROVE  /\ receipts[n].is_system = TRUE
               /\ GasOf(n, TRUE) = total[n] - IF n = Regulars + 1 THEN 0 ELSE total[n - 1]
    <3>1. n = 1 => n = Regulars + 1
      BY <2>1, <2>5
    <3>2. receipts[n].is_system = TRUE
      BY <2>3, <2>5
    <3>3. receipts[n].gas_used = total[n] - IF n = Regulars + 1 THEN 0 ELSE total[n - 1]
      BY <2>3, <3>1
    <3>4. QED
      BY <3>2, <3>3 DEF GasOf
  <2> HIDE DEF total
  <2>6. regular \in Nat /\ regular \in 0 .. N /\ regular <= Regulars
    BY <2>1
  <2> DEFINE first == Regulars + 1
  <2>7. ASSUME NEW n \in 1 .. N, n <= Regulars PROVE GasUsed(FALSE)[n] = total[n]
    <3> DEFINE sum == GasUsed(FALSE)
    <3>1. n \in 1 .. regular /\ \A i \in 1 .. regular : i \in 1 .. N /\ i <= Regulars
      BY <2>1, <2>7
    <3> HIDE DEF regular
    <3>2. ASSUME NEW i \in 1 .. regular
          PROVE  /\ total[i] \in Nat
                 /\ sum[i] = sum[i - 1] + (total[i] - IF i = 1 THEN 0 ELSE total[i - 1])
      <4>1. i \in 1 .. N /\ i <= Regulars
        BY <3>1
      <4>2. sum[i] = sum[i - 1] + GasOf(i, FALSE)
        BY <2>2, <4>1
      <4>3. QED
        BY <2>3, <2>4, <4>1, <4>2
    <3>3. sum[0] = 0
      BY <2>2
    <3> HIDE DEF sum
    <3>4. SumsDifferences(sum, total, 1, regular)
      BY <3>2, <3>3 DEF SumsDifferences
    <3>5. \A i \in 1 .. regular : sum[i] = total[i]
      BY <2>6, <3>4, Telescopes
    <3>6. QED
      BY <3>1, <3>5 DEF sum
  <2>8. GasUsed(TRUE)[regular] = 0
    <3>1. \A i \in 1 .. regular : i \in 1 .. N /\ i <= Regulars
      BY <2>1
    <3> HIDE DEF regular
    <3>2. ASSUME NEW i \in 1 .. regular PROVE GasUsed(TRUE)[i] = GasUsed(TRUE)[i - 1] + 0
      <4>1. i \in 1 .. N /\ i <= Regulars
        BY <3>1
      <4>2. GasUsed(TRUE)[i] = GasUsed(TRUE)[i - 1] + GasOf(i, TRUE)
        BY <2>2, <4>1
      <4>3. GasOf(i, TRUE) = 0
        BY <2>4, <4>1
      <4>4. QED
        BY <4>2, <4>3
    <3>3. QED
      BY <2>2, <2>6, <3>2, StaysZero
  <2>9. ASSUME NEW n \in 1 .. N, n > Regulars PROVE GasUsed(TRUE)[n] = total[n]
    <3> DEFINE sum == GasUsed(TRUE)
    <3>1. regular = Regulars
      <4>1. ~ (N <= Regulars)
        BY <2>1, <2>9
      <4>2. QED
        BY <4>1
    <3>2. first \in Nat /\ n \in first .. N /\ Regulars = first - 1
      BY <2>1, <2>9
    <3>3. ASSUME NEW i \in first .. N
          PROVE  /\ total[i] \in Nat
                 /\ sum[i] = sum[i - 1] + (total[i] - IF i = first THEN 0 ELSE total[i - 1])
      <4>1. i \in 1 .. N /\ i > Regulars
        BY <2>1
      <4>2. sum[i] = sum[i - 1] + GasOf(i, TRUE)
        BY <2>2, <4>1
      <4>3. QED
        BY <2>3, <2>5, <4>1, <4>2
    <3>4. sum[Regulars] = 0
      BY <2>8, <3>1
    <3> HIDE DEF first, sum
    <3>5. SumsDifferences(sum, total, first, N)
      BY <3>2, <3>3, <3>4 DEF SumsDifferences
    <3>6. \A i \in first .. N : sum[i] = total[i]
      BY <2>1, <3>2, <3>5, Telescopes
    <3>7. QED
      BY <3>2, <3>6 DEF sum
  <2>10. ASSUME NEW n \in 1 .. N
         PROVE  GasUsed(receipts[n].is_system)[n] = receipts[n].cumulative_gas_used
    <3>1. CASE n <= Regulars
      BY <2>3, <2>4, <2>7, <3>1
    <3>2. CASE n > Regulars
      BY <2>3, <2>5, <2>9, <3>2
    <3>3. QED
      BY <2>1, <3>1, <3>2
  <2>11. QED
    BY <2>1, <2>10 DEF GasAddsUp
<1>2. QED
  BY <1>1, EvmInvHolds, PTL

(* What does not decrease from one to the next decreases nowhere. *)
LEMMA NeverDecreases ==
  ASSUME NEW n \in Nat, NEW f, \A i \in 1 .. n : f[i] \in Nat, \A i \in 2 .. n : f[i - 1] <= f[i],
         NEW i \in 1 .. n, NEW j \in 1 .. n, i < j
  PROVE  f[i] <= f[j]
<1> DEFINE bad == {k \in i + 1 .. n : ~ (f[i] <= f[k])}
<1> SUFFICES ASSUME bad # {} PROVE FALSE
  OBVIOUS
<1>1. bad \subseteq Nat
  OBVIOUS
<1>2. PICK k \in bad : \A m \in bad : k <= m
  BY <1>1, LeastNat
<1>3. k - 1 \notin bad /\ k \in i + 1 .. n /\ k \in 2 .. n /\ k \in 1 .. n /\ k - 1 \in 1 .. n
  BY <1>1, <1>2
<1>4. f[i] \in Nat /\ f[k - 1] \in Nat /\ f[k] \in Nat /\ f[k - 1] <= f[k]
  BY <1>3
<1>5. f[i] <= f[k - 1]
  <2>1. CASE k - 1 = i
    BY <1>4, <2>1
  <2>2. CASE k - 1 # i
    <3>1. k - 1 \in i + 1 .. n
      BY <1>3, <2>2
    <3>2. QED
      BY <1>3, <3>1
  <2>3. QED
    BY <2>1, <2>2
<1>6. QED
  BY <1>2, <1>4, <1>5

(* The receipts of an accepted line, by their place in the line. *)
LEMMA AcceptedGas ==
  ASSUME EvmAssumption, EvmInv, step = "ok"
  PROVE  /\ \A n \in 1 .. Regulars : block.receipts[n].cumulative_gas_used \in Nat
         /\ \A n \in 2 .. Regulars : block.receipts[n - 1].cumulative_gas_used
                                       <= block.receipts[n].cumulative_gas_used
         /\ \A n \in 1 .. Systems : block.system_txs[n].receipt.cumulative_gas_used \in Nat
         /\ \A n \in 2 .. Systems : block.system_txs[n - 1].receipt.cumulative_gas_used
                                      <= block.system_txs[n].receipt.cumulative_gas_used
<1>1. /\ Regulars \in Nat /\ Systems \in Nat /\ Len(receipts) = Regulars + Systems
      /\ Regulars = Len(block.receipts) /\ EvmTypeOK
  BY BlockParts DEF EvmInv, Progress
<1>2. ASSUME NEW n \in 1 .. Regulars + Systems
      PROVE  /\ ReceiptOf(n).cumulative_gas_used \in Nat
             /\ receipts[n].cumulative_gas_used = ReceiptOf(n).cumulative_gas_used
             /\ receipts[n].gas_used \in Nat
             /\ receipts[n].gas_used = receipts[n].cumulative_gas_used - GasBefore(n)
  BY <1>1, ReceiptOfType, ReceiptType DEF EvmInv, Parsed, ParsedAs
<1>3. ASSUME NEW n \in 2 .. Regulars + Systems, n # Regulars + 1
      PROVE  ReceiptOf(n - 1).cumulative_gas_used <= ReceiptOf(n).cumulative_gas_used
  <2>1. n \in 1 .. Regulars + Systems /\ n - 1 \in 1 .. Regulars + Systems
    BY <1>1
  <2>2. GasBefore(n) = receipts[n - 1].cumulative_gas_used
    BY <1>3 DEF GasBefore
  <2>3. ASSUME NEW a \in Nat, NEW b \in Nat, NEW d \in Nat, d = b - a PROVE a <= b
    BY <2>3
  <2>4. /\ ReceiptOf(n - 1).cumulative_gas_used \in Nat /\ ReceiptOf(n).cumulative_gas_used \in Nat
        /\ receipts[n].gas_used \in Nat
        /\ receipts[n].gas_used
             = ReceiptOf(n).cumulative_gas_used - ReceiptOf(n - 1).cumulative_gas_used
    BY <1>2, <2>1, <2>2
  <2>5. QED
    BY <2>3, <2>4
<1>4. ASSUME NEW n \in 1 .. Regulars
      PROVE  /\ ReceiptOf(n) = block.receipts[n] /\ n \in 1 .. Regulars + Systems /\ n # Regulars + 1
  BY <1>1 DEF ReceiptOf
<1>5. ASSUME NEW n \in 1 .. Systems
      PROVE  /\ ReceiptOf(Regulars + n) = block.system_txs[n].receipt
             /\ Regulars + n \in 1 .. Regulars + Systems
  <2>1. ~ (Regulars + n <= Regulars) /\ Regulars + n - Regulars = n
    BY <1>1
  <2>2. QED
    BY <1>1, <2>1 DEF ReceiptOf
<1>6. ASSUME NEW n \in 2 .. Regulars
      PROVE  block.receipts[n - 1].cumulative_gas_used <= block.receipts[n].cumulative_gas_used
  <2>1. n \in 1 .. Regulars /\ n - 1 \in 1 .. Regulars /\ n \in 2 .. Regulars + Systems
    BY <1>1
  <2>2. QED
    BY <1>3, <1>4, <2>1
<1>7. ASSUME NEW n \in 2 .. Systems
      PROVE  block.system_txs[n - 1].receipt.cumulative_gas_used
               <= block.system_txs[n].receipt.cumulative_gas_used
  <2>1. /\ n \in 1 .. Systems /\ n - 1 \in 1 .. Systems /\ n # 1
        /\ Regulars + n \in 2 .. Regulars + Systems /\ Regulars + n - 1 = Regulars + (n - 1)
        /\ Regulars + n # Regulars + 1
    BY <1>1
  <2> DEFINE m == Regulars + n
  <2>2. m \in 2 .. Regulars + Systems /\ m # Regulars + 1 /\ m - 1 = Regulars + (n - 1)
    <3>1. ASSUME NEW a \in Nat, NEW b \in Nat, NEW i \in 2 .. b
          PROVE  a + i \in 2 .. a + b /\ a + i # a + 1 /\ a + i - 1 = a + (i - 1)
      OBVIOUS
    <3>2. QED
      BY <1>1, <3>1
  <2> HIDE DEF m
  <2>3. ReceiptOf(m - 1).cumulative_gas_used <= ReceiptOf(m).cumulative_gas_used
    BY <1>3, <2>2
  <2>4. ReceiptOf(m) = block.system_txs[n].receipt
    BY <1>5, <2>1 DEF m
  <2>5. ReceiptOf(m - 1) = block.system_txs[n - 1].receipt
    BY <1>5, <2>1, <2>2
  <2>6. QED
    BY <2>3, <2>4, <2>5
<1>8. \A n \in 1 .. Regulars : block.receipts[n].cumulative_gas_used \in Nat
  BY <1>2, <1>4
<1>9. ASSUME NEW n \in 1 .. Systems PROVE block.system_txs[n].receipt.cumulative_gas_used \in Nat
  <2> DEFINE m == Regulars + n
  <2>1. m \in 1 .. Regulars + Systems /\ ReceiptOf(m) = block.system_txs[n].receipt
    BY <1>5
  <2> HIDE DEF m
  <2>2. QED
    BY <1>2, <2>1
<1>10. QED
  BY <1>6, <1>7, <1>8, <1>9

(* The calls of an accepted line have a row each, under their two numbers. *)
LEMMA AcceptedCalls ==
  ASSUME EvmAssumption, EvmInv, step = "ok"
  PROVE  {<<c.precompile_index, c.call_index>> : c \in Range(read_precompile_calls)}
           = UNION {{p - 1} \X (0 .. block.calls[p].calls - 1) : p \in DOMAIN block.calls}
<1> DEFINE left == {<<c.precompile_index, c.call_index>> : c \in Range(read_precompile_calls)}
           right == UNION {{p - 1} \X (0 .. block.calls[p].calls - 1) : p \in DOMAIN block.calls}
<1>1. /\ DOMAIN block.calls = 1 .. Len(block.calls) /\ index = Len(block.calls)
      /\ Len(block.calls) \in Nat
      /\ DOMAIN read_precompile_calls = 1 .. Len(read_precompile_calls)
  BY BlockParts, LenProperties DEF EvmInv, RowTypes, BlockTypes, Progress
<1>2. Range(read_precompile_calls)
        = {read_precompile_calls[i] : i \in 1 .. Len(read_precompile_calls)}
  BY <1>1 DEF Range
<1>3. ASSUME NEW x \in left PROVE x \in right
  <2>1. PICK i \in 1 .. Len(read_precompile_calls) :
          x = <<read_precompile_calls[i].precompile_index, read_precompile_calls[i].call_index>>
    BY <1>2
  <2> DEFINE c == read_precompile_calls[i]
             p == c.precompile_index + 1
  <2>2. c.precompile_index \in Nat /\ c.call_index \in Nat
    <3>1. c \in CallRows
      BY ElementOfSeq DEF EvmInv, RowTypes
    <3>2. QED
      BY <3>1 DEF CallRows
  <2>3. p \in 1 .. Len(block.calls) /\ c.call_index < block.calls[p].calls
    BY DEF EvmInv, CallsNumbered
  <2>4. block.calls[p].calls \in Nat
    <3>1. block.calls[p] \in ReadPrecompile
      BY <2>3, ElementOfSeq DEF EvmInv, BlockTypes
    <3>2. QED
      BY <3>1 DEF ReadPrecompile
  <2>5. p - 1 = c.precompile_index /\ c.call_index \in 0 .. block.calls[p].calls - 1
    <3>1. p - 1 = c.precompile_index
      BY <2>2
    <3>2. ASSUME NEW k \in Nat, NEW calls \in Nat, k < calls PROVE k \in 0 .. calls - 1
      BY <3>2
    <3> HIDE DEF p, c
    <3>3. c.call_index \in 0 .. block.calls[p].calls - 1
      BY <2>2, <2>3, <2>4, <3>2
    <3>4. QED
      BY <3>1, <3>3
  <2>6. x \in {p - 1} \X (0 .. block.calls[p].calls - 1)
    BY <2>1, <2>5
  <2> HIDE DEF p
  <2>7. QED
    BY <1>1, <2>3, <2>6
<1>4. ASSUME NEW x \in right PROVE x \in left
  <2>1. PICK p \in 1 .. Len(block.calls) : x \in {p - 1} \X (0 .. block.calls[p].calls - 1)
    BY <1>1
  <2>2. PICK k \in 0 .. block.calls[p].calls - 1 : x = <<p - 1, k>>
    BY <2>1
  <2>3. PICK i \in 1 .. Len(read_precompile_calls) :
          read_precompile_calls[i].precompile_index = p - 1 /\ read_precompile_calls[i].call_index = k
    <3>1. p \in 1 .. index /\ step \in {"calls", "ok"}
      BY <1>1
    <3>2. \A q \in 1 .. index : \A l \in 0 .. block.calls[q].calls - 1 :
            \E i \in 1 .. Len(read_precompile_calls) :
              /\ read_precompile_calls[i].precompile_index = q - 1
              /\ read_precompile_calls[i].call_index = l
      BY <3>1 DEF EvmInv, CallsNumbered
    <3>3. QED
      BY <2>2, <3>1, <3>2
  <2>4. read_precompile_calls[i] \in Range(read_precompile_calls)
    BY <1>2
  <2>5. QED
    BY <2>2, <2>3, <2>4
<1> HIDE DEF left, right
<1>5. left = right
  BY <1>3, <1>4
<1>6. QED
  BY <1>5 DEF left, right

(* The logs of an accepted line have a row each, with their address. *)
LEMMA AcceptedLogs ==
  ASSUME EvmAssumption, EvmInv, NEW all \in Seq(Receipt),
         Len(all) = Len(receipts), \A n \in DOMAIN all : all[n] = ReceiptOf(n)
  PROVE  {<<l.transaction_index, l.log_index, l.address>> : l \in Range(logs)}
           = UNION {{<<n - 1, k - 1, all[n].logs[k]>> : k \in DOMAIN all[n].logs} : n \in DOMAIN all}
<1> DEFINE triple(l) == <<l.transaction_index, l.log_index, l.address>>
           left == {triple(l) : l \in Range(logs)}
           of(n) == {<<n - 1, k - 1, all[n].logs[k]>> : k \in DOMAIN all[n].logs}
           right == UNION {of(n) : n \in DOMAIN all}
<1>1. /\ logs \in Seq(LogRows) /\ receipts \in Seq(ReceiptRows) /\ Len(receipts) \in Nat
      /\ DOMAIN all = 1 .. Len(receipts) /\ DOMAIN logs = 1 .. Len(logs)
  BY LenProperties DEF EvmInv, RowTypes
<1>2. Range(logs) = {logs[i] : i \in 1 .. Len(logs)}
  BY <1>1 DEF Range
<1>3. ASSUME NEW n \in DOMAIN all
      PROVE  /\ n \in Nat /\ receipts[n].log_count = Len(all[n].logs)
             /\ Len(all[n].logs) \in Nat /\ DOMAIN all[n].logs = 1 .. Len(all[n].logs)
  <2>1. n \in 1 .. Len(receipts)
    BY <1>1
  <2>2. receipts[n].log_count = Len(ReceiptOf(n).logs)
    BY <2>1 DEF EvmInv, Parsed, ParsedAs
  <2>3. all[n] \in Receipt
    BY ElementOfSeq, <1>1, <2>1
  <2>4. all[n].logs \in Seq(Addresses) /\ Len(all[n].logs) \in Nat
    BY <2>3, ReceiptType
  <2>5. QED
    BY <1>1, <2>1, <2>2, <2>4, LenProperties
<1>4. ASSUME NEW i \in 1 .. Len(logs)
      PROVE  \E n \in DOMAIN all : \E k \in DOMAIN all[n].logs :
               triple(logs[i]) = <<n - 1, k - 1, all[n].logs[k]>>
  <2> DEFINE l == logs[i]
             n == l.transaction_index + 1
             k == l.log_index + 1
  <2>1. l.transaction_index \in Nat /\ l.log_index \in Nat
    <3>1. l \in LogRows
      BY <1>1, ElementOfSeq
    <3>2. QED
      BY <3>1 DEF LogRows
  <2>2. n \in 1 .. Len(receipts) /\ l.log_index < receipts[n].log_count
    BY DEF EvmInv, LogsNumbered
  <2>3. l.address = all[n].logs[k]
    BY <1>1, <2>2 DEF EvmInv, LogContents
  <2>4. n \in DOMAIN all /\ n - 1 = l.transaction_index /\ k - 1 = l.log_index
    <3>1. n \in DOMAIN all
      BY Zenon, <1>1, <2>2
    <3> HIDE DEF l
    <3>2. n - 1 = l.transaction_index /\ k - 1 = l.log_index
      BY ONLY <2>1
    <3>3. QED
      BY <3>1, <3>2
  <2>5. k \in DOMAIN all[n].logs
    <3>1. /\ receipts[n].log_count = Len(all[n].logs) /\ Len(all[n].logs) \in Nat
          /\ DOMAIN all[n].logs = 1 .. Len(all[n].logs)
      BY <1>3, <2>4
    <3> HIDE DEF n, l
    <3>2. k \in 1 .. Len(all[n].logs)
      BY ONLY <2>1, <2>2, <3>1
    <3>3. QED
      BY <3>1, <3>2
  <2>6. triple(l) = <<n - 1, k - 1, all[n].logs[k]>>
    BY <2>3, <2>4
  <2> HIDE DEF n, k, l
  <2>7. \E a \in DOMAIN all : \E b \in DOMAIN all[a].logs :
          triple(l) = <<a - 1, b - 1, all[a].logs[b]>>
    BY <2>4, <2>5, <2>6
  <2>8. QED
    BY <2>7 DEF l
<1>5. ASSUME NEW n \in DOMAIN all, NEW k \in DOMAIN all[n].logs
      PROVE  \E i \in 1 .. Len(logs) : triple(logs[i]) = <<n - 1, k - 1, all[n].logs[k]>>
  <2>1. /\ n \in 1 .. Len(receipts) /\ k - 1 \in 0 .. receipts[n].log_count - 1
        /\ n - 1 + 1 = n /\ k - 1 + 1 = k
    <3> DEFINE size == Len(all[n].logs)
    <3>1. /\ n \in Nat /\ receipts[n].log_count = size
          /\ size \in Nat /\ k \in 1 .. size
      BY <1>3
    <3>2. n \in 1 .. Len(receipts)
      BY Zenon, <1>1
    <3> HIDE DEF size
    <3>3. QED
      BY ONLY <3>1, <3>2
  <2>2. PICK i \in 1 .. Len(logs) : logs[i].transaction_index = n - 1 /\ logs[i].log_index = k - 1
    <3>1. \A m \in 1 .. Len(receipts) : \A c \in 0 .. receipts[m].log_count - 1 :
            \E i \in 1 .. Len(logs) : logs[i].transaction_index = m - 1 /\ logs[i].log_index = c
      BY Zenon DEF EvmInv, LogsNumbered
    <3>2. \A c \in 0 .. receipts[n].log_count - 1 :
            \E i \in 1 .. Len(logs) : logs[i].transaction_index = n - 1 /\ logs[i].log_index = c
      BY Zenon, <2>1, <3>1
    <3>3. QED
      BY Zenon, <2>1, <3>2
  <2>3. logs[i].address = ReceiptOf(n).logs[k]
    BY <2>1, <2>2 DEF EvmInv, LogContents
  <2>4. QED
    BY <2>2, <2>3
<1>6. ASSUME NEW x \in left PROVE x \in right
  <2>1. PICK i \in 1 .. Len(logs) : x = triple(logs[i])
    BY <1>2
  <2>2. PICK n \in DOMAIN all : \E k \in DOMAIN all[n].logs :
               x = <<n - 1, k - 1, all[n].logs[k]>>
    BY <1>4, <2>1
  <2>3. x \in of(n)
    BY <2>2
  <2>4. QED
    BY <2>3
<1>7. ASSUME NEW x \in right PROVE x \in left
  <2>1. PICK n \in DOMAIN all : x \in of(n)
    OBVIOUS
  <2>2. PICK k \in DOMAIN all[n].logs : x = <<n - 1, k - 1, all[n].logs[k]>>
    BY <2>1
  <2>3. PICK i \in 1 .. Len(logs) : triple(logs[i]) = x
    BY <1>5, <2>2
  <2>4. logs[i] \in Range(logs)
    BY <1>2
  <2>5. QED
    BY <2>3, <2>4
<1> HIDE DEF left, right
<1>8. left = right
  BY <1>6, <1>7
<1>9. QED
  BY <1>8 DEF left, right, of, triple

(* A line is accepted when it is valid, and then each of its transactions, *)
(* receipts, logs and calls has its row.                                   *)
THEOREM EvmAcceptedComplete == ASSUME EvmAssumption PROVE EvmSpec => []AcceptedComplete
<1> DEFINE monotone(rs) == \A i, j \in DOMAIN rs :
                             i < j => rs[i].cumulative_gas_used <= rs[j].cumulative_gas_used
           system == [n \in DOMAIN block.system_txs |-> block.system_txs[n].receipt]
           all == block.receipts \o system
           valid == /\ block.header /\ CountsMatch
                    /\ \A n \in DOMAIN block.transactions : block.transactions[n]
                    /\ \A n \in DOMAIN block.system_txs : block.system_txs[n].ok
                    /\ \A n \in DOMAIN block.calls : block.calls[n].ok
                    /\ monotone(block.receipts) /\ monotone(system)
<1>1. ASSUME EvmInv PROVE AcceptedComplete
  <2>1. /\ Regulars \in Nat /\ Systems \in Nat /\ Len(block.calls) \in Nat
        /\ DOMAIN block.transactions = 1 .. Regulars
        /\ DOMAIN block.receipts = 1 .. Len(block.receipts) /\ Len(block.receipts) \in Nat
        /\ DOMAIN block.system_txs = 1 .. Systems
        /\ DOMAIN block.calls = 1 .. Len(block.calls)
    BY <1>1, BlockParts, LenProperties DEF EvmInv, BlockTypes, Regulars, Systems
  <2>2. /\ DOMAIN system = 1 .. Systems /\ Len(system) = Systems
        /\ \A n \in 1 .. Systems : system[n] = block.system_txs[n].receipt
        /\ system \in Seq(Receipt)
    <3>1. \A n \in 1 .. Systems : block.system_txs[n] \in SystemTx
      BY <1>1, <2>1, ElementOfSeq DEF EvmInv, BlockTypes, Systems
    <3>2. \A n \in 1 .. Systems : block.system_txs[n].receipt \in Receipt
      BY <3>1 DEF SystemTx
    <3>3. QED
      BY <2>1, <3>2
  <2> HIDE DEF system
  <2>3. ASSUME NEW n \in Nat, NEW m \in Nat, n \in 2 .. m
        PROVE  n - 1 \in 1 .. m /\ n \in 1 .. m /\ n - 1 < n
    BY <2>3
  <2>4. ASSUME Reasons, valid, Regulars = Len(block.receipts) PROVE FALSE
    <3>1. CASE \E n \in 1 .. Regulars : ~block.transactions[n]
      BY <2>1, <2>4, <3>1
    <3>2. CASE \E n \in 1 .. Systems : ~block.system_txs[n].ok
      BY <2>1, <2>4, <3>2
    <3>3. CASE \E n \in 1 .. Len(block.calls) : ~block.calls[n].ok
      BY <2>1, <2>4, <3>3
    <3>4. CASE \E n \in 2 .. Regulars : block.receipts[n].cumulative_gas_used
                                          < block.receipts[n - 1].cumulative_gas_used
      <4>1. PICK n \in 2 .. Regulars : block.receipts[n].cumulative_gas_used
                                         < block.receipts[n - 1].cumulative_gas_used
        BY <3>4
      <4>2. n - 1 \in 1 .. Regulars /\ n \in 1 .. Regulars /\ n - 1 < n
        BY <2>1
      <4>3. block.receipts[n - 1].cumulative_gas_used <= block.receipts[n].cumulative_gas_used
        BY <2>1, <2>4, <4>2
      <4>4. block.receipts[n - 1] \in Receipt /\ block.receipts[n] \in Receipt
        BY <1>1, <2>4, <4>2, ElementOfSeq DEF EvmInv, BlockTypes
      <4>5. /\ block.receipts[n - 1].cumulative_gas_used \in Nat
            /\ block.receipts[n].cumulative_gas_used \in Nat
        BY <4>4, ReceiptType
      <4>6. QED
        BY <4>1, <4>3, <4>5
    <3>5. CASE \E n \in 2 .. Systems : block.system_txs[n].receipt.cumulative_gas_used
                                         < block.system_txs[n - 1].receipt.cumulative_gas_used
      <4>1. PICK n \in 2 .. Systems : block.system_txs[n].receipt.cumulative_gas_used
                                        < block.system_txs[n - 1].receipt.cumulative_gas_used
        BY <3>5
      <4>2. n - 1 \in 1 .. Systems /\ n \in 1 .. Systems /\ n - 1 < n
        BY <2>1
      <4>3. /\ system[n - 1] = block.system_txs[n - 1].receipt
            /\ system[n] = block.system_txs[n].receipt
        BY <2>2, <4>2
      <4>4. system[n - 1].cumulative_gas_used <= system[n].cumulative_gas_used
        BY <2>2, <2>4, <4>2
      <4>5. block.system_txs[n - 1] \in SystemTx /\ block.system_txs[n] \in SystemTx
        BY <1>1, <4>2, ElementOfSeq DEF EvmInv, BlockTypes, Systems
      <4>6. block.system_txs[n - 1].receipt \in Receipt /\ block.system_txs[n].receipt \in Receipt
        BY <4>5 DEF SystemTx
      <4>7. /\ block.system_txs[n - 1].receipt.cumulative_gas_used \in Nat
            /\ block.system_txs[n].receipt.cumulative_gas_used \in Nat
        BY <4>6, ReceiptType
      <4>8. QED
        BY <4>1, <4>3, <4>4, <4>7
    <3>6. QED
      BY <2>4, <3>1, <3>2, <3>3, <3>4, <3>5 DEF Reasons
  <2>5. step = "error" => ~valid
    <3>1. SUFFICES ASSUME step = "error", valid PROVE FALSE
      OBVIOUS
    <3>2. Reasons /\ Regulars = Len(block.receipts)
      BY <1>1, <3>1 DEF EvmInv, Rejected, Regulars, CountsMatch
    <3>3. QED
      BY <2>4, <3>1, <3>2
  <2>6. ASSUME step = "ok"
        PROVE  valid
    <3>1. /\ Regulars = Len(block.receipts) /\ index = Len(block.calls) /\ block.header
          /\ Len(transactions) = Regulars + Systems /\ Len(receipts) = Regulars + Systems
      BY <1>1, <2>6 DEF EvmInv, Progress
    <3>2. \A n \in 1 .. Regulars + Systems : FieldsParse(n)
      BY <1>1, <3>1 DEF EvmInv, Parsed
    <3>3. ASSUME NEW n \in 1 .. Regulars PROVE block.transactions[n]
      <4>1. n \in 1 .. Regulars + Systems /\ n <= Regulars
        BY <2>1
      <4>2. QED
        BY <3>2, <4>1 DEF FieldsParse
    <3>4. ASSUME NEW n \in 1 .. Systems PROVE block.system_txs[n].ok
      <4> DEFINE m == Regulars + n
      <4>1. m \in 1 .. Regulars + Systems /\ ~ (m <= Regulars) /\ m - Regulars = n
        BY <2>1
      <4> HIDE DEF m
      <4>2. block.system_txs[m - Regulars].ok
        BY <3>2, <4>1 DEF FieldsParse
      <4>3. QED
        BY <4>1, <4>2
    <3>5. \A n \in 1 .. Len(block.calls) : block.calls[n].ok
      BY <1>1, <2>6, <3>1 DEF EvmInv, CallsNumbered
    <3>6. monotone(block.receipts)
      <4> DEFINE f == [n \in 1 .. Regulars |-> block.receipts[n].cumulative_gas_used]
      <4>1. /\ \A n \in 1 .. Regulars : f[n] \in Nat
            /\ \A n \in 2 .. Regulars : f[n - 1] <= f[n]
        BY <1>1, <2>1, <2>3, <2>6, AcceptedGas
      <4>2. \A n \in 1 .. Regulars : f[n] = block.receipts[n].cumulative_gas_used
        OBVIOUS
      <4> HIDE DEF f
      <4>3. \A i, j \in 1 .. Regulars : i < j => f[i] <= f[j]
        BY <2>1, <4>1, NeverDecreases
      <4>4. QED
        BY <2>1, <3>1, <4>2, <4>3
    <3>7. monotone(system)
      <4> DEFINE f == [n \in 1 .. Systems |-> block.system_txs[n].receipt.cumulative_gas_used]
      <4>1. /\ \A n \in 1 .. Systems : f[n] \in Nat
            /\ \A n \in 2 .. Systems : f[n - 1] <= f[n]
        BY <1>1, <2>1, <2>3, <2>6, AcceptedGas
      <4>2. \A n \in 1 .. Systems : f[n] = system[n].cumulative_gas_used
        BY <2>2
      <4> HIDE DEF f
      <4>3. \A i, j \in 1 .. Systems : i < j => f[i] <= f[j]
        BY <2>1, <4>1, NeverDecreases
      <4>4. QED
        BY <2>2, <4>2, <4>3
    <3>8. CountsMatch
      BY <3>1 DEF CountsMatch, Regulars
    <3>9. QED
      BY <2>1, <3>1, <3>3, <3>4, <3>5, <3>6, <3>7, <3>8
  <2>7. step = "ok" =>
          {<<c.precompile_index, c.call_index>> : c \in Range(read_precompile_calls)}
             = UNION {{p - 1} \X (0 .. block.calls[p].calls - 1) : p \in DOMAIN block.calls}
    BY <1>1, AcceptedCalls
  <2>8. ASSUME step = "ok"
        PROVE  /\ Len(transactions) = Len(all) /\ Len(receipts) = Len(all)
               /\ \A n \in DOMAIN all :
                    /\ transactions[n].is_system = (n > Len(block.transactions))
                    /\ receipts[n].cumulative_gas_used = all[n].cumulative_gas_used
               /\ {<<l.transaction_index, l.log_index, l.address>> : l \in Range(logs)}
                    = UNION {{<<n - 1, k - 1, all[n].logs[k]>> : k \in DOMAIN all[n].logs} : n \in DOMAIN all}
    <3>1. /\ Regulars = Len(block.receipts) /\ Len(receipts) = Regulars + Systems
          /\ Len(transactions) = Regulars + Systems
      BY <1>1, <2>8 DEF EvmInv, Progress
    <3>2. block.receipts \in Seq(Receipt)
      BY <1>1 DEF EvmInv, BlockTypes
    <3>3. /\ all \in Seq(Receipt) /\ Len(all) = Regulars + Systems
          /\ \A n \in 1 .. Regulars + Systems :
               all[n] = IF n <= Regulars THEN block.receipts[n] ELSE system[n - Regulars]
      BY <2>2, <3>1, <3>2, ConcatProperties
    <3> HIDE DEF all
    <3>4. DOMAIN all = 1 .. Regulars + Systems
      BY <2>1, <3>3, LenProperties
    <3>5. ASSUME NEW n \in DOMAIN all PROVE all[n] = ReceiptOf(n)
      <4>1. CASE n <= Regulars
        BY <3>3, <3>4, <4>1 DEF ReceiptOf
      <4>2. CASE ~ (n <= Regulars)
        <5>1. n - Regulars \in 1 .. Systems
          BY <2>1, <3>4, <4>2
        <5>2. QED
          BY <2>2, <3>3, <3>4, <4>2, <5>1 DEF ReceiptOf
      <4>3. QED
        BY <4>1, <4>2
    <3>6. ASSUME NEW n \in DOMAIN all
          PROVE  /\ transactions[n].is_system = (n > Len(block.transactions))
                 /\ receipts[n].cumulative_gas_used = all[n].cumulative_gas_used
      <4>1. n \in 1 .. Len(receipts)
        BY <3>1, <3>4
      <4>2. QED
        BY <1>1, <3>5, <4>1 DEF EvmInv, Parsed, ParsedAs, Regulars
    <3>7. {<<l.transaction_index, l.log_index, l.address>> : l \in Range(logs)}
            = UNION {{<<n - 1, k - 1, all[n].logs[k]>> : k \in DOMAIN all[n].logs} : n \in DOMAIN all}
      BY <1>1, <3>1, <3>3, <3>5, AcceptedLogs
    <3>8. QED
      BY <3>1, <3>3, <3>6, <3>7
  <2> HIDE DEF valid, all
  <2>9. QED
    BY <2>5, <2>6, <2>7, <2>8 DEF AcceptedComplete, valid, all, system
<1>2. QED
  BY <1>1, EvmInvHolds, PTL

-----------------------------------------------------------------------------
(* Lines of replica_cmds. *)

ActionTypes == [bundle : Nat, bundle_hash : Hashes, place : Nat, status : Statuses \union {""}]

(* What the node reports for a hash, and the answer of an entry to an action. *)
Reports(h) == {e \in Range(command.resps) : e.hash = h}
AnswerOf(e, place) == IF place \in DOMAIN e.responses THEN e.responses[place] ELSE ""

RightStatus(a) ==
  /\ Reports(a.bundle_hash) = {} => a.status = ""
  /\ Reports(a.bundle_hash) # {} =>
       \E e \in Reports(a.bundle_hash) : a.status = AnswerOf(e, a.place)

CommandTypes ==
  /\ command \in Command
  /\ command.bundles \in Seq(Bundle) /\ command.resps \in Seq(ResponseEntry)

CommandValid == command.ok /\ \A i \in 1 .. Len(command.bundles) : command.bundles[i].ok

(* The map of the responses is complete before the first bundle is read:   *)
(* it has what an entry of the hash reports.                               *)
Collected ==
  /\ stage \in {"responses", "bundles", "ok", "error"}
  /\ stage = "responses" => bundles = << >> /\ actions = << >>
  /\ stage \in {"bundles", "ok"} =>
       /\ command.ok
       /\ \A h : h \in DOMAIN responses <=> Reports(h) # {}
       /\ \A h \in DOMAIN responses : \E e \in Reports(h) : responses[h] = e.responses
  /\ stage = "error" => ~CommandValid

(* An action row: of which action of which bundle it is, and its status. *)
RightAction(a) ==
  /\ a.bundle \in 1 .. Len(bundles) /\ a.bundle_hash = bundles[a.bundle]
  /\ a.place \in 1 .. command.bundles[a.bundle].actions
  /\ RightStatus(a)

(* The bundles that are done, and every action of theirs. *)
BundlesDone ==
  /\ bundles \in Seq(Hashes) /\ Len(bundles) <= Len(command.bundles)
  /\ stage = "ok" => Len(bundles) = Len(command.bundles)
  /\ \A b \in 1 .. Len(bundles) :
       bundles[b] = command.bundles[b].hash /\ command.bundles[b].ok
  /\ actions \in Seq(ActionTypes)
  /\ \A i \in 1 .. Len(actions) : RightAction(actions[i])
  /\ \A b \in 1 .. Len(bundles) : \A k \in 1 .. command.bundles[b].actions :
       \E i \in 1 .. Len(actions) : actions[i].bundle = b /\ actions[i].place = k

ReplicaInv == CommandTypes /\ Collected /\ BundlesDone

LEMMA ReplicaInitInv ==
  ASSUME ReplicaAssumption, ReplicaInit
  PROVE  ReplicaInv
<1>1. command \in Command
  BY DEF ReplicaInit
<1>2. command.bundles \in Seq(Bundle) /\ command.resps \in Seq(ResponseEntry)
  <2>1. /\ command.bundles \in BoundedSeq(Bundle, MaxBundles)
        /\ command.resps \in BoundedSeq(ResponseEntry, MaxBundles)
    BY <1>1 DEF Command
  <2>2. MaxBundles \in Nat
    BY DEF ReplicaAssumption
  <2>3. command.bundles \in Seq(Bundle)
    BY <2>1, <2>2, BoundedIsSeq
  <2>4. command.resps \in Seq(ResponseEntry)
    BY <2>1, <2>2, BoundedIsSeq
  <2>5. QED
    BY <2>3, <2>4
<1>3. CommandTypes
  BY <1>1, <1>2 DEF CommandTypes
<1>4. Collected
  BY DEF Collected, ReplicaInit
<1>5. BundlesDone
  <2>1. /\ stage = "responses" /\ bundles = << >> /\ actions = << >>
        /\ Len(bundles) = 0 /\ Len(actions) = 0 /\ Len(command.bundles) \in Nat
    BY <1>2, LenProperties DEF ReplicaInit
  <2>2. bundles \in Seq(Hashes) /\ actions \in Seq(ActionTypes)
    BY <2>1
  <2>3. QED
    BY <2>1, <2>2 DEF BundlesDone
<1>6. QED
  BY <1>3, <1>4, <1>5 DEF ReplicaInv

LEMMA BundleActions ==
  ASSUME ReplicaAssumption, NEW b \in Bundle
  PROVE  b.actions \in Nat /\ b.hash \in Hashes
BY DEF Bundle, ReplicaAssumption

(* A step that adds no row. *)
LEMMA SameBundles ==
  ASSUME BundlesDone, UNCHANGED <<command, bundles, actions>>,
         stage' = "ok" => Len(bundles) = Len(command.bundles)
  PROVE  BundlesDone'
<1>1. \A a : RightAction(a)' = RightAction(a)
  BY DEF RightAction, RightStatus, Reports
<1>2. \A i \in 1 .. Len(actions) : RightAction(actions[i])'
  BY <1>1 DEF BundlesDone
<1>3. /\ bundles \in Seq(Hashes) /\ Len(bundles) <= Len(command.bundles)
      /\ \A b \in 1 .. Len(bundles) :
           bundles[b] = command.bundles[b].hash /\ command.bundles[b].ok
      /\ actions \in Seq(ActionTypes)
      /\ \A b \in 1 .. Len(bundles) : \A k \in 1 .. command.bundles[b].actions :
           \E i \in 1 .. Len(actions) : actions[i].bundle = b /\ actions[i].place = k
  BY DEF BundlesDone
<1>4. QED
  BY <1>2, <1>3 DEF BundlesDone

LEMMA RejectCommandInv ==
  ASSUME ReplicaInv, RejectCommand, ~CommandValid
  PROVE  ReplicaInv'
<1>1. CommandTypes'
  BY DEF ReplicaInv, CommandTypes, RejectCommand
<1>2. Collected'
  <2>1. stage' = "error" /\ CommandValid' = CommandValid
    BY DEF RejectCommand, CommandValid
  <2>2. QED
    BY <2>1 DEF Collected
<1>3. BundlesDone'
  BY SameBundles DEF ReplicaInv, RejectCommand
<1>4. QED
  BY <1>1, <1>2, <1>3 DEF ReplicaInv

(* The map has what the last entry of a hash reports. *)
LEMMA LastEntryOf ==
  ASSUME CommandTypes, NEW h, Reports(h) # {}
  PROVE  LastEntry(h) \in DOMAIN command.resps /\ command.resps[LastEntry(h)] \in Reports(h)
<1> DEFINE Of == {i \in DOMAIN command.resps : command.resps[i].hash = h}
           Latest(i) == /\ command.resps[i].hash = h
                        /\ \A j \in DOMAIN command.resps : command.resps[j].hash = h => j <= i
<1>1. DOMAIN command.resps = 1 .. Len(command.resps) /\ Len(command.resps) \in Nat
  BY LenProperties DEF CommandTypes
<1>2. Of # {} /\ Of \subseteq 1 .. Len(command.resps)
  BY <1>1 DEF Reports, Range
<1>3. PICK i \in Of : \A j \in Of : j <= i
  BY <1>1, <1>2, GreatestBelow
<1>4. \E l \in DOMAIN command.resps : Latest(l)
  BY <1>3
<1>5. LastEntry(h) = CHOOSE l \in DOMAIN command.resps : Latest(l)
  BY DEF LastEntry
<1>6. LastEntry(h) \in DOMAIN command.resps /\ command.resps[LastEntry(h)].hash = h
  BY <1>4, <1>5
<1>7. QED
  BY <1>6 DEF Reports, Range

LEMMA CollectResponsesInv ==
  ASSUME ReplicaInv, CollectResponses
  PROVE  ReplicaInv'
<1>1. CASE ~command.ok /\ RejectCommand
  BY <1>1, RejectCommandInv DEF CommandValid
<1>2. CASE /\ command.ok /\ stage' = "bundles"
           /\ responses' = [h \in {e.hash : e \in Range(command.resps)} |->
                              command.resps[LastEntry(h)].responses]
           /\ UNCHANGED <<command, bundles, actions>>
  <2>1. CommandTypes'
    BY <1>2 DEF ReplicaInv, CommandTypes
  <2>2. \A h : Reports(h)' = Reports(h)
    BY <1>2 DEF Reports
  <2>3. \A h : h \in DOMAIN responses' <=> Reports(h) # {}
    BY <1>2 DEF Reports
  <2>4. ASSUME NEW h \in DOMAIN responses'
        PROVE  \E e \in Reports(h) : responses'[h] = e.responses
    <3>1. responses'[h] = command.resps[LastEntry(h)].responses
      BY <1>2
    <3>2. command.resps[LastEntry(h)] \in Reports(h)
      BY <2>3, LastEntryOf DEF ReplicaInv
    <3>3. QED
      BY <3>1, <3>2
  <2>5. Collected'
    BY <1>2, <2>2, <2>3, <2>4 DEF Collected
  <2>6. BundlesDone'
    BY <1>2, SameBundles DEF ReplicaInv
  <2>7. QED
    BY <2>1, <2>5, <2>6 DEF ReplicaInv
<1>3. QED
  BY <1>1, <1>2 DEF CollectResponses

LEMMA FinishInv ==
  ASSUME ReplicaInv, Finish
  PROVE  ReplicaInv'
<1>1. CommandTypes'
  BY DEF ReplicaInv, CommandTypes, Finish
<1>2. Collected'
  <2>1. /\ stage = "bundles" /\ stage' = "ok" /\ command' = command /\ responses' = responses
        /\ \A h : Reports(h)' = Reports(h)
    BY DEF Finish, Reports
  <2>2. QED
    BY <2>1 DEF ReplicaInv, Collected
<1>3. BundlesDone'
  BY SameBundles DEF ReplicaInv, Finish
<1>4. QED
  BY <1>1, <1>2, <1>3 DEF ReplicaInv

(* The rows of a bundle have a status the node reported, or none. *)
LEMMA ActionRowsReported ==
  ASSUME ReplicaAssumption, ReplicaInv, stage = "bundles", NEW b \in Bundle, NEW k \in 1 .. b.actions
  PROVE  /\ ActionRows(b)[k] \in ActionTypes
         /\ ActionRows(b)[k].bundle = Len(bundles) + 1
         /\ ActionRows(b)[k].bundle_hash = b.hash /\ ActionRows(b)[k].place = k
         /\ RightStatus(ActionRows(b)[k])
<1> DEFINE answer == IF k <= Len(ResponsesOf(b.hash)) THEN ResponsesOf(b.hash)[k] ELSE ""
           row == ActionRows(b)[k]
<1>1. row = [bundle |-> Len(bundles) + 1, bundle_hash |-> b.hash, place |-> k, status |-> answer]
  BY DEF ActionRows
<1>2. b.hash \in Hashes /\ k \in Nat /\ Len(bundles) + 1 \in Nat
  BY BundleActions, LenProperties DEF ReplicaInv, BundlesDone
<1>3. /\ row.bundle = Len(bundles) + 1 /\ row.bundle_hash = b.hash
      /\ row.place = k /\ row.status = answer
  <2> HIDE DEF row, answer
  <2>1. row = [bundle |-> Len(bundles) + 1, bundle_hash |-> b.hash, place |-> k, status |-> answer]
    BY <1>1 DEF row, answer
  <2>2. QED
    BY <2>1
<1>4. /\ \A h : h \in DOMAIN responses <=> Reports(h) # {}
      /\ \A h \in DOMAIN responses : \E e \in Reports(h) : responses[h] = e.responses
  BY DEF ReplicaInv, Collected
<1>5. ASSUME answer \in Statuses \union {""}, RightStatus(row)
      PROVE  /\ row \in ActionTypes /\ row.bundle = Len(bundles) + 1
             /\ row.bundle_hash = b.hash /\ row.place = k /\ RightStatus(row)
  BY <1>1, <1>2, <1>3, <1>5 DEF ActionTypes
<1> HIDE DEF row
<1>6. CASE b.hash \in DOMAIN responses
  <2>1. PICK e \in Reports(b.hash) : responses[b.hash] = e.responses
    BY <1>4, <1>6
  <2>2. e.responses \in Seq(Statuses)
    <3>1. PICK i \in DOMAIN command.resps : e = command.resps[i]
      BY DEF Reports, Range
    <3>2. i \in 1 .. Len(command.resps) /\ command.resps \in Seq(ResponseEntry)
      BY <3>1, LenProperties DEF ReplicaInv, CommandTypes
    <3>3. e \in ResponseEntry
      BY <3>1, <3>2, ElementOfSeq
    <3>4. e.responses \in BoundedSeq(Statuses, MaxActions) /\ MaxActions \in Nat
      BY <3>3 DEF ResponseEntry, ReplicaAssumption
    <3>5. QED
      BY <3>4, BoundedIsSeq
  <2>3. ResponsesOf(b.hash) = e.responses
    BY <1>6, <2>1 DEF ResponsesOf
  <2>4. DOMAIN e.responses = 1 .. Len(e.responses) /\ Len(e.responses) \in Nat
    BY <2>2, LenProperties
  <2>5. k \in DOMAIN e.responses <=> k <= Len(e.responses)
    BY <1>2, <2>4
  <2>6. answer = AnswerOf(e, k)
    BY <2>3, <2>5 DEF AnswerOf
  <2>7. answer \in Statuses \union {""}
    BY <2>2, <2>4, <2>6, ElementOfSeq DEF AnswerOf
  <2>8. RightStatus(row)
    BY <1>3, <2>1, <2>6 DEF RightStatus
  <2>9. QED
    BY <1>5, <2>7, <2>8 DEF row
<1>7. CASE b.hash \notin DOMAIN responses
  <2>1. ResponsesOf(b.hash) = << >>
    BY <1>7 DEF ResponsesOf
  <2>2. Len(ResponsesOf(b.hash)) = 0 /\ ~ (k <= 0)
    BY <1>2, <2>1
  <2>3. answer = "" /\ Reports(b.hash) = {}
    BY <1>4, <1>7, <2>2
  <2>4. RightStatus(row)
    BY <1>3, <2>3 DEF RightStatus
  <2>5. QED
    BY <1>5, <2>3, <2>4 DEF row
<1>8. QED
  BY <1>6, <1>7

LEMMA NextBundleInv ==
  ASSUME ReplicaAssumption, ReplicaInv, NextBundle
  PROVE  ReplicaInv'
<1> DEFINE n == Len(bundles) + 1
           b == command.bundles[n]
           new == ActionRows(b)
           before == Len(actions)
           count == b.actions
<1>1. CommandTypes /\ stage = "bundles" /\ Len(bundles) < Len(command.bundles)
  BY DEF ReplicaInv, NextBundle
<1>2. /\ bundles \in Seq(Hashes) /\ actions \in Seq(ActionTypes) /\ command.bundles \in Seq(Bundle)
      /\ Len(bundles) \in Nat /\ before \in Nat /\ Len(command.bundles) \in Nat
  BY LenProperties DEF ReplicaInv, BundlesDone, CommandTypes
<1>3. n \in 1 .. Len(command.bundles) /\ n \in Nat
  BY <1>1, <1>2
<1>4. CASE ~b.ok /\ RejectCommand
  BY <1>3, <1>4, RejectCommandInv DEF CommandValid
<1>5. CASE /\ b.ok /\ bundles' = Append(bundles, b.hash) /\ actions' = actions \o new
           /\ UNCHANGED <<command, stage, responses>>
  <2>1. b \in Bundle
    BY <1>2, <1>3, ElementOfSeq
  <2>2. b.hash \in Hashes /\ count \in Nat
    BY <2>1, BundleActions
  <2>3. /\ new \in [1 .. count -> ActionTypes]
        /\ \A k \in 1 .. count : /\ new[k].bundle = n /\ new[k].bundle_hash = b.hash
                                 /\ new[k].place = k /\ RightStatus(new[k])
    <3>1. \A k \in 1 .. count :
            /\ new[k] \in ActionTypes /\ new[k].bundle = n /\ new[k].bundle_hash = b.hash
            /\ new[k].place = k /\ RightStatus(new[k])
      BY <1>1, <2>1, ActionRowsReported
    <3>2. new = [k \in 1 .. count |-> new[k]]
      BY DEF ActionRows
    <3> HIDE DEF new, count
    <3>3. QED
      BY <3>1, <3>2
  <2> HIDE DEF new, count, n
  <2>4. /\ actions \o new \in Seq(ActionTypes) /\ Len(actions \o new) = Len(actions) + count
        /\ \A i \in 1 .. Len(actions) : (actions \o new)[i] = actions[i]
        /\ \A i \in 1 .. count : (actions \o new)[Len(actions) + i] = new[i]
    <3>1. count \in Nat /\ new \in [1 .. count -> ActionTypes] /\ actions \in Seq(ActionTypes)
      BY <1>2, <2>2, <2>3
    <3>2. QED
      BY ONLY <3>1, Added
  <2>5. \A i \in 1 .. before + count : i \in 1 .. before \/ \E k \in 1 .. count : i = before + k
    BY <1>2, <2>2, OldOrNew
  <2>6. /\ actions' \in Seq(ActionTypes) /\ Len(actions') = before + count
        /\ \A i \in 1 .. before : actions'[i] = actions[i]
        /\ \A i \in 1 .. count : actions'[before + i] = new[i]
    BY <1>5, <2>4
  <2>7. /\ bundles' \in Seq(Hashes) /\ Len(bundles') = n /\ bundles'[n] = b.hash
        /\ \A i \in 1 .. Len(bundles) : bundles'[i] = bundles[i]
    BY <1>2, <1>5, <2>2, AppendProperties DEF n
  <2>8. /\ \A i \in 1 .. n : i \in 1 .. Len(bundles) \/ i = n
        /\ 1 .. Len(bundles) \subseteq 1 .. n /\ n \in 1 .. n
    BY <1>2 DEF n
  <2>9. /\ command' = command /\ stage' = "bundles"
        /\ \A a : RightStatus(a)' = RightStatus(a)
    BY <1>1, <1>5 DEF RightStatus, Reports
  <2> HIDE DEF before
  <2> USE DEF n
  <2>10. ASSUME NEW i \in 1 .. Len(actions') PROVE RightAction(actions[i])'
    <3>1. CASE i \in 1 .. before
      <4>1. actions'[i] = actions[i] /\ RightAction(actions[i])
        BY <2>6, <3>1 DEF ReplicaInv, BundlesDone, before
      <4>2. /\ actions[i].bundle \in 1 .. Len(bundles) /\ RightStatus(actions[i])
            /\ actions[i].bundle_hash = bundles[actions[i].bundle]
            /\ actions[i].place \in 1 .. command.bundles[actions[i].bundle].actions
        BY <4>1 DEF RightAction
      <4>3. /\ actions[i].bundle \in 1 .. Len(bundles')
            /\ bundles'[actions[i].bundle] = bundles[actions[i].bundle]
        BY <2>7, <2>8, <4>2
      <4>4. QED
        BY <2>9, <4>1, <4>2, <4>3 DEF RightAction
    <3>2. CASE \E k \in 1 .. count : i = before + k
      <4>1. PICK k \in 1 .. count : i = before + k
        BY <3>2
      <4>2. actions'[i] = new[k]
        BY <2>6, <4>1
      <4>3. /\ actions'[i].bundle = n /\ actions'[i].bundle_hash = b.hash
            /\ actions'[i].place = k /\ RightStatus(actions'[i])
        BY <2>3, <4>2
      <4>4. k \in 1 .. command.bundles[n].actions
        BY DEF count
      <4>5. QED
        BY <2>7, <2>8, <2>9, <4>3, <4>4 DEF RightAction
    <3>3. QED
      BY <2>5, <2>6, <3>1, <3>2
  <2>11. ASSUME NEW m \in 1 .. n, NEW k \in 1 .. command.bundles[m].actions
         PROVE  \E i \in 1 .. Len(actions') : actions'[i].bundle = m /\ actions'[i].place = k
    <3>1. CASE m \in 1 .. Len(bundles)
      <4>1. PICK i \in 1 .. before : actions[i].bundle = m /\ actions[i].place = k
        BY <3>1 DEF ReplicaInv, BundlesDone, before
      <4>2. i \in 1 .. Len(actions') /\ actions'[i] = actions[i]
        BY <1>2, <2>2, <2>6
      <4>3. QED
        BY <4>1, <4>2
    <3>2. CASE m = n
      <4>1. k \in 1 .. count
        BY <3>2 DEF count
      <4>2. before + k \in 1 .. Len(actions')
        BY <1>2, <2>2, <2>6, <4>1
      <4>3. actions'[before + k] = new[k]
        BY <2>6, <4>1
      <4>4. QED
        BY <2>3, <3>2, <4>1, <4>2, <4>3
    <3>3. QED
      BY <2>8, <3>1, <3>2
  <2>12. \A m \in 1 .. n : bundles'[m] = command.bundles[m].hash /\ command.bundles[m].ok
    <3>1. \A m \in 1 .. Len(bundles) : bundles[m] = command.bundles[m].hash /\ command.bundles[m].ok
      BY DEF ReplicaInv, BundlesDone
    <3>2. QED
      BY <1>5, <2>7, <2>8, <3>1
  <2>13. BundlesDone'
    <3>1. /\ bundles' \in Seq(Hashes) /\ Len(bundles') <= Len(command'.bundles)
          /\ \A m \in 1 .. Len(bundles') :
               bundles'[m] = command'.bundles[m].hash /\ command'.bundles[m].ok
          /\ actions' \in Seq(ActionTypes)
      BY <1>3, <2>6, <2>7, <2>9, <2>12
    <3>2. \A m \in 1 .. Len(bundles') : \A k \in 1 .. command'.bundles[m].actions :
            \E i \in 1 .. Len(actions') : actions'[i].bundle = m /\ actions'[i].place = k
      BY <2>7, <2>9, <2>11
    <3>3. (stage = "ok" => Len(bundles) = Len(command.bundles))'
      BY <2>9
    <3>4. QED
      BY <2>10, <3>1, <3>2, <3>3 DEF BundlesDone
  <2>14. Collected'
    <3>1. \A h : Reports(h)' = Reports(h)
      BY <1>5 DEF Reports
    <3>2. QED
      BY <1>1, <1>5, <3>1 DEF ReplicaInv, Collected
  <2>15. CommandTypes'
    BY <1>1, <1>5 DEF CommandTypes
  <2>16. QED
    BY <2>13, <2>14, <2>15 DEF ReplicaInv
<1>6. QED
  BY <1>4, <1>5 DEF NextBundle

LEMMA ReplicaInvHolds == ASSUME ReplicaAssumption PROVE ReplicaSpec => []ReplicaInv
<1>1. ReplicaInit => ReplicaInv
  BY ReplicaInitInv
<1>2. ReplicaInv /\ [ReplicaNext]_replicaVars => ReplicaInv'
  <2> SUFFICES ASSUME ReplicaInv, [ReplicaNext]_replicaVars PROVE ReplicaInv'
    OBVIOUS
  <2>1. CASE CollectResponses
    BY <2>1, CollectResponsesInv
  <2>2. CASE NextBundle
    BY <2>2, NextBundleInv
  <2>3. CASE Finish
    BY <2>3, FinishInv
  <2>4. CASE UNCHANGED replicaVars
    <3>1. BundlesDone'
      BY <2>4, SameBundles DEF replicaVars, ReplicaInv, BundlesDone
    <3>2. CommandTypes'
      BY <2>4 DEF replicaVars, ReplicaInv, CommandTypes
    <3>3. Collected'
      BY <2>4 DEF replicaVars, ReplicaInv, Collected, CommandValid, Reports
    <3>4. QED
      BY <3>1, <3>2, <3>3 DEF ReplicaInv
  <2>5. QED
    BY <2>1, <2>2, <2>3, <2>4 DEF ReplicaNext
<1>3. QED
  BY <1>1, <1>2, PTL DEF ReplicaSpec

(* An action has the hash of its bundle and a status that the node reported *)
(* for that hash and its place, and no other.                               *)
THEOREM ReplicaStatusOfItsOwn == ASSUME ReplicaAssumption PROVE ReplicaSpec => []StatusOfItsOwn
<1>1. ASSUME ReplicaInv PROVE StatusOfItsOwn
  <2>1. DOMAIN actions = 1 .. Len(actions)
    BY <1>1, LenProperties DEF ReplicaInv, BundlesDone
  <2>2. ASSUME NEW i \in 1 .. Len(actions)
        PROVE  /\ actions[i].bundle_hash = command.bundles[actions[i].bundle].hash
               /\ RightStatus(actions[i])
    <3>1. RightAction(actions[i])
      BY <1>1 DEF ReplicaInv, BundlesDone
    <3>2. QED
      BY <1>1, <3>1 DEF RightAction, ReplicaInv, BundlesDone
  <2>3. ASSUME NEW a \in Range(actions)
        PROVE  /\ a.bundle_hash = command.bundles[a.bundle].hash
               /\ RightStatus(a)
    BY <2>1, <2>2 DEF Range
  <2>4. QED
    BY <2>3 DEF StatusOfItsOwn, RightStatus, Reports, AnswerOf
<1>2. QED
  BY <1>1, ReplicaInvHolds, PTL

(* A line is accepted when all of it parses, and then it has a row for     *)
(* every action of every bundle.                                           *)
THEOREM ReplicaEveryAction == ASSUME ReplicaAssumption PROVE ReplicaSpec => []EveryAction
<1>1. ASSUME ReplicaInv PROVE EveryAction
  <2>1. DOMAIN command.bundles = 1 .. Len(command.bundles)
    BY <1>1, LenProperties DEF ReplicaInv, CommandTypes
  <2>2. stage = "error" => ~ (command.ok /\ \A i \in DOMAIN command.bundles : command.bundles[i].ok)
    BY <1>1, <2>1 DEF ReplicaInv, Collected, CommandValid
  <2>3. ASSUME stage = "ok"
        PROVE  /\ command.ok /\ \A i \in DOMAIN command.bundles : command.bundles[i].ok
               /\ bundles = [i \in DOMAIN command.bundles |-> command.bundles[i].hash]
               /\ \A i \in DOMAIN command.bundles :
                    {a.place : a \in {r \in Range(actions) : r.bundle = i}}
                      = 1 .. command.bundles[i].actions
    <3>1. /\ DOMAIN actions = 1 .. Len(actions) /\ Len(bundles) = Len(command.bundles)
          /\ bundles = [i \in 1 .. Len(bundles) |-> bundles[i]] /\ command.ok
      BY <1>1, <2>3, LenProperties DEF ReplicaInv, BundlesDone, Collected
    <3>2. \A i \in 1 .. Len(bundles) : bundles[i] = command.bundles[i].hash /\ command.bundles[i].ok
      BY <1>1 DEF ReplicaInv, BundlesDone
    <3>3. ASSUME NEW i \in 1 .. Len(bundles)
          PROVE  {a.place : a \in {r \in Range(actions) : r.bundle = i}}
                   = 1 .. command.bundles[i].actions
      <4> DEFINE mine == {r \in Range(actions) : r.bundle = i}
      <4>1. ASSUME NEW a \in mine PROVE a.place \in 1 .. command.bundles[i].actions
        <5>1. PICK j \in 1 .. Len(actions) : a = actions[j]
          BY <3>1 DEF Range
        <5>2. RightAction(a)
          BY <1>1, <5>1 DEF ReplicaInv, BundlesDone
        <5>3. QED
          BY <5>2 DEF RightAction
      <4>2. ASSUME NEW k \in 1 .. command.bundles[i].actions PROVE \E a \in mine : a.place = k
        <5>1. PICK j \in 1 .. Len(actions) : actions[j].bundle = i /\ actions[j].place = k
          <6>1. BundlesDone
            BY <1>1 DEF ReplicaInv
          <6>2. \A b \in 1 .. Len(bundles) : \A c \in 1 .. command.bundles[b].actions :
                  \E j \in 1 .. Len(actions) : actions[j].bundle = b /\ actions[j].place = c
            BY Zenon, <6>1 DEF BundlesDone
          <6>3. QED
            BY Zenon, <6>2
        <5>2. actions[j] \in mine
          BY <3>1, <5>1 DEF Range
        <5>3. QED
          BY <5>1, <5>2
      <4> HIDE DEF mine
      <4>3. {a.place : a \in mine} = 1 .. command.bundles[i].actions
        BY <4>1, <4>2
      <4>4. QED
        BY <4>3 DEF mine
    <3>4. bundles = [i \in DOMAIN command.bundles |-> command.bundles[i].hash]
      BY <2>1, <3>1, <3>2
    <3>5. QED
      BY <2>1, <3>1, <3>2, <3>3, <3>4
  <2>4. QED
    BY <2>2, <2>3 DEF EveryAction
<1>2. QED
  BY <1>1, ReplicaInvHolds, PTL

-----------------------------------------------------------------------------
(* Lines of the event streams. *)

Hip3 == "hip3_oracle_updates"
Streams == IndexedStreams \union {"node_fills", Hip3}

RecordTypes ==
  /\ stream \in Streams
  /\ records \in Seq([header_ok : BOOLEAN, events : Seq(IF stream = Hip3 THEN Hip3Update ELSE Event)])

(* Where the loops are; nothing is left of a record that is done. *)
Place ==
  /\ record \in Nat /\ record \in 1 .. Len(records) + 1 /\ event_index \in Nat
  /\ written = [n \in 1 .. record - 1 |-> written[n]]
  /\ record <= Len(records) => /\ event_index <= Len(records[record].events)
                               /\ event_index = 0 \/ records[record].header_ok
  /\ record > Len(records) => event_index = 0

(* The rows of the first events of a record of the four simple streams. *)
KeyAt(n, i, own) ==
  CASE stream = "misc_events" -> EventId(n, i, own)
    [] stream = "node_fills"  -> <<own>>
    [] OTHER                  -> <<own, i>>

SimpleRows(n, count) ==
  [i \in 1 .. count |-> [key |-> KeyAt(n, i - 1, records[n].events[i].own),
                         own |-> records[n].events[i].own]]

Valid(n) == records[n].header_ok /\ \A i \in 1 .. Len(records[n].events) : records[n].events[i].ok

SimpleDone ==
  stream # Hip3 =>
    /\ rows = SimpleRows(record, event_index)
    /\ \A i \in 1 .. event_index : records[record].events[i].ok
    /\ \A n \in 1 .. record - 1 :
         written[n] = IF Valid(n) THEN SimpleRows(n, Len(records[n].events)) ELSE << >>

(* The oracle prices of a record, update by update. *)
Update == {u \in [e : Hip3Update, at : Nat] : u.at \in DOMAIN u.e.oracle}

UpdatesIn(r) ==
  [i \in DOMAIN r.events |-> [k \in DOMAIN r.events[i].oracle |-> [e |-> r.events[i], at |-> k]]]

(* The first lists, one behind the other. *)
Flattening(lists) ==
  LET flatten[i \in 1 .. Len(lists)] ==
        IF i = 1 THEN lists[i] ELSE flatten[i - 1] \o lists[i]
  IN  flatten

FirstOf(lists, n) == IF n = 0 THEN << >> ELSE Flattening(lists)[n]

EntryOf(u) == u.e.oracle[u.at]
RowsOf(us) == [j \in 1 .. Len(us) |-> Hip3Row(us[j].e, EntryOf(us[j]))]
AllJoin(us) == \A j \in 1 .. Len(us) : Joins(us[j].e, EntryOf(us[j]))
AllUpdates(n) == FirstOf(UpdatesIn(records[n]), Len(records[n].events))

Hip3Done ==
  stream = Hip3 =>
    /\ LET done == FirstOf(UpdatesIn(records[record]), event_index)
       IN  rows = RowsOf(done) /\ AllJoin(done)
    /\ \A n \in 1 .. record - 1 :
         \/ records[n].header_ok /\ AllJoin(AllUpdates(n)) /\ written[n] = RowsOf(AllUpdates(n))
         \/ ~ (records[n].header_ok /\ AllJoin(AllUpdates(n))) /\ written[n] = << >>

EventsInv == RecordTypes /\ Place /\ SimpleDone /\ Hip3Done

(* Lists one behind the other are a recursive function, too: there is one. *)
LEMMA FlatteningExists ==
  ASSUME NEW N \in Nat, NEW F
  PROVE  \E g : g = [i \in 1 .. N |-> IF i = 1 THEN F[i] ELSE g[i - 1] \o F[i]]
<1> DEFINE Is(g, m) == g = [i \in 1 .. m |-> IF i = 1 THEN F[i] ELSE g[i - 1] \o F[i]]
           S == {m \in Nat : \E g : Is(g, m)}
<1>1. 0 \in S
  <2>1. Is([i \in 1 .. 0 |-> 0], 0)
    OBVIOUS
  <2>2. QED
    BY <2>1
<1>2. ASSUME NEW m \in Nat, m \in S PROVE m + 1 \in S
  <2>1. PICK g : Is(g, m)
    BY <1>2
  <2> DEFINE new == IF m = 0 THEN F[1] ELSE g[m] \o F[m + 1]
             h == [i \in 1 .. m + 1 |-> IF i = m + 1 THEN new ELSE g[i]]
  <2> HIDE DEF new
  <2>2. \A i \in 1 .. m : h[i] = g[i]
    OBVIOUS
  <2>3. ASSUME NEW i \in 1 .. m + 1 PROVE h[i] = IF i = 1 THEN F[i] ELSE h[i - 1] \o F[i]
    <3>1. CASE i = m + 1
      <4>1. h[i] = new
        BY <3>1
      <4>2. m # 0 => h[i - 1] = g[m]
        BY <2>2, <3>1
      <4> HIDE DEF h
      <4>3. QED
        BY <3>1, <4>1, <4>2 DEF new
    <3>2. CASE i \in 1 .. m
      <4>1. g[i] = IF i = 1 THEN F[i] ELSE g[i - 1] \o F[i]
        BY <2>1, <3>2
      <4>2. i # 1 => h[i - 1] = g[i - 1]
        BY <2>2, <3>2
      <4>3. h[i] = g[i]
        BY <2>2, <3>2
      <4> HIDE DEF h
      <4>4. QED
        BY <4>1, <4>2, <4>3
    <3>3. QED
      BY <3>1, <3>2
  <2>4. Is(h, m + 1)
    <3>1. h = [i \in 1 .. m + 1 |-> h[i]]
      OBVIOUS
    <3> HIDE DEF h
    <3>2. QED
      BY <2>3, <3>1
  <2> HIDE DEF Is, h
  <2>5. m + 1 \in Nat /\ \E f : Is(f, m + 1)
    BY <2>4
  <2>6. QED
    BY <2>5
<1> HIDE DEF S
<1>3. Nat \subseteq S
  BY <1>1, <1>2, Inductive
<1>4. QED
  BY <1>3 DEF S

LEMMA FlatteningUnfolds ==
  ASSUME NEW lists, Len(lists) \in Nat
  PROVE  \A i \in 1 .. Len(lists) :
           Flattening(lists)[i]
             = IF i = 1 THEN lists[i] ELSE Flattening(lists)[i - 1] \o lists[i]
<1> DEFINE Is(g) == g = [i \in 1 .. Len(lists) |->
                           IF i = 1 THEN lists[i] ELSE g[i - 1] \o lists[i]]
<1>1. \E g : Is(g)
  BY FlatteningExists
<1>2. Flattening(lists) = CHOOSE g : Is(g)
  BY DEF Flattening
<1> HIDE DEF Is
<1>3. Is(Flattening(lists))
  BY <1>1, <1>2
<1>4. QED
  BY <1>3 DEF Is

LEMMA FirstOfLists ==
  ASSUME NEW S, NEW lists \in Seq(Seq(S))
  PROVE  /\ FirstOf(lists, 0) = << >>
         /\ \A n \in 0 .. Len(lists) : FirstOf(lists, n) \in Seq(S)
         /\ \A n \in 0 .. Len(lists) - 1 : FirstOf(lists, n + 1) = FirstOf(lists, n) \o lists[n + 1]
         /\ FlattenSeq(lists) = FirstOf(lists, Len(lists))
<1> DEFINE N == Len(lists)
           bad == {n \in 0 .. N : FirstOf(lists, n) \notin Seq(S)}
<1>1. N \in Nat
  BY LenProperties
<1>2. FirstOf(lists, 0) = << >>
  BY DEF FirstOf
<1>3. ASSUME NEW n \in 0 .. N - 1 PROVE FirstOf(lists, n + 1) = FirstOf(lists, n) \o lists[n + 1]
  <2>1. n + 1 \in 1 .. N /\ n + 1 # 0 /\ n + 1 - 1 = n /\ (n + 1 = 1 <=> n = 0)
    BY <1>1
  <2>2. lists[n + 1] \in Seq(S)
    BY <2>1, ElementOfSeq
  <2>3. FirstOf(lists, n + 1)
          = IF n = 0 THEN lists[n + 1] ELSE Flattening(lists)[n] \o lists[n + 1]
    BY <1>1, <2>1, FlatteningUnfolds DEF FirstOf
  <2>4. << >> \o lists[n + 1] = lists[n + 1]
    BY <2>2, ConcatEmptySeq
  <2>5. QED
    BY <2>3, <2>4 DEF FirstOf
<1>4. ASSUME NEW n \in 0 .. N PROVE FirstOf(lists, n) \in Seq(S)
  <2> SUFFICES ASSUME bad # {} PROVE FALSE
    OBVIOUS
  <2>1. bad \subseteq Nat
    OBVIOUS
  <2>2. PICK i \in bad : \A j \in bad : i <= j
    BY <2>1, LeastNat
  <2>3. i # 0
    <3>1. << >> \in Seq(S)
      BY EmptySeq
    <3>2. QED
      BY <1>2, <2>2, <3>1
  <2>4. i - 1 \in 0 .. N - 1 /\ i - 1 \in 0 .. N /\ i - 1 \notin bad /\ i - 1 + 1 = i /\ i \in 1 .. N
    BY <1>1, <2>1, <2>2, <2>3
  <2>5. FirstOf(lists, i) = FirstOf(lists, i - 1) \o lists[i]
    BY <1>3, <2>4
  <2>6. FirstOf(lists, i - 1) \in Seq(S) /\ lists[i] \in Seq(S)
    BY <2>4, ElementOfSeq
  <2>7. FirstOf(lists, i) \in Seq(S)
    BY <2>5, <2>6, ConcatProperties
  <2>8. QED
    BY <2>2, <2>7
<1>5. FlattenSeq(lists) = FirstOf(lists, N)
  <2>1. CASE N = 0
    <3>1. lists = << >>
      BY <2>1, EmptySeq
    <3>2. QED
      BY <2>1, <3>1 DEF FlattenSeq, FirstOf
  <2>2. CASE N # 0
    BY <2>2 DEF FlattenSeq, FirstOf, Flattening
  <2>3. QED
    BY <2>1, <2>2
<1>6. QED
  BY <1>2, <1>3, <1>4, <1>5

LEMMA BoundedLists ==
  ASSUME NEW S, NEW T, S \subseteq T, NEW n \in Nat, NEW s \in BoundedSeq(S, n)
  PROVE  s \in Seq(T)
<1>1. s \in Seq(S)
  BY BoundedIsSeq
<1>2. QED
  BY <1>1

LEMMA CurrentTypes ==
  ASSUME RecordTypes, NEW n \in 1 .. Len(records)
  PROVE  /\ records[n].events \in Seq(IF stream = Hip3 THEN Hip3Update ELSE Event)
         /\ Len(records[n].events) \in Nat
         /\ DOMAIN records[n].events = 1 .. Len(records[n].events)
<1> DEFINE T == [header_ok : BOOLEAN, events : Seq(IF stream = Hip3 THEN Hip3Update ELSE Event)]
<1>1. records \in Seq(T)
  BY DEF RecordTypes
<1>2. records[n] \in T
  <2> HIDE DEF T
  <2>1. QED
    BY <1>1, ElementOfSeq
<1>3. records[n].events \in Seq(IF stream = Hip3 THEN Hip3Update ELSE Event)
  BY <1>2
<1>4. QED
  BY <1>3, LenProperties

LEMMA EventsInitInv == ASSUME EventsAssumption, EventsInit PROVE EventsInv
<1>1. MaxEvents \in Nat /\ MaxRecords \in Nat
  BY DEF EventsAssumption
<1> DEFINE T == [header_ok : BOOLEAN, events : Seq(Event)]
<1>2. RecordTypes
  <2>1. CASE stream \in IndexedStreams \union {"node_fills"} /\ records \in BoundedSeq(Record, MaxRecords)
    <3>1. ASSUME NEW r \in Record PROVE r \in T
      <4>1. r.events \in Seq(Event)
        BY <1>1, BoundedIsSeq DEF Record
      <4>2. QED
        BY <4>1 DEF Record
    <3>2. Record \subseteq T
      BY <3>1
    <3> HIDE DEF T
    <3>3. records \in Seq(T)
      BY <1>1, <2>1, <3>2, BoundedLists
    <3>4. stream \in Streams /\ stream # Hip3
      BY <2>1 DEF Streams, IndexedStreams, Hip3
    <3>5. QED
      BY <3>3, <3>4 DEF RecordTypes, T
  <2>2. CASE stream = Hip3 /\ records \in Hip3Records
    BY <2>2 DEF EventsAssumption, RecordTypes, Streams, Hip3
  <2>3. QED
    BY <2>1, <2>2 DEF EventsInit, Hip3
<1>3. record = 1 /\ event_index = 0 /\ rows = << >> /\ written = << >>
  BY DEF EventsInit
<1>4. Len(records) \in Nat
  BY <1>2, LenProperties DEF RecordTypes
<1>5. Place
  <2>1. ASSUME record <= Len(records) PROVE event_index <= Len(records[record].events)
    <3>1. record \in 1 .. Len(records)
      BY <1>3, <1>4, <2>1
    <3>2. Len(records[record].events) \in Nat
      BY <1>2, <3>1, CurrentTypes
    <3>3. QED
      BY <1>3, <3>2
  <2>2. written = [n \in 1 .. record - 1 |-> written[n]]
    BY <1>3
  <2>3. QED
    BY <1>3, <1>4, <2>1, <2>2 DEF Place
<1>6. SimpleDone
  BY <1>3 DEF SimpleDone, SimpleRows
<1>7. Hip3Done
  <2>1. FirstOf(UpdatesIn(records[record]), event_index) = << >>
    BY <1>3 DEF FirstOf
  <2>2. RowsOf(<< >>) = << >> /\ AllJoin(<< >>)
    BY DEF RowsOf, AllJoin
  <2>3. QED
    BY <1>3, <2>1, <2>2 DEF Hip3Done
<1>8. QED
  BY <1>2, <1>5, <1>6, <1>7 DEF EventsInv

(* What is right for a record that is done. *)
RightFor(n, result) ==
  /\ stream # Hip3 =>
       result = IF Valid(n) THEN SimpleRows(n, Len(records[n].events)) ELSE << >>
  /\ stream = Hip3 =>
       \/ records[n].header_ok /\ AllJoin(AllUpdates(n)) /\ result = RowsOf(AllUpdates(n))
       \/ ~ (records[n].header_ok /\ AllJoin(AllUpdates(n))) /\ result = << >>

LEMMA FinishRecordInv ==
  ASSUME EventsInv, record <= Len(records), NEW result, FinishRecord(result), RightFor(record, result)
  PROVE  EventsInv'
<1>1. Len(records) \in Nat /\ record \in Nat /\ record \in 1 .. Len(records)
  BY LenProperties DEF EventsInv, RecordTypes, Place
<1>2. /\ record' = record + 1 /\ event_index' = 0 /\ rows' = << >>
      /\ stream' = stream /\ records' = records
  BY DEF FinishRecord
<1>3. 1 .. record' - 1 = 1 .. record /\ record' \in Nat /\ record' \in 1 .. Len(records) + 1
  BY <1>1, <1>2
<1>4. /\ written' = [n \in 1 .. record |-> written'[n]]
      /\ \A n \in 1 .. record - 1 : written'[n] = written[n]
      /\ written'[record] = result
  <2> DEFINE S == {written[n] : n \in 1 .. record - 1} \union {result}
  <2>1. written \in Seq(S) /\ Len(written) = record - 1
    <3>1. written = [n \in 1 .. record - 1 |-> written[n]] /\ record - 1 \in Nat
      BY <1>1 DEF EventsInv, Place
    <3>2. QED
      BY <3>1
  <2>2. result \in S /\ written' = Append(written, result)
    BY DEF FinishRecord
  <2> HIDE DEF S
  <2>3. /\ written' \in Seq(S) /\ Len(written') = record - 1 + 1
        /\ \A n \in 1 .. record - 1 : written'[n] = written[n]
        /\ written'[record - 1 + 1] = result
    BY <1>1, <2>1, <2>2, AppendProperties
  <2>4. record - 1 + 1 = record
    BY <1>1
  <2>5. QED
    BY <2>3, <2>4
<1>5. RecordTypes'
  BY <1>2 DEF EventsInv, RecordTypes
<1>6. Place'
  <2>1. ASSUME record' <= Len(records) PROVE Len(records[record'].events) \in Nat
    BY <1>3, <2>1, <1>1, CurrentTypes DEF EventsInv
  <2>2. written' = [n \in 1 .. record' - 1 |-> written'[n]]
    BY <1>3, <1>4
  <2>3. record' <= Len(records') => /\ event_index' <= Len(records'[record'].events)
                                    /\ event_index' = 0 \/ records'[record'].header_ok
    BY <1>2, <2>1
  <2>4. record' > Len(records') => event_index' = 0
    BY <1>2
  <2>5. record' \in Nat /\ record' \in 1 .. Len(records') + 1 /\ event_index' \in Nat
    BY <1>2, <1>3
  <2>6. QED
    BY <2>2, <2>3, <2>4, <2>5 DEF Place
<1>7. SimpleDone'
  <2>1. ASSUME stream # Hip3, NEW n \in 1 .. record
        PROVE  written'[n] = IF Valid(n) THEN SimpleRows(n, Len(records[n].events)) ELSE << >>
    <3>1. CASE n = record
      BY <1>4, <2>1, <3>1 DEF RightFor
    <3>2. CASE n \in 1 .. record - 1
      BY <1>4, <2>1, <3>2 DEF EventsInv, SimpleDone
    <3>3. QED
      BY <1>1, <3>1, <3>2
  <2>2. \A n : Valid(n)' = Valid(n)
    BY <1>2 DEF Valid
  <2>3. \A n, m : SimpleRows(n, m)' = SimpleRows(n, m)
    BY <1>2 DEF SimpleRows, KeyAt
  <2>4. SimpleRows(record, event_index)' = << >>
    BY <1>2 DEF SimpleRows
  <2>5. ASSUME stream # Hip3, NEW n \in (1 .. record - 1)'
        PROVE  (written[n] = IF Valid(n) THEN SimpleRows(n, Len(records[n].events)) ELSE << >>)'
    <3>1. n \in 1 .. record
      BY <1>3
    <3>2. SimpleRows(n, Len(records[n].events))' = SimpleRows(n, Len(records[n].events))
      BY <1>2 DEF SimpleRows, KeyAt
    <3>3. QED
      BY <2>1, <2>2, <2>5, <3>1, <3>2
  <2>6. \A i \in (1 .. event_index)' : FALSE
    BY <1>2
  <2>7. QED
    BY <1>2, <2>4, <2>5, <2>6 DEF SimpleDone
<1>8. Hip3Done'
  <2>1. ASSUME stream = Hip3, NEW n \in 1 .. record
        PROVE  \/ records[n].header_ok /\ AllJoin(AllUpdates(n)) /\ written'[n] = RowsOf(AllUpdates(n))
               \/ ~ (records[n].header_ok /\ AllJoin(AllUpdates(n))) /\ written'[n] = << >>
    <3>1. CASE n = record
      BY <1>4, <2>1, <3>1 DEF RightFor
    <3>2. CASE n \in 1 .. record - 1
      BY <1>4, <2>1, <3>2 DEF EventsInv, Hip3Done
    <3>3. QED
      BY <1>1, <3>1, <3>2
  <2>2. \A n : AllUpdates(n)' = AllUpdates(n)
    BY <1>2 DEF AllUpdates
  <2>3. FirstOf(UpdatesIn(records[record]), event_index)' = << >>
    BY <1>2 DEF FirstOf
  <2>4. RowsOf(<< >>) = << >> /\ AllJoin(<< >>)
    BY DEF RowsOf, AllJoin
  <2>5. QED
    BY <1>2, <1>3, <2>1, <2>2, <2>3, <2>4 DEF Hip3Done
<1>9. QED
  BY <1>5, <1>6, <1>7, <1>8 DEF EventsInv

(* A record that goes on with its next event stays where it is. *)
LEMMA StaysInRecord ==
  ASSUME EventsInv, record <= Len(records), event_index < Len(records[record].events),
         records[record].header_ok, event_index' = event_index + 1,
         UNCHANGED <<stream, records, record, written>>
  PROVE  RecordTypes' /\ Place'
<1>1. Len(records) \in Nat /\ record \in 1 .. Len(records)
  BY LenProperties DEF EventsInv, RecordTypes, Place
<1>2. Len(records[record].events) \in Nat
  BY <1>1, CurrentTypes DEF EventsInv
<1>3. event_index' \in Nat /\ event_index' <= Len(records[record].events)
  BY <1>2 DEF EventsInv, Place
<1>4. RecordTypes'
  BY DEF EventsInv, RecordTypes
<1>5. Place'
  BY <1>1, <1>3 DEF EventsInv, Place
<1>6. QED
  BY <1>4, <1>5

LEMMA ParseEventInv == ASSUME EventsInv, ParseEvent PROVE EventsInv'
<1> DEFINE n == event_index + 1
           e == records[record].events[n]
<1>1. /\ stream # Hip3 /\ record <= Len(records) /\ records[record].header_ok
      /\ event_index < Len(records[record].events)
  BY DEF ParseEvent, Current, Hip3
<1>2. /\ Len(records) \in Nat /\ record \in 1 .. Len(records) /\ event_index \in Nat
      /\ Len(records[record].events) \in Nat
  <2>1. Len(records) \in Nat /\ record \in 1 .. Len(records) /\ event_index \in Nat
    BY <1>1, LenProperties DEF EventsInv, RecordTypes, Place
  <2>2. QED
    BY <2>1, CurrentTypes DEF EventsInv
<1>3. n \in 1 .. Len(records[record].events) /\ n - 1 = event_index
  BY <1>1, <1>2
<1>4. CASE ~ e.ok /\ FinishRecord(<< >>)
  <2>1. ~ Valid(record)
    BY <1>3, <1>4 DEF Valid
  <2>2. RightFor(record, << >>)
    BY <1>1, <2>1 DEF RightFor
  <2>3. QED
    BY <1>1, <1>4, <2>2, FinishRecordInv
<1>5. CASE /\ e.ok
           /\ rows' = Append(rows, [key |-> RowKey(e.own), own |-> e.own])
           /\ event_index' = n
           /\ UNCHANGED <<stream, records, record, written>>
  <2> DEFINE new == [key |-> RowKey(e.own), own |-> e.own]
  <2>1. RecordTypes' /\ Place'
    BY <1>1, <1>5, StaysInRecord
  <2>2. rows = SimpleRows(record, event_index)
    BY <1>1 DEF EventsInv, SimpleDone
  <2>3. new = [key |-> KeyAt(record, n - 1, e.own), own |-> e.own]
    BY <1>3 DEF RowKey, KeyAt
  <2> HIDE DEF new
  <2>4. rows' = SimpleRows(record, n)
    <3> DEFINE Row(i) == [key |-> KeyAt(record, i - 1, records[record].events[i].own),
                          own |-> records[record].events[i].own]
               S == {Row(i) : i \in 1 .. n}
    <3>1. 1 .. event_index \subseteq 1 .. n /\ n \in 1 .. n /\ n \in Nat
      BY <1>2
    <3>2. rows = [i \in 1 .. event_index |-> Row(i)]
      BY <2>2 DEF SimpleRows
    <3>3. new = Row(n)
      BY <2>3
    <3>4. SimpleRows(record, n) = [i \in 1 .. n |-> Row(i)]
      BY DEF SimpleRows
    <3> HIDE DEF Row
    <3>5. \A i \in 1 .. n : Row(i) \in S
      OBVIOUS
    <3>6. rows \in [1 .. event_index -> S] /\ new \in S
      BY <3>1, <3>2, <3>3, <3>5
    <3>7. rows \in Seq(S) /\ Len(rows) = event_index
      BY <1>2, <3>6
    <3>8. rows' = Append(rows, new)
      BY <1>5 DEF new
    <3> HIDE DEF S, n
    <3>9. /\ rows' \in Seq(S) /\ Len(rows') = event_index + 1
          /\ \A i \in 1 .. event_index : rows'[i] = rows[i]
          /\ rows'[event_index + 1] = new
      BY <3>6, <3>7, <3>8, AppendProperties
    <3>10. rows' = [i \in 1 .. n |-> rows'[i]]
      BY <3>9 DEF n
    <3>11. ASSUME NEW i \in 1 .. n PROVE rows'[i] = Row(i)
      <4>1. CASE i = n
        BY <3>3, <3>9, <4>1 DEF n
      <4>2. CASE i \in 1 .. event_index
        BY <3>2, <3>9, <4>2
      <4>3. QED
        BY <1>2, <4>1, <4>2 DEF n
    <3>12. QED
      BY <3>4, <3>10, <3>11
  <2>5. SimpleDone'
    <3>1. rows' = SimpleRows(record, event_index)'
      BY <1>5, <2>4 DEF SimpleRows, KeyAt
    <3>2. \A i \in 1 .. n : records[record].events[i].ok
      <4>1. \A i \in 1 .. event_index : records[record].events[i].ok
        BY <1>1 DEF EventsInv, SimpleDone
      <4>2. \A i \in 1 .. n : i = n \/ i \in 1 .. event_index
        BY <1>2
      <4>3. QED
        BY <1>5, <4>1, <4>2
    <3>3. ASSUME NEW m \in 1 .. record - 1
          PROVE  (written[m] = IF Valid(m) THEN SimpleRows(m, Len(records[m].events)) ELSE << >>)'
      <4>1. written[m] = IF Valid(m) THEN SimpleRows(m, Len(records[m].events)) ELSE << >>
        BY <1>1 DEF EventsInv, SimpleDone
      <4>2. QED
        BY <1>5, <4>1 DEF Valid, SimpleRows, KeyAt
    <3>4. QED
      BY <1>5, <3>1, <3>2, <3>3 DEF SimpleDone
  <2>6. Hip3Done'
    BY <1>1, <1>5 DEF Hip3Done
  <2>7. QED
    BY <2>1, <2>5, <2>6 DEF EventsInv
<1>6. QED
  BY <1>4, <1>5 DEF ParseEvent, Current

LEMMA EndRecordInv == ASSUME EventsInv, EndRecord PROVE EventsInv'
<1>1. record <= Len(records)
  BY DEF EndRecord
<1>2. CASE ~ records[record].header_ok /\ FinishRecord(<< >>)
  <2>1. RightFor(record, << >>)
    BY <1>2 DEF RightFor, Valid
  <2>2. QED
    BY <1>1, <1>2, <2>1, FinishRecordInv
<1>3. CASE /\ records[record].header_ok /\ event_index = Len(records[record].events)
           /\ FinishRecord(rows)
  <2>1. ASSUME stream # Hip3
        PROVE  rows = IF Valid(record) THEN SimpleRows(record, Len(records[record].events)) ELSE << >>
    BY <1>3, <2>1 DEF EventsInv, SimpleDone, Valid
  <2>2. ASSUME stream = Hip3
        PROVE  AllJoin(AllUpdates(record)) /\ rows = RowsOf(AllUpdates(record))
    BY <1>3, <2>2 DEF EventsInv, Hip3Done, AllUpdates
  <2>3. RightFor(record, rows)
    BY <1>3, <2>1, <2>2 DEF RightFor
  <2>4. QED
    BY <1>1, <1>3, <2>3, FinishRecordInv
<1>4. QED
  BY <1>2, <1>3 DEF EndRecord, Current

(* Two sequences, one behind the other. *)
LEMMA Both ==
  ASSUME NEW S, NEW a \in Seq(S), NEW b \in Seq(S)
  PROVE  /\ a \o b \in Seq(S) /\ Len(a) \in Nat /\ Len(b) \in Nat /\ Len(a \o b) = Len(a) + Len(b)
         /\ \A i \in 1 .. Len(a) : i \in 1 .. Len(a \o b) /\ (a \o b)[i] = a[i]
         /\ \A i \in 1 .. Len(b) : Len(a) + i \in 1 .. Len(a \o b) /\ (a \o b)[Len(a) + i] = b[i]
         /\ \A i \in 1 .. Len(a \o b) : i \in 1 .. Len(a) \/ \E k \in 1 .. Len(b) : i = Len(a) + k
<1>1. Len(a) \in Nat /\ Len(b) \in Nat /\ b \in [1 .. Len(b) -> S]
  OBVIOUS
<1>2. /\ a \o b \in Seq(S) /\ Len(a \o b) = Len(a) + Len(b)
      /\ \A i \in 1 .. Len(a) : (a \o b)[i] = a[i]
      /\ \A i \in 1 .. Len(b) : (a \o b)[Len(a) + i] = b[i]
  BY <1>1, Added
<1>3. ASSUME NEW m \in Nat, NEW n \in Nat
      PROVE  /\ \A i \in 1 .. m : i \in 1 .. m + n
             /\ \A i \in 1 .. n : m + i \in 1 .. m + n
  OBVIOUS
<1>4. \A i \in 1 .. Len(a) + Len(b) : i \in 1 .. Len(a) \/ \E k \in 1 .. Len(b) : i = Len(a) + k
  BY <1>1, OldOrNew
<1>5. /\ \A i \in 1 .. Len(a) : i \in 1 .. Len(a) + Len(b)
      /\ \A i \in 1 .. Len(b) : Len(a) + i \in 1 .. Len(a) + Len(b)
  BY <1>1, <1>3
<1>6. QED
  BY <1>1, <1>2, <1>4, <1>5

(* An element of a list is among the first n lists, if its list is. *)
LEMMA AmongFirst ==
  ASSUME NEW S, NEW lists \in Seq(Seq(S)), NEW i \in 1 .. Len(lists), NEW k \in 1 .. Len(lists[i])
  PROVE  \A n \in i .. Len(lists) :
           \E j \in 1 .. Len(FirstOf(lists, n)) : FirstOf(lists, n)[j] = lists[i][k]
<1> DEFINE N == Len(lists)
           Has(n) == \E j \in 1 .. Len(FirstOf(lists, n)) : FirstOf(lists, n)[j] = lists[i][k]
           bad == {n \in i .. N : ~ Has(n)}
<1>1. N \in Nat /\ lists[i] \in Seq(S)
  BY LenProperties, ElementOfSeq
<1>2. ASSUME NEW n \in 1 .. N
      PROVE  /\ FirstOf(lists, n) = FirstOf(lists, n - 1) \o lists[n]
             /\ FirstOf(lists, n - 1) \in Seq(S) /\ lists[n] \in Seq(S)
  <2>1. n - 1 \in 0 .. N - 1 /\ n - 1 + 1 = n /\ n - 1 \in 0 .. N
    BY <1>1
  <2>2. FirstOf(lists, n) = FirstOf(lists, n - 1) \o lists[n]
    BY <2>1, FirstOfLists
  <2>3. FirstOf(lists, n - 1) \in Seq(S) /\ lists[n] \in Seq(S)
    BY <2>1, FirstOfLists, ElementOfSeq
  <2>4. QED
    BY <2>2, <2>3
<1>3. Has(i)
  <2>1. \A j \in 1 .. Len(lists[i]) :
          /\ Len(FirstOf(lists, i - 1)) + j \in 1 .. Len(FirstOf(lists, i))
          /\ FirstOf(lists, i)[Len(FirstOf(lists, i - 1)) + j] = lists[i][j]
    <3> DEFINE a == FirstOf(lists, i - 1)
               b == lists[i]
    <3>1. FirstOf(lists, i) = a \o b /\ a \in Seq(S) /\ b \in Seq(S)
      BY <1>2
    <3> HIDE DEF a, b
    <3>2. \A j \in 1 .. Len(b) : Len(a) + j \in 1 .. Len(a \o b) /\ (a \o b)[Len(a) + j] = b[j]
      BY <3>1, Both
    <3>3. QED
      BY <3>1, <3>2 DEF a, b
  <2>2. QED
    BY <2>1
<1>4. ASSUME NEW n \in 1 .. N, Has(n - 1) PROVE Has(n)
  <2>1. PICK j \in 1 .. Len(FirstOf(lists, n - 1)) : FirstOf(lists, n - 1)[j] = lists[i][k]
    BY <1>4
  <2>2. \A l \in 1 .. Len(FirstOf(lists, n - 1)) :
          l \in 1 .. Len(FirstOf(lists, n)) /\ FirstOf(lists, n)[l] = FirstOf(lists, n - 1)[l]
    <3> DEFINE a == FirstOf(lists, n - 1)
               b == lists[n]
    <3>1. FirstOf(lists, n) = a \o b /\ a \in Seq(S) /\ b \in Seq(S)
      BY <1>2
    <3> HIDE DEF a, b
    <3>2. \A l \in 1 .. Len(a) : l \in 1 .. Len(a \o b) /\ (a \o b)[l] = a[l]
      BY <3>1, Both
    <3>3. QED
      BY <3>1, <3>2 DEF a, b
  <2>3. QED
    BY <2>1, <2>2
<1> SUFFICES ASSUME bad # {} PROVE FALSE
  OBVIOUS
<1> HIDE DEF Has
<1>5. bad \subseteq Nat
  BY <1>1
<1>6. PICK n \in bad : \A j \in bad : n <= j
  BY <1>5, LeastNat
<1>7. n # i
  BY <1>3, <1>6
<1>8. n \in 1 .. N /\ n - 1 \in i .. N /\ n - 1 \notin bad
  BY <1>1, <1>6, <1>7
<1>9. QED
  BY <1>4, <1>6, <1>8

LEMMA RowsOfBoth ==
  ASSUME NEW a \in Seq(Update), NEW b \in Seq(Update)
  PROVE  /\ RowsOf(a \o b) = RowsOf(a) \o RowsOf(b)
         /\ AllJoin(a \o b) <=> AllJoin(a) /\ AllJoin(b)
<1> DEFINE m == Len(a)
           n == Len(b)
           Row(u) == Hip3Row(u.e, EntryOf(u))
           S == {Row(u) : u \in Update}
           Good(u) == Joins(u.e, EntryOf(u))
<1>1. m \in Nat /\ n \in Nat
  BY LenProperties
<1>2. /\ a \o b \in Seq(Update) /\ Len(a \o b) = m + n
      /\ \A i \in 1 .. m : (a \o b)[i] = a[i]
      /\ \A i \in 1 .. n : (a \o b)[m + i] = b[i]
  <2>1. b \in [1 .. n -> Update]
    OBVIOUS
  <2>2. QED
    BY <1>1, <2>1, Added
<1>3. /\ RowsOf(a) = [j \in 1 .. m |-> Row(a[j])] /\ RowsOf(b) = [j \in 1 .. n |-> Row(b[j])]
      /\ RowsOf(a \o b) = [j \in 1 .. m + n |-> Row((a \o b)[j])]
  BY <1>2 DEF RowsOf
<1>4. /\ AllJoin(a) <=> \A j \in 1 .. m : Good(a[j])
      /\ AllJoin(b) <=> \A j \in 1 .. n : Good(b[j])
      /\ AllJoin(a \o b) <=> \A j \in 1 .. m + n : Good((a \o b)[j])
  BY <1>2 DEF AllJoin
<1>5. (\A i \in 1 .. m : a[i] \in Update) /\ (\A i \in 1 .. n : b[i] \in Update)
  BY ElementOfSeq
<1> HIDE DEF Row, Good
<1>6. RowsOf(a) \in [1 .. m -> S] /\ RowsOf(b) \in [1 .. n -> S]
  BY <1>3, <1>5
<1> HIDE DEF S
<1>7. RowsOf(a) \in Seq(S) /\ Len(RowsOf(a)) = m
  BY <1>1, <1>6
<1> DEFINE all == RowsOf(a) \o RowsOf(b)
<1>8. RowsOf(b) \in Seq(S) /\ Len(RowsOf(b)) = n
  BY <1>1, <1>6
<1>9. /\ all \in Seq(S) /\ Len(all) = m + n
      /\ \A i \in 1 .. m : i \in 1 .. m + n /\ all[i] = RowsOf(a)[i]
      /\ \A i \in 1 .. n : m + i \in 1 .. m + n /\ all[m + i] = RowsOf(b)[i]
      /\ \A i \in 1 .. m + n : i \in 1 .. m \/ \E k \in 1 .. n : i = m + k
  <2> DEFINE r == RowsOf(a)
             q == RowsOf(b)
  <2>1. Len(r) = m /\ Len(q) = n /\ all = r \o q
    BY <1>7, <1>8
  <2>2. r \in Seq(S) /\ q \in Seq(S)
    BY <1>7, <1>8
  <2> HIDE DEF r, q, all, m, n
  <2>3. /\ r \o q \in Seq(S) /\ Len(r \o q) = Len(r) + Len(q)
        /\ \A i \in 1 .. Len(r) : i \in 1 .. Len(r \o q) /\ (r \o q)[i] = r[i]
        /\ \A i \in 1 .. Len(q) : Len(r) + i \in 1 .. Len(r \o q) /\ (r \o q)[Len(r) + i] = q[i]
        /\ \A i \in 1 .. Len(r \o q) : i \in 1 .. Len(r) \/ \E k \in 1 .. Len(q) : i = Len(r) + k
    BY <2>2, Both
  <2>4. QED
    BY <2>1, <2>3 DEF r, q
<1>10. all = [i \in 1 .. m + n |-> all[i]]
  <2> HIDE DEF all, m, n
  <2>1. QED
    BY <1>9
<1> HIDE DEF all, m, n
<1>11. ASSUME NEW i \in 1 .. m + n PROVE all[i] = Row((a \o b)[i])
  <2>1. CASE i \in 1 .. m
    BY <1>2, <1>3, <1>9, <2>1
  <2>2. ASSUME NEW k \in 1 .. n, i = m + k PROVE all[i] = Row((a \o b)[i])
    BY <1>2, <1>3, <1>9, <2>2
  <2>3. QED
    BY <1>9, <2>1, <2>2
<1>12. RowsOf(a \o b) = all
  BY <1>3, <1>10, <1>11
<1>13. AllJoin(a \o b) <=> AllJoin(a) /\ AllJoin(b)
  <2>1. ASSUME AllJoin(a), AllJoin(b), NEW i \in 1 .. m + n PROVE Good((a \o b)[i])
    <3>1. CASE i \in 1 .. m
      <4>1. (a \o b)[i] = a[i] /\ Good(a[i])
        BY Zenon, <1>2, <1>4, <2>1, <3>1
      <4>2. QED
        BY Zenon, <4>1
    <3>2. ASSUME NEW k \in 1 .. n, i = m + k PROVE Good((a \o b)[i])
      <4>1. (a \o b)[i] = b[k] /\ Good(b[k])
        BY Zenon, <1>2, <1>4, <2>1, <3>2
      <4>2. QED
        BY Zenon, <4>1
    <3>3. i \in 1 .. m \/ \E k \in 1 .. n : i = m + k
      BY Zenon, <1>9
    <3>4. QED
      BY Zenon, <3>1, <3>2, <3>3
  <2>2. ASSUME AllJoin(a \o b) PROVE AllJoin(a) /\ AllJoin(b)
    <3>1. ASSUME NEW i \in 1 .. m PROVE Good(a[i])
      <4>1. i \in 1 .. m + n /\ (a \o b)[i] = a[i]
        BY Zenon, <1>2, <1>9
      <4>2. QED
        BY Zenon, <1>4, <2>2, <4>1
    <3>2. ASSUME NEW i \in 1 .. n PROVE Good(b[i])
      <4>1. m + i \in 1 .. m + n /\ (a \o b)[m + i] = b[i]
        BY Zenon, <1>2, <1>9
      <4>2. QED
        BY Zenon, <1>4, <2>2, <4>1
    <3>3. QED
      BY Zenon, <1>4, <3>1, <3>2
  <2>3. QED
    BY <1>4, <2>1, <2>2
<1>14. QED
  BY <1>12, <1>13 DEF all

LEMMA UpdateLists ==
  ASSUME NEW e \in Hip3Update
  PROVE  /\ e.oracle \in Seq(Entry) /\ Len(e.oracle) \in Nat /\ DOMAIN e.oracle = 1 .. Len(e.oracle)
         /\ e.mark \in Seq(Entry) /\ e.external \in Seq(Entry) /\ e.spot \in Seq(Entry)
<1>1. /\ e.oracle \in Seq(Entry)
      /\ e.mark \in Seq(Entry) /\ e.external \in Seq(Entry) /\ e.spot \in Seq(Entry)
  BY DEF Hip3Update
<1>2. QED
  BY <1>1, LenProperties

LEMMA UpdatesInLists ==
  ASSUME RecordTypes, stream = Hip3, NEW n \in 1 .. Len(records)
  PROVE  /\ UpdatesIn(records[n]) \in Seq(Seq(Update))
         /\ Len(UpdatesIn(records[n])) = Len(records[n].events)
         /\ \A i \in 1 .. Len(records[n].events) :
              UpdatesIn(records[n])[i] = [k \in 1 .. Len(records[n].events[i].oracle) |->
                                            [e |-> records[n].events[i], at |-> k]]
<1> DEFINE r == records[n]
           List(e) == [k \in 1 .. Len(e.oracle) |-> [e |-> e, at |-> k]]
<1>1. r.events \in Seq(Hip3Update) /\ Len(r.events) \in Nat /\ DOMAIN r.events = 1 .. Len(r.events)
  BY CurrentTypes
<1>2. \A i \in 1 .. Len(r.events) : r.events[i] \in Hip3Update
  BY <1>1, ElementOfSeq
<1>3. ASSUME NEW e \in Hip3Update
      PROVE  List(e) \in Seq(Update) /\ List(e) = [k \in DOMAIN e.oracle |-> [e |-> e, at |-> k]]
  <2>1. Len(e.oracle) \in Nat /\ DOMAIN e.oracle = 1 .. Len(e.oracle)
    BY UpdateLists
  <2>2. ASSUME NEW k \in 1 .. Len(e.oracle) PROVE [e |-> e, at |-> k] \in Update
    <3>1. k \in Nat /\ k \in DOMAIN e.oracle
      BY <2>1
    <3>2. QED
      BY <3>1 DEF Update
  <2>3. List(e) \in [1 .. Len(e.oracle) -> Update]
    BY <2>2
  <2>4. QED
    BY <2>1, <2>3
<1> HIDE DEF r
<1>4. UpdatesIn(r) = [i \in 1 .. Len(r.events) |-> List(r.events[i])]
  <2>1. UpdatesIn(r) = [i \in 1 .. Len(r.events) |->
                          [k \in DOMAIN r.events[i].oracle |-> [e |-> r.events[i], at |-> k]]]
    BY <1>1 DEF UpdatesIn
  <2> HIDE DEF List
  <2>2. \A i \in 1 .. Len(r.events) :
          List(r.events[i]) = [k \in DOMAIN r.events[i].oracle |-> [e |-> r.events[i], at |-> k]]
    BY <1>2, <1>3
  <2>3. QED
    BY <2>1, <2>2
<1>5. UpdatesIn(r) \in [1 .. Len(r.events) -> Seq(Update)]
  <2> HIDE DEF List
  <2>1. QED
    BY <1>2, <1>3, <1>4
<1>6. UpdatesIn(r) \in Seq(Seq(Update)) /\ Len(UpdatesIn(r)) = Len(r.events)
  <2>1. ASSUME NEW T, NEW m \in Nat, NEW f \in [1 .. m -> T] PROVE f \in Seq(T) /\ Len(f) = m
    OBVIOUS
  <2>2. Len(r.events) \in Nat
    BY <1>1
  <2> HIDE DEF List
  <2>3. QED
    BY <1>5, <2>1, <2>2
<1>7. QED
  BY <1>4, <1>6 DEF r

LEMMA ParseUpdateInv == ASSUME EventsInv, ParseUpdate PROVE EventsInv'
<1> DEFINE r == records[record]
           n == event_index + 1
           e == r.events[n]
           U == UpdatesIn(r)
           here == [k \in 1 .. Len(e.oracle) |-> [e |-> e, at |-> k]]
<1>1. /\ stream = Hip3 /\ record <= Len(records) /\ r.header_ok
      /\ event_index < Len(r.events)
  BY DEF ParseUpdate, Current, Hip3
<1>2. Len(records) \in Nat /\ record \in 1 .. Len(records) /\ event_index \in Nat
  BY <1>1, LenProperties DEF EventsInv, RecordTypes, Place
<1>3. /\ r.events \in Seq(Hip3Update) /\ Len(r.events) \in Nat
      /\ U \in Seq(Seq(Update)) /\ Len(U) = Len(r.events)
      /\ \A i \in 1 .. Len(r.events) :
           U[i] = [k \in 1 .. Len(r.events[i].oracle) |-> [e |-> r.events[i], at |-> k]]
  BY <1>1, <1>2, CurrentTypes, UpdatesInLists DEF EventsInv
<1>4. /\ n \in 1 .. Len(U) /\ event_index \in 0 .. Len(U) - 1 /\ event_index \in 0 .. Len(U)
      /\ n \in 1 .. Len(r.events) /\ Len(U) \in n .. Len(U)
  <2>1. ASSUME NEW i \in Nat, NEW len \in Nat, i < len
        PROVE  i + 1 \in 1 .. len /\ i \in 0 .. len - 1 /\ i \in 0 .. len /\ len \in i + 1 .. len
    BY <2>1
  <2> HIDE DEF r, U
  <2>2. QED
    BY <1>1, <1>2, <1>3, <2>1
<1>5. e \in Hip3Update /\ U[n] = here
  <2> HIDE DEF r, U, n
  <2>1. QED
    BY <1>3, <1>4, ElementOfSeq
<1>6. e.oracle \in Seq(Entry) /\ Len(e.oracle) \in Nat /\ DOMAIN e.oracle = 1 .. Len(e.oracle)
  BY <1>5, UpdateLists
<1>7. here \in Seq(Update) /\ Len(here) = Len(e.oracle)
  <2>1. U[n] \in Seq(Update)
    BY <1>3, <1>4, ElementOfSeq
  <2>2. QED
    BY <1>5, <1>6, <2>1
<1>8. ASSUME NEW k \in 1 .. Len(e.oracle)
      PROVE  here[k].e = e /\ EntryOf(here[k]) = e.oracle[k] /\ e.oracle[k] \in Range(e.oracle)
  BY <1>6 DEF EntryOf, Range
<1>9. CASE (\E entry \in Range(e.oracle) : ~ Joins(e, entry)) /\ FinishRecord(<< >>)
  <2>1. PICK k \in 1 .. Len(e.oracle) : ~ Joins(e, e.oracle[k])
    BY <1>6, <1>9 DEF Range
  <2>2. PICK j \in 1 .. Len(FirstOf(U, Len(U))) : FirstOf(U, Len(U))[j] = here[k]
    <3>1. k \in 1 .. Len(U[n])
      BY <1>5, <1>7
    <3>2. U \in Seq(Seq(Update)) /\ n \in 1 .. Len(U) /\ Len(U) \in n .. Len(U)
      BY <1>3, <1>4
    <3> HIDE DEF r, U, n, e, here
    <3>3. \A m \in n .. Len(U) :
            \E j \in 1 .. Len(FirstOf(U, m)) : FirstOf(U, m)[j] = U[n][k]
      BY <3>1, <3>2, AmongFirst
    <3>4. \E j \in 1 .. Len(FirstOf(U, Len(U))) : FirstOf(U, Len(U))[j] = U[n][k]
      BY <3>2, <3>3
    <3>5. QED
      BY <1>5, <3>4
  <2>3. ~ AllJoin(FirstOf(U, Len(U)))
    <3>1. here[k].e = e /\ EntryOf(here[k]) = e.oracle[k]
      BY <1>8
    <3> HIDE DEF U, here, e
    <3>2. QED
      BY <2>1, <2>2, <3>1 DEF AllJoin
  <2>4. AllUpdates(record) = FirstOf(U, Len(U))
    BY <1>3 DEF AllUpdates
  <2>5. RightFor(record, << >>)
    BY <1>1, <2>3, <2>4 DEF RightFor
  <2>6. QED
    BY <1>1, <1>9, <2>5, FinishRecordInv
<1>10. CASE /\ \A entry \in Range(e.oracle) : Joins(e, entry)
            /\ rows' = rows \o [i \in DOMAIN e.oracle |-> Hip3Row(e, e.oracle[i])]
            /\ event_index' = n
            /\ UNCHANGED <<stream, records, record, written>>
  <2>1. RecordTypes' /\ Place'
    BY <1>1, <1>10, StaysInRecord
  <2> DEFINE done == FirstOf(U, event_index)
  <2>2. /\ done \in Seq(Update) /\ FirstOf(U, n) = done \o here
    <3>1. FirstOf(U, event_index) \in Seq(Update)
      BY <1>3, <1>4, FirstOfLists
    <3>2. FirstOf(U, event_index + 1) = FirstOf(U, event_index) \o U[event_index + 1]
      <4> HIDE DEF U
      <4>1. QED
        BY <1>3, <1>4, FirstOfLists
    <3>3. QED
      BY <1>5, <3>1, <3>2
  <2>3. rows = RowsOf(done) /\ AllJoin(done)
    BY <1>1 DEF EventsInv, Hip3Done
  <2>4. RowsOf(here) = [i \in DOMAIN e.oracle |-> Hip3Row(e, e.oracle[i])] /\ AllJoin(here)
    <3>1. RowsOf(here) = [i \in 1 .. Len(e.oracle) |-> Hip3Row(here[i].e, EntryOf(here[i]))]
      BY <1>7 DEF RowsOf
    <3>2. \A i \in 1 .. Len(e.oracle) : Joins(e, e.oracle[i])
      BY <1>8, <1>10
    <3> HIDE DEF here, e
    <3>3. RowsOf(here) = [i \in 1 .. Len(e.oracle) |-> Hip3Row(e, e.oracle[i])]
      BY <1>8, <3>1
    <3>4. AllJoin(here)
      BY <1>7, <1>8, <3>2 DEF AllJoin
    <3>5. QED
      BY <1>6, <3>3, <3>4
  <2>5. rows' = RowsOf(FirstOf(U, n)) /\ AllJoin(FirstOf(U, n))
    <3>1. rows' = RowsOf(done) \o RowsOf(here)
      BY <1>10, <2>3, <2>4
    <3> HIDE DEF done, here
    <3>2. RowsOf(done \o here) = RowsOf(done) \o RowsOf(here) /\ AllJoin(done \o here)
      BY <1>7, <2>2, <2>3, <2>4, RowsOfBoth
    <3>3. QED
      BY <2>2, <3>1, <3>2
  <2>6. Hip3Done'
    <3>1. FirstOf(UpdatesIn(records[record]), event_index)' = FirstOf(U, n)
      BY <1>10
    <3>2. ASSUME NEW m \in 1 .. record - 1
          PROVE  (\/ /\ records[m].header_ok /\ AllJoin(AllUpdates(m))
                     /\ written[m] = RowsOf(AllUpdates(m))
                  \/ ~ (records[m].header_ok /\ AllJoin(AllUpdates(m))) /\ written[m] = << >>)'
      <4>1. \/ /\ records[m].header_ok /\ AllJoin(AllUpdates(m))
               /\ written[m] = RowsOf(AllUpdates(m))
            \/ ~ (records[m].header_ok /\ AllJoin(AllUpdates(m))) /\ written[m] = << >>
        BY <1>1 DEF EventsInv, Hip3Done
      <4>2. AllUpdates(m)' = AllUpdates(m)
        BY <1>10 DEF AllUpdates
      <4>3. QED
        BY <1>10, <4>1, <4>2
    <3>3. QED
      BY <1>10, <2>5, <3>1, <3>2 DEF Hip3Done
  <2>7. SimpleDone'
    BY <1>1, <1>10 DEF SimpleDone
  <2>8. QED
    BY <2>1, <2>6, <2>7 DEF EventsInv
<1>11. QED
  BY <1>9, <1>10 DEF ParseUpdate, Current

LEMMA EventsInvHolds == ASSUME EventsAssumption PROVE EventsSpec => []EventsInv
<1>1. EventsInit => EventsInv
  BY EventsInitInv
<1>2. ASSUME EventsInv, [EventsNext]_eventVars PROVE EventsInv'
  <2>1. CASE ParseEvent
    BY <1>2, <2>1, ParseEventInv
  <2>2. CASE ParseUpdate
    BY <1>2, <2>2, ParseUpdateInv
  <2>3. CASE EndRecord
    BY <1>2, <2>3, EndRecordInv
  <2>4. CASE UNCHANGED eventVars
    <3>1. RecordTypes' /\ Place'
      BY <1>2, <2>4 DEF eventVars, EventsInv, RecordTypes, Place
    <3>2. SimpleDone'
      <4>1. /\ stream' = stream /\ records' = records /\ record' = record
            /\ event_index' = event_index /\ rows' = rows /\ written' = written
        BY <2>4 DEF eventVars
      <4>2. \A n : Valid(n)' = Valid(n)
        BY <4>1 DEF Valid
      <4>3. SimpleRows(record, event_index)' = SimpleRows(record, event_index)
        BY <4>1 DEF SimpleRows, KeyAt
      <4>4. ASSUME stream # Hip3, NEW n \in 1 .. record - 1
            PROVE  (written[n] = IF Valid(n) THEN SimpleRows(n, Len(records[n].events)) ELSE << >>)'
        <5>1. written[n] = IF Valid(n) THEN SimpleRows(n, Len(records[n].events)) ELSE << >>
          BY <1>2, <4>4 DEF EventsInv, SimpleDone
        <5>2. SimpleRows(n, Len(records[n].events))' = SimpleRows(n, Len(records[n].events))
          BY <4>1 DEF SimpleRows, KeyAt
        <5>3. QED
          BY <4>1, <4>2, <5>1, <5>2
      <4>5. stream # Hip3 => /\ rows = SimpleRows(record, event_index)
                             /\ \A i \in 1 .. event_index : records[record].events[i].ok
        BY <1>2 DEF EventsInv, SimpleDone
      <4>6. QED
        BY <4>1, <4>3, <4>4, <4>5 DEF SimpleDone
    <3>3. Hip3Done'
      BY <1>2, <2>4 DEF eventVars, EventsInv, Hip3Done, AllUpdates
    <3>4. QED
      BY <3>1, <3>2, <3>3 DEF EventsInv
  <2>5. QED
    BY <1>2, <2>1, <2>2, <2>3, <2>4 DEF EventsNext
<1>3. QED
  BY <1>1, <1>2, PTL DEF EventsSpec

(* No two misc events, twap statuses or system actions of a record have    *)
(* the same key, whatever they contain; the misc events of all records of  *)
(* a block have different keys.                                            *)
THEOREM EventRowsKeptApart == ASSUME EventsAssumption PROVE EventsSpec => []EventsKeptApart
<1>1. ASSUME EventsInv, stream \in IndexedStreams, NEW m \in DOMAIN written, NEW n \in DOMAIN written,
             m = n \/ stream = "misc_events",
             NEW i \in DOMAIN written[m], NEW j \in DOMAIN written[n],
             written[m][i].key = written[n][j].key
      PROVE  m = n /\ i = j
  <2> DEFINE own(a, b) == records[a].events[b].own
  <2>1. DOMAIN written = 1 .. record - 1
    BY <1>1 DEF EventsInv, Place
  <2>2. Len(records) \in Nat /\ record \in Nat /\ record \in 1 .. Len(records) + 1
    BY <1>1, LenProperties DEF EventsInv, RecordTypes, Place
  <2>3. ASSUME NEW a \in DOMAIN written, NEW b \in DOMAIN written[a]
        PROVE  /\ a \in 1 .. Len(records) /\ b \in 1 .. Len(records[a].events)
               /\ written[a][b].key = KeyAt(a, b - 1, own(a, b))
    <3>1. written[a] = IF Valid(a) THEN SimpleRows(a, Len(records[a].events)) ELSE << >>
      BY <1>1, <2>1, <2>3 DEF EventsInv, SimpleDone, IndexedStreams, Hip3
    <3>2. Valid(a)
      BY <2>3, <3>1
    <3>3. b \in 1 .. Len(records[a].events)
      BY <2>3, <3>1, <3>2 DEF SimpleRows
    <3>4. written[a][b] = [key |-> KeyAt(a, b - 1, own(a, b)), own |-> own(a, b)]
      BY <3>1, <3>2, <3>3 DEF SimpleRows
    <3> HIDE DEF own
    <3>5. written[a][b].key = KeyAt(a, b - 1, own(a, b))
      BY <3>4
    <3>6. a \in 1 .. Len(records)
      BY <2>1, <2>2
    <3>7. QED
      BY <3>3, <3>5, <3>6
  <2>4. /\ m \in 1 .. Len(records) /\ i \in 1 .. Len(records[m].events)
        /\ n \in 1 .. Len(records) /\ j \in 1 .. Len(records[n].events)
        /\ KeyAt(m, i - 1, own(m, i)) = KeyAt(n, j - 1, own(n, j))
    BY <1>1, <2>3
  <2>5. /\ Len(records[m].events) \in Nat /\ Len(records[n].events) \in Nat
        /\ DOMAIN records[m].events = 1 .. Len(records[m].events)
        /\ DOMAIN records[n].events = 1 .. Len(records[n].events)
    BY <1>1, <2>4, CurrentTypes DEF EventsInv
  <2> HIDE DEF own
  <2>6. i \in Nat /\ j \in Nat /\ (i - 1 = j - 1 => i = j)
    BY <2>4, <2>5
  <2>7. CASE stream = "misc_events"
    <3>1. <<"id", m, i - 1, own(m, i)>> = <<"id", n, j - 1, own(n, j)>>
      BY <2>4, <2>7 DEF KeyAt, EventId
    <3>2. m = n /\ i - 1 = j - 1
      BY <3>1
    <3>3. QED
      BY <2>6, <3>2
  <2>8. CASE stream # "misc_events"
    <3>1. <<own(m, i), i - 1>> = <<own(n, j), j - 1>>
      BY <1>1, <2>4, <2>8 DEF KeyAt, IndexedStreams
    <3>2. i - 1 = j - 1
      BY <3>1
    <3>3. QED
      BY <1>1, <2>6, <2>8, <3>2
  <2>9. QED
    BY <2>7, <2>8
<1>2. EventsInv => EventsKeptApart
  BY <1>1 DEF EventsKeptApart
<1>3. QED
  BY <1>2, EventsInvHolds, PTL

(* The price found for a coin is one of its prices in the list. *)
LEMMA PriceFound ==
  ASSUME NEW list \in Seq(Entry), NEW coin
  PROVE  /\ Listed(list, coin) <=> PricesOf(list, coin) # {}
         /\ Listed(list, coin) => PxOf(list, coin) \in PricesOf(list, coin)
<1>1. DOMAIN list = 1 .. Len(list) /\ Len(list) \in Nat
  BY LenProperties
<1>2. ASSUME NEW i \in DOMAIN list, list[i].coin = coin PROVE list[i].px \in PricesOf(list, coin)
  BY <1>2 DEF PricesOf, Range
<1>3. ASSUME PricesOf(list, coin) # {} PROVE Listed(list, coin)
  BY <1>3 DEF PricesOf, Range, Listed
<1>4. ASSUME Listed(list, coin) PROVE PxOf(list, coin) \in PricesOf(list, coin)
  <2> DEFINE Of == {i \in DOMAIN list : list[i].coin = coin}
             Latest(i) == list[i].coin = coin /\ \A j \in DOMAIN list : list[j].coin = coin => j <= i
  <2>1. Of \subseteq 1 .. Len(list) /\ Of # {}
    BY <1>1, <1>4 DEF Listed
  <2>2. PICK i \in Of : \A j \in Of : j <= i
    BY <1>1, <2>1, GreatestBelow
  <2>3. \E l \in DOMAIN list : Latest(l)
    BY <2>2
  <2>4. PxOf(list, coin) = list[CHOOSE l \in DOMAIN list : Latest(l)].px
    BY DEF PxOf
  <2> DEFINE latest == CHOOSE l \in DOMAIN list : Latest(l)
  <2>5. latest \in DOMAIN list /\ list[latest].coin = coin
    BY <2>3
  <2> HIDE DEF latest
  <2>6. list[latest].px \in PricesOf(list, coin)
    BY <1>2, <2>5
  <2>7. QED
    BY <2>4, <2>6 DEF latest
<1>5. ASSUME Listed(list, coin) PROVE PricesOf(list, coin) # {}
  BY <1>4, <1>5
<1>6. QED
  BY <1>3, <1>4, <1>5

(* The row that an entry of the oracle prices has to have, and when there  *)
(* is nothing wrong with the entry.                                        *)
RightRow(row, u) ==
  /\ row.coin = EntryOf(u).coin /\ row.oracle_px = EntryOf(u).px
  /\ row.mark_px \in PricesOf(u.e.mark, row.coin) \ {BadPx}
  /\ row.external_px \in PricesOf(u.e.external, row.coin) \ {BadPx}
  /\ row.spot_px \in IF PricesOf(u.e.spot, row.coin) = {} THEN {EntryOf(u).px}
                     ELSE PricesOf(u.e.spot, row.coin)

Clean(u) ==
  /\ PricesOf(u.e.mark, EntryOf(u).coin) # {} /\ PricesOf(u.e.external, EntryOf(u).coin) # {}
  /\ BadPx \notin UNION {PricesOf(list, EntryOf(u).coin) :
                         list \in {u.e.oracle, u.e.mark, u.e.external, u.e.spot}}

LEMMA UpdateRow ==
  ASSUME NEW u \in Update
  PROVE  /\ Joins(u.e, EntryOf(u)) => RightRow(Hip3Row(u.e, EntryOf(u)), u)
         /\ Clean(u) => Joins(u.e, EntryOf(u))
<1> DEFINE e == u.e
           entry == EntryOf(u)
           coin == entry.coin
<1>1. e \in Hip3Update /\ u.at \in DOMAIN e.oracle /\ entry = e.oracle[u.at]
  BY DEF Update, EntryOf
<1>2. /\ e.oracle \in Seq(Entry) /\ e.mark \in Seq(Entry)
      /\ e.external \in Seq(Entry) /\ e.spot \in Seq(Entry)
  BY <1>1, UpdateLists
<1>3. entry.px \in PricesOf(e.oracle, coin)
  BY <1>1 DEF PricesOf, Range
<1> HIDE DEF e, entry
<1>4. \A list \in Seq(Entry) : /\ Listed(list, coin) <=> PricesOf(list, coin) # {}
                               /\ Listed(list, coin) => PxOf(list, coin) \in PricesOf(list, coin)
  BY PriceFound
<1>5. /\ Listed(e.mark, coin) <=> PricesOf(e.mark, coin) # {}
      /\ Listed(e.mark, coin) => PxOf(e.mark, coin) \in PricesOf(e.mark, coin)
      /\ Listed(e.external, coin) <=> PricesOf(e.external, coin) # {}
      /\ Listed(e.external, coin) => PxOf(e.external, coin) \in PricesOf(e.external, coin)
      /\ Listed(e.spot, coin) <=> PricesOf(e.spot, coin) # {}
      /\ Listed(e.spot, coin) => PxOf(e.spot, coin) \in PricesOf(e.spot, coin)
  BY <1>2, <1>4
<1>6. ASSUME Joins(e, entry) PROVE RightRow(Hip3Row(e, entry), u)
  <2> DEFINE row == Hip3Row(e, entry)
  <2>1. /\ row.coin = coin /\ row.oracle_px = entry.px /\ row.mark_px = PxOf(e.mark, coin)
        /\ row.external_px = PxOf(e.external, coin) /\ row.spot_px = SpotPx(e, entry)
    BY DEF Hip3Row
  <2> HIDE DEF row
  <2>2. /\ row.mark_px \in PricesOf(e.mark, coin) \ {BadPx}
        /\ row.external_px \in PricesOf(e.external, coin) \ {BadPx}
    BY <1>5, <1>6, <2>1 DEF Joins
  <2>3. row.spot_px \in IF PricesOf(e.spot, coin) = {} THEN {entry.px} ELSE PricesOf(e.spot, coin)
    BY <1>5, <2>1 DEF SpotPx
  <2>4. RightRow(row, u)
    BY <2>1, <2>2, <2>3 DEF RightRow, e, entry
  <2>5. QED
    BY <2>4 DEF row
<1>7. ASSUME Clean(u) PROVE Joins(e, entry)
  <2>1. /\ PricesOf(e.mark, coin) # {} /\ PricesOf(e.external, coin) # {}
        /\ BadPx \notin UNION {PricesOf(list, coin) : list \in {e.oracle, e.mark, e.external, e.spot}}
    BY <1>7 DEF Clean, e, entry
  <2>2. /\ BadPx \notin PricesOf(e.oracle, coin) /\ BadPx \notin PricesOf(e.mark, coin)
        /\ BadPx \notin PricesOf(e.external, coin) /\ BadPx \notin PricesOf(e.spot, coin)
    BY <2>1
  <2>3. Listed(e.mark, coin) /\ PxOf(e.mark, coin) # BadPx
    BY <1>5, <2>1, <2>2
  <2>4. Listed(e.external, coin) /\ PxOf(e.external, coin) # BadPx
    BY <1>5, <2>1, <2>2
  <2>5. entry.px # BadPx
    BY <1>3, <2>2
  <2>6. SpotPx(e, entry) # BadPx
    BY <1>5, <2>2, <2>5 DEF SpotPx
  <2>7. QED
    BY <2>3, <2>4, <2>5, <2>6 DEF Joins
<1>8. QED
  BY <1>6, <1>7 DEF e, entry

(* A record is written as a whole or not at all, every HIP-3 row with the  *)
(* prices of its own asset.                                                *)
THEOREM EventRecordComplete == ASSUME EventsAssumption PROVE EventsSpec => []RecordComplete
<1> DEFINE Us(n) == FlattenSeq(UpdatesIn(records[n]))
           Hip3Complete(n) ==
             /\ written[n] # << >> =>
                  /\ records[n].header_ok /\ Len(written[n]) = Len(Us(n))
                  /\ \A i \in DOMAIN Us(n) : RightRow(written[n][i], Us(n)[i])
             /\ records[n].header_ok /\ (\A i \in DOMAIN Us(n) : Clean(Us(n)[i]))
                  => Len(written[n]) = Len(Us(n))
           ValidR(n) == /\ records[n].header_ok
                        /\ \A i \in DOMAIN records[n].events : records[n].events[i].ok
           SimpleComplete(n) ==
             [i \in DOMAIN written[n] |-> written[n][i].own]
               = IF ValidR(n) THEN [i \in DOMAIN records[n].events |-> records[n].events[i].own]
                 ELSE << >>
<1>1. ASSUME EventsInv
      PROVE  /\ DOMAIN written = 1 .. record - 1
             /\ \A n \in 1 .. record - 1 : n \in 1 .. Len(records)
  <2>1. DOMAIN written = 1 .. record - 1
    BY <1>1 DEF EventsInv, Place
  <2>2. Len(records) \in Nat /\ record \in Nat /\ record \in 1 .. Len(records) + 1
    BY <1>1, LenProperties DEF EventsInv, RecordTypes, Place
  <2>3. QED
    BY <2>1, <2>2
<1>2. ASSUME EventsInv, stream = Hip3, NEW n \in DOMAIN written PROVE Hip3Complete(n)
  <2> DEFINE us == AllUpdates(n)
             right == records[n].header_ok /\ AllJoin(us)
  <2>1. n \in 1 .. record - 1 /\ n \in 1 .. Len(records)
    BY <1>1, <1>2
  <2>2. UpdatesIn(records[n]) \in Seq(Seq(Update)) /\ Len(records[n].events) \in Nat
        /\ Len(UpdatesIn(records[n])) = Len(records[n].events)
    BY <1>2, <2>1, UpdatesInLists, CurrentTypes DEF EventsInv
  <2>3. us = Us(n) /\ us \in Seq(Update)
    <3>1. /\ FlattenSeq(UpdatesIn(records[n]))
               = FirstOf(UpdatesIn(records[n]), Len(UpdatesIn(records[n])))
          /\ \A m \in 0 .. Len(UpdatesIn(records[n])) :
               FirstOf(UpdatesIn(records[n]), m) \in Seq(Update)
      BY <2>2, FirstOfLists
    <3>2. Len(UpdatesIn(records[n])) \in 0 .. Len(UpdatesIn(records[n]))
      BY <2>2
    <3>3. QED
      BY <2>2, <3>1, <3>2 DEF AllUpdates
  <2>4. \/ right /\ written[n] = RowsOf(us)
        \/ ~ right /\ written[n] = << >>
    BY <1>2, <2>1 DEF EventsInv, Hip3Done
  <2> HIDE DEF us, Us
  <2>5. DOMAIN us = 1 .. Len(us) /\ Len(us) \in Nat
    BY <2>3, LenProperties
  <2>6. \A i \in 1 .. Len(us) :
          /\ Joins(us[i].e, EntryOf(us[i])) => RightRow(Hip3Row(us[i].e, EntryOf(us[i])), us[i])
          /\ Clean(us[i]) => Joins(us[i].e, EntryOf(us[i]))
    <3>1. ASSUME NEW i \in 1 .. Len(us) PROVE us[i] \in Update
      BY <2>3, ElementOfSeq
    <3>2. QED
      BY <3>1, UpdateRow
  <2>7. ASSUME right
        PROVE  /\ Len(written[n]) = Len(us)
               /\ \A i \in 1 .. Len(us) : RightRow(written[n][i], us[i])
    <3>1. written[n] = [i \in 1 .. Len(us) |-> Hip3Row(us[i].e, EntryOf(us[i]))]
      BY <2>4, <2>7 DEF RowsOf
    <3>2. Len(written[n]) = Len(us)
      BY <2>5, <3>1
    <3>3. \A i \in 1 .. Len(us) : Joins(us[i].e, EntryOf(us[i]))
      BY <2>7 DEF AllJoin
    <3>4. ASSUME NEW i \in 1 .. Len(us) PROVE RightRow(written[n][i], us[i])
      <4>1. written[n][i] = Hip3Row(us[i].e, EntryOf(us[i]))
        BY <3>1
      <4>2. QED
        BY <2>6, <3>3, <4>1
    <3>5. QED
      BY <3>2, <3>4
  <2>8. ASSUME records[n].header_ok, \A i \in DOMAIN us : Clean(us[i]) PROVE right
    BY <2>5, <2>6, <2>8 DEF AllJoin
  <2>9. QED
    BY <2>3, <2>4, <2>5, <2>7, <2>8
<1>3. ASSUME EventsInv, stream # Hip3, NEW n \in DOMAIN written PROVE SimpleComplete(n)
  <2>1. n \in 1 .. record - 1 /\ n \in 1 .. Len(records)
    BY <1>1, <1>3
  <2>2. Len(records[n].events) \in Nat /\ DOMAIN records[n].events = 1 .. Len(records[n].events)
    BY <1>3, <2>1, CurrentTypes DEF EventsInv
  <2>3. written[n] = IF Valid(n) THEN SimpleRows(n, Len(records[n].events)) ELSE << >>
    BY <1>3, <2>1 DEF EventsInv, SimpleDone
  <2>4. ValidR(n) <=> Valid(n)
    BY <2>2 DEF Valid
  <2>5. CASE Valid(n)
    <3>1. written[n] = SimpleRows(n, Len(records[n].events))
      BY <2>3, <2>5
    <3>2. DOMAIN written[n] = 1 .. Len(records[n].events)
      BY <3>1 DEF SimpleRows
    <3>3. \A i \in 1 .. Len(records[n].events) : written[n][i].own = records[n].events[i].own
      BY <3>1 DEF SimpleRows
    <3>4. QED
      BY <2>2, <2>4, <2>5, <3>2, <3>3
  <2>6. CASE ~ Valid(n)
    <3>1. written[n] = << >>
      BY <2>3, <2>6
    <3>2. QED
      BY <2>4, <2>6, <3>1
  <2>7. QED
    BY <2>5, <2>6
<1>4. EventsInv => RecordComplete
  <2> SUFFICES ASSUME EventsInv PROVE RecordComplete
    OBVIOUS
  <2>1. ASSUME NEW n \in DOMAIN written
        PROVE  IF stream = Hip3 THEN Hip3Complete(n) ELSE SimpleComplete(n)
    BY <1>2, <1>3, <2>1
  <2>2. QED
    BY <2>1 DEF RecordComplete, Hip3, UpdatesIn, RightRow, Clean, EntryOf
<1>5. QED
  BY <1>4, EventsInvHolds, PTL
=============================================================================
