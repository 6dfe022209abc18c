--------------------------------- MODULE Rlp ---------------------------------
(***************************************************************************)
(* One EVM transaction on its two ways (parse_data in                      *)
(* src/src/streams/evm_blocks_and_receipts.rs): transaction_row reads its  *)
(* fields into the columns of a row, signed_transaction_hash reads them    *)
(* again and encodes them in RLP for the hash, with different parsers for  *)
(* the same strings.  The encoding is compared with a decoder that follows *)
(* the definition of RLP.                                                  *)
(*                                                                         *)
(* A hex string is the sequence of its digits, 16 standing for "+", which  *)
(* is none; the prefix 0x is taken off.  << >> stands for Err(_): an       *)
(* encoding is never empty.                                                *)
(***************************************************************************)
EXTENDS Integers, Sequences, SequencesExt

CONSTANTS
  N,            \* bytes of a quantity (32 in the code)
  AddressBytes, \* bytes of an address (20 in the code)
  U64Bytes,     \* bytes of u64 and usize (8 in the code)
  MaxU64,       \* largest u64
  Strings,      \* byte strings to encode
  HexStrings,   \* hex strings to encode as quantities
  Txs           \* transactions to encode

Power256[n \in Nat] == IF n = 0 THEN 1 ELSE 256 * Power256[n - 1]

MaxLength == Power256[U64Bytes] - 1

ASSUME RlpAssumption ==
  /\ {N, AddressBytes} \subseteq Nat \ {0} /\ U64Bytes \in 1 .. 8
  /\ MaxU64 \in Nat /\ MaxU64 <= MaxLength /\ N <= MaxLength
  /\ Strings \subseteq Seq(0 .. 255) /\ \A bytes \in Strings : Len(bytes) <= MaxLength
  /\ HexStrings \subseteq Seq(0 .. 16)

VARIABLES
  input,
  output,   \* its encoding, for a transaction the one that is hashed
  txRow     \* the row of a transaction

rlpVars == <<input, output, txRow>>

Fails == << >>
None  == <<-1>>  \* the field is absent, the column NULL
NoRow == [parsed |-> FALSE]
NoU64 == -1      \* Err(_) of parse_u64_hex

-----------------------------------------------------------------------------
(* n.to_be_bytes() without its leading zeros. *)
Stripped(bytes) ==
  LET nonzero == {i \in DOMAIN bytes : bytes[i] # 0}
  IN  IF nonzero = {} THEN << >>
      ELSE SubSeq(bytes, CHOOSE i \in nonzero : \A j \in nonzero : i <= j, Len(bytes))

Minimal(n) == Stripped([i \in 1 .. U64Bytes |-> (n \div Power256[U64Bytes - i]) % 256])

RlpPrefix(short_offset, long_offset, len) ==
  IF len < 56 THEN <<short_offset + len>>
  ELSE <<long_offset + Len(Minimal(len))>> \o Minimal(len)

RlpBytes(bytes) ==
  IF Len(bytes) = 1 /\ bytes[1] < 128 THEN bytes ELSE RlpPrefix(128, 183, Len(bytes)) \o bytes

RlpList(items) ==
  LET payload == FlattenSeq(items) IN RlpPrefix(192, 247, Len(payload)) \o payload

RlpU64(n) == RlpBytes(Minimal(n))

(* The numbers that the first digits stand for. *)
Horner(base, digits) ==
  LET sum[n \in 0 .. Len(digits)] == IF n = 0 THEN 0 ELSE base * sum[n - 1] + digits[n]
  IN  sum

(* uint_from_hex: digits fill the bytes from the right. *)
IsHex(s) == \A i \in DOMAIN s : s[i] < 16

FromRight(s, k) == IF k <= Len(s) THEN s[Len(s) - k + 1] ELSE 0

(* Not the code: the digits are paired from the left. *)
UintFromHex_Left(s) ==
  [b \in 1 .. N |-> IF 2 * b <= Len(s) THEN 16 * s[2 * b - 1] + s[2 * b] ELSE 0]

UintFromHex(s) ==
  [b \in 1 .. N |-> 16 * FromRight(s, 2 * (N - b) + 2) + FromRight(s, 2 * (N - b) + 1)]

RlpQuantity(s) ==
  IF Len(s) > 2 * N \/ ~IsHex(s) THEN Fails ELSE RlpBytes(Stripped(UintFromHex(s)))

ValueOfHex(digits) == Horner(16, digits)[Len(digits)]

(* from_str_radix takes a leading "+", and nothing beyond the width.       *)
ParseU64Hex(s) ==
  LET digits == IF Len(s) > 1 /\ s[1] = 16 THEN Tail(s) ELSE s
  IN  IF digits = << >> \/ ~IsHex(digits) \/ ValueOfHex(digits) > MaxU64 THEN NoU64
      ELSE ValueOfHex(digits)

HexBytes(s) == [b \in 1 .. Len(s) \div 2 |-> 16 * s[2 * b - 1] + s[2 * b]]

RlpHexData(s) == IF Len(s) % 2 = 1 \/ ~IsHex(s) THEN Fails ELSE RlpBytes(HexBytes(s))

(* bytes_from_hex: neither shorter nor longer. *)
RlpFixed(s, n) == IF Len(s) # 2 * n THEN Fails ELSE RlpHexData(s)

RlpOptionalAddress(to) == IF to = None THEN RlpBytes(<< >>) ELSE RlpFixed(to, AddressBytes)

(* One item that does not parse fails the list. *)
TryRlpList(items) == IF Fails \in Range(items) THEN Fails ELSE RlpList(items)

RlpAccessList(list) ==
  TryRlpList([i \in DOMAIN list |->
    TryRlpList(<<RlpFixed(list[i].address, AddressBytes),
                 TryRlpList([k \in DOMAIN list[i].keys |-> RlpFixed(list[i].keys[k], N)])>>)])

-----------------------------------------------------------------------------
(* signed_transaction_hash *)

(* EIP-155 for a chain id, the original v without. *)
LegacyV(tx) ==
  ParseU64Hex(tx.y_parity)
    + IF tx.chain_id = None THEN 27 ELSE ParseU64Hex(tx.chain_id) * 2 + 35

(* Not the code: the fees in the order of the row's columns. *)
Prices_AsColumns(tx) ==
  IF tx.type = "Eip1559" THEN <<tx.prices.max_fee_per_gas, tx.prices.max_priority_fee_per_gas>>
  ELSE <<tx.prices.gas_price>>

Prices(tx) ==
  IF tx.type = "Eip1559" THEN <<tx.prices.max_priority_fee_per_gas, tx.prices.max_fee_per_gas>>
  ELSE <<tx.prices.gas_price>>

(* The fields that all envelopes have, in their order. *)
Common(tx) ==
  <<RlpQuantity(tx.nonce)>> \o [i \in DOMAIN Prices(tx) |-> RlpQuantity(Prices(tx)[i])]
    \o <<RlpQuantity(tx.gas), RlpOptionalAddress(tx.to), RlpQuantity(tx.value),
         RlpHexData(tx.input)>>

Encoded(tx) ==
  LET signature == <<RlpQuantity(tx.r), RlpQuantity(tx.s)>>
      legacy == TryRlpList(Common(tx) \o <<RlpU64(LegacyV(tx))>> \o signature)
      typed  == TryRlpList(<<RlpQuantity(tx.chain_id)>> \o Common(tx)
                  \o <<RlpAccessList(tx.access_list), RlpU64(ParseU64Hex(tx.y_parity))>>
                  \o signature)
  IN  CASE tx.type = "Legacy"  -> legacy
        [] tx.type = "Eip2930" -> IF typed = Fails THEN Fails ELSE <<1>> \o typed
        [] tx.type = "Eip1559" -> IF typed = Fails THEN Fails ELSE <<2>> \o typed

(* A parity above 1 and a v that does not fit reject the line. *)
SignedTransaction(tx) ==
  IF \/ ParseU64Hex(tx.y_parity) \notin {0, 1}
     \/ /\ tx.type = "Legacy"
        /\ \/ tx.chain_id # None /\ ParseU64Hex(tx.chain_id) = NoU64
           \/ LegacyV(tx) > MaxU64
  THEN Fails ELSE Encoded(tx)

-----------------------------------------------------------------------------
(* transaction_row *)
NumberIn(bytes) == Horner(256, bytes)[Len(bytes)]

Uint256(s) == NumberIn(UintFromHex(s))

PriceColumns == {"gas_price", "max_fee_per_gas", "max_priority_fee_per_gas"}

(* The row of a transaction; a system transaction has no signature. *)
TransactionRow(tx, signed) ==
  LET u64s == {tx.nonce, tx.gas} \union ({tx.chain_id} \ {None})
                \union (IF signed THEN {tx.y_parity} ELSE {})
      uint256s == {tx.value} \union Range(tx.prices)
                    \union (IF signed THEN {tx.r, tx.s} ELSE {})
  IN  IF \/ \E f \in u64s : ParseU64Hex(f) = NoU64
         \/ \E f \in uint256s : RlpQuantity(f) = Fails
         \/ RlpOptionalAddress(tx.to) = Fails
         \/ signed /\ ParseU64Hex(tx.y_parity) > 1
      THEN NoRow
      ELSE [parsed |-> TRUE, transaction_type |-> tx.type,
            chain_id |-> IF tx.chain_id = None THEN None ELSE <<ParseU64Hex(tx.chain_id)>>,
            nonce |-> ParseU64Hex(tx.nonce), gas |-> ParseU64Hex(tx.gas),
            prices |-> [c \in PriceColumns |->
              IF c \in DOMAIN tx.prices THEN <<Uint256(tx.prices[c])>> ELSE None],
            to_address |-> IF tx.to = None THEN None ELSE HexBytes(tx.to),
            value |-> Uint256(tx.value), input |-> tx.input, access_list |-> tx.access_list,
            signature |-> IF signed
              THEN <<Uint256(tx.r), Uint256(tx.s), ParseU64Hex(tx.y_parity)>> ELSE None]

-----------------------------------------------------------------------------
Hex == Seq(0 .. 16)

(* EvmSignedTransaction as serde reads it; a legacy one has no access list *)
(* and a typed one always a chain id.                                      *)
Tx ==
  [type : {"Legacy", "Eip2930", "Eip1559"}, chain_id : Hex \union {None}, nonce : Hex,
   prices : [gas_price : Hex] \union [max_fee_per_gas : Hex, max_priority_fee_per_gas : Hex],
   gas : Hex, to : Hex \union {None}, value : Hex, input : Hex,
   access_list : Seq([address : Hex, keys : Seq(Hex)]), y_parity : Hex, r : Hex, s : Hex]

(* What is hashed is in memory, so usize counts its bytes. *)
ASSUME TxsAssumption ==
  \A tx \in Txs :
    /\ tx \in Tx /\ Len(SignedTransaction(tx)) <= MaxLength
    /\ tx.type # "Legacy" => tx.chain_id # None
    /\ tx.type = "Eip1559" <=> "gas_price" \notin DOMAIN tx.prices

Inputs == [kind : {"string"}, value : Strings]
            \union [kind : {"quantity"}, value : HexStrings]
            \union [kind : {"tx", "system_tx"}, value : Txs]

RlpInit == input \in Inputs /\ output = Fails /\ txRow = NoRow

EncodeString   == input.kind = "string" /\ output' = RlpBytes(input.value) /\ UNCHANGED txRow
EncodeQuantity == input.kind = "quantity" /\ output' = RlpQuantity(input.value) /\ UNCHANGED txRow

(* A failing hash or row rejects the line, whatever the other one is. *)
RegularTx ==
  /\ input.kind = "tx"
  /\ IF SignedTransaction(input.value) = Fails \/ TransactionRow(input.value, TRUE) = NoRow
     THEN UNCHANGED <<output, txRow>>
     ELSE /\ output' = SignedTransaction(input.value)
          /\ txRow' = TransactionRow(input.value, TRUE)

(* Not signed and not hashed. *)
UnsignedTx ==
  /\ input.kind = "system_tx"
  /\ txRow' = TransactionRow(input.value, FALSE) /\ UNCHANGED output

Encode ==
  /\ output = Fails /\ txRow = NoRow
  /\ EncodeString \/ EncodeQuantity \/ RegularTx \/ UnsignedTx
  /\ UNCHANGED input

RlpSpec == RlpInit /\ [][Encode]_rlpVars

-----------------------------------------------------------------------------
(* RLP by its definition (Ethereum yellow paper, appendix B), to read with. *)

(* The item that begins at i: is it a list, and its first and last byte of payload. *)
ItemAt(e, i) ==
  LET b == e[i]
      long(offset) == b - offset
      from(offset) == i + 1 + long(offset)
      size(offset) == NumberIn(SubSeq(e, i + 1, i + long(offset)))
  IN  CASE b < 128              -> [list |-> FALSE, first |-> i, last |-> i]
        [] b >= 128 /\ b < 184  -> [list |-> FALSE, first |-> i + 1, last |-> i + b - 128]
        [] b >= 184 /\ b < 192  -> [list |-> FALSE, first |-> from(183), last |-> from(183) + size(183) - 1]
        [] b >= 192 /\ b < 248  -> [list |-> TRUE,  first |-> i + 1, last |-> i + b - 192]
        [] b >= 248             -> [list |-> TRUE,  first |-> from(247), last |-> from(247) + size(247) - 1]

Payload(e, item) == SubSeq(e, item.first, item.last)

IsItem(e, i) == i <= Len(e) /\ ItemAt(e, i).last \in i .. Len(e)

(* Payloads of the items of a list's payload; bytes at its end that are no *)
(* item are read as None.                                                  *)
Items(e) ==
  LET rest[i \in 1 .. Len(e) + 1] ==
        IF IsItem(e, i) THEN <<Payload(e, ItemAt(e, i))>> \o rest[ItemAt(e, i).last + 1]
        ELSE IF i <= Len(e) THEN <<None>> ELSE << >>
  IN  rest[1]

(* A byte string is read back as it was, and its encoding ends where the   *)
(* prefix says: at 0x80, at 56 and at 256 bytes too.  A quantity is        *)
(* encoded by its number alone: leading zeros, an odd number of digits and *)
(* the empty string (zero) make no difference, and the payload has no      *)
(* leading zero, as the hash needs it.                                     *)
ItemsDecode ==
  output # Fails =>
    LET item == ItemAt(output, 1)
        payload == Payload(output, item)
    IN  /\ input.kind = "string" =>
             ~item.list /\ item.last = Len(output) /\ payload = input.value
        /\ input.kind = "quantity" =>
             /\ ~item.list /\ item.last = Len(output)
             /\ NumberIn(payload) = ValueOfHex(input.value)
             /\ payload # << >> => payload[1] # 0

(* The list in an envelope and its type, by the first byte.                *)
ListIn(e) == IF e[1] < 3 THEN Tail(e) ELSE e

TypeOf(e) == CASE e[1] = 1 -> "Eip2930" [] e[1] = 2 -> "Eip1559" [] OTHER -> "Legacy"

Fees(type) ==
  IF type = "Eip1559" THEN <<"max_priority_fee_per_gas", "max_fee_per_gas">> ELSE <<"gas_price">>

(* The fields of the list have the values in the columns of the row.       *)
ColumnsIn(fs, type, row) ==
  LET at   == IF type = "Legacy" THEN 0 ELSE 1   \* the chain id comes first
      fees == Fees(type)
      rest == at + 1 + Len(fees)
      v    == NumberIn(fs[rest + 5])
      last == Len(fs)
  IN  /\ NumberIn(fs[at + 1]) = row.nonce
      /\ \A c \in PriceColumns : row.prices[c] =
           IF c \in Range(fees)
           THEN <<NumberIn(fs[at + 1 + CHOOSE i \in DOMAIN fees : fees[i] = c])>> ELSE None
      /\ NumberIn(fs[rest + 1]) = row.gas
      /\ fs[rest + 2] = IF row.to_address = None THEN << >> ELSE row.to_address
      /\ NumberIn(fs[rest + 3]) = row.value /\ fs[rest + 4] = HexBytes(row.input)
      /\ <<NumberIn(fs[last - 1]), NumberIn(fs[last])>> = SubSeq(row.signature, 1, 2)
      /\ IF type = "Legacy"
         THEN /\ last = rest + 7
              /\ row.chain_id = IF v < 35 THEN None ELSE <<(v - 35) \div 2>>
              /\ row.signature[3] = IF v < 35 THEN v - 27 ELSE (v - 35) % 2
         ELSE /\ last = rest + 8
              /\ <<NumberIn(fs[1])>> = row.chain_id
              /\ NumberIn(fs[last - 2]) = row.signature[3]
              /\ Items(fs[rest + 5]) = [i \in DOMAIN row.access_list |->
                   LET item == row.access_list[i] IN
                     RlpBytes(HexBytes(item.address))
                       \o RlpList([k \in DOMAIN item.keys |-> RlpBytes(HexBytes(item.keys[k]))])]

(* The hash and the row of a transaction speak of the same transaction:    *)
(* what the hash commits to, read back from its preimage, are the values   *)
(* in the columns, although each side parses the strings in its own way    *)
(* (an empty one is 0 to one and an error to the other, a "+" likewise).   *)
(* So two rows that differ have different hashes: the envelope from the    *)
(* first byte, chain id and parity of a legacy transaction from v.         *)
RowMatchesHash ==
  input.kind = "tx" /\ txRow # NoRow =>
    LET body == ListIn(output)
        item == ItemAt(body, 1)
    IN  /\ item.list /\ item.last = Len(body)
        /\ txRow.transaction_type = TypeOf(output)
        /\ ColumnsIn(Items(Payload(body, item)), TypeOf(output), txRow)
=============================================================================
