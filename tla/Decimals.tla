------------------------------ MODULE Decimals ------------------------------
(***************************************************************************)
(* decimal_from_str (src/src/storage/mod.rs): a price or a size as a       *)
(* fixed-point integer, scaled by 10^DECIMAL_SCALE, of limited width.      *)
(* ClickHouse reads that integer as a Decimal with the same scale.         *)
(* decimal_string (src/src/websocket/messages.rs) prints it again.         *)
(*                                                                         *)
(* A string is a sequence of characters: the digits 0..9, "+", "-", "."    *)
(* and "x", which stands for any other.  Every check and every arithmetic  *)
(* step of the code is one step of the model, in the order of the code.    *)
(***************************************************************************)
EXTENDS Integers, Sequences, FiniteSets, SequencesExt

CONSTANTS
  DECIMAL_SCALE,   \* digits behind the point (18 in the code)
  MAX,             \* largest i128, 1.7 * 10^38
  Digits,          \* the digits that occur in the strings
  MaxLen           \* length of a string (bound)

Power10[n \in Nat] == IF n = 0 THEN 1 ELSE 10 * Power10[n - 1]

ASSUME DecimalsAssumption ==
  /\ DECIMAL_SCALE \in Nat /\ Digits \subseteq 0 .. 9 /\ MaxLen \in Nat
  /\ MAX \in Nat /\ MAX >= Power10[DECIMAL_SCALE]   \* i128 holds the multiplier

VARIABLES
  s,          \* the argument
  parsing,    \* "split", "check", "whole", "frac", "ok", "error"
  negative, whole, frac,   \* its parts
  value       \* the result so far

decimalVars == <<s, parsing, negative, whole, frac, value>>

(* A character is a pair, so that digits and signs can be compared. *)
Ch(c)  == <<"char", c>>
Dg(d)  == <<"digit", d>>
Point  == Ch(".")
Chars  == {Dg(d) : d \in Digits} \union {Ch("+"), Ch("-"), Point, Ch("x")}
IsDigit(c) == c[1] = "digit"

(* The numbers that the first digits are read as. *)
Reading(ds) ==
  LET read[n \in 0 .. Len(ds)] == IF n = 0 THEN 0 ELSE 10 * read[n - 1] + ds[n][2]
  IN  read

Number(ds) == Reading(ds)[Len(ds)]

DECIMAL_MULTIPLIER == Power10[DECIMAL_SCALE]

DecimalsTypeOK ==
  /\ parsing \in {"split", "check", "whole", "frac", "ok", "error"}
  /\ negative \in BOOLEAN
  /\ value \in -MAX .. MAX

DecimalsInit ==
  /\ s \in BoundedSeq(Chars, MaxLen)
  /\ parsing = "split" /\ negative = FALSE /\ whole = << >> /\ frac = << >> /\ value = 0

-----------------------------------------------------------------------------
Unsigned == IF s # << >> /\ s[1] \in {Ch("-"), Ch("+")} THEN Tail(s) ELSE s

Points == {i \in DOMAIN Unsigned : Unsigned[i] = Point}

(* Sign, and the parts before and behind the point. *)
Split ==
  /\ parsing = "split"
  /\ negative' = (s # << >> /\ s[1] = Ch("-"))
  /\ IF Unsigned = << >> \/ Cardinality(Points) > 1
     THEN parsing' = "error" /\ UNCHANGED <<whole, frac>>
     ELSE LET point == IF Points = {} THEN Len(Unsigned) + 1 ELSE CHOOSE i \in Points : TRUE
          IN  /\ whole' = SubSeq(Unsigned, 1, point - 1)
              /\ frac' = SubSeq(Unsigned, point + 1, Len(Unsigned))
              /\ parsing' = "check"
  /\ UNCHANGED <<s, value>>

Check ==
  /\ parsing = "check"
  /\ parsing' = IF \/ whole = << >> /\ frac = << >>
              \/ Len(frac) > DECIMAL_SCALE
              \/ \E c \in Range(whole) \union Range(frac) : ~IsDigit(c)
           THEN "error" ELSE "whole"
  /\ UNCHANGED <<s, negative, whole, frac, value>>

(* parse::<i128>, checked_mul and checked_add. *)
Fits(n) == n <= MAX

Whole ==
  /\ parsing = "whole"
  /\ LET v == Number(whole) * DECIMAL_MULTIPLIER IN
       IF Fits(v) THEN value' = v /\ parsing' = "frac" ELSE parsing' = "error" /\ UNCHANGED value
  /\ UNCHANGED <<s, negative, whole, frac>>

(* Not the code: the fraction is not padded. *)
Padding_None == 1

Padding == Power10[DECIMAL_SCALE - Len(frac)]

Frac ==
  /\ parsing = "frac"
  /\ LET v == value + Number(frac) * Padding IN
       IF Fits(v) THEN value' = (IF negative THEN -v ELSE v) /\ parsing' = "ok"
       ELSE parsing' = "error" /\ UNCHANGED value
  /\ UNCHANGED <<s, negative, whole, frac>>

DecimalsNext == Split \/ Check \/ Whole \/ Frac
DecimalsSpec == DecimalsInit /\ [][DecimalsNext]_decimalVars

-----------------------------------------------------------------------------
(* decimal_string (src/src/websocket/messages.rs), for the WebSocket       *)
(* messages: sign, whole part, and the fraction padded to the scale and    *)
(* trimmed.                                                                *)
Padded(n, width) == [i \in 1 .. width |-> Dg((n \div Power10[width - i]) % 10)]

Plain(n) ==
  Padded(n, CHOOSE width \in 1 .. n + 1 :
              n < Power10[width] /\ (width = 1 \/ n >= Power10[width - 1]))

(* Not the code: the fraction as a plain number. *)
FracDigits_Plain(f) == Plain(f)

FracDigits(f) == Padded(f, DECIMAL_SCALE)

Trimmed(ds) ==
  LET kept == {i \in DOMAIN ds : ds[i] # Dg(0)}
  IN  SubSeq(ds, 1, CHOOSE i \in kept : \A j \in kept : j <= i)

DecimalString(v) ==
  LET n     == IF v < 0 THEN -v ELSE v
      sign  == IF v < 0 THEN <<Ch("-")>> ELSE << >>
      fract == n % DECIMAL_MULTIPLIER
  IN  sign \o Plain(n \div DECIMAL_MULTIPLIER)
        \o IF fract = 0 THEN << >> ELSE <<Point>> \o Trimmed(FracDigits(fract))

-----------------------------------------------------------------------------
(* The number a string denotes, in units of 10^-DECIMAL_SCALE, digit by    *)
(* digit: the k-th digit before the point weighs 10^(k-1), the k-th behind *)
(* it 10^-k.                                                               *)
PointOf(t) ==
  IF Point \in Range(t) THEN CHOOSE i \in DOMAIN t : t[i] = Point ELSE Len(t) + 1

Weight(t, i) ==
  IF i < PointOf(t) THEN Power10[DECIMAL_SCALE + PointOf(t) - i - 1]
  ELSE Power10[DECIMAL_SCALE - (i - PointOf(t))]

Weighed(t) ==
  LET sum[n \in 0 .. Len(t)] ==
        IF n = 0 THEN 0 ELSE sum[n - 1] + IF IsDigit(t[n]) THEN t[n][2] * Weight(t, n) ELSE 0
  IN  sum

Denoted(t) == (IF t # << >> /\ t[1] = Ch("-") THEN -1 ELSE 1) * Weighed(t)[Len(t)]

(* An optional sign, digits with at most one point among them and at least *)
(* one digit, no more than DECIMAL_SCALE of them behind the point.         *)
WellFormed(t) ==
  /\ \E i \in DOMAIN t : IsDigit(t[i])
  /\ \A i \in DOMAIN t : IsDigit(t[i]) \/ t[i] = Point \/ (i = 1 /\ t[i] \in {Ch("+"), Ch("-")})
  /\ \A i, j \in DOMAIN t : t[i] = Point /\ t[j] = Point => i = j
  /\ \A i \in DOMAIN t : t[i] = Point => Len(t) - i <= DECIMAL_SCALE

(* What is accepted is stored exactly, never rounded or wrapped around,    *)
(* and nothing that fits is rejected: a line is dropped only for a string  *)
(* that is no number, has too many digits behind the point or is too large.*)
ExactOrRejected ==
  /\ parsing = "ok" => WellFormed(s) /\ value = Denoted(s)
  /\ parsing = "error" => ~WellFormed(s) \/ Denoted(s) > MAX \/ -Denoted(s) > MAX

(* What a WebSocket client is sent is the number that ClickHouse stores,   *)
(* and the shortest text for it: a zero before the point if nothing else   *)
(* is, none at the end of the fraction, no point without one and no "-0".  *)
PrintsBack ==
  parsing = "ok" =>
    LET t == DecimalString(value)
        point == PointOf(t)
        first == IF t[1] = Ch("-") THEN 2 ELSE 1
    IN  /\ WellFormed(t) /\ Denoted(t) = value /\ t[1] # Ch("+")
        /\ value = 0 => t = <<Dg(0)>>
        /\ point > first /\ (t[first] = Dg(0) => point = first + 1)
        /\ point <= Len(t) => t[Len(t)] \notin {Point, Dg(0)}
=============================================================================
