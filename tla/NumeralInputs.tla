--------------------------- MODULE NumeralInputs ---------------------------
(***************************************************************************)
(* The numbers of a JSON text (cpp/src/json.cpp, parse_number): a numeral  *)
(* grows digit by digit, with the integer width as a parameter.            *)
(***************************************************************************)
EXTENDS Numeral

CONSTANTS
  IntMax,      \* numeric_limits<int64_t>::max()
  Digits,      \* what numerals are made of
  MaxDigits    \* bound on the length of a numeral

ASSUME NumeralAssumption ==
  IntMax \in Nat \ {0} /\ Digits \subseteq 0..9 /\ MaxDigits \in Nat

VARIABLES
  numeral,     \* the digits of a numeral
  negative     \* a minus sign goes before them

nvars == <<numeral, negative>>

(* parse_number(): a sign, digits without a leading zero, in range.  *)
parse_number(minus, digits) ==
  LET acc == accumulate(digits, IF minus THEN IntMax + 1 ELSE IntMax)
  IN  IF \/ digits = <<>> \/ (digits[1] = 0 /\ Len(digits) > 1) \/ acc = -1
      THEN Failure
      ELSE Success(Len(digits) + 1, IF minus THEN -acc ELSE acc)

NInit == numeral = <<>> /\ negative \in BOOLEAN

AddDigit ==
  /\ Len(numeral) < MaxDigits
  /\ \E d \in Digits : numeral' = Append(numeral, d)
  /\ UNCHANGED negative

NSpec == NInit /\ [][AddDigit]_nvars

(* A numeral is accepted exactly if its value is an integer of the width,    *)
(* the lowest and the highest included, and has no leading zero; and it is   *)
(* read as that value (json.cpp:411-430).                                    *)
NumberExact ==
  LET value == IF negative THEN -ValueOf(numeral) ELSE ValueOf(numeral)
      result == parse_number(negative, numeral)
      wellFormed == numeral # <<>> /\ (Len(numeral) > 1 => numeral[1] # 0)
  IN  IF wellFormed /\ value \in (-IntMax - 1)..IntMax
      THEN result.ok /\ result.value = value
      ELSE ~result.ok
=============================================================================
