------------------------------ MODULE Numeral ------------------------------
(***************************************************************************)
(* Decimal numerals as the daemon reads them: the integers of a JSON text  *)
(* (cpp/src/json.cpp) and the length a request declares (http_parser.cpp), *)
(* which are accumulated by the same loop under the same guard.            *)
(***************************************************************************)
EXTENDS Integers, Sequences

Failure == [ok |-> FALSE]
Success(at, value) == [ok |-> TRUE, at |-> at, value |-> value]

(* Mutant: the guard of the last digit compares with the limit itself.  *)
Overflows_late(acc, d, limit) == acc > limit \div 10

(* The guard against overflow, before acc * 10 + d is formed.  *)
Overflows(acc, d, limit) == acc > (limit - d) \div 10

(* The digits, accumulated one after the other; -1 once the limit is passed. *)
accumulate(digits, limit) ==
  LET acc[k \in 0..Len(digits)] ==
        IF k = 0 THEN 0
        ELSE IF acc[k - 1] = -1 \/ Overflows(acc[k - 1], digits[k], limit)
        THEN -1
        ELSE acc[k - 1] * 10 + digits[k]
  IN  acc[Len(digits)]

(* What the digits of a numeral stand for.  *)
ValueOf(digits) ==
  LET value[k \in 0..Len(digits)] ==
        IF k = 0 THEN 0 ELSE 10 * value[k - 1] + digits[k]
  IN  value[Len(digits)]
=============================================================================
