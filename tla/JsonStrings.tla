---------------------------- MODULE JsonStrings ----------------------------
(***************************************************************************)
(* The strings of a JSON text (cpp/src/json.cpp).  What is between the     *)
(* quotes is a sequence of symbols: a raw byte, or an escape with the code *)
(* unit it denotes (-1: an unknown escape, or one with a digit that is     *)
(* missing or not hexadecimal).                                            *)
(***************************************************************************)
EXTENDS Numeral

CONSTANT max_string_bytes

ASSUME JsonStringsAssumption == max_string_bytes \in Nat \ {0}

Quote     == 34
Backslash == 92

Raw(n) == [esc |-> FALSE, v |-> n]
Esc(n) == [esc |-> TRUE, v |-> n]

HighSurrogate == 55296..56319
LowSurrogate  == 56320..57343
Surrogate     == 55296..57343

(* The code point of a pair of surrogates.  *)
Combined(high, low) == 65536 + (high - 55296) * 1024 + low - 56320

(* A continuation byte with the low six bits of n.  *)
Continuation(n) == 128 + (n % 64)

append_utf8(out, cp) ==
  out \o IF cp < 128 THEN <<cp>>
         ELSE IF cp < 2048 THEN <<192 + cp \div 64, Continuation(cp)>>
         ELSE IF cp < 65536
         THEN <<224 + cp \div 4096, Continuation(cp \div 64), Continuation(cp)>>
         ELSE <<240 + cp \div 262144, Continuation(cp \div 4096),
                Continuation(cp \div 64), Continuation(cp)>>

(* Mutant: the second byte after 0xED is not narrowed.  *)
SecondByte_surrogates(lead) ==
  (IF lead = 224 THEN 160 ELSE IF lead = 240 THEN 144 ELSE 128)
    ..(IF lead = 244 THEN 143 ELSE 191)

(* The bytes that may follow a lead byte: no overlong form, no surrogate,    *)
(* nothing above U+10FFFF.                                                   *)
SecondByte(lead) ==
  (IF lead = 224 THEN 160 ELSE IF lead = 240 THEN 144 ELSE 128)
    ..(IF lead = 237 THEN 159 ELSE IF lead = 244 THEN 143 ELSE 191)

(* consume_utf8(): the length of the raw sequence at i, 0 if it is refused.  *)
consume_utf8(s, i) ==
  LET lead == s[i].v
      len == IF lead < 128 THEN 1
             ELSE IF lead \in 194..223 THEN 2
             ELSE IF lead \in 224..239 THEN 3
             ELSE IF lead \in 240..244 THEN 4
             ELSE 0
  IN  IF /\ i + len - 1 <= Len(s)
         /\ \A k \in (i + 1)..(i + len - 1) :
              ~s[k].esc /\ s[k].v \in IF k = i + 1 THEN SecondByte(lead)
                                                   ELSE 128..191
      THEN len ELSE 0

(* A round of the loop of parse_string(), from place x.at with x.out         *)
(* written.                                                                  *)
scan_string(s, x) ==
  LET i == x.at
      c == s[i]
      low == s[i + 1].v
      len == consume_utf8(s, i)
      Written(n, bytes) == [x EXCEPT !.at = i + n, !.out = bytes]
      refused == [x EXCEPT !.verdict = "refused"]
  IN
  IF x.verdict # "open" THEN x
  ELSE IF i > Len(s) \/ Len(x.out) > max_string_bytes THEN refused
  ELSE IF ~c.esc THEN
    IF c.v = Quote THEN [x EXCEPT !.at = i + 1, !.verdict = "closed"]
    ELSE IF c.v < 32 \/ len = 0 THEN refused
    ELSE Written(len, x.out \o [k \in 1..len |-> s[i + k - 1].v])
  ELSE IF c.v \in {-1, 0} \/ c.v \in LowSurrogate THEN refused
  ELSE IF c.v \notin HighSurrogate THEN Written(1, append_utf8(x.out, c.v))
  ELSE IF i = Len(s) \/ ~s[i + 1].esc \/ low \notin LowSurrogate THEN refused
  ELSE Written(2, append_utf8(x.out, Combined(c.v, low)))

(* parse_string() after the opening quote.  A round takes a symbol or ends.  *)
parse_string(s) ==
  LET scan[k \in 0..(Len(s) + 1)] ==
        IF k = 0 THEN [at |-> 1, out |-> <<>>, verdict |-> "open"]
        ELSE scan_string(s, scan[k - 1])
      last == scan[Len(s) + 1]
  IN  IF last.verdict = "closed" THEN Success(last.at, last.out) ELSE Failure

(* escape(): quotes, backslashes and control characters.  *)
escape(bytes) ==
  [k \in 1..Len(bytes) |-> IF bytes[k] \in {Quote, Backslash} \/ bytes[k] < 32
                           THEN Esc(bytes[k]) ELSE Raw(bytes[k])]
=============================================================================
