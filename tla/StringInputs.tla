---------------------------- MODULE StringInputs ----------------------------
(***************************************************************************)
(* JsonStrings against what a string means: UTF-8 and UTF-16 as arithmetic *)
(* on code points, and every way to divide a string into pieces.  A string *)
(* grows symbol by symbol.                                                 *)
(***************************************************************************)
EXTENDS JsonStrings

CONSTANTS
  Symbols,     \* what strings are made of
  MaxSample    \* bound on the length of a string

ASSUME StringInputsAssumption ==
  /\ Symbols \subseteq [esc : BOOLEAN, v : Int]
  /\ \A x \in Symbols : IF x.esc THEN -1 <= x.v /\ x.v < 65536
                                   ELSE x.v \in 0..255
  /\ MaxSample \in Nat

VARIABLE sample    \* a sequence of symbols

SInit == sample = <<>>

Grow ==
  /\ Len(sample) < MaxSample
  /\ \E x \in Symbols : sample' = Append(sample, x)

SSpec == SInit /\ [][Grow]_sample

-----------------------------------------------------------------------------
(* All bytes but the first are continuation bytes.  *)
Continued(b) == \A k \in 2..Len(b) : b[k] \div 64 = 2

(* A code point, if it is one and this is its shortest form.  *)
Shortest(b, cp, least) ==
  IF Continued(b) /\ least <= cp /\ cp <= 1114111 /\ cp \notin Surrogate
  THEN cp ELSE -1

(* The code point that bytes of UTF-8 stand for: their bits.  -1 if none.    *)
CodePoint(b) ==
  LET n == Len(b) IN
  IF n = 1 /\ b[1] < 128 THEN b[1]
  ELSE IF n = 2 /\ b[1] \div 32 = 6
  THEN Shortest(b, (b[1] % 32) * 64 + (b[2] % 64), 128)
  ELSE IF n = 3 /\ b[1] \div 16 = 14
  THEN Shortest(b, (b[1] % 16) * 4096 + (b[2] % 64) * 64 + (b[3] % 64), 2048)
  ELSE IF n = 4 /\ b[1] \div 8 = 30
  THEN Shortest(b, (b[1] % 8) * 262144 + (b[2] % 64) * 4096
                     + (b[3] % 64) * 64 + (b[4] % 64), 65536)
  ELSE -1

(* The number of bytes of the UTF-8 form of a code point.  *)
Width(cp) ==
  IF cp < 128 THEN 1 ELSE IF cp < 2048 THEN 2 ELSE IF cp < 65536 THEN 3 ELSE 4

Values(symbols) == [k \in 1..Len(symbols) |-> symbols[k].v]

(* The code point of a pair of surrogates: ten bits of each.  *)
Joined(high, low) == 65536 + (high % 1024) * 1024 + (low % 1024)

(* The code point that a piece of a string means, -1 if none.  A piece is    *)
(* the UTF-8 form of a code point that needs no escape, an escape that is no *)
(* surrogate, or a pair of surrogates; none of them is NUL.                  *)
Meaning(piece) ==
  LET n == Len(piece)
      v == Values(piece)
  IN  IF \A k \in 1..n : ~piece[k].esc THEN
        IF CodePoint(v) < 32 \/ CodePoint(v) \in {Quote, Backslash} THEN -1
        ELSE CodePoint(v)
      ELSE IF n = 1 /\ v[1] # 0 /\ v[1] \notin Surrogate
      THEN v[1]
      ELSE IF /\ n = 2 /\ piece[1].esc /\ piece[2].esc
              /\ v[1] \in HighSurrogate /\ v[2] \in LowSurrogate
      THEN Joined(v[1], v[2])
      ELSE -1

(* A reading that goes on with a code point.  *)
Then(reading, cp) ==
  [points |-> Append(reading.points, cp), size |-> reading.size + Width(cp)]

(* What n places may be read as, if cp[j][k] is what the piece from j to k   *)
(* means: the code points of the pieces of a division, with their size in    *)
(* UTF-8.                                                                    *)
Readings(n, cp) ==
  LET upto[k \in 0..n] ==
        IF k = 0 THEN {[points |-> <<>>, size |-> 0]}
        ELSE UNION {{Then(r, cp[j][k]) : r \in upto[j - 1]} :
                      j \in {i \in 1..k : cp[i][k] # -1}}
  IN  upto[n]

Meanings(s) ==
  Readings(Len(s), [j \in 1..Len(s) |->
                     [k \in 1..Len(s) |-> Meaning(SubSeq(s, j, k))]])

(* The code points that bytes of UTF-8 stand for.  *)
CodePoints(b) ==
  Readings(Len(b), [j \in 1..Len(b) |->
                     [k \in 1..Len(b) |-> CodePoint(SubSeq(b, j, k))]])

(* A string is accepted exactly if it means something and is not too long,   *)
(* and is then the UTF-8 form of just that: no overlong form, lone           *)
(* surrogate, truncated sequence, raw control character or NUL gets through, *)
(* and nothing else is refused (L3-CPP-018 to 023; json.cpp:256-372).  What  *)
(* the service writes between quotes, its own parser reads back as the same  *)
(* bytes, unless they are too many (json.cpp:497).                           *)
StringExact ==
  LET result == parse_string(Append(sample, Raw(Quote)))
      meanings == {m \in Meanings(sample) : m.size <= max_string_bytes}
      bytes == Values(sample)
      again == parse_string(Append(escape(bytes), Raw(Quote)))
  IN  /\ (\A k \in 1..Len(sample) : sample[k] \notin {Raw(Quote), Raw(Backslash)})
           => /\ result.ok <=> meanings # {}
              /\ result.ok => CodePoints(result.value) = meanings
      /\ (\A k \in 1..Len(sample) : ~sample[k].esc /\ sample[k].v # 0)
           /\ CodePoints(bytes) # {}
           => /\ again.ok <=> Len(sample) <= max_string_bytes
              /\ again.ok => again.value = bytes
=============================================================================
