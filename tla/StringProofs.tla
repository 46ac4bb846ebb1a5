---------------------------- MODULE StringProofs ----------------------------
(***************************************************************************)
(* Proofs about the strings of a JSON text, for strings of any length:     *)
(* parse_string() accepts a string exactly if it means something, as the   *)
(* UTF-8 form of just that, and it reads back what the service writes.     *)
(* First what a form of UTF-8 is; then that pieces do not overlap, so that *)
(* there is at most one way to divide a string; then that each round of    *)
(* the loop goes on to the next cut of that division, or stops where there *)
(* is none.                                                                *)
(***************************************************************************)
EXTENDS StringInputs, SequenceFacts, TLAPS

(* Zenon is the default; a leaf that it does not find says SMT.  *)
USE Zenon

-----------------------------------------------------------------------------
(* Forms: UTF-8 as ranges of bytes, as the code has it, and as bits.  *)

(* A byte.  *)
Byte == 0..255

(* A byte is a number.  *)
LEMMA ByteIs == \A x \in Byte : x \in Int /\ x \in Nat
BY SMT DEF Byte

(* The surrogates as ranges.  *)
LEMMA SurrogateIs ==
  ASSUME NEW x \in Int
  PROVE  /\ x \in Surrogate <=> 55296 <= x /\ x < 57344
         /\ x \in HighSurrogate <=> 55296 <= x /\ x < 56320
         /\ x \in LowSurrogate <=> 56320 <= x /\ x < 57344
BY SMTT(30) DEF Surrogate, HighSurrogate, LowSurrogate

(* The second bytes that consume_utf8() takes after a first byte.  *)
LEMMA SecondByteIs ==
  ASSUME NEW lead \in Int, NEW x \in Int
  PROVE  x \in SecondByte(lead) <=>
           /\ x \in 128..191
           /\ lead = 224 => x >= 160
           /\ lead = 237 => x <= 159
           /\ lead = 240 => x >= 144
           /\ lead = 244 => x <= 143
BY SMT DEF SecondByte

(* The bits of bytes as ranges.  *)
LEMMA Bits ==
  ASSUME NEW x \in Byte
  PROVE  /\ x \div 32 = 6 <=> x \in 192..223
         /\ x \in 192..223 => x % 32 = x - 192
         /\ x \div 16 = 14 <=> x \in 224..239
         /\ x \in 224..239 => x % 16 = x - 224
         /\ x \div 8 = 30 <=> x \in 240..247
         /\ x \in 240..247 => x % 8 = x - 240
         /\ x \div 64 = 2 <=> x \in 128..191
         /\ x \in 128..191 => x % 64 = x - 128
         /\ x % 32 \in Int /\ x % 16 \in Int /\ x % 8 \in Int /\ x % 64 \in Int
<1>1. x \in 0..255
  BY DEF Byte
<1>2. /\ x \div 32 = 6 <=> x \in 192..223
      /\ x \in 192..223 => x % 32 = x - 192
  BY <1>1, SMT
<1>3. /\ x \div 16 = 14 <=> x \in 224..239
      /\ x \in 224..239 => x % 16 = x - 224
  BY <1>1, SMT
<1>4. /\ x \div 8 = 30 <=> x \in 240..247
      /\ x \in 240..247 => x % 8 = x - 240
  BY <1>1, SMT
<1>5. /\ x \div 64 = 2 <=> x \in 128..191
      /\ x \in 128..191 => x % 64 = x - 128
  BY <1>1, SMT
<1>6. x % 32 \in Int /\ x % 16 \in Int /\ x % 8 \in Int /\ x % 64 \in Int
  BY <1>1, SMT
<1> QED
  BY <1>2, <1>3, <1>4, <1>5, <1>6

(* The UTF-8 forms of one to four bytes, and what they stand for.  *)
Form1(b) == b[1] \in 0..127
Form2(b) == b[1] \in 194..223 /\ b[2] \in 128..191
Form3(b) ==
  b[1] \in 224..239 /\ b[2] \in SecondByte(b[1]) /\ b[3] \in 128..191
Form4(b) ==
  /\ b[1] \in 240..244 /\ b[2] \in SecondByte(b[1])
  /\ b[3] \in 128..191 /\ b[4] \in 128..191

Value2(b) == (b[1] - 192) * 64 + b[2] - 128
Value3(b) == (b[1] - 224) * 4096 + (b[2] - 128) * 64 + b[3] - 128
Value4(b) ==
  (b[1] - 240) * 262144 + (b[2] - 128) * 4096 + (b[3] - 128) * 64 + b[4] - 128

(* The bits of one byte, ...  *)
LEMMA Code1 ==
  ASSUME NEW b \in [1..1 -> Byte], Len(b) = 1
  PROVE  CodePoint(b) = IF Form1(b) THEN b[1] ELSE -1
BY SMT DEF CodePoint, Byte, Form1

(* ... of two, ...  *)
LEMMA Code2 ==
  ASSUME NEW b \in [1..2 -> Byte], Len(b) = 2
  PROVE  CodePoint(b) = IF Form2(b) THEN Value2(b) ELSE -1
<1> DEFINE cp == (b[1] % 32) * 64 + (b[2] % 64)
<1>1. /\ b[1] \in Byte /\ b[2] \in Byte
      /\ 2 # 1 /\ 2 # 3 /\ 2 # 4
  BY SMT
<1>2. CodePoint(b) = IF b[1] \div 32 = 6 THEN Shortest(b, cp, 128) ELSE -1
  BY <1>1, SMT DEF CodePoint, Byte
<1>3. b[1] \in 192..223 /\ b[2] \in 128..191
        => cp = (b[1] - 192) * 64 + (b[2] - 128)
  BY <1>1, Bits, SMT DEF Byte
<1>4. cp \in Int
  BY <1>1, Bits, SMT
<1> HIDE DEF cp
<1>5. Shortest(b, cp, 128) =
        IF /\ b[2] \in 128..191
           /\ 128 <= cp /\ cp <= 1114111 /\ cp \notin Surrogate
        THEN cp ELSE -1
  <2>1. Continued(b) <=>
          b[2] \in 128..191
    <3>1. \A k \in 2..2 : b[k] \in Byte
      BY SMT
    <3>2. \A k \in 2..2 : b[k] \div 64 = 2 <=> b[k] \in 128..191
      BY <3>1, Bits
    <3>3. Continued(b) <=> \A k \in 2..2 : b[k] \in 128..191
      BY <3>2 DEF Continued
    <3> QED
      BY <3>3, SMT
  <2> QED
    BY <1>4, <2>1, SMT DEF Shortest
<1> QED
  BY <1>1, <1>2, <1>3, <1>4, <1>5, Bits, SurrogateIs, SMTT(30) DEF Byte, Form2, Value2

(* ... of three ...  *)
LEMMA Code3 ==
  ASSUME NEW b \in [1..3 -> Byte], Len(b) = 3
  PROVE  CodePoint(b) = IF Form3(b) THEN Value3(b) ELSE -1
<1> DEFINE cp == (b[1] % 16) * 4096 + (b[2] % 64) * 64 + (b[3] % 64)
<1>1. /\ b[1] \in Byte /\ b[2] \in Byte /\ b[3] \in Byte
      /\ 3 # 1 /\ 3 # 2 /\ 3 # 4
  BY SMT
<1>2. CodePoint(b) = IF b[1] \div 16 = 14 THEN Shortest(b, cp, 2048) ELSE -1
  BY <1>1, SMT DEF CodePoint, Byte
<1>3. b[1] \in 224..239 /\ b[2] \in 128..191 /\ b[3] \in 128..191
        => cp = (b[1] - 224) * 4096 + (b[2] - 128) * 64 + (b[3] - 128)
  BY <1>1, Bits, SMT DEF Byte
<1>4. cp \in Int
  BY <1>1, Bits, SMT
<1> HIDE DEF cp
<1>5. Shortest(b, cp, 2048) =
        IF /\ b[2] \in 128..191 /\ b[3] \in 128..191
           /\ 2048 <= cp /\ cp <= 1114111 /\ cp \notin Surrogate
        THEN cp ELSE -1
  <2>1. Continued(b) <=>
          b[2] \in 128..191 /\ b[3] \in 128..191
    <3>1. \A k \in 2..3 : b[k] \in Byte
      BY SMT
    <3>2. \A k \in 2..3 : b[k] \div 64 = 2 <=> b[k] \in 128..191
      BY <3>1, Bits
    <3>3. Continued(b) <=> \A k \in 2..3 : b[k] \in 128..191
      BY <3>2 DEF Continued
    <3> QED
      BY <3>3, SMT
  <2> QED
    BY <1>4, <2>1, SMT DEF Shortest
<1>6. b[1] \in Int /\ b[2] \in Int
  BY <1>1, SMT DEF Byte
<1>7. b[2] \in SecondByte(b[1]) <=>
        /\ b[2] \in 128..191
        /\ b[1] = 224 => b[2] >= 160
        /\ b[1] = 237 => b[2] <= 159
        /\ b[1] = 240 => b[2] >= 144
        /\ b[1] = 244 => b[2] <= 143
  BY <1>6, SMT DEF SecondByte
<1>8. b[1] \div 16 = 14 <=> b[1] \in 224..239
  BY <1>1, Bits, SMT
<1>9. cp \in Surrogate <=> 55296 <= cp /\ cp < 57344
  BY <1>4, SurrogateIs, SMT
<1>10. CodePoint(b) =
         IF /\ b[1] \in 224..239 /\ b[2] \in 128..191 /\ b[3] \in 128..191
            /\ 2048 <= cp /\ cp <= 1114111 /\ ~ (55296 <= cp /\ cp < 57344)
         THEN cp ELSE -1
  BY <1>2, <1>5, <1>8, <1>9, SMT
<1> DEFINE ok == b[1] \in 224..239 /\ b[2] \in 128..191 /\ b[3] \in 128..191
<1>11. CASE ok
  <2>1. 2048 <= cp /\ cp <= 1114111 /\ ~ (55296 <= cp /\ cp < 57344)
          <=> (b[1] = 224 => b[2] >= 160) /\ (b[1] = 237 => b[2] <= 159)
    <3>1. PICK x \in 224..239, y \in 128..191, z \in 128..191 :
            b[1] = x /\ b[2] = y /\ b[3] = z
      BY <1>11, ZenonT(60)
    <3>2. cp = (x - 224) * 4096 + (y - 128) * 64 + (z - 128)
      BY <1>3, <1>11, <3>1, SMT
    <3>3. 2048 <= cp /\ cp <= 1114111 /\ ~ (55296 <= cp /\ cp < 57344)
            <=> (x = 224 => y >= 160) /\ (x = 237 => y <= 159)
      BY <3>2, SMT
    <3> QED
      BY <3>1, <3>3, SMT
  <2>2. cp = (b[1] - 224) * 4096 + (b[2] - 128) * 64 + b[3] - 128
    BY <1>3, <1>11, SMT
  <2>3. b[1] # 240 /\ b[1] # 244
    BY <1>11, SMT
  <2> QED
    BY <1>7, <1>10, <1>11, <2>1, <2>2, <2>3, SMT DEF Form3, Value3
<1>12. CASE ~ok
  BY <1>7, <1>10, <1>12, SMT DEF Form3
<1> QED
  BY <1>11, <1>12

(* ... and of four are a code point exactly if the bytes are in these ranges. *)
LEMMA Code4 ==
  ASSUME NEW b \in [1..4 -> Byte], Len(b) = 4
  PROVE  CodePoint(b) = IF Form4(b) THEN Value4(b) ELSE -1
<1> DEFINE cp == (b[1] % 8) * 262144 + (b[2] % 64) * 4096 + (b[3] % 64) * 64
                   + (b[4] % 64)
<1>1. /\ b[1] \in Byte /\ b[2] \in Byte /\ b[3] \in Byte /\ b[4] \in Byte
      /\ 4 # 1 /\ 4 # 2 /\ 4 # 3
  BY SMT
<1>2. CodePoint(b) = IF b[1] \div 8 = 30 THEN Shortest(b, cp, 65536) ELSE -1
  BY <1>1, SMT DEF CodePoint, Byte
<1>3. b[1] \in 240..247 /\ b[2] \in 128..191 /\ b[3] \in 128..191 /\ b[4] \in 128..191
        => cp = (b[1] - 240) * 262144 + (b[2] - 128) * 4096
               + (b[3] - 128) * 64 + (b[4] - 128)
  <2>1. b[1] \in 240..247 => b[1] % 8 = b[1] - 240
    BY ONLY <1>1, Bits, SMT
  <2>2. /\ b[2] \in 128..191 => b[2] % 64 = b[2] - 128
        /\ b[3] \in 128..191 => b[3] % 64 = b[3] - 128
        /\ b[4] \in 128..191 => b[4] % 64 = b[4] - 128
    BY ONLY <1>1, Bits, SMT
  <2> QED
    BY ONLY <2>1, <2>2, SMT
<1>4. cp \in Int
  BY <1>1, Bits, SMT
<1> HIDE DEF cp
<1>5. Shortest(b, cp, 65536) =
        IF /\ b[2] \in 128..191 /\ b[3] \in 128..191 /\ b[4] \in 128..191
           /\ 65536 <= cp /\ cp <= 1114111 /\ cp \notin Surrogate
        THEN cp ELSE -1
  <2>1. Continued(b) <=>
          b[2] \in 128..191 /\ b[3] \in 128..191 /\ b[4] \in 128..191
    <3>1. \A k \in 2..4 : b[k] \in Byte
      BY SMT
    <3>2. \A k \in 2..4 : b[k] \div 64 = 2 <=> b[k] \in 128..191
      BY <3>1, Bits
    <3>3. Continued(b) <=> \A k \in 2..4 : b[k] \in 128..191
      BY <3>2 DEF Continued
    <3> QED
      BY <3>3, SMT
  <2> QED
    BY <1>4, <2>1, SMT DEF Shortest
<1>6. b[1] \in Int /\ b[2] \in Int
  BY <1>1, SMT DEF Byte
<1>7. b[2] \in SecondByte(b[1]) <=>
        /\ b[2] \in 128..191
        /\ b[1] = 224 => b[2] >= 160
        /\ b[1] = 237 => b[2] <= 159
        /\ b[1] = 240 => b[2] >= 144
        /\ b[1] = 244 => b[2] <= 143
  BY <1>6, SMT DEF SecondByte
<1>8. b[1] \div 8 = 30 <=> b[1] \in 240..247
  BY <1>1, Bits, SMT
<1>9. cp \in Surrogate <=> 55296 <= cp /\ cp < 57344
  BY <1>4, SurrogateIs, SMT
<1>10. CodePoint(b) =
         IF /\ b[1] \in 240..247 /\ b[2] \in 128..191 /\ b[3] \in 128..191 /\ b[4] \in 128..191
            /\ 65536 <= cp /\ cp <= 1114111 /\ ~ (55296 <= cp /\ cp < 57344)
         THEN cp ELSE -1
  BY <1>2, <1>5, <1>8, <1>9, SMT
<1> DEFINE ok == /\ b[1] \in 240..247 /\ b[2] \in 128..191
                    /\ b[3] \in 128..191 /\ b[4] \in 128..191
<1>11. CASE ok
  <2>1. 65536 <= cp /\ cp <= 1114111 /\ ~ (55296 <= cp /\ cp < 57344)
          <=> /\ b[1] \in 240..244
              /\ (b[1] = 240 => b[2] >= 144) /\ (b[1] = 244 => b[2] <= 143)
    <3>1. PICK x \in 240..247, y \in 128..191, z \in 128..191, u \in 128..191 :
            b[1] = x /\ b[2] = y /\ b[3] = z /\ b[4] = u
      BY <1>11
    <3>2. cp = (x - 240) * 262144 + (y - 128) * 4096 + (z - 128) * 64 + (u - 128)
      BY <1>3, <1>11, <3>1, SMT
    <3>3. 65536 <= cp /\ cp <= 1114111 /\ ~ (55296 <= cp /\ cp < 57344)
            <=> /\ x \in 240..244
                /\ (x = 240 => y >= 144) /\ (x = 244 => y <= 143)
      BY <3>2, SMT
    <3> QED
      BY <3>1, <3>3, SMT
  <2>2. cp = (b[1] - 240) * 262144 + (b[2] - 128) * 4096
               + (b[3] - 128) * 64 + b[4] - 128
    BY <1>3, <1>11, SMT
  <2>3. b[1] # 224 /\ b[1] # 237
    BY <1>11, SMT
  <2> QED
    BY <1>7, <1>10, <1>11, <2>1, <2>2, <2>3, SMT DEF Form4, Value4
<1>12. CASE ~ok
  <2>1. b[1] \in 240..244 => b[1] \in 240..247
    BY SMT
  <2> QED
    BY <1>7, <1>10, <1>12, <2>1, SMT DEF Form4
<1> QED
  BY <1>11, <1>12, ZenonT(60)

(* A form is that of a code point of its own width, ...  *)
LEMMA Values2 ==
  ASSUME NEW b \in [1..2 -> Byte], Form2(b)
  PROVE  Value2(b) \in Nat /\ Width(Value2(b)) = 2
<1>1. PICK x \in 194..223, y \in 128..191 : b[1] = x /\ b[2] = y
  BY DEF Form2
<1>2. PICK v : v = (x - 192) * 64 + y - 128
  BY SMT
<1>3. v \in Nat /\ 128 <= v /\ v < 2048
  BY <1>2, SMT
<1>4. Width(v) = 2
  BY <1>3, SMT DEF Width
<1>5. Value2(b) = v
  BY <1>1, <1>2 DEF Value2
<1> QED
  BY <1>3, <1>4, <1>5, SMT

(* ... of three bytes as of two ...  *)
LEMMA Values3 ==
  ASSUME NEW b \in [1..3 -> Byte], Form3(b)
  PROVE  Value3(b) \in Nat /\ Width(Value3(b)) = 3
<1>1. PICK x \in 224..239, y \in Byte, z \in 128..191 :
        y \in SecondByte(x) /\ b[1] = x /\ b[2] = y /\ b[3] = z
  <2>1. b[2] \in Byte
    BY SMT
  <2> QED
    BY <2>1 DEF Form3
<1>2. PICK v : v = (x - 224) * 4096 + (y - 128) * 64 + z - 128
  BY SMT
<1>3. y \in 128..191 /\ (x = 224 => y >= 160)
  BY <1>1, SMT DEF SecondByte, Byte
<1>4. v \in Nat /\ 2048 <= v /\ v < 65536
  BY <1>2, <1>3, SMT
<1>5. Width(v) = 3
  BY <1>4, SMT DEF Width
<1>6. Value3(b) = v
  BY <1>1, <1>2, SMT DEF Value3
<1> QED
  BY <1>4, <1>5, <1>6, SMT

(* ... and of four, ...  *)
LEMMA Values4 ==
  ASSUME NEW b \in [1..4 -> Byte], Form4(b)
  PROVE  Value4(b) \in Nat /\ Width(Value4(b)) = 4
<1>1. PICK x \in 240..244, y \in Byte, z \in 128..191, u \in 128..191 :
        y \in SecondByte(x) /\ b[1] = x /\ b[2] = y /\ b[3] = z /\ b[4] = u
  <2>1. b[2] \in Byte
    BY SMT
  <2> QED
    BY <2>1 DEF Form4
<1>2. PICK v : v = (x - 240) * 262144 + (y - 128) * 4096 + (z - 128) * 64 + u - 128
  BY SMT
<1>3. y \in 128..191 /\ (x = 240 => y >= 144)
  BY <1>1, SMT DEF SecondByte, Byte
<1>4. v \in Nat /\ 65536 <= v
  BY <1>2, <1>3, SMT
<1>5. Width(v) = 4
  BY <1>4, SMT DEF Width
<1>6. Value4(b) = v
  BY <1>1, <1>2, SMT DEF Value4
<1> QED
  BY <1>4, <1>5, <1>6, SMT

(* The UTF-8 form of a code point, by the ranges of its bytes.  *)
Form(b) ==
  \/ Len(b) = 1 /\ Form1(b)
  \/ Len(b) = 2 /\ Form2(b)
  \/ Len(b) = 3 /\ Form3(b)
  \/ Len(b) = 4 /\ Form4(b)

(* ... and there are no others.  *)
LEMMA CodePointForm ==
  ASSUME NEW b \in Seq(Byte)
  PROVE  /\ CodePoint(b) # -1 <=> Form(b)
         /\ Form(b) => CodePoint(b) \in Nat /\ Width(CodePoint(b)) = Len(b)
<1>1. Len(b) \in Nat /\ b \in [1..Len(b) -> Byte]
  BY SMT
<1>2. \A x \in Nat : x # -1
  BY SMT
<1>3. /\ 1 # 2 /\ 1 # 3 /\ 1 # 4 /\ 2 # 3 /\ 2 # 4 /\ 3 # 4
  BY SMT
<1>4. CASE Len(b) = 1
  <2>1. CodePoint(b) = IF Form1(b) THEN b[1] ELSE -1
    BY <1>1, <1>4, Code1
  <2>2. Form1(b) => b[1] \in Nat /\ Width(b[1]) = 1
    <3>1. b[1] \in Byte
      BY <1>1, <1>4, SMT
    <3>2. PICK x \in Nat : x = b[1]
      BY <3>1, ByteIs
    <3>3. Form1(b) => Width(x) = 1
      <4>1. Form1(b) <=> x \in 0..127
        BY <3>2 DEF Form1
      <4>2. x \in 0..127 => Width(x) = 1
        BY SMT DEF Width
      <4> QED
        BY <4>1, <4>2
    <3> QED
      BY <3>2, <3>3
  <2> QED
    BY <1>2, <1>3, <1>4, <2>1, <2>2 DEF Form
<1>5. CASE Len(b) = 2
  <2>1. b \in [1..2 -> Byte]
    BY <1>1, <1>5
  <2> QED
    BY <1>2, <1>3, <1>5, <2>1, Code2, Values2 DEF Form
<1>6. CASE Len(b) = 3
  <2>1. b \in [1..3 -> Byte]
    BY <1>1, <1>6
  <2> QED
    BY <1>2, <1>3, <1>6, <2>1, Code3, Values3 DEF Form
<1>7. CASE Len(b) = 4
  <2>1. b \in [1..4 -> Byte]
    BY <1>1, <1>7
  <2> QED
    BY <1>2, <1>3, <1>7, <2>1, Code4, Values4 DEF Form
<1>8. CASE Len(b) # 1 /\ Len(b) # 2 /\ Len(b) # 3 /\ Len(b) # 4
  <2>1. CodePoint(b) = -1
    BY <1>8, SMT DEF CodePoint
  <2> QED
    BY <1>8, <2>1 DEF Form
<1> QED
  BY <1>4, <1>5, <1>6, <1>7, <1>8, ZenonT(60)

(* The first bytes of the forms with n bytes.  *)
Lead(n) == IF n = 1 THEN 0..127
           ELSE IF n = 2 THEN 194..223
           ELSE IF n = 3 THEN 224..239 ELSE 240..244

(* The other bytes of a form.  *)
Following == 128..191

(* The first bytes, one length at a time.  *)
LEMMA LeadIs ==
  Lead(1) = 0..127 /\ Lead(2) = 194..223 /\ Lead(3) = 224..239 /\ Lead(4) = 240..244
BY SMT DEF Lead

(* The first byte of a form tells its length, and no other byte of a form is *)
(* a first byte.                                                             *)
LEMMA FormBytes ==
  ASSUME NEW b \in Seq(Byte)
  PROVE  Form(b) <=> /\ Len(b) \in 1..4
                     /\ b[1] \in Lead(Len(b))
                     /\ Len(b) > 1 => b[2] \in SecondByte(b[1])
                     /\ \A k \in 2..Len(b) : b[k] \in Following
<1>1. Len(b) \in Nat /\ b \in [1..Len(b) -> Byte]
  BY SMT
<1>2. 1 # 2 /\ 1 # 3 /\ 1 # 4 /\ 2 # 3 /\ 2 # 4 /\ 3 # 4
  BY SMT
<1>3. 2 > 1 /\ 3 > 1 /\ 4 > 1 /\ ~ (1 > 1)
  BY SMT
<1>4. 1 \in 1..4 /\ 2 \in 1..4 /\ 3 \in 1..4 /\ 4 \in 1..4
  BY SMT
<1>5. \A k \in 1..4 : k = 1 \/ k = 2 \/ k = 3 \/ k = 4
  BY SMT
<1>6. /\ \A k : k \notin 2..1
      /\ \A k : k \in 2..2 <=> k = 2
      /\ \A k : k \in 2..3 <=> k = 2 \/ k = 3
      /\ \A k : k \in 2..4 <=> k = 2 \/ k = 3 \/ k = 4
  BY SMT
<1>7. CASE Len(b) = 1
  BY <1>2, <1>3, <1>4, <1>6, <1>7, ZenonT(60) DEF Form, Form1, Lead
<1>8. CASE Len(b) = 2
  <2>1. b[1] \in Int /\ b[2] \in Int
    BY <1>1, <1>8, ByteIs, SMT
  <2>2. b[1] \in Lead(2) =>
          (b[2] \in Following <=> b[2] \in SecondByte(b[1]))
    <3>1. PICK x \in Int : x = b[1]
      BY <2>1
    <3>2. PICK y \in Int : y = b[2]
      BY <2>1
    <3>3. x \in Lead(2) => (y \in Following <=> y \in SecondByte(x))
      BY SMT DEF Lead, Following, SecondByte
    <3> QED
      BY <3>1, <3>2, <3>3
  <2>3. Form2(b) <=> b[1] \in Lead(2) /\ b[2] \in Following
    BY LeadIs, SMT DEF Form2, Following
  <2> QED
    BY <1>2, <1>3, <1>4, <1>6, <1>8, <2>2, <2>3 DEF Form
<1>9. CASE Len(b) = 3
  <2>1. b[1] \in Int /\ b[2] \in Int
    BY <1>1, <1>9, ByteIs, SMT
  <2>2. b[2] \in SecondByte(b[1]) => b[2] \in Following
    BY <2>1, SecondByteIs DEF Following
  <2>3. Form3(b) <=> /\ b[1] \in Lead(3) /\ b[2] \in SecondByte(b[1])
                     /\ b[3] \in Following
    BY LeadIs, SMTT(30) DEF Form3, Following
  <2> QED
    BY <1>2, <1>3, <1>4, <1>6, <1>9, <2>2, <2>3 DEF Form
<1>10. CASE Len(b) = 4
  <2>1. b[1] \in Int /\ b[2] \in Int
    BY <1>1, <1>10, ByteIs, SMT
  <2>2. b[2] \in SecondByte(b[1]) => b[2] \in Following
    BY <2>1, SecondByteIs DEF Following
  <2>3. Form4(b) <=> /\ b[1] \in Lead(4) /\ b[2] \in SecondByte(b[1])
                     /\ b[3] \in Following /\ b[4] \in Following
    BY LeadIs, SMT DEF Form4, Following
  <2> QED
    BY <1>2, <1>3, <1>4, <1>6, <1>10, <2>2, <2>3 DEF Form
<1>11. CASE Len(b) # 1 /\ Len(b) # 2 /\ Len(b) # 3 /\ Len(b) # 4
  BY <1>5, <1>11 DEF Form
<1> QED
  BY <1>7, <1>8, <1>9, <1>10, <1>11

(* What append_utf8() writes.  *)
Utf8(cp) ==
  IF cp < 128 THEN <<cp>>
  ELSE IF cp < 2048 THEN <<192 + cp \div 64, Continuation(cp)>>
  ELSE IF cp < 65536
  THEN <<224 + cp \div 4096, Continuation(cp \div 64), Continuation(cp)>>
  ELSE <<240 + cp \div 262144, Continuation(cp \div 4096),
         Continuation(cp \div 64), Continuation(cp)>>

(* A number that a code point may be, and a code point that is no surrogate. *)
InRange(cp) == cp \in Nat /\ cp <= 1114111
Scalar(cp) == InRange(cp) /\ cp \notin Surrogate

(* A code point in groups of six bits.  *)
Split(cp, q, t, x, w, y, z) ==
  /\ cp = 64 * q + z /\ q = 64 * t + y /\ t = 64 * w + x
  /\ z < 64 /\ y < 64 /\ x < 64 /\ w < 5
  /\ cp \div 64 = q /\ cp \div 4096 = t /\ cp \div 262144 = w
  /\ cp % 64 = z /\ q % 64 = y /\ t % 64 = x

(* Every code point has such groups.  *)
LEMMA Sixes ==
  ASSUME NEW cp, InRange(cp)
  PROVE  \E q, t, x, w, y, z \in Nat :
           Split(cp, q, t, x, w, y, z)
<1>0. cp \in Nat /\ cp <= 1114111
  BY SMT DEF InRange
<1>1. PICK q \in Nat, z \in Nat :
        q = cp \div 64 /\ z = cp % 64 /\ cp = 64 * q + z /\ z < 64
  BY <1>0, SMT
<1>2. PICK t \in Nat, y \in Nat :
        t = q \div 64 /\ y = q % 64 /\ q = 64 * t + y /\ y < 64
  BY SMT
<1>3. PICK w \in Nat, x \in Nat :
        w = t \div 64 /\ x = t % 64 /\ t = 64 * w + x /\ x < 64
  BY SMT
<1>4. cp \div 4096 = t
  BY <1>0, <1>1, <1>2, SMT
<1>5. cp \div 262144 = w
  BY <1>0, <1>1, <1>2, <1>3, SMT
<1>6. w < 5
  BY <1>0, <1>1, <1>2, <1>3, SMT
<1> QED
  <2>1. Split(cp, q, t, x, w, y, z)
    BY <1>0, <1>1, <1>2, <1>3, <1>4, <1>5, <1>6, SMT DEF Split
  <2> QED
    BY <2>1

(* append_utf8() writes the UTF-8 form of a code point.  *)
LEMMA Encodes ==
  ASSUME NEW cp, Scalar(cp)
  PROVE  /\ Utf8(cp) \in Seq(Byte)
         /\ CodePoint(Utf8(cp)) = cp
         /\ Len(Utf8(cp)) = Width(cp)
<1>1. cp \in Nat /\ cp <= 1114111 /\ cp \in Int
  BY SMT DEF Scalar, InRange
<1>2. cp < 55296 \/ cp >= 57344
  BY <1>1, SurrogateIs, SMT DEF Scalar
<1>3. PICK q, t, x, w, y, z \in Nat :
           Split(cp, q, t, x, w, y, z)
  BY Sixes DEF Scalar
<1>4. CASE cp < 128
  <2> DEFINE b == <<cp>>
  <2>1. Utf8(cp) = b /\ Width(cp) = 1
    BY <1>1, <1>4, SMT DEF Utf8, Width
  <2>2. b \in [1..1 -> Byte] /\ b \in Seq(Byte) /\ Len(b) = 1 /\ b[1] = cp
    BY <1>1, <1>4, SMT DEF Byte
  <2>3. b[1] \in 0..127
    BY <1>1, <1>4, <2>2, SMT
  <2> HIDE DEF b
  <2>4. CodePoint(b) = b[1]
    BY <2>2, <2>3, Code1 DEF Form1
  <2> QED
    BY <2>1, <2>2, <2>4
<1>5. CASE cp >= 128 /\ cp < 2048
  <2> DEFINE b == <<192 + q, 128 + z>>
  <2>1. Utf8(cp) = b /\ Width(cp) = 2
    BY <1>1, <1>3, <1>5, SMT DEF Split, Utf8, Width, Continuation
  <2>2. 192 + q \in 194..223 /\ 128 + z \in 128..191
    BY <1>1, <1>3, <1>5, SMT DEF Split
  <2>3. /\ b \in [1..2 -> Byte] /\ b \in Seq(Byte) /\ Len(b) = 2
        /\ b[1] = 192 + q /\ b[2] = 128 + z
    BY <2>2, SMT DEF Byte
  <2> HIDE DEF b
  <2>4. Form2(b)
    BY <2>2, <2>3, SMT DEF Form2
  <2>5. Value2(b) = cp
    BY <1>1, <1>3, <2>3, SMT DEF Value2, Split
  <2>6. CodePoint(b) = cp
    BY <2>3, <2>4, <2>5, Code2
  <2> QED
    BY <2>1, <2>3, <2>6
<1>6. CASE cp >= 2048 /\ cp < 65536
  <2> DEFINE b == <<224 + t, 128 + y, 128 + z>>
  <2>1. Utf8(cp) = b /\ Width(cp) = 3
    BY <1>1, <1>3, <1>6, SMT DEF Utf8, Width, Continuation, Split
  <2>2. /\ 224 + t \in 224..239 /\ 128 + y \in 128..191 /\ 128 + z \in 128..191
        /\ 224 + t \in Int /\ 128 + y \in Int
    BY <1>1, <1>3, <1>6, SMT DEF Split
  <2>3. 128 + y \in SecondByte(224 + t)
    <3>1. /\ 224 + t = 224 => 128 + y >= 160
          /\ 224 + t = 237 => 128 + y <= 159
          /\ 224 + t # 240 /\ 224 + t # 244
      BY <1>1, <1>2, <1>3, <1>6, SMT DEF Split
    <3> QED
      BY <2>2, <3>1, SMT DEF SecondByte
  <2>4. /\ b \in [1..3 -> Byte] /\ b \in Seq(Byte) /\ Len(b) = 3
        /\ b[1] = 224 + t /\ b[2] = 128 + y /\ b[3] = 128 + z
    BY <2>2, SMT DEF Byte
  <2> HIDE DEF b
  <2>5. Form3(b)
    BY <2>2, <2>3, <2>4, SMT DEF Form3
  <2>6. Value3(b) = cp
    BY <1>1, <1>3, <2>4, SMT DEF Value3, Split
  <2>7. CodePoint(b) = cp
    BY <2>4, <2>5, <2>6, Code3
  <2> QED
    BY <2>1, <2>4, <2>7
<1>7. CASE cp >= 65536
  <2> DEFINE b == <<240 + w, 128 + x, 128 + y, 128 + z>>
  <2>1. Utf8(cp) = b /\ Width(cp) = 4
    BY <1>1, <1>3, <1>7, SMT DEF Utf8, Width, Continuation, Split
  <2>2. /\ 240 + w \in 240..244 /\ 128 + x \in 128..191
        /\ 128 + y \in 128..191 /\ 128 + z \in 128..191
        /\ 240 + w \in Int /\ 128 + x \in Int
    BY <1>1, <1>3, <1>7, SMT DEF Split
  <2>3. 128 + x \in SecondByte(240 + w)
    <3>1. /\ 240 + w = 240 => 128 + x >= 144
          /\ 240 + w = 244 => 128 + x <= 143
          /\ 240 + w # 224 /\ 240 + w # 237
      BY <1>1, <1>3, <1>7, SMT DEF Split
    <3> QED
      BY <2>2, <3>1, SMT DEF SecondByte
  <2>4. /\ b \in [1..4 -> Byte] /\ b \in Seq(Byte) /\ Len(b) = 4
        /\ b[1] = 240 + w /\ b[2] = 128 + x /\ b[3] = 128 + y /\ b[4] = 128 + z
    <3>1. /\ 240 + w \in Byte /\ 128 + x \in Byte
          /\ 128 + y \in Byte /\ 128 + z \in Byte
      BY <2>2, SMT DEF Byte
    <3> QED
      BY <3>1, SMT
  <2> HIDE DEF b
  <2>5. Form4(b)
    BY <2>2, <2>3, <2>4, SMT DEF Form4
  <2>6. Value4(b) = cp
    BY <1>1, <1>3, <2>4, SMT DEF Value4, Split
  <2>7. CodePoint(b) = cp
    BY <2>4, <2>5, <2>6, Code4
  <2> QED
    BY <2>1, <2>4, <2>7
<1> QED
  BY <1>1, <1>4, <1>5, <1>6, <1>7, SMT

-----------------------------------------------------------------------------
(* Readings.  *)

Start == [points |-> <<>>, size |-> 0]

(* The readings that end with a piece up to k.  *)
From(U, cp, k) ==
  UNION {{Then(r, cp[j][k]) : r \in U[j - 1]} :
           j \in {i \in 1..k : cp[i][k] # -1}}

(* U has what the first k places may be read as, for every k.  *)
Table(U, n, cp) ==
  U = [k \in 0..n |-> IF k = 0 THEN {Start} ELSE From(U, cp, k)]

(* x ends with a piece from j to k.  *)
Ends(x, U, cp, j, k) ==
  cp[j][k] # -1 /\ \E r \in U[j - 1] : x = Then(r, cp[j][k])

(* What these readings are, one at a time.  *)
LEMMA FromIs ==
  ASSUME NEW U, NEW cp, NEW k, NEW x
  PROVE  x \in From(U, cp, k) <=> \E j \in 1..k : Ends(x, U, cp, j, k)
<1> DEFINE J == {i \in 1..k : cp[i][k] # -1}
           To(j) == {Then(r, cp[j][k]) : r \in U[j - 1]}
<1>1. From(U, cp, k) = UNION {To(j) : j \in J}
  BY DEF From
<1>2. \A j : x \in To(j) <=> \E r \in U[j - 1] : x = Then(r, cp[j][k])
  OBVIOUS
<1>3. \A j : j \in J <=> j \in 1..k /\ cp[j][k] # -1
  OBVIOUS
<1> HIDE DEF To, J
<1>4. x \in UNION {To(j) : j \in J} <=> \E j \in J : x \in To(j)
  OBVIOUS
<1> QED
  BY <1>1, <1>2, <1>3, <1>4 DEF Ends

(* Two tables agree on what comes before k.  *)
Agree(U, cp, W, dp, k) ==
  \A j \in 1..k : cp[j][k] = dp[j][k] /\ U[j - 1] = W[j - 1]

(* Then they have the same readings there.  *)
LEMMA FromAgrees ==
  ASSUME NEW U, NEW W, NEW cp, NEW dp, NEW k, Agree(U, cp, W, dp, k)
  PROVE  From(U, cp, k) = From(W, dp, k)
<1>1. ASSUME NEW x PROVE x \in From(U, cp, k) <=> x \in From(W, dp, k)
  <2>1. x \in From(U, cp, k) <=> \E j \in 1..k : Ends(x, U, cp, j, k)
    BY FromIs
  <2>2. x \in From(W, dp, k) <=> \E j \in 1..k : Ends(x, W, dp, j, k)
    BY FromIs
  <2>3. \A j \in 1..k : Ends(x, U, cp, j, k) <=> Ends(x, W, dp, j, k)
    BY DEF Ends, Agree
  <2> QED
    BY <2>1, <2>2, <2>3
<1> QED
  BY <1>1

(* What a table has, place by place.  *)
LEMMA TableIs ==
  ASSUME NEW U, NEW n \in Nat, NEW cp, Table(U, n, cp)
  PROVE  /\ U[0] = {Start}
         /\ \A k \in 1..n : U[k] = From(U, cp, k)
<1>1. 0 \in 0..n /\ \A k \in 1..n : k \in 0..n /\ k # 0
  BY SMT
<1> QED
  BY <1>1 DEF Table

(* There is a table, ...  *)
LEMMA TableExists ==
  ASSUME NEW n \in Nat, NEW cp
  PROVE  \E U : Table(U, n, cp) /\ Readings(n, cp) = U[n]
<1> DEFINE G == {m \in Nat : \E U : Table(U, m, cp)}
<1>1. 0 \in G
  <2> DEFINE U == [k \in 0..0 |-> {Start}]
  <2>1. \A k \in 0..0 : k = 0
    BY SMT
  <2>2. U = [k \in 0..0 |-> IF k = 0 THEN {Start} ELSE From(U, cp, k)]
    BY <2>1
  <2> HIDE DEF U
  <2>3. Table(U, 0, cp)
    BY <2>2 DEF Table
  <2> QED
    BY <2>3, SMT
<1>2. ASSUME NEW m \in Nat, m \in G PROVE m + 1 \in G
  <2>1. PICK W : Table(W, m, cp)
    BY <1>2
  <2> DEFINE U == [k \in 0..(m + 1) |-> IF k = m + 1 THEN From(W, cp, k)
                                                      ELSE W[k]]
  <2>2. /\ m + 1 \in Nat /\ 0 # m + 1
        /\ \A k \in 0..(m + 1) : k # m + 1 => k \in 0..m
        /\ \A k \in 0..(m + 1) : k # 0 => k \in 1..(m + 1)
        /\ \A k \in 0..(m + 1) : \A j \in 1..k :
             j - 1 \in 0..(m + 1) /\ j - 1 # m + 1
    BY SMT
  <2>3. ASSUME NEW k \in 0..(m + 1), k # 0
        PROVE  From(U, cp, k) = From(W, cp, k)
    <3>1. Agree(U, cp, W, cp, k)
      BY <2>2 DEF Agree
    <3> HIDE DEF U
    <3> QED
      BY <3>1, FromAgrees, SMT
  <2>4. ASSUME NEW k \in 0..(m + 1)
        PROVE  U[k] = IF k = 0 THEN {Start} ELSE From(U, cp, k)
    <3>1. CASE k = m + 1
      <4>1. U[k] = From(W, cp, k)
        BY <3>1
      <4> HIDE DEF U
      <4> QED
        BY <2>2, <2>3, <3>1, <4>1
    <3>2. CASE k # m + 1
      <4>1. U[k] = W[k]
        BY <3>2
      <4>2. W[k] = IF k = 0 THEN {Start} ELSE From(W, cp, k)
        BY <2>1, <2>2, <3>2 DEF Table
      <4> HIDE DEF U
      <4> QED
        BY <2>3, <4>1, <4>2
    <3> QED
      BY <3>1, <3>2
  <2>5. Table(U, m + 1, cp)
    <3>1. U = [k \in 0..(m + 1) |-> U[k]]
      OBVIOUS
    <3> HIDE DEF U
    <3> QED
      BY <2>4, <3>1 DEF Table
  <2> QED
    BY <2>2, <2>5
<1> HIDE DEF G
<1>3. n \in G
  BY <1>1, <1>2, Induction
<1>4. \E U : Table(U, n, cp)
  BY <1>3 DEF G
<1> DEFINE U == CHOOSE f : Table(f, n, cp)
<1>5. Table(U, n, cp)
  BY <1>4
<1>6. Readings(n, cp) = U[n]
  BY DEF Readings, Table, From, Start
<1> QED
  BY <1>5, <1>6

(* ... and it has at m what m places may be read as.  Pieces further on do   *)
(* not matter.                                                               *)
SamePieces(cp, dp, m) == \A k \in 1..m : \A j \in 1..k : cp[j][k] = dp[j][k]

(* The table has what m places may be read as.  *)
Has(U, m, dp) == U[m] = Readings(m, dp)

(* What a table has at m depends on the pieces up to m only.  *)
LEMMA TableAt ==
  ASSUME NEW n \in Nat, NEW cp, NEW m \in 0..n, NEW dp, NEW U,
         Table(U, n, cp), SamePieces(cp, dp, m)
  PROVE  Has(U, m, dp)
<1>1. m \in Nat /\ n \in Nat /\ m <= n
  BY SMT
<1>2. PICK W : Table(W, m, dp) /\ Readings(m, dp) = W[m]
  BY <1>1, TableExists
<1> DEFINE B == {k \in 0..m : U[k] # W[k]}
<1> SUFFICES ASSUME B # {} PROVE FALSE
  <2>1. m \in 0..m
    BY SMT
  <2> QED
    BY <1>2, <2>1 DEF Has
<1>3. PICK k \in B : \A i \in B : k <= i
  <2>1. B \subseteq Nat
    BY SMT
  <2> QED
    BY <2>1, Least
<1>4. k \in 0..m /\ U[k] # W[k]
  OBVIOUS
<1>5. \A i \in 0..m : i < k => U[i] = W[i]
  BY <1>3, <1>4, SMT
<1> HIDE DEF B
<1>6. k # 0
  BY <1>1, <1>2, <1>4, TableIs
<1>7. k \in 1..m /\ k \in 1..n /\ \A j \in 1..k : j - 1 \in 0..m /\ j - 1 < k
  BY <1>1, <1>4, <1>6, SMT
<1>8. U[k] = From(U, cp, k) /\ W[k] = From(W, dp, k)
  <2>1. U[k] = From(U, cp, k)
    BY <1>7, TableIs, SMT
  <2>2. W[k] = From(W, dp, k)
    BY <1>1, <1>2, <1>7, TableIs, SMT
  <2> QED
    BY <2>1, <2>2
<1>9. From(U, cp, k) = From(W, dp, k)
  <2>1. Agree(U, cp, W, dp, k)
    BY <1>5, <1>7 DEF Agree, SamePieces
  <2> QED
    BY <2>1, FromAgrees, SMT
<1> QED
  BY <1>4, <1>8, <1>9

-----------------------------------------------------------------------------
(* Two pieces that share a place are the same.  *)
NoOverlap(n, cp) ==
  \A i, k, l, m \in 1..n :
    i <= k /\ l <= m /\ i <= m /\ l <= k /\ cp[i][k] # -1 /\ cp[l][m] # -1
      => i = l /\ k = m

(* Some division into pieces has a cut after p.  *)
Cut(p, cp) == p = 0 \/ \E l \in 1..p : cp[l][p] # -1

(* Then what is read from a cut to the next is just the piece between them, *)
LEMMA NextCut ==
  ASSUME NEW n \in Nat, NEW cp, NEW U, Table(U, n, cp), NoOverlap(n, cp),
         NEW p \in 0..n, NEW q \in 1..n, p < q, cp[p + 1][q] # -1
  PROVE  /\ U[q] = {Then(r, cp[p + 1][q]) : r \in U[p]}
         /\ Cut(q, cp)
<1>1. p + 1 \in 1..q /\ (p + 1) - 1 = p /\ p + 1 \in 1..n /\ q <= q
  BY SMT
<1>2. U[q] = From(U, cp, q)
  BY TableIs, SMT
<1>3. ASSUME NEW x, x \in From(U, cp, q) PROVE \E r \in U[p] : x = Then(r, cp[p + 1][q])
  <2>1. PICK j \in 1..q : Ends(x, U, cp, j, q)
    BY <1>3, FromIs
  <2>2. j \in 1..n /\ j <= q /\ p + 1 <= q
    BY <1>1, SMT
  <2>3. j = p + 1
    BY <1>1, <2>1, <2>2 DEF Ends, NoOverlap
  <2> QED
    BY <1>1, <2>1, <2>3 DEF Ends
<1>4. ASSUME NEW r \in U[p] PROVE Then(r, cp[p + 1][q]) \in From(U, cp, q)
  <2>1. Ends(Then(r, cp[p + 1][q]), U, cp, p + 1, q)
    BY <1>1 DEF Ends
  <2> QED
    BY <1>1, <2>1, FromIs
<1>5. Cut(q, cp)
  BY <1>1 DEF Cut
<1> QED
  BY <1>2, <1>3, <1>4, <1>5

(* and what is read beyond a cut is read from there.  *)
LEMMA BeyondCut ==
  ASSUME NEW n \in Nat, NEW cp, NEW U, Table(U, n, cp), NoOverlap(n, cp),
         NEW p \in 0..n, Cut(p, cp), NEW k \in (p + 1)..n, NEW x \in U[k]
  PROVE  \E j \in (p + 1)..k : Ends(x, U, cp, j, k)
<1>1. k \in 1..n /\ p < k /\ p # k /\ p <= k
  BY SMT
<1>2. U[k] = From(U, cp, k)
  BY <1>1, TableIs, SMT
<1>3. PICK j \in 1..k : Ends(x, U, cp, j, k)
  BY <1>2, FromIs
<1>4. ASSUME j <= p PROVE FALSE
  <2>1. p # 0
    BY <1>4, SMT
  <2>2. PICK l \in 1..p : cp[l][p] # -1
    BY <2>1 DEF Cut
  <2>3. /\ l \in 1..n /\ p \in 1..n /\ j \in 1..n /\ l <= p /\ j <= k /\ l <= k
    BY <1>1, <2>1, SMT
  <2> QED
    BY <1>1, <1>3, <1>4, <2>2, <2>3 DEF NoOverlap, Ends
<1>5. j \in (p + 1)..k
  BY <1>4, SMT
<1> QED
  BY <1>3, <1>5

(* A cut from which no piece goes on is the end, ...  *)
LEMMA DeadEnd ==
  ASSUME NEW n \in Nat, NEW cp, NEW U, Table(U, n, cp), NoOverlap(n, cp),
         NEW p \in 0..n, Cut(p, cp), p < n,
         \A k \in (p + 1)..n : cp[p + 1][k] = -1
  PROVE  U[n] = {}
<1> DEFINE B == {k \in (p + 1)..n : U[k] # {}}
<1> SUFFICES ASSUME B # {} PROVE FALSE
  <2>1. n \in (p + 1)..n
    BY SMT
  <2> QED
    BY <2>1
<1>1. PICK k \in B : \A i \in B : k <= i
  <2>1. B \subseteq Nat
    BY SMT
  <2> QED
    BY <2>1, Least
<1>2. k \in (p + 1)..n /\ U[k] # {}
  OBVIOUS
<1>3. \A i \in (p + 1)..n : i < k => U[i] = {}
  BY <1>1, <1>2, SMT
<1> HIDE DEF B
<1>4. PICK x : x \in U[k]
  BY <1>2
<1>5. PICK j \in (p + 1)..k : Ends(x, U, cp, j, k)
  BY <1>2, <1>4, BeyondCut
<1>6. j = p + 1 \/ (j - 1 \in (p + 1)..n /\ j - 1 < k)
  BY <1>2, SMT
<1>7. CASE j = p + 1
  BY <1>2, <1>5, <1>7 DEF Ends
<1>8. CASE j - 1 \in (p + 1)..n /\ j - 1 < k
  BY <1>3, <1>5, <1>8 DEF Ends
<1> QED
  BY <1>6, <1>7, <1>8

(* ... and a reading only grows.  *)
LEMMA OnlyGrows ==
  ASSUME NEW n \in Nat, NEW cp, NEW U, Table(U, n, cp), NoOverlap(n, cp),
         NEW p \in 0..n, Cut(p, cp), NEW size \in Nat,
         \A x \in U[p] : x.size \in Nat /\ x.size >= size
  PROVE  \A x \in U[n] : x.size \in Nat /\ x.size >= size
<1> DEFINE Big(x) == x.size \in Nat /\ x.size >= size
           B == {k \in p..n : \E x \in U[k] : ~Big(x)}
<1> SUFFICES ASSUME B # {} PROVE FALSE
  <2>1. n \in p..n
    BY SMT
  <2> QED
    BY <2>1
<1>1. PICK k \in B : \A i \in B : k <= i
  <2>1. B \subseteq Nat
    BY SMT
  <2> QED
    BY <2>1, Least
<1>2. k \in p..n
  OBVIOUS
<1>3. PICK x \in U[k] : ~Big(x)
  OBVIOUS
<1>4. ASSUME NEW i \in p..n, i < k PROVE \A y \in U[i] : Big(y)
  <2>1. i \notin B
    <3> HIDE DEF B
    <3> QED
      BY <1>1, <1>2, <1>4, SMT
  <2> QED
    BY <2>1
<1> HIDE DEF B
<1>5. k \in (p + 1)..n
  <2>1. k # p
    BY <1>3
  <2> QED
    BY <1>2, <2>1, SMT
<1>6. PICK j \in (p + 1)..k : Ends(x, U, cp, j, k)
  BY <1>3, <1>5, BeyondCut
<1>7. j - 1 \in p..n /\ j - 1 < k
  BY <1>5, SMT
<1>8. PICK r \in U[j - 1] : x = Then(r, cp[j][k])
  BY <1>6 DEF Ends
<1>9. Big(r)
  BY <1>4, <1>7
<1>10. x.size = r.size + Width(cp[j][k])
  BY <1>8 DEF Then
<1>11. Width(cp[j][k]) \in Nat
  BY SMT DEF Width
<1>12. Big(x)
  BY <1>9, <1>10, <1>11, SMT
<1> QED
  BY <1>3, <1>12

-----------------------------------------------------------------------------
(* The bytes from i to k are a UTF-8 form.  *)
FormAt(v, i, k) ==
  /\ k - i + 1 \in 1..4
  /\ v[i] \in Lead(k - i + 1)
  /\ k > i => v[i + 1] \in SecondByte(v[i])
  /\ \A j \in (i + 1)..k : v[j] \in Following

(* The values from i to k are bytes.  *)
BytesAt(v, i, k) == \A j \in i..k : v[j] \in Byte

(* Bytes have a code point exactly if they are a form.  *)
LEMMA FormAtIs ==
  ASSUME NEW v, NEW i \in Nat \ {0}, NEW k \in Nat, i <= k, BytesAt(v, i, k)
  PROVE  /\ SubSeq(v, i, k) \in Seq(Byte)
         /\ CodePoint(SubSeq(v, i, k)) # -1 <=> FormAt(v, i, k)
         /\ FormAt(v, i, k) => /\ CodePoint(SubSeq(v, i, k)) \in Nat
                               /\ Width(CodePoint(SubSeq(v, i, k))) = k - i + 1
<1> DEFINE b == SubSeq(v, i, k)
           n == k - i + 1
<1>1. /\ i \in Int /\ k \in Int /\ i <= k /\ n \in Nat
      /\ 1 \in 1..n /\ i + 1 - 1 = i
      /\ n > 1 => 2 \in 1..n
      /\ i + 2 - 1 = i + 1
      /\ n > 1 <=> k > i
      /\ \A j \in 2..n : j \in 1..n /\ i + j - 1 \in (i + 1)..k
      /\ \A j \in (i + 1)..k : j - i + 1 \in 2..n /\ i + (j - i + 1) - 1 = j
  BY SMT
<1>2. \A j \in i..k : v[j] \in Byte
  BY DEF BytesAt
<1>3. /\ b \in Seq(Byte)
      /\ \A j \in 1..n : b[j] = v[i + j - 1]
  <2>1. i \in Int /\ k \in Int
    BY SMT
  <2>2. b \in Seq(Byte)
    BY <1>2, <2>1, SubSeqProperties
  <2>3. \A j \in 1..n : b[j] = v[i + j - 1]
    BY <1>2, <2>1, SubSeqProperties, SMT
  <2> QED
    BY <2>2, <2>3
<1>4. Len(b) = n
  <2>1. i \in Int /\ k \in Int
    BY SMT
  <2>2. Len(b) = IF i <= k THEN n ELSE 0
    BY <1>2, <2>1, SubSeqProperties, SMT
  <2> QED
    BY <2>2
<1> HIDE DEF b
<1>5. Form(b) <=> /\ n \in 1..4
                  /\ b[1] \in Lead(n)
                  /\ n > 1 => b[2] \in SecondByte(b[1])
                  /\ \A j \in 2..n : b[j] \in Following
  BY <1>3, <1>4, FormBytes
<1> HIDE DEF n
<1>6. /\ b[1] = v[i]
      /\ n > 1 => b[2] = v[i + 1]
      /\ \A j \in 2..n : b[j] = v[i + j - 1]
  BY <1>1, <1>3
<1>7. (\A j \in 2..n : b[j] \in Following)
        <=> \A j \in (i + 1)..k : v[j] \in Following
  BY <1>1, <1>6, ZenonT(60)
<1>8. Form(b) <=> FormAt(v, i, k)
  BY <1>1, <1>5, <1>6, <1>7, ZenonT(60) DEF FormAt, n
<1> QED
  BY <1>3, <1>4, <1>8, CodePointForm DEF b, n

(* A first byte tells the length, and does not follow another.  *)
LEMMA LeadsDiffer ==
  /\ \A n, m \in 1..4 : \A x \in Int : x \in Lead(n) /\ x \in Lead(m) => n = m
  /\ \A n \in 1..4 : \A x \in Int : ~ (x \in Lead(n) /\ x \in Following)
BY SMT DEF Lead, Following

(* Two forms that share a byte are the same.  *)
LEMMA FormsApart ==
  ASSUME NEW v, NEW i \in Nat, NEW k \in Nat, NEW l \in Nat, NEW m \in Nat,
         i <= k, l <= m, i <= m, l <= k,
         BytesAt(v, i, k), BytesAt(v, l, m), FormAt(v, i, k), FormAt(v, l, m)
  PROVE  i = l /\ k = m
<1>1. v[i] \in Int /\ v[l] \in Int
  <2>1. i \in i..k /\ l \in l..m
    BY SMT
  <2> QED
    BY <2>1, ByteIs DEF BytesAt
<1>2. k - i + 1 \in 1..4 /\ m - l + 1 \in 1..4
  BY DEF FormAt
<1>3. ~ (i < l)
  <2>1. i < l => l \in (i + 1)..k
    BY SMT
  <2> QED
    BY <1>1, <1>2, <2>1, LeadsDiffer DEF FormAt
<1>4. ~ (l < i)
  <2>1. l < i => i \in (l + 1)..m
    BY SMT
  <2> QED
    BY <1>1, <1>2, <2>1, LeadsDiffer DEF FormAt
<1>5. i = l
  BY <1>3, <1>4, SMT
<1>6. k - i + 1 = m - l + 1
  BY <1>1, <1>2, <1>5, LeadsDiffer DEF FormAt
<1> QED
  BY <1>5, <1>6, SMT

(* The code points of bytes.  *)
BytePieces(b) ==
  [j \in 1..Len(b) |-> [k \in 1..Len(b) |-> CodePoint(SubSeq(b, j, k))]]

(* They are the code points of the forms.  *)
LEMMA BytePiecesAre ==
  ASSUME NEW b \in Seq(Byte), NEW i \in 1..Len(b), NEW k \in i..Len(b)
  PROVE  /\ BytePieces(b)[i][k] = CodePoint(SubSeq(b, i, k))
         /\ BytesAt(b, i, k)
         /\ BytePieces(b)[i][k] # -1 <=> FormAt(b, i, k)
<1>1. Len(b) \in Nat /\ b \in [1..Len(b) -> Byte]
  BY SMT
<1>2. k \in 1..Len(b) /\ i \in Nat \ {0} /\ k \in Nat /\ i <= k
  BY <1>1, SMT
<1>3. \A j \in i..k : j \in 1..Len(b)
  BY <1>1, SMT
<1>4. BytesAt(b, i, k)
  BY <1>1, <1>3 DEF BytesAt
<1>5. BytePieces(b)[i][k] = CodePoint(SubSeq(b, i, k))
  BY <1>2 DEF BytePieces
<1> QED
  BY <1>2, <1>4, <1>5, FormAtIs

(* So there is at most one way to divide bytes into forms.  *)
LEMMA ByteCuts ==
  ASSUME NEW b \in Seq(Byte)
  PROVE  NoOverlap(Len(b), BytePieces(b))
<1> DEFINE n == Len(b)
<1>1. n \in Nat
  BY SMT
<1> SUFFICES ASSUME NEW i \in 1..n, NEW k \in 1..n, NEW l \in 1..n, NEW m \in 1..n,
                    i <= k, l <= m, i <= m, l <= k,
                    BytePieces(b)[i][k] # -1, BytePieces(b)[l][m] # -1
             PROVE  i = l /\ k = m
  BY DEF NoOverlap
<1>2. k \in i..n /\ m \in l..n /\ i \in Nat /\ k \in Nat /\ l \in Nat /\ m \in Nat
  BY <1>1, SMT
<1>3. BytesAt(b, i, k) /\ FormAt(b, i, k)
  BY <1>2, BytePiecesAre
<1>4. BytesAt(b, l, m) /\ FormAt(b, l, m)
  BY <1>2, BytePiecesAre
<1> QED
  BY <1>2, <1>3, <1>4, FormsApart

-----------------------------------------------------------------------------
(* A raw byte, or an escape of a code unit.  *)
Unit == {n \in Int : -1 <= n /\ n < 65536}

(* What a string may be made of.  *)
Symbol ==
  {x \in [esc : BOOLEAN, v : Int] : IF x.esc THEN x.v \in Unit ELSE x.v \in Byte}

(* What a symbol has.  *)
LEMMA SymbolIs ==
  ASSUME NEW x \in Symbol
  PROVE  /\ x.esc \in BOOLEAN /\ x.v \in Int
         /\ x.esc => x.v \in Unit
         /\ ~x.esc => x.v \in Byte
BY DEF Symbol

(* No symbol from i to k is an escape.  *)
RawAt(s, i, k) == \A j \in i..k : ~s[j].esc

(* The length that a first byte tells, 0 if it is none.  *)
LengthOf(lead) ==
  IF lead < 128 THEN 1
  ELSE IF lead \in 194..223 THEN 2
  ELSE IF lead \in 224..239 THEN 3
  ELSE IF lead \in 240..244 THEN 4
  ELSE 0

(* It is the length of the forms with this first byte.  *)
LEMMA LengthIs ==
  ASSUME NEW lead \in Byte
  PROVE  /\ LengthOf(lead) \in 0..4
         /\ LengthOf(lead) # 0 => lead \in Lead(LengthOf(lead))
         /\ \A n \in 1..4 : lead \in Lead(n) => LengthOf(lead) = n
<1>1. lead \in Int /\ 0 <= lead
  BY SMT DEF Byte
<1> QED
  BY <1>1, SMT DEF LengthOf, Lead

(* The bytes after the first, as consume_utf8() reads them.  *)
Continues(s, i, len) ==
  \A k \in (i + 1)..(i + len - 1) :
    ~s[k].esc /\ s[k].v \in IF k = i + 1 THEN SecondByte(s[i].v) ELSE Following

(* consume_utf8() in these words.  *)
LEMMA ConsumeRead ==
  ASSUME NEW s, NEW i
  PROVE  consume_utf8(s, i) =
           IF /\ i + LengthOf(s[i].v) - 1 <= Len(s)
              /\ Continues(s, i, LengthOf(s[i].v))
           THEN LengthOf(s[i].v) ELSE 0
BY DEF consume_utf8, LengthOf, Continues, Following

(* The bytes that it reads are a form.  *)
LEMMA ContinuesIs ==
  ASSUME NEW s \in Seq(Symbol), NEW i \in 1..Len(s), ~s[i].esc,
         NEW len \in 1..4, i + len - 1 <= Len(s), s[i].v \in Lead(len)
  PROVE  Continues(s, i, len) <=>
           RawAt(s, i, i + len - 1) /\ FormAt(Values(s), i, i + len - 1)
<1> DEFINE v == Values(s)
           m == i + len - 1
<1>1. Len(s) \in Nat /\ s \in [1..Len(s) -> Symbol]
  BY SMT
<1>2. \A j \in 1..Len(s) : v[j] = s[j].v
  BY DEF Values
<1>3. /\ m \in Nat /\ m - i + 1 = len /\ i \in i..m
      /\ \A j \in i..m : j \in 1..Len(s) /\ (j = i \/ j \in (i + 1)..m)
      /\ \A j \in (i + 1)..m : j \in i..m
      /\ m > i => i + 1 \in (i + 1)..m
      /\ i + 1 \in (i + 1)..m => m > i
  BY <1>1, SMT
<1>4. ASSUME NEW j \in (i + 1)..m
      PROVE  v[j] = s[j].v /\ v[i] = s[i].v /\ v[i] \in Int /\ v[j] \in Int
  <2>1. j \in 1..Len(s)
    BY <1>3
  <2> QED
    BY <1>1, <1>2, <2>1, SymbolIs
<1> HIDE DEF v
<1>5. ASSUME NEW j \in (i + 1)..m
      PROVE  v[j] \in SecondByte(v[i]) => v[j] \in Following
  BY <1>4, SecondByteIs DEF Following
<1> HIDE DEF m
<1>6. RawAt(s, i, m) <=> \A j \in (i + 1)..m : ~s[j].esc
  BY <1>3 DEF RawAt
<1>7. FormAt(v, i, m) <=> /\ m > i => v[i + 1] \in SecondByte(v[i])
                          /\ \A j \in (i + 1)..m : v[j] \in Following
  <2>1. v[i] \in Lead(len)
    BY <1>2 DEF v
  <2> QED
    BY <1>3, <2>1 DEF FormAt
<1>8. Continues(s, i, len) <=>
        \A k \in (i + 1)..m :
          ~s[k].esc /\ s[k].v \in IF k = i + 1 THEN SecondByte(s[i].v) ELSE Following
  BY DEF Continues, m
<1>9. ASSUME Continues(s, i, len)
      PROVE  RawAt(s, i, m) /\ FormAt(v, i, m)
  <2>1. \A j \in (i + 1)..m : ~s[j].esc
    BY <1>8, <1>9
  <2>2. m > i => v[i + 1] \in SecondByte(v[i])
    BY <1>3, <1>4, <1>8, <1>9
  <2>3. \A j \in (i + 1)..m : v[j] \in Following
    <3> SUFFICES ASSUME NEW j \in (i + 1)..m PROVE v[j] \in Following
      OBVIOUS
    <3>1. CASE j = i + 1
      BY <1>4, <1>5, <1>8, <1>9, <3>1
    <3>2. CASE j # i + 1
      BY <1>4, <1>8, <1>9, <3>2
    <3> QED
      BY <3>1, <3>2
  <2> QED
    BY <1>6, <1>7, <2>1, <2>2, <2>3
<1>10. ASSUME RawAt(s, i, m), FormAt(v, i, m)
       PROVE  Continues(s, i, len)
  <2> SUFFICES ASSUME NEW k \in (i + 1)..m
               PROVE  /\ ~s[k].esc
                      /\ s[k].v \in IF k = i + 1 THEN SecondByte(s[i].v) ELSE Following
    BY <1>8
  <2>1. ~s[k].esc
    BY <1>6, <1>10
  <2>2. CASE k = i + 1
    BY <1>3, <1>4, <1>7, <1>10, <2>1, <2>2
  <2>3. CASE k # i + 1
    BY <1>4, <1>7, <1>10, <2>1, <2>3
  <2> QED
    BY <2>2, <2>3
<1> QED
  BY <1>9, <1>10 DEF v, m

(* consume_utf8() takes the form that starts at i, if there is one.  *)
LEMMA ConsumeIs ==
  ASSUME NEW s \in Seq(Symbol), NEW i \in 1..Len(s), ~s[i].esc,
         NEW len, len = consume_utf8(s, i)
  PROVE  /\ len \in 0..4
         /\ len # 0 => /\ i + len - 1 <= Len(s)
                       /\ RawAt(s, i, i + len - 1)
                       /\ FormAt(Values(s), i, i + len - 1)
         /\ \A k \in i..Len(s) :
              RawAt(s, i, k) /\ FormAt(Values(s), i, k) => k = i + len - 1
<1> DEFINE lead == s[i].v
           L == LengthOf(lead)
<1>1. lead \in Byte /\ Len(s) \in Nat
  <2>1. s[i] \in Symbol /\ Len(s) \in Nat
    BY SMT
  <2> QED
    BY <2>1, SymbolIs
<1>2. Values(s)[i] = lead
  BY DEF Values
<1> HIDE DEF lead
<1>3. /\ L \in 0..4
      /\ L # 0 => lead \in Lead(L)
      /\ \A n \in 1..4 : lead \in Lead(n) => L = n
  BY <1>1, LengthIs
<1>4. len = IF i + L - 1 <= Len(s) /\ Continues(s, i, L) THEN L ELSE 0
  BY ConsumeRead DEF lead
<1> HIDE DEF L
<1>5. L # 0 => L \in 1..4
  BY <1>3, SMT
<1>6. L # 0 /\ i + L - 1 <= Len(s) =>
        (Continues(s, i, L) <=>
           RawAt(s, i, i + L - 1) /\ FormAt(Values(s), i, i + L - 1))
  BY <1>3, <1>5, ContinuesIs DEF lead
<1>7. len = 0 \/ len = L
  BY <1>4
<1>8. len \in 0..4
  BY <1>3, <1>7, SMT
<1>9. len # 0 => /\ i + len - 1 <= Len(s)
                 /\ RawAt(s, i, i + len - 1)
                 /\ FormAt(Values(s), i, i + len - 1)
  BY <1>4, <1>6
<1>10. ASSUME NEW k \in i..Len(s), RawAt(s, i, k), FormAt(Values(s), i, k)
       PROVE  k = i + len - 1
  <2>1. k - i + 1 \in 1..4 /\ lead \in Lead(k - i + 1)
    BY <1>2, <1>10 DEF FormAt
  <2>2. L = k - i + 1
    BY <1>3, <2>1
  <2>3. L # 0 /\ i + L - 1 = k /\ k <= Len(s)
    BY <1>1, <2>1, <2>2, SMT
  <2>4. len = L
    BY <1>4, <1>6, <1>10, <2>3
  <2> QED
    BY <2>3, <2>4
<1> QED
  BY <1>8, <1>9, <1>10

(* Symbols that stand for themselves, that escape a code point, and halves   *)
(* of a pair of surrogates.                                                  *)
Special(c) == c < 32 \/ c \in {Quote, Backslash}
Plain(x) == ~x.esc /\ ~Special(x.v)
Single(x) == x.esc /\ x.v \notin {-1, 0} /\ x.v \notin Surrogate
High(x) == x.esc /\ x.v \in HighSurrogate
Low(x) == x.esc /\ x.v \in LowSurrogate

(* The symbols from i to k are a piece.  *)
RawPiece(s, i, k) == RawAt(s, i, k) /\ Plain(s[i]) /\ FormAt(Values(s), i, k)
EscPiece(s, i, k) == i = k /\ Single(s[i])
PairPiece(s, i, k) == k = i + 1 /\ High(s[i]) /\ Low(s[k])
PieceAt(s, i, k) == RawPiece(s, i, k) \/ EscPiece(s, i, k) \/ PairPiece(s, i, k)

(* The code combines a pair of surrogates by subtraction, which is as good *)
(* as their bits.                                                            *)
LEMMA PairIs ==
  ASSUME NEW h \in HighSurrogate, NEW l \in LowSurrogate
  PROVE  /\ Combined(h, l) = Joined(h, l)
         /\ Scalar(Combined(h, l)) /\ Combined(h, l) # -1
<1>1. h \in Int /\ 55296 <= h /\ h < 56320 /\ l \in Int /\ 56320 <= l /\ l < 57344
  BY SMT DEF HighSurrogate, LowSurrogate
<1>2. h % 1024 = h - 55296 /\ l % 1024 = l - 56320
  BY <1>1, SMT
<1>3. /\ Combined(h, l) \in Nat /\ Combined(h, l) <= 1114111 /\ Combined(h, l) >= 65536
  BY <1>1, SMT DEF Combined
<1>4. Combined(h, l) \notin Surrogate /\ Combined(h, l) # -1
  BY <1>3, SurrogateIs, SMT
<1>5. InRange(Combined(h, l))
  BY <1>3, SMT DEF InRange
<1>6. Combined(h, l) = Joined(h, l)
  BY <1>1, <1>2, SMT DEF Combined, Joined
<1> QED
  BY <1>4, <1>5, <1>6, SMT DEF Scalar

(* A form is special just if its first byte is.  *)
LEMMA SpecialForm ==
  ASSUME NEW v, NEW i \in Nat \ {0}, NEW k \in Nat, i <= k, BytesAt(v, i, k),
         FormAt(v, i, k)
  PROVE  Special(CodePoint(SubSeq(v, i, k))) <=> Special(v[i])
<1> DEFINE b == SubSeq(v, i, k)
<1>1. /\ b \in Seq(Byte) /\ CodePoint(b) \in Nat
      /\ Width(CodePoint(b)) = k - i + 1
  BY FormAtIs
<1>2. v[i] \in Nat /\ v[i] \in Byte
  <2>1. i \in i..k
    BY SMT
  <2> QED
    BY <2>1, ByteIs DEF BytesAt
<1>3. CASE i = k
  <2>1. Len(b) = 1 /\ b[1] = v[i] /\ b \in [1..1 -> Byte]
    <3>1. \A j \in i..i : v[j] \in Byte
      BY <1>3 DEF BytesAt
    <3>2. i \in Int /\ i <= i /\ i - i + 1 = 1 /\ i + 1 - 1 = i /\ 1 \in 1..1
      BY SMT
    <3>3. b = SubSeq(v, i, i)
      BY <1>3
    <3> HIDE DEF b
    <3>4. Len(b) = 1
      BY <3>1, <3>2, <3>3, SubSeqProperties, SMT
    <3>5. \A j \in 1..(i - i + 1) : b[j] = v[i + j - 1]
      BY <3>1, <3>2, <3>3, SubSeqProperties, SMT
    <3>6. b[1] = v[i]
      BY <3>2, <3>5
    <3>7. b \in [1..1 -> Byte]
      <4>1. b \in Seq(Byte)
        BY <1>1
      <4> QED
        BY ONLY <3>4, <4>1, SMT
    <3> QED
      BY <3>4, <3>6, <3>7
  <2>2. Form1(b)
    <3>1. v[i] \in Lead(k - i + 1) /\ k - i + 1 = 1
      BY <1>3, SMT DEF FormAt
    <3>2. b[1] \in Lead(1)
      BY <2>1, <3>1
    <3>3. Lead(1) = 0..127
      BY LeadIs
    <3> HIDE DEF b
    <3> QED
      BY <3>2, <3>3 DEF Form1
  <2> HIDE DEF b
  <2>3. CodePoint(b) = v[i]
    BY <2>1, <2>2, Code1
  <2> QED
    BY <2>3 DEF b
<1>4. CASE i # k
  <2>1. PICK c \in Nat : c = CodePoint(b)
    BY <1>1
  <2>2. PICK n \in Nat : n = k - i + 1 /\ n > 1
    BY <1>4, SMT
  <2>3. c >= 128
    <3>1. Width(c) = n
      BY <1>1, <2>1, <2>2
    <3> QED
      BY <2>2, <3>1, SMT DEF Width
  <2>4. ~Special(c)
    BY <2>3, SMT DEF Special, Quote, Backslash
  <2>5. PICK x \in Nat : x = v[i]
    BY <1>2
  <2>6. x \in Lead(n) /\ n \in 1..4
    BY <2>2, <2>5 DEF FormAt
  <2>7. x >= 128
    BY <2>2, <2>6, SMT DEF Lead
  <2>8. ~Special(x)
    BY <2>7, SMT DEF Special, Quote, Backslash
  <2> QED
    BY <2>1, <2>4, <2>5, <2>8
<1> QED
  BY <1>3, <1>4

(* The symbols from i to k.  *)
LEMMA PieceSymbols ==
  ASSUME NEW s \in Seq(Symbol), NEW i \in 1..Len(s), NEW k \in i..Len(s)
  PROVE  /\ SubSeq(s, i, k) \in Seq(Symbol)
         /\ Len(SubSeq(s, i, k)) = k - i + 1
         /\ \A j \in 1..(k - i + 1) : SubSeq(s, i, k)[j] = s[i + j - 1]
         /\ Values(SubSeq(s, i, k)) = SubSeq(Values(s), i, k)
<1>1. Len(s) \in Nat /\ s \in [1..Len(s) -> Symbol]
  BY SMT
<1>2. i \in Int /\ k \in Int /\ i <= k /\ \A j \in i..k : j \in 1..Len(s)
  BY <1>1, SMT
<1>3. \A j \in i..k : s[j] \in Symbol
  BY <1>1, <1>2
<1>4. SubSeq(s, i, k) \in Seq(Symbol)
  BY <1>2, <1>3, SubSeqProperties
<1>5. Len(SubSeq(s, i, k)) = k - i + 1
  BY <1>2, <1>3, SubSeqProperties, SMT
<1>6. \A j \in 1..(k - i + 1) : SubSeq(s, i, k)[j] = s[i + j - 1]
  BY <1>2, <1>3, SubSeqProperties, SMT
<1> DEFINE v == Values(s)
           a == SubSeq(v, i, k)
           p == SubSeq(s, i, k)
<1>7. \A j \in 1..Len(s) : v[j] = s[j].v /\ v[j] \in Int
  BY <1>1, SymbolIs DEF Values
<1> HIDE DEF v
<1>8. \A j \in i..k : v[j] \in Int
  BY <1>2, <1>7
<1>9. a \in Seq(Int)
  BY <1>2, <1>8, SubSeqProperties
<1>10. Len(a) = k - i + 1
  BY <1>2, <1>8, SubSeqProperties, SMT
<1>11. \A j \in 1..(k - i + 1) : a[j] = v[i + j - 1]
  BY <1>2, <1>8, SubSeqProperties, SMT
<1> HIDE DEF a
<1>12. \A j \in 1..(k - i + 1) : i + j - 1 \in 1..Len(s)
  BY <1>1, <1>2, SMT
<1>13. Values(p) = [j \in 1..(k - i + 1) |-> p[j].v]
  BY <1>5 DEF Values
<1>14. \A j \in 1..(k - i + 1) : p[j].v = a[j]
  BY <1>6, <1>7, <1>11, <1>12
<1>15. a = [j \in 1..(k - i + 1) |-> a[j]]
  BY <1>9, <1>10, SMT
<1> HIDE DEF p
<1>16. Values(p) = a
  BY <1>13, <1>14, <1>15
<1> QED
  BY <1>4, <1>5, <1>6, <1>16 DEF a, v, p

(* What a piece means.  *)
LEMMA PieceMeaning ==
  ASSUME NEW s \in Seq(Symbol), NEW i \in 1..Len(s), NEW k \in i..Len(s),
         NEW c, c = Meaning(SubSeq(s, i, k))
  PROVE  /\ c # -1 <=> PieceAt(s, i, k)
         /\ RawPiece(s, i, k) => /\ BytesAt(Values(s), i, k)
                                 /\ c = CodePoint(SubSeq(Values(s), i, k))
         /\ EscPiece(s, i, k) => c = s[i].v
         /\ PairPiece(s, i, k) => c = Combined(s[i].v, s[k].v)
<1> DEFINE p == SubSeq(s, i, k)
           n == k - i + 1
           a == SubSeq(Values(s), i, k)
           Raws == \A j \in 1..n : ~p[j].esc
<1>1. Len(s) \in Nat /\ s \in [1..Len(s) -> Symbol]
  BY SMT
<1>2. /\ p \in Seq(Symbol) /\ Len(p) = n
      /\ \A j \in 1..n : p[j] = s[i + j - 1]
      /\ Values(p) = a
  BY PieceSymbols
<1>3. /\ n \in Nat /\ 1 \in 1..n /\ i + 1 - 1 = i
      /\ n = 1 <=> k = i
      /\ n = 2 <=> k = i + 1
      /\ n = 2 => 2 \in 1..n /\ i + 2 - 1 = k
      /\ \A j \in 1..n : i + j - 1 \in i..k
      /\ \A j \in i..k : j - i + 1 \in 1..n /\ i + (j - i + 1) - 1 = j
      /\ i \in i..k /\ k \in i..k /\ \A j \in i..k : j \in 1..Len(s)
      /\ i \in Nat \ {0} /\ k \in Nat /\ i <= k /\ i # i + 1
  BY <1>1, SMT
<1>4. Raws <=> RawAt(s, i, k)
  <2>1. ASSUME Raws, NEW j \in i..k PROVE ~s[j].esc
    <3> DEFINE h == j - i + 1
    <3>1. h \in 1..n /\ i + h - 1 = j
      BY <1>3
    <3> HIDE DEF h, n, p
    <3>2. p[h] = s[j]
      BY <1>2, <3>1
    <3> QED
      BY <2>1, <3>1, <3>2
  <2>2. ASSUME RawAt(s, i, k), NEW j \in 1..n PROVE ~p[j].esc
    <3> HIDE DEF n, p
    <3> QED
      BY <1>2, <1>3, <2>2 DEF RawAt
  <2> QED
    BY <2>1, <2>2 DEF RawAt
<1>5. p[1] = s[i] /\ a[1] = s[i].v
  <2>1. p[1] = s[i]
    BY <1>2, <1>3
  <2>2. Values(p)[1] = p[1].v
    BY <1>2, <1>3 DEF Values
  <2> QED
    BY <1>2, <2>1, <2>2
<1>6. k = i + 1 => p[2] = s[k] /\ a[2] = s[k].v
  <2>1. k = i + 1 => p[2] = s[k]
    BY <1>2, <1>3
  <2>2. k = i + 1 => Values(p)[2] = p[2].v
    BY <1>2, <1>3 DEF Values
  <2> QED
    BY <1>2, <2>1, <2>2
<1>7. s[i] \in Symbol /\ s[k] \in Symbol
  BY <1>1, <1>3
<1>8. Raws => c = IF Special(CodePoint(a)) THEN -1 ELSE CodePoint(a)
  BY <1>2 DEF Meaning, Special
<1>9. ~Raws => c = IF n = 1 /\ a[1] # 0 /\ a[1] \notin Surrogate THEN a[1]
                   ELSE IF /\ n = 2 /\ p[1].esc /\ p[2].esc
                           /\ a[1] \in HighSurrogate /\ a[2] \in LowSurrogate
                   THEN Joined(a[1], a[2])
                   ELSE -1
  BY <1>2 DEF Meaning
<1> HIDE DEF p, n, a, Raws
<1>10. CASE Raws
  <2>1. RawAt(s, i, k) /\ ~s[i].esc /\ ~s[k].esc
    BY <1>3, <1>4, <1>10 DEF RawAt
  <2>2. BytesAt(Values(s), i, k)
    <3> SUFFICES ASSUME NEW j \in i..k PROVE Values(s)[j] \in Byte
      BY DEF BytesAt
    <3>1. j \in 1..Len(s) /\ s[j] \in Symbol /\ ~s[j].esc
      BY <1>1, <1>3, <2>1 DEF RawAt
    <3> QED
      BY <3>1, SymbolIs DEF Values
  <2>3. CodePoint(a) # -1 <=> FormAt(Values(s), i, k)
    BY <1>3, <2>2, FormAtIs DEF a
  <2>4. FormAt(Values(s), i, k) =>
          (Special(CodePoint(a)) <=> Special(Values(s)[i]))
    BY <1>3, <2>2, SpecialForm DEF a
  <2>5. Values(s)[i] = s[i].v
    BY DEF Values
  <2>6. Special(-1)
    BY SMT DEF Special
  <2>7. ~EscPiece(s, i, k) /\ ~PairPiece(s, i, k)
    BY <2>1 DEF EscPiece, PairPiece, Single, High
  <2>8. RawPiece(s, i, k) <=> ~Special(s[i].v) /\ FormAt(Values(s), i, k)
    BY <2>1 DEF RawPiece, Plain
  <2>9. RawPiece(s, i, k) => c = CodePoint(a) /\ c # -1
    BY <1>8, <1>10, <2>3, <2>4, <2>5, <2>8
  <2>10. ~RawPiece(s, i, k) => c = -1
    BY <1>8, <1>10, <2>3, <2>4, <2>5, <2>6, <2>8
  <2> QED
    BY <2>2, <2>7, <2>9, <2>10 DEF PieceAt, a
<1>11. CASE ~Raws
  <2>1. ~RawPiece(s, i, k)
    BY <1>4, <1>11 DEF RawPiece
  <2>2. CASE i = k
    <3>1. s[i].esc
      <4>1. \A j \in i..i : j = i
        BY SMT
      <4> QED
        BY <1>4, <1>11, <2>2, <4>1 DEF RawAt
    <3>2. ~PairPiece(s, i, k) /\ n # 2 /\ n = 1
      BY <1>3, <2>2 DEF PairPiece
    <3>3. c = IF a[1] # 0 /\ a[1] \notin Surrogate THEN a[1] ELSE -1
      BY <1>9, <1>11, <3>2
    <3>4. EscPiece(s, i, k) => c = s[i].v /\ c # -1
      BY <1>5, <3>3 DEF EscPiece, Single
    <3>5. ~EscPiece(s, i, k) => c = -1
      BY <1>5, <2>2, <3>1, <3>3 DEF EscPiece, Single
    <3> QED
      BY <2>1, <3>2, <3>4, <3>5 DEF PieceAt
  <2>3. CASE k = i + 1
    <3>1. ~EscPiece(s, i, k) /\ n # 1 /\ n = 2
      BY <1>3, <2>3 DEF EscPiece
    <3>2. c = IF /\ s[i].esc /\ s[k].esc
                 /\ s[i].v \in HighSurrogate /\ s[k].v \in LowSurrogate
              THEN Joined(s[i].v, s[k].v)
              ELSE -1
      BY <1>5, <1>6, <1>9, <1>11, <2>3, <3>1
    <3>3. PairPiece(s, i, k) => c = Combined(s[i].v, s[k].v) /\ c # -1
      <4> SUFFICES ASSUME PairPiece(s, i, k)
                   PROVE  c = Combined(s[i].v, s[k].v) /\ c # -1
        OBVIOUS
      <4>1. /\ s[i].esc /\ s[k].esc
            /\ s[i].v \in HighSurrogate /\ s[k].v \in LowSurrogate
        BY DEF PairPiece, High, Low
      <4>2. /\ Combined(s[i].v, s[k].v) = Joined(s[i].v, s[k].v)
            /\ Combined(s[i].v, s[k].v) # -1
        BY <4>1, PairIs
      <4> QED
        BY <3>2, <4>1, <4>2
    <3>4. ~PairPiece(s, i, k) => c = -1
      BY <2>3, <3>2 DEF PairPiece, High, Low
    <3> QED
      BY <2>1, <3>1, <3>3, <3>4 DEF PieceAt
  <2>4. CASE i # k /\ k # i + 1
    <3>1. c = -1
      BY <1>3, <1>9, <1>11, <2>4
    <3> QED
      BY <2>1, <2>4, <3>1 DEF PieceAt, EscPiece, PairPiece
  <2> QED
    BY <2>2, <2>3, <2>4
<1> QED
  BY <1>10, <1>11

(* A surrogate is either high or low.  *)
LEMMA SurrogatesAre ==
  /\ \A x \in HighSurrogate : x \in Surrogate /\ x \notin LowSurrogate
  /\ \A x \in LowSurrogate : x \in Surrogate
  /\ \A x \in Int : x \in Surrogate => x \in HighSurrogate \/ x \in LowSurrogate
<1>1. \A x \in Int :
        /\ x \in Surrogate <=> 55296 <= x /\ x < 57344
        /\ x \in HighSurrogate <=> 55296 <= x /\ x < 56320
        /\ x \in LowSurrogate <=> 56320 <= x /\ x < 57344
  BY SurrogateIs, SMT
<1>2. /\ \A x \in HighSurrogate : x \in Int
      /\ \A x \in LowSurrogate : x \in Int
  BY SMT DEF HighSurrogate, LowSurrogate
<1> QED
  BY <1>1, <1>2, SMT

(* Two pieces that share a symbol are the same.  *)
LEMMA PiecesApart ==
  ASSUME NEW s \in Seq(Symbol),
         NEW i \in 1..Len(s), NEW k \in i..Len(s),
         NEW l \in 1..Len(s), NEW m \in l..Len(s),
         i <= m, l <= k, PieceAt(s, i, k), PieceAt(s, l, m)
  PROVE  i = l /\ k = m
<1>1. /\ i \in Nat /\ k \in Nat /\ l \in Nat /\ m \in Nat /\ i <= k /\ l <= m
      /\ i \in i..k /\ l \in l..m
      /\ i \in l..m \/ l \in i..k
  <2>1. Len(s) \in Nat
    BY SMT
  <2> QED
    BY <2>1, SMT
<1>2. PICK j \in i..k : j \in l..m
  BY <1>1
<1>3. EscPiece(s, i, k) \/ PairPiece(s, i, k) => s[j].esc
  <2>1. i = k => j = i
    BY <1>1, SMT
  <2>2. k = i + 1 => j = i \/ j = k
    BY <1>1, SMT
  <2> QED
    BY <2>1, <2>2 DEF EscPiece, PairPiece, Single, High, Low
<1>4. EscPiece(s, l, m) \/ PairPiece(s, l, m) => s[j].esc
  <2>1. l = m => j = l
    BY <1>1, <1>2, SMT
  <2>2. m = l + 1 => j = l \/ j = m
    BY <1>1, <1>2, SMT
  <2> QED
    BY <2>1, <2>2 DEF EscPiece, PairPiece, Single, High, Low
<1>5. RawPiece(s, i, k) => ~s[j].esc
  BY DEF RawPiece, RawAt
<1>6. RawPiece(s, l, m) => ~s[j].esc
  BY <1>2 DEF RawPiece, RawAt
<1>7. CASE RawPiece(s, i, k)
  <2>1. RawPiece(s, l, m)
    BY <1>4, <1>5, <1>7 DEF PieceAt
  <2>2. BytesAt(Values(s), i, k) /\ BytesAt(Values(s), l, m)
    BY <1>7, <2>1, PieceMeaning
  <2> QED
    BY <1>1, <1>7, <2>1, <2>2, FormsApart DEF RawPiece
<1>8. CASE ~RawPiece(s, i, k)
  <2>1. EscPiece(s, i, k) \/ PairPiece(s, i, k)
    BY <1>8 DEF PieceAt
  <2>2. EscPiece(s, l, m) \/ PairPiece(s, l, m)
    BY <1>3, <1>6, <2>1 DEF PieceAt
  <2>3. \A h : ~ (Single(s[h]) /\ (High(s[h]) \/ Low(s[h])))
    BY SurrogatesAre DEF Single, High, Low
  <2>4. \A h : ~ (High(s[h]) /\ Low(s[h]))
    BY SurrogatesAre DEF High, Low
  <2>5. CASE i = k /\ l = m
    BY <1>1, <2>5, SMT
  <2>6. CASE i = k /\ Single(s[i]) /\ m = l + 1 /\ High(s[l]) /\ Low(s[m])
    <3>1. i = l \/ i = m
      BY <1>1, <2>6, SMT
    <3> QED
      BY <2>3, <2>6, <3>1
  <2>7. CASE k = i + 1 /\ High(s[i]) /\ Low(s[k]) /\ l = m /\ Single(s[l])
    <3>1. l = i \/ l = k
      BY <1>1, <2>7, SMT
    <3> QED
      BY <2>3, <2>7, <3>1
  <2>8. CASE k = i + 1 /\ High(s[i]) /\ Low(s[k]) /\ m = l + 1 /\ High(s[l]) /\ Low(s[m])
    <3>1. (i = l /\ k = m) \/ i = m \/ l = k
      BY <1>1, <2>8, SMT
    <3> QED
      BY <2>4, <2>8, <3>1
  <2> QED
    BY <2>1, <2>2, <2>5, <2>6, <2>7, <2>8 DEF EscPiece, PairPiece
<1> QED
  BY <1>7, <1>8

(* The code points of symbols.  *)
SymbolPieces(s) ==
  [j \in 1..Len(s) |-> [k \in 1..Len(s) |-> Meaning(SubSeq(s, j, k))]]

(* They are the meanings of the pieces.  *)
LEMMA SymbolPiecesAre ==
  ASSUME NEW s \in Seq(Symbol), NEW i \in 1..Len(s), NEW k \in i..Len(s)
  PROVE  /\ SymbolPieces(s)[i][k] = Meaning(SubSeq(s, i, k))
         /\ SymbolPieces(s)[i][k] # -1 <=> PieceAt(s, i, k)
<1>1. k \in 1..Len(s)
  <2>1. Len(s) \in Nat
    BY SMT
  <2> QED
    BY <2>1, SMT
<1>2. SymbolPieces(s)[i][k] = Meaning(SubSeq(s, i, k))
  BY <1>1 DEF SymbolPieces
<1> QED
  BY <1>2, PieceMeaning

(* So there is at most one way to divide a string into pieces.  *)
LEMMA SymbolCuts ==
  ASSUME NEW s \in Seq(Symbol)
  PROVE  NoOverlap(Len(s), SymbolPieces(s))
<1> DEFINE n == Len(s)
<1>1. n \in Nat
  BY SMT
<1> SUFFICES ASSUME NEW i \in 1..n, NEW k \in 1..n, NEW l \in 1..n, NEW m \in 1..n,
                    i <= k, l <= m, i <= m, l <= k,
                    SymbolPieces(s)[i][k] # -1, SymbolPieces(s)[l][m] # -1
             PROVE  i = l /\ k = m
  BY DEF NoOverlap
<1>2. k \in i..n /\ m \in l..n
  BY <1>1, SMT
<1>3. PieceAt(s, i, k) /\ PieceAt(s, l, m)
  BY <1>2, SymbolPiecesAre
<1> QED
  BY <1>2, <1>3, PiecesApart

(* Readings of out, each with the code point c at the end.  *)
Adds(out, b, c) == CodePoints(out \o b) = {Then(r, c) : r \in CodePoints(out)}

(* Appending a form appends its code point.  *)
LEMMA CodePointsAppend ==
  ASSUME NEW out \in Seq(Byte), NEW b \in Seq(Byte), NEW c,
         c = CodePoint(b), c # -1
  PROVE  Adds(out, b, c)
<1> DEFINE w == out \o b
           p == Len(out)
           n == Len(w)
           cp == BytePieces(w)
<1>0. p \in Nat /\ Len(b) \in Nat /\ n = p + Len(b) /\ n \in Nat
  BY SMT
<1>1. /\ w \in Seq(Byte)
      /\ \A j \in 1..p : w[j] = out[j]
      /\ \A j \in 1..Len(b) : w[p + j] = b[j]
      /\ w \in [1..n -> Byte]
  <2>1. w \in Seq(Byte) /\ w \in [1..n -> Byte]
    <3>1. w \in Seq(Byte)
      BY ConcatProperties
    <3> HIDE DEF w
    <3> QED
      BY <3>1, SMT
  <2>2. \A j \in 1..p : w[j] = out[j]
    BY SMT
  <2>3. \A j \in 1..Len(b) : w[p + j] = b[j]
    BY SMT
  <2> QED
    BY <2>1, <2>2, <2>3
<1>2. Len(b) \in 1..4
  BY CodePointForm, FormBytes
<1> HIDE DEF w
<1>3. PICK U : Table(U, n, cp) /\ Readings(n, cp) = U[n]
  BY <1>0, TableExists
<1>4. CodePoints(w) = U[n]
  BY <1>3 DEF CodePoints, BytePieces
<1> DEFINE L == Len(b)
<1>5. /\ p \in 0..n /\ n \in 1..n /\ p < n /\ p + 1 \in 1..n /\ n \in (p + 1)..n
      /\ p + 1 \in Int /\ n \in Int /\ p + 1 <= n /\ n - (p + 1) + 1 = L
      /\ \A j \in 1..L : (p + 1) + j - 1 = p + j
      /\ \A j \in (p + 1)..n : j \in 1..n
  <2>1. p \in Nat /\ L \in 1..4 /\ n = p + L
    BY <1>0, <1>2
  <2> HIDE DEF p, L, n
  <2> QED
    BY <2>1, SMT
<1>6. SubSeq(w, p + 1, n) = b
  <2> DEFINE a == SubSeq(w, p + 1, n)
  <2>1. \A j \in (p + 1)..n : w[j] \in Byte
    BY <1>1, <1>5
  <2>2. a \in Seq(Byte)
    BY <1>5, <2>1, SubSeqProperties
  <2>3. Len(a) = n - (p + 1) + 1
    BY <1>5, <2>1, SubSeqProperties, SMT
  <2>4. \A j \in 1..(n - (p + 1) + 1) : a[j] = w[(p + 1) + j - 1]
    BY <1>5, <2>1, SubSeqProperties, SMT
  <2> HIDE DEF a
  <2>5. Len(a) = Len(b) /\ \A j \in 1..Len(b) : a[j] = b[j]
    BY <1>1, <1>5, <2>3, <2>4
  <2>6. a = b
    BY <2>2, <2>5, SeqEqual
  <2> QED
    BY <2>6 DEF a
<1>7. cp[p + 1][n] = c
  BY <1>1, <1>5, <1>6, BytePiecesAre
<1>8. NoOverlap(n, cp)
  BY <1>1, ByteCuts
<1> HIDE DEF cp, p, n
<1>9. U[n] = {Then(r, cp[p + 1][n]) : r \in U[p]}
  BY <1>0, <1>3, <1>5, <1>7, <1>8, NextCut, SMT
<1>10. U[p] = CodePoints(out)
  <2> DEFINE dp == BytePieces(out)
  <2>1. ASSUME NEW k \in 1..p, NEW j \in 1..k PROVE cp[j][k] = dp[j][k]
    <3>0. p \in Nat /\ n \in Nat /\ p < n
      BY <1>0, <1>5
    <3>1. /\ j \in Int /\ k \in Int /\ j <= k /\ j \in 1..p /\ k \in j..p
          /\ j \in 1..n /\ k \in j..n
          /\ \A h \in j..k : h \in 1..p /\ h \in 1..n
      BY <3>0, SMT
    <3>2. cp[j][k] = CodePoint(SubSeq(w, j, k))
      BY <1>1, <3>1, BytePiecesAre DEF n, cp
    <3>3. dp[j][k] = CodePoint(SubSeq(out, j, k))
      BY <3>1, BytePiecesAre DEF p
    <3>4. \A h \in j..k : w[h] = out[h]
      BY <1>1, <3>1
    <3>5. SubSeq(w, j, k) = SubSeq(out, j, k)
      <4> DEFINE a == SubSeq(w, j, k)
                 e == SubSeq(out, j, k)
      <4>1. \A h \in j..k : w[h] \in Byte /\ out[h] \in Byte
        BY <1>1, <3>1, <3>4
      <4>2. a \in Seq(Byte) /\ e \in Seq(Byte)
        BY <3>1, <4>1, SubSeqProperties
      <4>3. Len(a) = k - j + 1 /\ Len(e) = k - j + 1
        BY <3>1, <4>1, SubSeqProperties, SMT
      <4>4. \A h \in 1..(k - j + 1) : a[h] = w[j + h - 1]
        BY <3>1, <4>1, SubSeqProperties, SMT
      <4>5. \A h \in 1..(k - j + 1) : e[h] = out[j + h - 1]
        BY <3>1, <4>1, SubSeqProperties, SMT
      <4>6. \A h \in 1..(k - j + 1) : j + h - 1 \in j..k
        BY <3>1, SMT
      <4> HIDE DEF a, e
      <4>7. \A h \in 1..Len(a) : a[h] = e[h]
        BY <3>4, <4>3, <4>4, <4>5, <4>6
      <4>8. a = e
        BY <4>2, <4>3, <4>7, SeqEqual
      <4> QED
        BY <4>8 DEF a, e
    <3> QED
      BY <3>2, <3>3, <3>5
  <2> HIDE DEF dp
  <2>2. Has(U, p, dp)
    <3>1. SamePieces(cp, dp, p)
      BY <2>1 DEF SamePieces
    <3>2. n \in Nat /\ p \in 0..n /\ Table(U, n, cp)
      BY <1>0, <1>3, <1>5
    <3> QED
      BY <3>1, <3>2, TableAt
  <2> QED
    BY <2>2 DEF Has, CodePoints, BytePieces, dp, p
<1> QED
  BY <1>4, <1>7, <1>9, <1>10 DEF Adds, w

-----------------------------------------------------------------------------
(* The loop of parse_string(), round by round.  *)

(* Its first state, its states up to round m, and what comes of the last.  *)
Opened == [at |-> 1, out |-> <<>>, verdict |-> "open"]
Scanned(f, h, m) ==
  h = [k \in 0..m |-> IF k = 0 THEN Opened ELSE scan_string(f, h[k - 1])]
Outcome(x) == IF x.verdict = "closed" THEN Success(x.at, x.out) ELSE Failure

(* parse_string() is as many rounds as there are symbols, and one.  *)
LEMMA ScanRounds ==
  ASSUME NEW f, Len(f) \in Nat
  PROVE  \E h : /\ h[0] = Opened
                /\ \A k \in 1..(Len(f) + 1) : h[k] = scan_string(f, h[k - 1])
                /\ parse_string(f) = Outcome(h[Len(f) + 1])
<1> DEFINE n == Len(f) + 1
           G == {m \in Nat : \E h : Scanned(f, h, m)}
<1>1. 0 \in G
  <2> DEFINE h == [k \in 0..0 |-> Opened]
  <2>1. \A k \in 0..0 : k = 0
    BY SMT
  <2>2. h = [k \in 0..0 |-> IF k = 0 THEN Opened ELSE scan_string(f, h[k - 1])]
    BY <2>1
  <2> HIDE DEF h
  <2>3. Scanned(f, h, 0)
    BY <2>2 DEF Scanned
  <2> QED
    BY <2>3, SMT
<1>2. ASSUME NEW m \in Nat, m \in G PROVE m + 1 \in G
  <2>1. PICK g : Scanned(f, g, m)
    BY <1>2
  <2> DEFINE h == [k \in 0..(m + 1) |-> IF k = m + 1 THEN scan_string(f, g[m])
                                                      ELSE g[k]]
  <2>2. /\ m + 1 \in Nat /\ 0 # m + 1 /\ (m + 1) - 1 = m /\ m \in 0..(m + 1)
        /\ m # m + 1
        /\ \A k \in 0..(m + 1) : k # m + 1 => k \in 0..m
        /\ \A k \in 0..(m + 1) : k # 0 =>
             k - 1 \in 0..(m + 1) /\ k - 1 # m + 1
    BY SMT
  <2>3. ASSUME NEW k \in 0..(m + 1)
        PROVE  h[k] = IF k = 0 THEN Opened ELSE scan_string(f, h[k - 1])
    <3>1. k # 0 => h[k - 1] = g[k - 1]
      BY <2>2
    <3>2. CASE k = m + 1
      <4>1. h[k] = scan_string(f, g[m])
        BY <3>2
      <4> HIDE DEF h
      <4> QED
        BY <2>2, <3>1, <3>2, <4>1
    <3>3. CASE k # m + 1
      <4>1. h[k] = g[k]
        BY <3>3
      <4>2. g[k] = IF k = 0 THEN Opened ELSE scan_string(f, g[k - 1])
        BY <2>1, <2>2, <3>3 DEF Scanned
      <4> HIDE DEF h
      <4> QED
        BY <3>1, <4>1, <4>2
    <3> QED
      BY <3>2, <3>3
  <2>4. Scanned(f, h, m + 1)
    <3>1. h = [k \in 0..(m + 1) |-> h[k]]
      OBVIOUS
    <3> HIDE DEF h
    <3> QED
      BY <2>3, <3>1 DEF Scanned
  <2> QED
    BY <2>2, <2>4
<1> HIDE DEF G
<1>3. n \in G
  <2>1. n \in Nat
    BY SMT
  <2> QED
    BY <1>1, <1>2, <2>1, Induction
<1>4. \E h : Scanned(f, h, n)
  BY <1>3 DEF G
<1> DEFINE h == CHOOSE g : Scanned(f, g, n)
<1>5. Scanned(f, h, n)
  BY <1>4
<1>6. parse_string(f) = Outcome(h[n])
  BY DEF parse_string, Scanned, Opened, Outcome
<1> HIDE DEF h
<1>7. 0 \in 0..n /\ \A k \in 1..n : k \in 0..n /\ k # 0
  BY SMT
<1>8. h[0] = Opened /\ \A k \in 1..n : h[k] = scan_string(f, h[k - 1])
  BY <1>5, <1>7 DEF Scanned
<1> QED
  BY <1>6, <1>8

(* The states of the loop.  *)
State == [at : Nat, out : Seq(Byte), verdict : {"open", "closed", "refused"}]

(* The string of symbols with the quote that ends it.  *)
Quoted(s) == Append(s, Raw(Quote))

(* The symbols of a quoted string.  *)
LEMMA QuotedIs ==
  ASSUME NEW s \in Seq(Symbol)
  PROVE  /\ Quoted(s) \in Seq(Symbol) /\ Len(Quoted(s)) = Len(s) + 1
         /\ \A j \in 1..Len(s) : Quoted(s)[j] = s[j]
         /\ Quoted(s)[Len(s) + 1] = Raw(Quote)
         /\ ~Raw(Quote).esc /\ Raw(Quote).v = Quote
<1>1. Raw(Quote) \in Symbol
  <2>1. Quote \in Byte /\ Quote \in Int
    BY SMT DEF Quote, Byte
  <2> QED
    BY <2>1 DEF Raw, Symbol
<1>2. ~Raw(Quote).esc /\ Raw(Quote).v = Quote
  BY DEF Raw
<1> DEFINE q == Raw(Quote)
<1> HIDE DEF q
<1>3. q \in Symbol
  BY <1>1 DEF q
<1>4. Append(s, q) \in Seq(Symbol)
  BY <1>3, SMT
<1>5. Len(Append(s, q)) = Len(s) + 1
  BY <1>3, SMT
<1>6. \A j \in 1..Len(s) : Append(s, q)[j] = s[j]
  BY <1>3, SMT
<1>7. Append(s, q)[Len(s) + 1] = q
  BY <1>3, SMT
<1> QED
  BY <1>2, <1>4, <1>5, <1>6, <1>7 DEF Quoted, q

(* What is after the string does not change its forms.  *)
LEMMA QuotedForms ==
  ASSUME NEW s \in Seq(Symbol), NEW i \in 1..Len(s), NEW k \in i..Len(s)
  PROVE  /\ RawAt(Quoted(s), i, k) <=> RawAt(s, i, k)
         /\ FormAt(Values(Quoted(s)), i, k) <=> FormAt(Values(s), i, k)
<1> DEFINE f == Quoted(s)
           v == Values(s)
           w == Values(f)
<1>1. Len(s) \in Nat /\ i \in i..k /\ \A j \in i..k : j \in 1..Len(s) /\ j \in 1..(Len(s) + 1)
  <2>1. Len(s) \in Nat
    BY SMT
  <2> QED
    BY <2>1, SMT
<1>2. \A j \in i..k : f[j] = s[j]
  BY <1>1, QuotedIs
<1>3. \A j \in i..k : w[j] = v[j]
  <2>1. Len(f) = Len(s) + 1
    BY QuotedIs
  <2> HIDE DEF f
  <2> QED
    BY <1>1, <1>2, <2>1 DEF Values
<1> HIDE DEF f, v, w
<1>4. RawAt(f, i, k) <=> RawAt(s, i, k)
  BY <1>2 DEF RawAt
<1>5. FormAt(w, i, k) <=> FormAt(v, i, k)
  <2>1. w[i] = v[i]
    BY <1>1, <1>3
  <2>2. k > i => w[i + 1] = v[i + 1]
    <3>1. k > i => i + 1 \in i..k
      BY <1>1, SMT
    <3> QED
      BY <1>3, <3>1
  <2>3. \A j \in (i + 1)..k : w[j] = v[j]
    <3>1. \A j \in (i + 1)..k : j \in i..k
      BY <1>1, SMT
    <3> QED
      BY <1>3, <3>1
  <2> QED
    BY <2>1, <2>2, <2>3 DEF FormAt
<1> QED
  BY <1>4, <1>5 DEF f, v, w

-----------------------------------------------------------------------------
(* M has what a string means.  *)
Meant(s, M) == Table(M, Len(s), SymbolPieces(s))

(* The loop is at a cut, and has written what the symbols before it mean.  *)
Reached(s, M, x) ==
  /\ x.at \in 1..(Len(s) + 1)
  /\ Cut(x.at - 1, SymbolPieces(s))
  /\ \E r : M[x.at - 1] = {r} /\ CodePoints(x.out) = {r} /\ r.size = Len(x.out)

(* The state with more written.  *)
Written(x, at, out) == [x EXCEPT !.at = at, !.out = out]

(* It goes on with a piece and its form.  *)
LEMMA Advance ==
  ASSUME NEW s \in Seq(Symbol), NEW M, Meant(s, M),
         NEW x \in State, Reached(s, M, x),
         NEW k \in (x.at)..Len(s), PieceAt(s, x.at, k),
         NEW b \in Seq(Byte), CodePoint(b) = Meaning(SubSeq(s, x.at, k)),
         Len(b) = Width(CodePoint(b)),
         NEW y, y = Written(x, k + 1, x.out \o b)
  PROVE  y \in State /\ y.at = k + 1 /\ y.verdict = x.verdict /\ Reached(s, M, y)
<1> DEFINE i == x.at
           n == Len(s)
           c == CodePoint(b)
           cp == SymbolPieces(s)
<1>1. x.at \in Nat /\ x.out \in Seq(Byte) /\ n \in Nat
  <2>1. x.at \in Nat /\ x.out \in Seq(Byte)
    BY DEF State
  <2> QED
    BY <2>1, SMT
<1>2. /\ i \in 1..n /\ k \in 1..n /\ k + 1 \in Nat /\ k + 1 \in 1..(n + 1)
      /\ i - 1 \in 0..n /\ i - 1 < k /\ (i - 1) + 1 = i /\ (k + 1) - 1 = k
  <2>1. i \in 1..(n + 1) /\ k \in i..n /\ i \in Nat
    BY <1>1 DEF Reached
  <2> HIDE DEF i, n
  <2> QED
    BY <1>1, <2>1, SMT
<1>3. /\ x.out \o b \in Seq(Byte)
      /\ Len(x.out \o b) = Len(x.out) + Len(b)
  BY <1>1, ConcatProperties
<1>4. /\ y \in State /\ y.at = k + 1 /\ y.out = x.out \o b
      /\ y.verdict = x.verdict
  BY <1>2, <1>3 DEF State, Written
<1>5. cp[i][k] = c /\ c # -1
  BY <1>2, SymbolPiecesAre
<1>6. NoOverlap(n, cp)
  BY SymbolCuts
<1>7. Table(M, n, cp)
  BY DEF Meant
<1>8. PICK r : M[i - 1] = {r} /\ CodePoints(x.out) = {r} /\ r.size = Len(x.out)
  BY DEF Reached
<1> HIDE DEF i, n, c, cp
<1>9. /\ M[k] = {Then(q, cp[(i - 1) + 1][k]) : q \in M[i - 1]}
      /\ Cut(k, cp)
  BY <1>1, <1>2, <1>5, <1>6, <1>7, NextCut
<1>10. M[k] = {Then(r, c)}
  BY <1>2, <1>5, <1>8, <1>9
<1>11. Adds(x.out, b, c)
  BY <1>1, <1>5, CodePointsAppend DEF c
<1>12. CodePoints(y.out) = {Then(r, c)}
  BY <1>4, <1>8, <1>11 DEF Adds
<1>13. Then(r, c).size = Len(y.out)
  <2>1. Then(r, c).size = r.size + Width(c)
    BY DEF Then
  <2>2. Width(c) = Len(b)
    BY DEF c
  <2>3. Len(y.out) = Len(x.out) + Len(b)
    BY <1>3, <1>4
  <2> QED
    BY <1>8, <2>1, <2>2, <2>3
<1>14. Reached(s, M, y)
  BY <1>2, <1>4, <1>9, <1>10, <1>12, <1>13 DEF Reached, cp, n
<1> QED
  BY <1>4, <1>14

(* It stops where there is no piece, *)
LEMMA NoPiece ==
  ASSUME NEW s \in Seq(Symbol), NEW M, Meant(s, M),
         NEW x \in State, Reached(s, M, x), x.at <= Len(s),
         \A k \in (x.at)..Len(s) : ~PieceAt(s, x.at, k)
  PROVE  M[Len(s)] = {}
<1> DEFINE i == x.at
           n == Len(s)
           cp == SymbolPieces(s)
<1>1. x.at \in Nat /\ n \in Nat
  <2>1. x.at \in Nat
    BY DEF State
  <2> QED
    BY <2>1, SMT
<1>2. i \in 1..n /\ i - 1 \in 0..n /\ i - 1 < n /\ (i - 1) + 1 = i
  <2>1. i \in 1..(n + 1) /\ i <= n
    BY DEF Reached
  <2> HIDE DEF i, n
  <2> QED
    BY <1>1, <2>1, SMT DEF i
<1>3. \A k \in i..n : cp[i][k] = -1
  BY <1>2, SymbolPiecesAre
<1>4. NoOverlap(n, cp)
  BY SymbolCuts
<1>5. Table(M, n, cp) /\ Cut(i - 1, cp)
  BY DEF Meant, Reached
<1> HIDE DEF i, n, cp
<1>6. \A k \in ((i - 1) + 1)..n : cp[(i - 1) + 1][k] = -1
  BY <1>2, <1>3
<1>7. M[n] = {}
  BY <1>1, <1>2, <1>4, <1>5, <1>6, DeadEnd
<1> QED
  BY <1>7 DEF n

(* or where it has written too much.  *)
LEMMA TooLong ==
  ASSUME NEW s \in Seq(Symbol), NEW M, Meant(s, M),
         NEW x \in State, Reached(s, M, x), Len(x.out) > max_string_bytes
  PROVE  \A m \in M[Len(s)] : m.size \in Nat /\ m.size > max_string_bytes
<1> DEFINE i == x.at
           n == Len(s)
           cp == SymbolPieces(s)
           size == Len(x.out)
<1>1. x.at \in Nat /\ n \in Nat /\ size \in Nat
  <2>1. x.at \in Nat /\ x.out \in Seq(Byte)
    BY DEF State
  <2> QED
    BY <2>1, SMT
<1>2. i - 1 \in 0..n
  <2>1. i \in 1..(n + 1)
    BY DEF Reached
  <2> HIDE DEF i, n
  <2> QED
    BY <1>1, <2>1, SMT DEF i
<1>3. Table(M, n, cp) /\ Cut(i - 1, cp) /\ NoOverlap(n, cp)
  BY SymbolCuts DEF Meant, Reached
<1>4. \A m \in M[i - 1] : m.size = size
  BY DEF Reached
<1>5. max_string_bytes \in Nat
  BY JsonStringsAssumption
<1> HIDE DEF i, n, cp
<1>6. size > max_string_bytes
  OBVIOUS
<1> HIDE DEF size
<1>7. \A m \in M[i - 1] : m.size \in Nat /\ m.size >= size
  BY <1>1, <1>4, SMT
<1>8. \A m \in M[n] : m.size \in Nat /\ m.size >= size
  BY <1>1, <1>2, <1>3, <1>7, OnlyGrows
<1>9. \A m \in M[n] : m.size \in Nat /\ m.size > max_string_bytes
  BY <1>1, <1>5, <1>6, <1>8, SMT
<1> QED
  BY <1>9 DEF n

(* The state at the end, and the bytes of a form.  *)
Refused(x) == [x EXCEPT !.verdict = "refused"]
Closed(x, at) == [x EXCEPT !.at = at, !.verdict = "closed"]
Bytes(f, i, len) == [k \in 1..len |-> f[i + k - 1].v]

(* A round of the loop, case by case.  *)
Over(f, x) == x.at > Len(f) \/ Len(x.out) > max_string_bytes
BadRaw(f, i) == f[i].v < 32 \/ consume_utf8(f, i) = 0
BadEscape(f, i) == f[i].v \in {-1, 0} \/ f[i].v \in LowSurrogate
Unpaired(f, i) == i = Len(f) \/ ~f[i + 1].esc \/ f[i + 1].v \notin LowSurrogate

(* A round that appends a code point.  *)
Appends(f, x, at, cp) ==
  scan_string(f, x) = Written(x, at, append_utf8(x.out, cp))

(* The loop in these words, ...  *)
LEMMA ScanRead ==
  ASSUME NEW f, NEW x, x.verdict = "open", NEW i, i = x.at
  PROVE  /\ Over(f, x) => scan_string(f, x) = Refused(x)
         /\ ~Over(f, x) /\ ~f[i].esc =>
              /\ f[i].v = Quote => scan_string(f, x) = Closed(x, i + 1)
              /\ f[i].v # Quote /\ BadRaw(f, i) => scan_string(f, x) = Refused(x)
              /\ f[i].v # Quote /\ ~BadRaw(f, i) =>
                   scan_string(f, x) = Written(x, i + consume_utf8(f, i),
                                   x.out \o Bytes(f, i, consume_utf8(f, i)))
         /\ ~Over(f, x) /\ f[i].esc =>
              /\ BadEscape(f, i) => scan_string(f, x) = Refused(x)
              /\ ~BadEscape(f, i) /\ f[i].v \notin HighSurrogate =>
                   Appends(f, x, i + 1, f[i].v)
              /\ ~BadEscape(f, i) /\ f[i].v \in HighSurrogate /\ Unpaired(f, i) =>
                   scan_string(f, x) = Refused(x)
              /\ ~BadEscape(f, i) /\ f[i].v \in HighSurrogate /\ ~Unpaired(f, i) =>
                   Appends(f, x, i + 2, Combined(f[i].v, f[i + 1].v))
<1> USE DEF scan_string, Refused, Closed, Written, Bytes, Over, BadRaw,
            BadEscape, Unpaired, Appends
<1>1. Over(f, x) => scan_string(f, x) = Refused(x)
  OBVIOUS
<1>2. ~Over(f, x) /\ ~f[i].esc =>
        /\ f[i].v = Quote => scan_string(f, x) = Closed(x, i + 1)
        /\ f[i].v # Quote /\ BadRaw(f, i) => scan_string(f, x) = Refused(x)
        /\ f[i].v # Quote /\ ~BadRaw(f, i) =>
             scan_string(f, x) = Written(x, i + consume_utf8(f, i),
                             x.out \o Bytes(f, i, consume_utf8(f, i)))
  OBVIOUS
<1>3. ~Over(f, x) /\ f[i].esc =>
        /\ BadEscape(f, i) => scan_string(f, x) = Refused(x)
        /\ ~BadEscape(f, i) /\ f[i].v \notin HighSurrogate =>
             Appends(f, x, i + 1, f[i].v)
        /\ ~BadEscape(f, i) /\ f[i].v \in HighSurrogate /\ Unpaired(f, i) =>
             scan_string(f, x) = Refused(x)
        /\ ~BadEscape(f, i) /\ f[i].v \in HighSurrogate /\ ~Unpaired(f, i) =>
             Appends(f, x, i + 2, Combined(f[i].v, f[i + 1].v))
  OBVIOUS
<1> QED
  <2> HIDE DEF scan_string, Refused, Closed, Written, Bytes, Over, BadRaw,
               BadEscape, Unpaired, Appends
  <2> QED
    BY <1>1, <1>2, <1>3

(* ... and that it stays at its end.  *)
LEMMA ScanStops ==
  ASSUME NEW f, NEW x, x.verdict # "open"
  PROVE  scan_string(f, x) = x
BY DEF scan_string

(* The states at the end are states.  *)
LEMMA Marked ==
  ASSUME NEW x \in State, NEW at \in Nat
  PROVE  /\ Refused(x) \in State /\ Refused(x).verdict = "refused"
         /\ Closed(x, at) \in State /\ Closed(x, at).verdict = "closed"
         /\ Closed(x, at).out = x.out
BY DEF State, Refused, Closed

(* append_utf8() adds a form.  *)
LEMMA AppendAdds ==
  ASSUME NEW out, NEW cp
  PROVE  append_utf8(out, cp) = out \o Utf8(cp)
BY SMT DEF append_utf8, Utf8

(* There is no quote or backslash among the symbols but as an escape.  *)
Bare(s) == \A j \in 1..Len(s) : s[j] \notin {Raw(Quote), Raw(Backslash)}

(* A raw symbol is none of the two.  *)
LEMMA BareIs ==
  ASSUME NEW s \in Seq(Symbol), Bare(s), NEW j \in 1..Len(s), ~s[j].esc
  PROVE  s[j].v # Quote /\ s[j].v # Backslash
<1>1. s[j] \in Symbol
  BY SMT
<1>2. PICK c : c = s[j]
  OBVIOUS
<1>3. c \in [esc : BOOLEAN, v : Int] /\ c.esc = FALSE
  BY <1>1, <1>2 DEF Symbol
<1>4. c = [esc |-> c.esc, v |-> c.v]
  BY <1>3
<1>5. c.v = Quote => c = Raw(Quote)
  BY <1>3, <1>4 DEF Raw
<1>6. c.v = Backslash => c = Raw(Backslash)
  BY <1>3, <1>4 DEF Raw
<1> QED
  BY <1>2, <1>5, <1>6 DEF Bare

(* What has come of a string after k rounds.  *)
Scan(s, M, k, x) ==
  /\ x \in State
  /\ x.verdict = "open" => x.at > k /\ Reached(s, M, x)
  /\ x.verdict = "closed" =>
       /\ CodePoints(x.out) = M[Len(s)]
       /\ Len(x.out) <= max_string_bytes
       /\ \E r : M[Len(s)] = {r} /\ r.size = Len(x.out)
  /\ x.verdict = "refused" =>
       \A m \in M[Len(s)] : m.size \in Nat /\ m.size > max_string_bytes

(* A round at a raw byte copies the form that starts there.  The loop        *)
(* refuses just where there is none.                                         *)
LEMMA RawRound ==
  ASSUME NEW s \in Seq(Symbol), Bare(s), NEW M, Meant(s, M),
         NEW x \in State, Reached(s, M, x), x.verdict = "open",
         NEW i, i = x.at, i <= Len(s), ~s[i].esc,
         ~Over(Quoted(s), x), NEW y, y = scan_string(Quoted(s), x)
  PROVE  \/ y = Refused(x) /\ M[Len(s)] = {}
         \/ /\ y \in State /\ y.verdict = "open" /\ y.at > i
            /\ Reached(s, M, y)
<1> DEFINE f == Quoted(s)
           n == Len(s)
           len == consume_utf8(f, i)
           v == Values(s)
<1>1. i \in Nat /\ n \in Nat /\ x.out \in Seq(Byte)
  <2>1. i \in Nat /\ x.out \in Seq(Byte)
    BY DEF State
  <2> QED
    BY <2>1, SMT
<1>2. i \in 1..n /\ i \in 1..(n + 1)
  <2>1. i \in 1..(n + 1) /\ i <= n
    BY DEF Reached
  <2> HIDE DEF n
  <2> QED
    BY <1>1, <2>1, SMT
<1>3. /\ f \in Seq(Symbol) /\ Len(f) = n + 1 /\ f[i] = s[i]
      /\ \A j \in 1..n : f[j] = s[j]
      /\ ~f[n + 1].esc /\ f[n + 1].v = Quote
  BY <1>2, QuotedIs
<1>4. s[i] \in Symbol /\ s[i].v # Quote /\ s[i].v # Backslash
  <2>1. s[i] \in Symbol
    BY <1>2, SMT
  <2> QED
    BY <1>2, <2>1, BareIs
<1>5. /\ BadRaw(f, i) => y = Refused(x)
      /\ ~BadRaw(f, i) => y = Written(x, i + len, x.out \o Bytes(f, i, len))
  <2>1. ~f[i].esc /\ f[i].v # Quote
    BY <1>3, <1>4
  <2> HIDE DEF f
  <2>2. f[i].v # Quote /\ BadRaw(f, i) => scan_string(f, x) = Refused(x)
    BY <2>1, ScanRead DEF f
  <2>3. f[i].v # Quote /\ ~BadRaw(f, i) =>
          scan_string(f, x) = Written(x, i + consume_utf8(f, i),
                                x.out \o Bytes(f, i, consume_utf8(f, i)))
    BY <2>1, ScanRead DEF f
  <2> QED
    BY <2>1, <2>2, <2>3 DEF f
<1>6. /\ len \in 0..4
      /\ len # 0 => /\ i + len - 1 <= Len(f)
                    /\ RawAt(f, i, i + len - 1)
                    /\ FormAt(Values(f), i, i + len - 1)
      /\ \A k \in i..Len(f) :
           RawAt(f, i, k) /\ FormAt(Values(f), i, k) => k = i + len - 1
  BY <1>2, <1>3, ConsumeIs, ZenonT(60)
<1>7. ASSUME BadRaw(f, i) PROVE M[n] = {}
  <2>1. ASSUME NEW k \in i..n, PieceAt(s, i, k) PROVE FALSE
    <3>1. RawPiece(s, i, k)
      BY <2>1 DEF PieceAt, EscPiece, PairPiece, Single, High
    <3>2. ~ (s[i].v < 32)
      BY <3>1 DEF RawPiece, Plain, Special
    <3>3. len = 0
      BY <1>3, <1>7, <3>2 DEF BadRaw
    <3>4. RawAt(f, i, k) /\ FormAt(Values(f), i, k)
      BY <1>2, <3>1, QuotedForms DEF RawPiece
    <3>5. k \in i..Len(f)
      BY <1>1, <1>3, SMT
    <3>6. k = i + 0 - 1
      BY <1>6, <3>3, <3>4, <3>5
    <3> QED
      BY <1>1, <3>6, SMT
  <2> QED
    BY <2>1, NoPiece
<1>8. ASSUME ~BadRaw(f, i)
      PROVE  y \in State /\ y.verdict = "open" /\ y.at > i /\ Reached(s, M, y)
  <2> DEFINE k == i + len - 1
             b == Bytes(f, i, len)
             a == SubSeq(v, i, k)
  <2>1. len # 0 /\ ~ (s[i].v < 32)
    BY <1>3, <1>8 DEF BadRaw
  <2>2. RawAt(f, i, k) /\ FormAt(Values(f), i, k) /\ k <= n + 1
    BY <1>3, <1>6, <2>1
  <2> HIDE DEF f, n, len
  <2>3. /\ len \in Nat /\ len >= 1 /\ k \in Nat /\ i <= k /\ k + 1 = i + len
        /\ i + len > i /\ k - i + 1 = len /\ i \in Int /\ k \in Int
    BY <1>1, <1>6, <2>1, SMT
  <2>4. k # n + 1
    <3> SUFFICES ASSUME k = n + 1 PROVE FALSE
      OBVIOUS
    <3>1. k \in (i + 1)..k /\ k \in 1..(n + 1)
      <4> HIDE DEF k
      <4> QED
        BY <1>1, <1>2, <2>3, SMT
    <3>2. Values(f)[k] = f[k].v
      BY <1>3, <3>1 DEF Values
    <3>3. f[k].v \in Following
      BY <2>2, <3>1, <3>2 DEF FormAt
    <3>4. Quote \notin Following
      BY SMT DEF Quote, Following
    <3> QED
      BY <1>3, <3>3, <3>4
  <2>5. k \in i..n /\ \A j \in i..k : j \in 1..n
    <3> HIDE DEF k
    <3> QED
      BY <1>1, <1>2, <2>2, <2>3, <2>4, SMT
  <2>6. RawPiece(s, i, k)
    <3>1. RawAt(s, i, k) /\ FormAt(v, i, k)
      BY <1>2, <2>2, <2>5, QuotedForms DEF f, n
    <3>2. Plain(s[i])
      BY <1>4, <2>1 DEF Plain, Special
    <3> QED
      BY <3>1, <3>2 DEF RawPiece
  <2>7. BytesAt(v, i, k) /\ Meaning(SubSeq(s, i, k)) = CodePoint(a)
    BY <1>2, <2>5, <2>6, PieceMeaning DEF n
  <2>8. a \in Seq(Byte) /\ CodePoint(a) # -1 /\ Width(CodePoint(a)) = len
    <3>1. i \in Nat \ {0}
      BY <1>1, <1>2, SMT
    <3> QED
      BY <2>3, <2>6, <2>7, <3>1, FormAtIs DEF RawPiece
  <2>9. Len(a) = len /\ \A j \in 1..len : a[j] = v[i + j - 1]
    <3>0. i \in Int /\ k \in Int /\ i <= k
      BY <2>3
    <3>1. \A j \in i..k : v[j] \in Byte
      BY <2>7 DEF BytesAt
    <3> HIDE DEF k, v
    <3>2. Len(a) = k - i + 1
      BY <3>0, <3>1, SubSeqProperties, SMT
    <3>3. \A j \in 1..(k - i + 1) : a[j] = v[i + j - 1]
      BY <3>0, <3>1, SubSeqProperties, SMT
    <3> QED
      BY <2>3, <3>2, <3>3
  <2>10. b = a
    <3>1. \A j \in 1..len : i + j - 1 \in i..k
      <4>1. i \in Nat /\ k \in Nat /\ len \in Nat /\ k - i + 1 = len
        BY <1>1, <2>3
      <4> HIDE DEF k
      <4> QED
        BY <4>1, SMT
    <3>2. \A j \in 1..len : f[i + j - 1].v = a[j]
      BY <1>3, <2>5, <2>9, <3>1 DEF Values, n
    <3> HIDE DEF a
    <3>3. a = [j \in 1..len |-> a[j]]
      BY <2>8, <2>9, SMT
    <3> QED
      BY <3>2, <3>3 DEF Bytes
  <2>11. y = Written(x, k + 1, x.out \o a)
    BY <1>5, <1>8, <2>3, <2>10 DEF f, len
  <2>12. PieceAt(s, i, k)
    BY <2>6 DEF PieceAt
  <2> HIDE DEF a, b, k
  <2>13. y \in State /\ y.at = k + 1 /\ y.verdict = x.verdict /\ Reached(s, M, y)
    BY <2>5, <2>7, <2>8, <2>9, <2>11, <2>12, Advance DEF n
  <2> QED
    BY <2>3, <2>13
<1> QED
  BY <1>5, <1>7, <1>8

(* An escape that is no surrogate is a code point.  *)
LEMMA UnitIs ==
  ASSUME NEW u \in Unit, u \notin {-1, 0}, u \notin Surrogate
  PROVE  Scalar(u)
<1>1. u \in Int /\ -1 <= u /\ u < 65536 /\ u # -1 /\ u # 0
  BY SMT DEF Unit
<1>2. InRange(u)
  BY <1>1, SMT DEF InRange
<1> QED
  BY <1>2 DEF Scalar

(* The loop goes on.  *)
Onward(s, M, i, y) ==
  y \in State /\ y.verdict = "open" /\ y.at > i /\ Reached(s, M, y)

(* A form written by append_utf8().  *)
LEMMA EscapeAdvance ==
  ASSUME NEW s \in Seq(Symbol), NEW M, Meant(s, M),
         NEW x \in State, Reached(s, M, x), x.verdict = "open",
         NEW i, i = x.at, NEW k \in i..Len(s), i < k + 1, PieceAt(s, i, k),
         NEW c, c = Meaning(SubSeq(s, i, k)), Scalar(c),
         NEW y, y = Written(x, k + 1, append_utf8(x.out, c))
  PROVE  Onward(s, M, i, y)
<1>1. /\ Utf8(c) \in Seq(Byte) /\ CodePoint(Utf8(c)) = c
      /\ Len(Utf8(c)) = Width(c)
  BY Encodes
<1>2. append_utf8(x.out, c) = x.out \o Utf8(c)
  BY AppendAdds
<1>3. y \in State /\ y.at = k + 1 /\ y.verdict = x.verdict /\ Reached(s, M, y)
  <2> DEFINE b == Utf8(c)
  <2>1. /\ b \in Seq(Byte) /\ CodePoint(b) = Meaning(SubSeq(s, x.at, k))
        /\ Len(b) = Width(CodePoint(b))
        /\ y = Written(x, k + 1, x.out \o b)
        /\ k \in (x.at)..Len(s) /\ PieceAt(s, x.at, k)
    BY <1>1, <1>2
  <2> HIDE DEF b
  <2> QED
    BY <2>1, Advance
<1>4. i \in Nat /\ k + 1 \in Nat
  <2>1. i \in Nat
    BY DEF State
  <2> QED
    BY <2>1, SMT
<1>5. k + 1 > i
  BY <1>4, SMT
<1> QED
  BY <1>3, <1>5 DEF Onward

(* A round at an escape appends its code point, or that of a pair.  The loop *)
(* refuses just where there is neither.                                      *)
LEMMA EscapeRound ==
  ASSUME NEW s \in Seq(Symbol), NEW M, Meant(s, M),
         NEW x \in State, Reached(s, M, x), x.verdict = "open",
         NEW i, i = x.at, i <= Len(s), s[i].esc,
         ~Over(Quoted(s), x), NEW y, y = scan_string(Quoted(s), x)
  PROVE  \/ y = Refused(x) /\ M[Len(s)] = {}
         \/ /\ y \in State /\ y.verdict = "open" /\ y.at > i
            /\ Reached(s, M, y)
<1> DEFINE f == Quoted(s)
           n == Len(s)
<1>1. i \in Nat /\ n \in Nat /\ x.out \in Seq(Byte)
  <2>1. i \in Nat /\ x.out \in Seq(Byte)
    BY DEF State
  <2> QED
    BY <2>1, SMT
<1>2. /\ i \in 1..n /\ i \in i..n /\ i < i + 1
      /\ i + 1 = n + 1 \/ (i + 1 \in 1..n /\ i + 1 \in i..n)
      /\ (i + 1) + 1 = i + 2 /\ i < (i + 1) + 1 /\ i # n + 1
  <2>1. i \in 1..(n + 1) /\ i <= n
    BY DEF Reached
  <2> HIDE DEF n
  <2> QED
    BY <1>1, <2>1, SMT
<1>3. /\ f \in Seq(Symbol) /\ Len(f) = n + 1 /\ f[i] = s[i]
      /\ \A j \in 1..n : f[j] = s[j]
      /\ ~f[n + 1].esc
  BY <1>2, QuotedIs
<1>4. s[i] \in Symbol /\ s[i].v \in Unit /\ s[i].v \in Int
  <2>1. s[i] \in Symbol
    BY <1>2, SMT
  <2> QED
    BY <2>1, SymbolIs
<1>5. f[i].esc /\ f[i].v = s[i].v
  BY <1>3
<1> HIDE DEF f
<1>0. ~Over(f, x) /\ f[i].esc
  BY <1>5 DEF f
<1>11. ~BadEscape(f, i) /\ f[i].v \notin HighSurrogate =>
         Appends(f, x, i + 1, f[i].v)
  BY <1>0, ScanRead
<1>12. ~BadEscape(f, i) /\ f[i].v \in HighSurrogate /\ ~Unpaired(f, i) =>
         Appends(f, x, i + 2, Combined(f[i].v, f[i + 1].v))
  BY <1>0, ScanRead
<1>13. BadEscape(f, i) => scan_string(f, x) = Refused(x)
  BY <1>5, ScanRead DEF f
<1>14. ~BadEscape(f, i) /\ f[i].v \in HighSurrogate /\ Unpaired(f, i) =>
         scan_string(f, x) = Refused(x)
  BY <1>5, ScanRead DEF f
<1>15. y = scan_string(f, x)
  BY DEF f
<1>6. \A k \in i..n : ~RawPiece(s, i, k)
  <2>1. \A k \in i..n : i \in i..k
    BY <1>1, SMT
  <2> QED
    BY <2>1 DEF RawPiece, RawAt
<1>7. ASSUME BadEscape(f, i) PROVE y = Refused(x) /\ M[n] = {}
  <2>1. y = Refused(x)
    BY <1>7, <1>13, <1>15
  <2>2. s[i].v \in {-1, 0} \/ s[i].v \in LowSurrogate
    BY <1>5, <1>7 DEF BadEscape
  <2>3. ~Single(s[i]) /\ ~High(s[i])
    <3>1. s[i].v \in {-1, 0} => s[i].v \notin HighSurrogate
      <4>1. /\ -1 \in HighSurrogate <=> 55296 <= -1 /\ -1 < 56320
            /\ 0 \in HighSurrogate <=> 55296 <= 0 /\ 0 < 56320
        <5>1. \A u \in Int : u \in HighSurrogate <=> 55296 <= u /\ u < 56320
          BY SurrogateIs, SMT
        <5> QED
          BY <5>1, SMT
      <4>2. -1 \notin HighSurrogate /\ 0 \notin HighSurrogate
        BY <4>1, SMT
      <4> QED
        BY <4>2
    <3> QED
      BY <2>2, <3>1, SurrogatesAre DEF Single, High
  <2>4. \A k \in i..n : ~PieceAt(s, i, k)
    BY <1>6, <2>3 DEF PieceAt, EscPiece, PairPiece
  <2> QED
    BY <2>1, <2>4, NoPiece
<1>8. ASSUME ~BadEscape(f, i), s[i].v \notin HighSurrogate
      PROVE  y \in State /\ y.verdict = "open" /\ y.at > i /\ Reached(s, M, y)
  <2>1. y = Written(x, i + 1, append_utf8(x.out, s[i].v))
    BY <1>5, <1>8, <1>11, <1>15 DEF Appends
  <2>2. s[i].v \notin {-1, 0} /\ s[i].v \notin Surrogate
    BY <1>4, <1>5, <1>8, SurrogatesAre DEF BadEscape
  <2>3. Scalar(s[i].v)
    BY <1>4, <2>2, UnitIs
  <2>4. EscPiece(s, i, i)
    BY <2>2 DEF EscPiece, Single
  <2>5. PieceAt(s, i, i) /\ Meaning(SubSeq(s, i, i)) = s[i].v
    <3>1. PieceAt(s, i, i)
      BY <2>4 DEF PieceAt
    <3> QED
      BY <1>2, <2>4, <3>1, PieceMeaning
  <2>6. PICK c : c = s[i].v
    OBVIOUS
  <2>7. /\ c = Meaning(SubSeq(s, i, i)) /\ Scalar(c)
        /\ y = Written(x, i + 1, append_utf8(x.out, c))
    BY <2>1, <2>3, <2>5, <2>6
  <2>8. PICK k : k = i
    OBVIOUS
  <2>9. /\ k \in i..Len(s) /\ i < k + 1 /\ PieceAt(s, i, k)
        /\ c = Meaning(SubSeq(s, i, k)) /\ Scalar(c)
        /\ y = Written(x, k + 1, append_utf8(x.out, c))
    BY <1>2, <2>5, <2>7, <2>8
  <2>10. Onward(s, M, i, y)
    BY <2>9, EscapeAdvance
  <2> QED
    BY <2>10 DEF Onward
<1>9. ASSUME ~BadEscape(f, i), s[i].v \in HighSurrogate, Unpaired(f, i)
      PROVE  y = Refused(x) /\ M[n] = {}
  <2>1. y = Refused(x)
    BY <1>5, <1>9, <1>14, <1>15
  <2>2. ~Single(s[i])
    BY <1>9, SurrogatesAre DEF Single
  <2>3. ASSUME NEW k \in i..n, PieceAt(s, i, k) PROVE FALSE
    <3>1. k = i + 1 /\ Low(s[k])
      BY <1>6, <2>2, <2>3 DEF PieceAt, EscPiece, PairPiece
    <3>2. k \in 1..n
      BY <1>1, <1>2, SMT
    <3>3. f[i + 1] = s[k] /\ i # Len(f)
      BY <1>2, <1>3, <3>1, <3>2
    <3> QED
      BY <1>9, <3>1, <3>3 DEF Unpaired, Low
  <2> QED
    BY <2>1, <2>3, NoPiece
<1>10. ASSUME ~BadEscape(f, i), s[i].v \in HighSurrogate, ~Unpaired(f, i)
       PROVE  y \in State /\ y.verdict = "open" /\ y.at > i /\ Reached(s, M, y)
  <2>1. i + 1 \in 1..n /\ i + 1 \in i..n /\ f[i + 1] = s[i + 1]
    BY <1>2, <1>3, <1>10 DEF Unpaired
  <2> DEFINE c == Combined(s[i].v, s[i + 1].v)
  <2>2. y = Written(x, i + 2, append_utf8(x.out, c))
    BY <1>5, <1>10, <1>12, <1>15, <2>1 DEF Appends
  <2>3. High(s[i]) /\ Low(s[i + 1])
    BY <1>10, <2>1 DEF Unpaired, High, Low
  <2>4. PairPiece(s, i, i + 1)
    BY <2>3 DEF PairPiece
  <2>5. PieceAt(s, i, i + 1) /\ Meaning(SubSeq(s, i, i + 1)) = c
    <3>1. PieceAt(s, i, i + 1)
      BY <2>4 DEF PieceAt
    <3> QED
      BY <1>2, <2>1, <2>4, <3>1, PieceMeaning
  <2>6. Scalar(c)
    BY <2>3, PairIs DEF High, Low
  <2> HIDE DEF c
  <2>7. y = Written(x, (i + 1) + 1, append_utf8(x.out, c))
    BY <1>2, <2>2
  <2>8. PICK k : k = i + 1
    OBVIOUS
  <2>9. /\ k \in i..Len(s) /\ i < k + 1 /\ PieceAt(s, i, k)
        /\ c = Meaning(SubSeq(s, i, k)) /\ Scalar(c)
        /\ y = Written(x, k + 1, append_utf8(x.out, c))
    BY <1>2, <2>1, <2>5, <2>6, <2>7, <2>8
  <2>10. Onward(s, M, i, y)
    BY <2>9, EscapeAdvance
  <2> QED
    BY <2>10 DEF Onward
<1> QED
  BY <1>7, <1>8, <1>9, <1>10

(* So every round keeps what the loop has come to.  *)
LEMMA ParseRound ==
  ASSUME NEW s \in Seq(Symbol), Bare(s), NEW M, Meant(s, M),
         NEW k \in Nat, NEW x, Scan(s, M, k, x),
         NEW y, y = scan_string(Quoted(s), x)
  PROVE  Scan(s, M, k + 1, y)
<1> DEFINE f == Quoted(s)
           n == Len(s)
           i == x.at
<1>1. x \in State /\ i \in Nat /\ x.out \in Seq(Byte)
      /\ x.verdict \in {"open", "closed", "refused"}
  BY DEF Scan, State
<1>2. CASE x.verdict # "open"
  <2>1. y = x
    BY <1>2, ScanStops
  <2> QED
    BY <1>2, <2>1 DEF Scan
<1>3. CASE x.verdict = "open"
  <2>1. i > k /\ Reached(s, M, x)
    BY <1>3 DEF Scan
  <2>2. n \in Nat /\ i \in 1..(n + 1) /\ Len(x.out) \in Nat
    <3>1. n \in Nat /\ Len(x.out) \in Nat
      BY <1>1, SMT
    <3> QED
      BY <2>1, <3>1 DEF Reached
  <2>3. Len(f) = n + 1 /\ (i = n + 1 => ~f[i].esc /\ f[i].v = Quote)
    BY QuotedIs
  <2>4. i + 1 \in Nat /\ ~ (i > n + 1) /\ (i = n + 1 \/ i <= n) /\ (n + 1) - 1 = n
    <3> HIDE DEF i, n
    <3> QED
      BY <1>1, <2>2, SMT
  <2>5. /\ Refused(x) \in State /\ Refused(x).verdict = "refused"
        /\ Closed(x, i + 1) \in State /\ Closed(x, i + 1).verdict = "closed"
        /\ Closed(x, i + 1).out = x.out
    BY <1>1, <2>4, Marked
  <2>6. "open" # "closed" /\ "open" # "refused" /\ "closed" # "refused"
    OBVIOUS
  <2>7. ASSUME Over(f, x) PROVE Scan(s, M, k + 1, y)
    <3>1. y = Refused(x)
      BY <1>3, <2>7, ScanRead
    <3>2. Len(x.out) > max_string_bytes
      BY <2>3, <2>4, <2>7 DEF Over
    <3>3. \A m \in M[n] : m.size \in Nat /\ m.size > max_string_bytes
      BY <1>1, <2>1, <3>2, TooLong
    <3> QED
      BY <2>5, <2>6, <3>1, <3>3 DEF Scan
  <2>8. ASSUME ~Over(f, x), i = n + 1 PROVE Scan(s, M, k + 1, y)
    <3>1. y = Closed(x, i + 1)
      BY <1>3, <2>3, <2>8, ScanRead, ZenonT(60)
    <3>2. PICK r : M[i - 1] = {r} /\ CodePoints(x.out) = {r} /\ r.size = Len(x.out)
      BY <2>1 DEF Reached
    <3>3. i - 1 = n
      BY <2>4, <2>8
    <3>4. Len(x.out) <= max_string_bytes
      <4>1. ~ (Len(x.out) > max_string_bytes)
        BY <2>8 DEF Over
      <4> QED
        BY <2>2, <4>1, JsonStringsAssumption, SMT
    <3> QED
      BY <2>5, <2>6, <3>1, <3>2, <3>3, <3>4 DEF Scan
  <2>9. ASSUME ~Over(f, x), i <= n PROVE Scan(s, M, k + 1, y)
    <3>1. \/ y = Refused(x) /\ M[n] = {}
          \/ /\ y \in State /\ y.verdict = "open" /\ y.at > i
             /\ Reached(s, M, y)
      <4>1. CASE s[i].esc
        BY <1>1, <1>3, <2>1, <2>9, <4>1, EscapeRound
      <4>2. CASE ~s[i].esc
        BY <1>1, <1>3, <2>1, <2>9, <4>2, RawRound
      <4> QED
        BY <4>1, <4>2
    <3>2. CASE y = Refused(x) /\ M[n] = {}
      BY <2>5, <2>6, <3>2 DEF Scan
    <3>3. CASE y \in State /\ y.verdict = "open" /\ y.at > i /\ Reached(s, M, y)
      <4>1. y.at \in Nat
        BY <3>3 DEF State
      <4>2. y.at > k + 1
        <5> HIDE DEF i
        <5> QED
          BY <1>1, <2>1, <3>3, <4>1, SMT
      <4> QED
        BY <2>6, <3>3, <4>2 DEF Scan
    <3> QED
      BY <3>1, <3>2, <3>3
  <2> QED
    BY <2>4, <2>7, <2>8, <2>9
<1> QED
  BY <1>2, <1>3

(* parse_string() finds what a string means.  *)
LEMMA ParseExact ==
  ASSUME NEW s \in Seq(Symbol), Bare(s), NEW result, result = parse_string(Quoted(s)),
         NEW meanings,
         meanings = {m \in Meanings(s) : m.size <= max_string_bytes}
  PROVE  /\ result.ok <=> meanings # {}
         /\ result.ok => CodePoints(result.value) = meanings
<1> DEFINE f == Quoted(s)
           n == Len(s)
<1>1. n \in Nat /\ Len(f) = n + 1 /\ Len(f) \in Nat /\ Len(f) + 1 = n + 2
  <2>1. n \in Nat
    BY SMT
  <2>2. Len(f) = n + 1
    BY QuotedIs
  <2> HIDE DEF f, n
  <2> QED
    BY <2>1, <2>2, SMT
<1>2. PICK M : Table(M, n, SymbolPieces(s)) /\ Readings(n, SymbolPieces(s)) = M[n]
  BY <1>1, TableExists
<1>3. Meant(s, M) /\ Meanings(s) = M[n]
  BY <1>2 DEF Meant, Meanings, SymbolPieces
<1> HIDE DEF f
<1>4. PICK h : /\ h[0] = Opened
               /\ \A k \in 1..(Len(f) + 1) : h[k] = scan_string(f, h[k - 1])
               /\ parse_string(f) = Outcome(h[Len(f) + 1])
  BY <1>1, ScanRounds
<1> HIDE DEF n
<1> DEFINE N == n + 2
           G == {k \in Nat : k <= N => Scan(s, M, k, h[k])}
<1>5. 0 \in G
  <2>1. Opened \in State /\ Opened.verdict = "open" /\ Opened.at = 1 /\ Opened.out = <<>>
    <3>1. <<>> \in Seq(Byte)
      BY SMT
    <3>2. 1 \in Nat
      BY SMT
    <3> QED
      BY <3>1, <3>2 DEF Opened, State
  <2>2. 1 \in 1..(Len(s) + 1) /\ 1 - 1 = 0 /\ 1 > 0
    BY <1>1, SMT DEF n
  <2>3. M[0] = {Start}
    BY <1>1, <1>2, TableIs
  <2>4. CodePoints(<<>>) = {Start} /\ Len(<<>>) = 0
    <3>1. Len(<<>>) = 0 /\ 0 \in Nat
      BY SMT
    <3>2. PICK U : Table(U, 0, BytePieces(<<>>)) /\ Readings(0, BytePieces(<<>>)) = U[0]
      BY <3>1, TableExists
    <3>3. U[0] = {Start}
      BY <3>1, <3>2, TableIs
    <3> QED
      BY <3>1, <3>2, <3>3 DEF CodePoints, BytePieces
  <2>5. Start.size = 0
    BY DEF Start
  <2>6. Reached(s, M, Opened)
    BY <2>1, <2>2, <2>3, <2>4, <2>5 DEF Reached, Cut
  <2>7. Scan(s, M, 0, Opened)
    BY <2>1, <2>2, <2>6 DEF Scan
  <2> QED
    BY <1>4, <2>7, SMT
<1>6. ASSUME NEW k \in Nat, k \in G PROVE k + 1 \in G
  <2> SUFFICES ASSUME k + 1 <= N PROVE Scan(s, M, k + 1, h[k + 1])
    BY SMT
  <2>1. k <= N /\ k + 1 \in 1..N /\ (k + 1) - 1 = k
    BY <1>1, SMT
  <2>2. Scan(s, M, k, h[k])
    BY <1>6, <2>1
  <2>3. h[k + 1] = scan_string(f, h[k])
    BY <1>1, <1>4, <2>1
  <2> QED
    BY <1>3, <2>2, <2>3, ParseRound DEF f
<1>7. Scan(s, M, N, h[N])
  <2>1. N \in Nat /\ N <= N
    BY <1>1, SMT
  <2> HIDE DEF G
  <2>2. N \in G
    BY <1>5, <1>6, <2>1, Induction
  <2> QED
    BY <2>1, <2>2 DEF G
<1> DEFINE x == h[N]
<1>8. result = Outcome(x)
  BY <1>1, <1>4 DEF f
<1> HIDE DEF x
<1>9. x.verdict # "open"
  <2> SUFFICES ASSUME x.verdict = "open" PROVE FALSE
    OBVIOUS
  <2>1. x.at > N /\ x.at \in 1..(n + 1)
    BY <1>7 DEF Scan, Reached, x, n
  <2> QED
    BY <1>1, <2>1, SMT
<1>10. CASE x.verdict = "closed"
  <2>1. result.ok /\ result.value = x.out
    <3>1. result = Success(x.at, x.out)
      BY <1>8, <1>10 DEF Outcome
    <3>2. Success(x.at, x.out).ok /\ Success(x.at, x.out).value = x.out
      BY DEF Success
    <3> QED
      BY <3>1, <3>2
  <2>2. CodePoints(x.out) = M[n] /\ Len(x.out) <= max_string_bytes
    BY <1>7, <1>10 DEF Scan, x, n
  <2>3. PICK r : M[n] = {r} /\ r.size = Len(x.out)
    BY <1>7, <1>10 DEF Scan, x, n
  <2>4. meanings = {r}
    BY <1>3, <2>2, <2>3
  <2> QED
    BY <2>1, <2>2, <2>3, <2>4
<1>11. CASE x.verdict = "refused"
  <2>1. ~result.ok
    <3>1. result = Failure
      BY <1>8, <1>11 DEF Outcome
    <3>2. ~Failure.ok
      BY DEF Failure
    <3> QED
      BY <3>1, <3>2
  <2>2. \A m \in M[n] : m.size \in Nat /\ m.size > max_string_bytes
    BY <1>7, <1>11 DEF Scan, x, n
  <2>3. meanings = {}
    <3>1. ASSUME NEW m \in M[n] PROVE ~ (m.size <= max_string_bytes)
      <4>1. PICK z \in Nat : z = m.size
        BY <2>2
      <4>2. z > max_string_bytes
        BY <2>2, <4>1
      <4>3. ~ (z <= max_string_bytes)
        BY <4>2, JsonStringsAssumption, SMT
      <4> QED
        BY <4>1, <4>3
    <3> QED
      BY <1>3, <3>1
  <2> QED
    BY <2>1, <2>3
<1> QED
  BY <1>7, <1>9, <1>10, <1>11 DEF Scan, State, x

-----------------------------------------------------------------------------
(* What is written, and read again.  *)

(* What escape() escapes is a form of one byte.  *)
LEMMA SpecialIs ==
  /\ \A c \in Byte : Special(c) => c < 128
  /\ \A c \in Following : ~Special(c)
  /\ \A c \in Byte : \A m \in 1..4 : Special(c) /\ c \in Lead(m) => m = 1
<1>1. \A c \in Byte : Special(c) => c < 128
  BY SMT DEF Special, Byte, Quote, Backslash
<1>2. \A c \in Following : ~Special(c)
  BY SMT DEF Special, Following, Quote, Backslash
<1>3. \A c \in Byte : c < 128 => c \in Int /\ c \in Lead(1)
  BY SMT DEF Lead, Byte
<1>4. 1 \in 1..4
  BY SMT
<1> QED
  BY <1>1, <1>2, <1>3, <1>4, LeadsDiffer

(* What escape() writes has the same values.  *)
LEMMA EscapeIs ==
  ASSUME NEW bytes \in Seq(Byte)
  PROVE  /\ escape(bytes) \in Seq(Symbol) /\ Len(escape(bytes)) = Len(bytes)
         /\ \A j \in 1..Len(bytes) :
              /\ escape(bytes)[j].v = bytes[j]
              /\ escape(bytes)[j].esc <=> Special(bytes[j])
         /\ Values(escape(bytes)) = bytes
<1> DEFINE n == Len(bytes)
           t == escape(bytes)
<1>1. n \in Nat /\ bytes \in [1..n -> Byte] /\ bytes = [j \in 1..n |-> bytes[j]]
  BY SMT
<1>2. t = [j \in 1..n |-> IF Special(bytes[j]) THEN Esc(bytes[j]) ELSE Raw(bytes[j])]
  BY DEF escape, Special
<1>3. \A c \in Byte : c \in Int /\ c \in Unit
  BY SMT DEF Byte, Unit
<1>4. \A c \in Byte : Esc(c) \in Symbol /\ Raw(c) \in Symbol
  BY <1>3 DEF Esc, Raw, Symbol
<1> HIDE DEF t, n
<1>5. t \in [1..n -> Symbol]
  BY <1>1, <1>2, <1>4
<1>6. t \in Seq(Symbol) /\ Len(t) = n
  BY <1>1, <1>5, SMT
<1>7. ASSUME NEW j \in 1..n
      PROVE  t[j].v = bytes[j] /\ (t[j].esc <=> Special(bytes[j]))
  <2>1. CASE Special(bytes[j])
    BY <1>2, <2>1 DEF Esc
  <2>2. CASE ~Special(bytes[j])
    BY <1>2, <2>2 DEF Raw
  <2> QED
    BY <2>1, <2>2
<1>8. Values(t) = bytes
  BY <1>1, <1>6, <1>7 DEF Values
<1> QED
  BY <1>6, <1>7, <1>8 DEF t, n

(* The loop is at a cut of the bytes, and has copied those before it.  *)
Copied(bytes, x) ==
  /\ x.at \in 1..(Len(bytes) + 1)
  /\ x.out = SubSeq(bytes, 1, x.at - 1)
  /\ Cut(x.at - 1, BytePieces(bytes))

(* What has come of written bytes after k rounds.  *)
Again(bytes, k, x) ==
  /\ x \in State
  /\ x.verdict = "open" => x.at > k /\ Copied(bytes, x)
  /\ x.verdict = "closed" => x.out = bytes /\ Len(bytes) <= max_string_bytes
  /\ x.verdict = "refused" => Len(bytes) > max_string_bytes

(* A part of some bytes, ...  *)
LEMMA Parts ==
  ASSUME NEW b \in Seq(Byte), NEW i \in 1..(Len(b) + 1), NEW k \in (i - 1)..Len(b)
  PROVE  /\ SubSeq(b, i, k) \in Seq(Byte) /\ Len(SubSeq(b, i, k)) = k - i + 1
         /\ \A j \in 1..(k - i + 1) : SubSeq(b, i, k)[j] = b[i + j - 1]
<1>1. Len(b) \in Nat /\ b \in [1..Len(b) -> Byte]
  BY SMT
<1>2. i \in Int /\ k \in Int /\ (i <= k \/ k - i + 1 = 0) /\ \A j \in i..k : j \in 1..Len(b)
  BY <1>1, SMT
<1>3. \A j \in i..k : b[j] \in Byte
  BY <1>1, <1>2
<1>4. SubSeq(b, i, k) \in Seq(Byte)
  BY <1>2, <1>3, SubSeqProperties
<1>5. Len(SubSeq(b, i, k)) = k - i + 1
  <2>1. Len(SubSeq(b, i, k)) = IF i <= k THEN k - i + 1 ELSE 0
    BY <1>2, <1>3, SubSeqProperties, SMT
  <2> QED
    BY <1>2, <2>1
<1>6. \A j \in 1..(k - i + 1) : SubSeq(b, i, k)[j] = b[i + j - 1]
  BY <1>2, <1>3, SubSeqProperties, SMT
<1> QED
  BY <1>4, <1>5, <1>6

(* ... and two parts in a row.  *)
LEMMA JoinParts ==
  ASSUME NEW b \in Seq(Byte), NEW i \in 1..Len(b), NEW k \in i..Len(b)
  PROVE  SubSeq(b, 1, i - 1) \o SubSeq(b, i, k) = SubSeq(b, 1, k)
<1> DEFINE p == SubSeq(b, 1, i - 1)
           q == SubSeq(b, i, k)
           r == SubSeq(b, 1, k)
           m == i - 1
           l == k - i + 1
<1>1. /\ Len(b) \in Nat /\ 1 \in 1..(Len(b) + 1) /\ m \in (1 - 1)..Len(b)
      /\ i \in 1..(Len(b) + 1) /\ k \in (i - 1)..Len(b) /\ k \in (1 - 1)..Len(b)
      /\ m \in Nat /\ l \in Nat /\ k \in Nat /\ m + l = k /\ m - 1 + 1 = m /\ k - 1 + 1 = k
      /\ i = m + 1
  <2>1. Len(b) \in Nat
    BY SMT
  <2> QED
    BY <2>1, SMT
<1>2. p \in Seq(Byte) /\ Len(p) = m /\ \A j \in 1..m : p[j] = b[1 + j - 1]
  <2>1. /\ p \in Seq(Byte) /\ Len(p) = m - 1 + 1
        /\ \A j \in 1..(m - 1 + 1) : p[j] = b[1 + j - 1]
    BY <1>1, Parts
  <2> QED
    BY <1>1, <2>1
<1>3. q \in Seq(Byte) /\ Len(q) = l /\ \A j \in 1..l : q[j] = b[i + j - 1]
  BY <1>1, Parts
<1>4. r \in Seq(Byte) /\ Len(r) = k /\ \A j \in 1..k : r[j] = b[1 + j - 1]
  <2>1. /\ r \in Seq(Byte) /\ Len(r) = k - 1 + 1
        /\ \A j \in 1..(k - 1 + 1) : r[j] = b[1 + j - 1]
    BY <1>1, Parts
  <2> QED
    BY <1>1, <2>1
<1> HIDE DEF p, q, r, m, l
<1>5. /\ p \o q \in Seq(Byte) /\ Len(p \o q) = k
      /\ \A j \in 1..k : (p \o q)[j] = IF j <= m THEN p[j] ELSE q[j - m]
  <2>1. /\ p \o q \in Seq(Byte) /\ Len(p \o q) = Len(p) + Len(q)
        /\ \A j \in 1..(Len(p) + Len(q)) :
             (p \o q)[j] = IF j <= Len(p) THEN p[j] ELSE q[j - Len(p)]
    BY <1>2, <1>3, ConcatProperties
  <2> QED
    BY <1>1, <1>2, <1>3, <2>1
<1>6. ASSUME NEW j \in 1..k PROVE (p \o q)[j] = r[j]
  <2>1. 1 + j - 1 = j
    BY SMT
  <2>2. CASE j <= m
    <3>1. j \in 1..m
      BY <1>1, <2>2, SMT
    <3> QED
      BY <1>2, <1>4, <1>5, <2>1, <2>2, <3>1
  <2>3. CASE ~ (j <= m)
    <3>1. j - m \in 1..l /\ i + (j - m) - 1 = j
      BY <1>1, <2>3, SMT
    <3> QED
      BY <1>3, <1>4, <1>5, <2>1, <2>3, <3>1
  <2> QED
    BY <2>2, <2>3
<1>7. p \o q = r
  BY <1>4, <1>5, <1>6, SeqEqual
<1> QED
  BY <1>7 DEF p, q, r, m

(* A round copies the bytes up to k.  *)
Copies(bytes, x, y, k) ==
  y = Written(x, k + 1, x.out \o SubSeq(bytes, x.at, k))

(* A round copies a form, whether it was escaped or not.  *)
LEMMA CopyRound ==
  ASSUME NEW bytes \in Seq(Byte), \A j \in 1..Len(bytes) : bytes[j] # 0,
         NEW x \in State, Copied(bytes, x), x.verdict = "open",
         NEW i, i = x.at, NEW k \in i..Len(bytes), FormAt(bytes, i, k),
         ~Over(Quoted(escape(bytes)), x),
         NEW y, y = scan_string(Quoted(escape(bytes)), x)
  PROVE  Copies(bytes, x, y, k)
<1> DEFINE n == Len(bytes)
           t == escape(bytes)
           f == Quoted(t)
           c == bytes[i]
           len == consume_utf8(f, i)
<1>1. n \in Nat /\ i \in Nat /\ bytes \in [1..n -> Byte]
  <2>1. i \in Nat
    BY DEF State
  <2> QED
    BY <2>1, SMT
<1>2. /\ i \in 1..n /\ k \in Nat /\ i \in i..k /\ i <= k /\ i \in 1..(n + 1)
      /\ k \in (i - 1)..n
      /\ \A j \in i..k : j \in 1..n /\ (j = i \/ j \in (i + 1)..k)
  <2>1. i \in 1..(n + 1)
    BY DEF Copied
  <2>2. k \in i..n
    OBVIOUS
  <2> HIDE DEF n
  <2> QED
    BY <1>1, <2>1, <2>2, SMT
<1>3. /\ t \in Seq(Symbol) /\ Len(t) = n /\ Values(t) = bytes
      /\ \A j \in 1..n : t[j].v = bytes[j] /\ (t[j].esc <=> Special(bytes[j]))
  BY EscapeIs
<1> HIDE DEF t
<1>4. /\ f \in Seq(Symbol) /\ Len(f) = n + 1 /\ \A j \in 1..n : f[j] = t[j]
  BY <1>3, QuotedIs
<1>5. f[i].v = c /\ (f[i].esc <=> Special(c)) /\ c \in Byte /\ c # 0
  BY <1>1, <1>2, <1>3, <1>4
<1>6. ~Over(f, x) /\ y = scan_string(f, x)
  BY DEF f, t
<1>7. c \in Lead(k - i + 1) /\ k - i + 1 \in 1..4
  BY DEF FormAt
<1> HIDE DEF f, len
<1>8. CASE Special(c)
  <2>1. PICK u \in Nat : u = c /\ u < 128 /\ u # 0
    BY <1>5, <1>8, SpecialIs, ByteIs
  <2>2. PICK m \in 1..4 : m = k - i + 1
    BY <1>7
  <2>3. u \in Lead(m)
    BY <1>7, <2>1, <2>2
  <2>4. m = 1
    BY <1>5, <1>8, <2>1, <2>3, SpecialIs
  <2>5. k = i
    BY <1>1, <1>2, <2>2, <2>4, SMT
  <2>6. ~BadEscape(f, i) /\ f[i].v \notin HighSurrogate
    <3>1. u \notin LowSurrogate /\ u \notin HighSurrogate /\ u \notin {-1, 0}
      <4>1. \A z \in Int : /\ z \in HighSurrogate <=> 55296 <= z /\ z < 56320
                           /\ z \in LowSurrogate <=> 56320 <= z /\ z < 57344
        BY SurrogateIs, SMT
      <4> QED
        BY <2>1, <4>1, SMT
    <3>2. f[i].v = u
      BY <1>5, <2>1
    <3> QED
      BY <3>1, <3>2 DEF BadEscape
  <2>7. Appends(f, x, i + 1, f[i].v)
    BY <1>5, <1>6, <1>8, <2>6, ScanRead
  <2>8. y = Written(x, k + 1, x.out \o Utf8(u))
    <3>1. append_utf8(x.out, u) = x.out \o Utf8(u)
      BY AppendAdds
    <3> QED
      BY <1>5, <1>6, <2>1, <2>5, <2>7, <3>1 DEF Appends
  <2>9. Utf8(u) = <<u>>
    BY <2>1, SMT DEF Utf8
  <2>10. SubSeq(bytes, i, k) = <<u>>
    <3> DEFINE q == SubSeq(bytes, i, k)
    <3>1. q \in Seq(Byte) /\ Len(q) = k - i + 1 /\ \A j \in 1..(k - i + 1) : q[j] = bytes[i + j - 1]
      BY <1>2, Parts
    <3>2. k - i + 1 = 1 /\ 1 \in 1..1 /\ i + 1 - 1 = i
      BY <1>1, <2>2, <2>4, SMT
    <3>3. Len(q) = 1 /\ q[1] = u
      BY <2>1, <3>1, <3>2
    <3> HIDE DEF q
    <3>4. q = <<u>>
      BY <3>1, <3>3, SMT
    <3> QED
      BY <3>4 DEF q
  <2> QED
    BY <2>8, <2>9, <2>10 DEF Copies
<1>9. CASE ~Special(c)
  <2>1. RawAt(t, i, k)
    <3> SUFFICES ASSUME NEW j \in i..k PROVE ~t[j].esc
      BY DEF RawAt
    <3>1. ~Special(bytes[j])
      <4>1. CASE j = i
        BY <1>9, <4>1
      <4>2. CASE j \in (i + 1)..k
        BY <4>2, SpecialIs DEF FormAt
      <4> QED
        BY <1>2, <4>1, <4>2
    <3> QED
      BY <1>2, <1>3, <3>1
  <2>2. RawAt(f, i, k) /\ FormAt(Values(f), i, k)
    BY <1>2, <1>3, <2>1, QuotedForms DEF f
  <2>3. k \in i..Len(f) /\ i \in 1..Len(f)
    BY <1>1, <1>2, <1>4, SMT
  <2>4. len \in 0..4 /\ k = i + len - 1
    BY <1>4, <1>5, <1>9, <2>2, <2>3, ConsumeIs DEF len
  <2>5. len # 0 /\ i + len = k + 1 /\ len = k - i + 1
    BY <1>1, <1>2, <2>4, SMT
  <2>6. ~BadRaw(f, i) /\ f[i].v # Quote
    BY <1>5, <1>9, <2>5 DEF BadRaw, Special, len
  <2>7. y = Written(x, i + len, x.out \o Bytes(f, i, len))
    <3>1. ~f[i].esc
      BY <1>5, <1>9
    <3>2. f[i].v # Quote /\ ~BadRaw(f, i) =>
            scan_string(f, x) = Written(x, i + consume_utf8(f, i),
                                  x.out \o Bytes(f, i, consume_utf8(f, i)))
      BY <1>6, <3>1, ScanRead
    <3> QED
      BY <1>6, <2>6, <3>2 DEF len
  <2>8. Bytes(f, i, len) = SubSeq(bytes, i, k)
    <3> DEFINE q == SubSeq(bytes, i, k)
    <3>1. q \in Seq(Byte) /\ Len(q) = k - i + 1 /\ \A j \in 1..(k - i + 1) : q[j] = bytes[i + j - 1]
      BY <1>2, Parts
    <3>2. \A j \in 1..(k - i + 1) : i + j - 1 \in i..k
      BY <1>1, <1>2, SMT
    <3> HIDE DEF q
    <3>3. \A j \in 1..len : f[i + j - 1].v = q[j]
      <4> SUFFICES ASSUME NEW j \in 1..len PROVE f[i + j - 1].v = q[j]
        OBVIOUS
      <4>1. i + j - 1 \in 1..n /\ q[j] = bytes[i + j - 1]
        BY <1>2, <2>5, <3>1, <3>2
      <4>2. f[i + j - 1] = t[i + j - 1] /\ t[i + j - 1].v = bytes[i + j - 1]
        BY <1>3, <1>4, <4>1
      <4> QED
        BY <4>1, <4>2
    <3>4. q = [j \in 1..len |-> q[j]]
      BY <2>5, <3>1, SMT
    <3> QED
      BY <3>3, <3>4 DEF Bytes, q
  <2> QED
    BY <2>5, <2>7, <2>8 DEF Copies
<1> QED
  BY <1>8, <1>9

(* So every round keeps what has come of the bytes.  *)
LEMMA AgainRound ==
  ASSUME NEW bytes \in Seq(Byte), \A j \in 1..Len(bytes) : bytes[j] # 0,
         CodePoints(bytes) # {},
         NEW k \in Nat, NEW x, Again(bytes, k, x),
         NEW y, y = scan_string(Quoted(escape(bytes)), x)
  PROVE  Again(bytes, k + 1, y)
<1> DEFINE n == Len(bytes)
           f == Quoted(escape(bytes))
           i == x.at
           cp == BytePieces(bytes)
<1>1. x \in State /\ i \in Nat /\ x.out \in Seq(Byte)
      /\ x.verdict \in {"open", "closed", "refused"}
  BY DEF Again, State
<1>2. CASE x.verdict # "open"
  <2>1. y = x
    BY <1>2, ScanStops
  <2> QED
    BY <1>2, <2>1 DEF Again
<1>3. CASE x.verdict = "open"
  <2>1. i > k /\ Copied(bytes, x)
    BY <1>3 DEF Again
  <2>2. n \in Nat /\ i \in 1..(n + 1) /\ Len(x.out) \in Nat
    <3>1. n \in Nat /\ Len(x.out) \in Nat
      BY <1>1, SMT
    <3> QED
      BY <2>1, <3>1 DEF Copied
  <2>3. Len(f) = n + 1 /\ (i = n + 1 => ~f[i].esc /\ f[i].v = Quote)
    <3>1. escape(bytes) \in Seq(Symbol) /\ Len(escape(bytes)) = n
      BY EscapeIs
    <3>2. Len(f) = n + 1 /\ ~f[n + 1].esc /\ f[n + 1].v = Quote
      BY <3>1, QuotedIs
    <3> QED
      BY <3>2
  <2>4. i + 1 \in Nat /\ ~ (i > n + 1) /\ (i = n + 1 \/ i <= n) /\ (n + 1) - 1 = n
        /\ 1 \in 1..(n + 1) /\ i - 1 \in (1 - 1)..n /\ (i - 1) - 1 + 1 = i - 1
        /\ i - 1 \in 0..n /\ (i - 1) + 1 = i
    <3> HIDE DEF i, n
    <3> QED
      BY <1>1, <2>2, SMT
  <2>5. /\ Refused(x) \in State /\ Refused(x).verdict = "refused"
        /\ Closed(x, i + 1) \in State /\ Closed(x, i + 1).verdict = "closed"
        /\ Closed(x, i + 1).out = x.out
    BY <1>1, <2>4, Marked
  <2>6. "open" # "closed" /\ "open" # "refused" /\ "closed" # "refused"
    OBVIOUS
  <2>7. Len(x.out) = i - 1
    <3>1. Len(SubSeq(bytes, 1, i - 1)) = (i - 1) - 1 + 1
      BY <2>4, Parts
    <3> QED
      BY <2>1, <2>4, <3>1 DEF Copied
  <2>8. ASSUME Over(f, x) PROVE Again(bytes, k + 1, y)
    <3>1. y = Refused(x)
      BY <1>3, <2>8, ScanRead
    <3>2. Len(x.out) > max_string_bytes
      BY <2>3, <2>4, <2>8 DEF Over
    <3>3. n > max_string_bytes
      <4>1. i - 1 > max_string_bytes
        BY <2>7, <3>2
      <4> HIDE DEF i, n
      <4> QED
        BY <1>1, <2>2, <4>1, JsonStringsAssumption, SMT
    <3> QED
      BY <2>5, <2>6, <3>1, <3>3 DEF Again
  <2>9. ASSUME ~Over(f, x), i = n + 1 PROVE Again(bytes, k + 1, y)
    <3>1. y = Closed(x, i + 1)
      BY <1>3, <2>3, <2>9, ScanRead, ZenonT(60)
    <3>2. i - 1 = n
      BY <2>4, <2>9
    <3>3. SubSeq(bytes, 1, n) = bytes
      <4> HIDE DEF n
      <4>1. bytes \in [1..n -> Byte] /\ bytes = [j \in 1..n |-> bytes[j]]
        BY SMT DEF n
      <4> QED
        BY <2>2, SMT DEF n
    <3>4. x.out = bytes
      BY <2>1, <3>2, <3>3 DEF Copied
    <3>5. n <= max_string_bytes
      <4>1. ~ (n > max_string_bytes)
        BY <2>7, <2>9, <3>2 DEF Over
      <4> HIDE DEF n
      <4> QED
        BY <2>2, <4>1, JsonStringsAssumption, SMT
    <3> QED
      BY <2>5, <2>6, <3>1, <3>4, <3>5 DEF Again
  <2>10. ASSUME ~Over(f, x), i <= n PROVE Again(bytes, k + 1, y)
    <3>1. PICK U : Table(U, n, cp) /\ Readings(n, cp) = U[n]
      BY <2>2, TableExists
    <3>2. U[n] # {}
      <4>1. CodePoints(bytes) = Readings(n, cp)
        BY DEF CodePoints, BytePieces
      <4> QED
        BY <3>1, <4>1
    <3>3. i - 1 < n /\ Cut(i - 1, cp) /\ NoOverlap(n, cp)
      <4>1. i - 1 < n
        <5> HIDE DEF i, n
        <5> QED
          BY <1>1, <2>2, <2>10, SMT
      <4> QED
        BY <2>1, <4>1, ByteCuts DEF Copied
    <3>4. PICK e \in ((i - 1) + 1)..n : cp[(i - 1) + 1][e] # -1
      <4> HIDE DEF cp, i, n
      <4> QED
        BY <2>2, <2>4, <3>1, <3>2, <3>3, DeadEnd
    <3>5. e \in i..n /\ cp[i][e] # -1
      BY <2>4, <3>4
    <3>6. i \in 1..n /\ e \in 1..n /\ i - 1 < e /\ e + 1 \in Nat /\ (e + 1) - 1 = e
          /\ e + 1 \in 1..(n + 1) /\ e + 1 > k + 1 /\ 1 \in 1..(n + 1) /\ e \in (1 - 1)..n
      <4> HIDE DEF cp, i, n
      <4> QED
        BY <1>1, <2>1, <2>2, <2>10, <3>5, SMT
    <3>7. FormAt(bytes, i, e)
      BY <3>5, <3>6, BytePiecesAre
    <3>8. Copies(bytes, x, y, e)
      BY <1>1, <1>3, <2>1, <2>10, <3>5, <3>7, CopyRound
    <3>9. x.out \o SubSeq(bytes, i, e) = SubSeq(bytes, 1, e)
      <4>1. x.out = SubSeq(bytes, 1, i - 1)
        BY <2>1 DEF Copied
      <4> QED
        BY <3>5, <3>6, <4>1, JoinParts
    <3>10. y = Written(x, e + 1, SubSeq(bytes, 1, e))
      BY <3>8, <3>9 DEF Copies
    <3>11. SubSeq(bytes, 1, e) \in Seq(Byte)
      BY <3>6, Parts
    <3>12. /\ y \in State /\ y.verdict = "open" /\ y.at = e + 1
           /\ y.out = SubSeq(bytes, 1, e)
      BY <1>1, <1>3, <3>6, <3>10, <3>11 DEF Written, State
    <3>13. Cut(e, cp)
      <4> HIDE DEF cp, i, n
      <4> QED
        BY <2>2, <2>4, <3>1, <3>3, <3>4, <3>6, NextCut
    <3>14. Copied(bytes, y)
      BY <3>6, <3>12, <3>13 DEF Copied
    <3> QED
      BY <2>6, <3>6, <3>12, <3>14 DEF Again
  <2> QED
    BY <2>4, <2>8, <2>9, <2>10
<1> QED
  BY <1>2, <1>3

(* What is written is read back, unless it is too long.  *)
LEMMA AgainExact ==
  ASSUME NEW bytes \in Seq(Byte), \A j \in 1..Len(bytes) : bytes[j] # 0,
         CodePoints(bytes) # {},
         NEW again, again = parse_string(Quoted(escape(bytes)))
  PROVE  /\ again.ok <=> Len(bytes) <= max_string_bytes
         /\ again.ok => again.value = bytes
<1> DEFINE f == Quoted(escape(bytes))
           n == Len(bytes)
<1>1. n \in Nat /\ Len(f) = n + 1 /\ Len(f) \in Nat /\ Len(f) + 1 = n + 2
  <2>1. n \in Nat
    BY SMT
  <2>2. Len(f) = n + 1
    <3>1. escape(bytes) \in Seq(Symbol) /\ Len(escape(bytes)) = n
      BY EscapeIs
    <3> QED
      BY <3>1, QuotedIs
  <2> HIDE DEF f, n
  <2> QED
    BY <2>1, <2>2, SMT
<1> HIDE DEF f
<1>2. PICK h : /\ h[0] = Opened
               /\ \A k \in 1..(Len(f) + 1) : h[k] = scan_string(f, h[k - 1])
               /\ parse_string(f) = Outcome(h[Len(f) + 1])
  BY <1>1, ScanRounds
<1> HIDE DEF n
<1> DEFINE N == n + 2
           G == {k \in Nat : k <= N => Again(bytes, k, h[k])}
<1>3. 0 \in G
  <2>1. Opened \in State /\ Opened.verdict = "open" /\ Opened.at = 1 /\ Opened.out = <<>>
    <3>1. <<>> \in Seq(Byte)
      BY SMT
    <3>2. 1 \in Nat
      BY SMT
    <3> QED
      BY <3>1, <3>2 DEF Opened, State
  <2>2. 1 \in 1..(Len(bytes) + 1) /\ 1 - 1 = 0 /\ 1 > 0
    BY <1>1, SMT DEF n
  <2>3. SubSeq(bytes, 1, 0) = <<>>
    BY SMT
  <2>4. Copied(bytes, Opened)
    BY <2>1, <2>2, <2>3 DEF Copied, Cut
  <2>5. Again(bytes, 0, Opened)
    BY <2>1, <2>2, <2>4 DEF Again
  <2> QED
    BY <1>2, <2>5, SMT
<1>4. ASSUME NEW k \in Nat, k \in G PROVE k + 1 \in G
  <2> SUFFICES ASSUME k + 1 <= N PROVE Again(bytes, k + 1, h[k + 1])
    BY SMT
  <2>1. k <= N /\ k + 1 \in 1..N /\ (k + 1) - 1 = k
    BY <1>1, SMT
  <2>2. Again(bytes, k, h[k])
    BY <1>4, <2>1
  <2>3. h[k + 1] = scan_string(f, h[k])
    BY <1>1, <1>2, <2>1
  <2> QED
    BY <2>2, <2>3, AgainRound DEF f
<1>5. Again(bytes, N, h[N])
  <2>1. N \in Nat /\ N <= N
    BY <1>1, SMT
  <2> HIDE DEF G
  <2>2. N \in G
    BY <1>3, <1>4, <2>1, Induction
  <2> QED
    BY <2>1, <2>2 DEF G
<1> DEFINE x == h[N]
<1>6. again = Outcome(x)
  BY <1>1, <1>2 DEF f
<1> HIDE DEF x
<1>7. x.verdict # "open"
  <2> SUFFICES ASSUME x.verdict = "open" PROVE FALSE
    OBVIOUS
  <2>1. x.at > N /\ x.at \in 1..(n + 1)
    BY <1>5 DEF Again, Copied, x, n
  <2> QED
    BY <1>1, <2>1, SMT
<1>8. CASE x.verdict = "closed"
  <2>1. again = Success(x.at, x.out)
    BY <1>6, <1>8 DEF Outcome
  <2>2. Success(x.at, x.out).ok /\ Success(x.at, x.out).value = x.out
    BY DEF Success
  <2>3. x.out = bytes /\ Len(bytes) <= max_string_bytes
    BY <1>5, <1>8 DEF Again, x
  <2> QED
    BY <2>1, <2>2, <2>3
<1>9. CASE x.verdict = "refused"
  <2>1. again = Failure
    BY <1>6, <1>9 DEF Outcome
  <2>2. ~Failure.ok
    BY DEF Failure
  <2>3. n > max_string_bytes
    BY <1>5, <1>9 DEF Again, x, n
  <2>4. ~ (n <= max_string_bytes)
    BY <1>1, <2>3, JsonStringsAssumption, SMT
  <2> QED
    BY <2>1, <2>2, <2>4 DEF n
<1> QED
  BY <1>5, <1>7, <1>8, <1>9 DEF Again, State, x

(* The symbols of StringInputs are symbols.  *)
LEMMA SymbolsAre == Symbols \subseteq Symbol
<1> SUFFICES ASSUME NEW c \in Symbols PROVE c \in Symbol
  OBVIOUS
<1>1. c \in [esc : BOOLEAN, v : Int]
  BY StringInputsAssumption, SMT
<1>2. c.esc => -1 <= c.v /\ c.v < 65536
  BY StringInputsAssumption, SMT
<1>3. ASSUME ~c.esc PROVE c.v \in 0..255
  <2>1. \A x \in Symbols : ~x.esc => x.v \in 0..255
    BY StringInputsAssumption, SMT
  <2> QED
    BY <1>3, <2>1
<1>4. c.esc => c.v \in Unit
  <2>1. PICK u \in Int : u = c.v
    BY <1>1
  <2> QED
    BY <1>2, <2>1, SMT DEF Unit
<1>5. ~c.esc => c.v \in Byte
  BY <1>3 DEF Byte
<1> QED
  BY <1>1, <1>4, <1>5 DEF Symbol

(* And so is what strings grow into.  *)
LEMMA StringsStay == SSpec => [](sample \in Seq(Symbol))
<1>1. SInit => sample \in Seq(Symbol)
  BY SMT DEF SInit
<1>2. sample \in Seq(Symbol) /\ [Grow]_sample => (sample \in Seq(Symbol))'
  <2> SUFFICES ASSUME sample \in Seq(Symbol), [Grow]_sample PROVE sample' \in Seq(Symbol)
    OBVIOUS
  <2>1. CASE Grow
    <3>1. PICK c \in Symbols : sample' = Append(sample, c)
      BY <2>1 DEF Grow
    <3>2. c \in Symbol
      BY SymbolsAre
    <3> QED
      BY <3>1, <3>2, SMT
  <2>2. CASE sample' = sample
    BY <2>2
  <2> QED
    BY <2>1, <2>2
<1> QED
  BY <1>1, <1>2, PTL DEF SSpec

(* Any string of symbols will do.  *)
LEMMA StringAlways == ASSUME sample \in Seq(Symbol) PROVE StringExact
<1> DEFINE result == parse_string(Append(sample, Raw(Quote)))
           meanings == {m \in Meanings(sample) : m.size <= max_string_bytes}
           bytes == Values(sample)
           again == parse_string(Append(escape(bytes), Raw(Quote)))
<1>1. ASSUME \A k \in 1..Len(sample) : sample[k] \notin {Raw(Quote), Raw(Backslash)}
      PROVE  /\ result.ok <=> meanings # {}
             /\ result.ok => CodePoints(result.value) = meanings
  <2>1. Bare(sample)
    BY <1>1 DEF Bare
  <2>2. result = parse_string(Quoted(sample))
    BY DEF Quoted
  <2> HIDE DEF result, meanings
  <2>3. meanings = {m \in Meanings(sample) : m.size <= max_string_bytes}
    BY DEF meanings
  <2> QED
    BY <2>1, <2>2, <2>3, ParseExact
<1>2. ASSUME \A k \in 1..Len(sample) : ~sample[k].esc /\ sample[k].v # 0,
             CodePoints(bytes) # {}
      PROVE  /\ again.ok <=> Len(sample) <= max_string_bytes
             /\ again.ok => again.value = bytes
  <2>1. Len(sample) \in Nat /\ sample \in [1..Len(sample) -> Symbol]
    BY SMT
  <2>2. \A k \in 1..Len(sample) : sample[k].v \in Byte
    BY <1>2, <2>1 DEF Symbol
  <2>3. bytes \in Seq(Byte) /\ Len(bytes) = Len(sample)
    <3>1. bytes \in [1..Len(sample) -> Byte]
      BY <2>2 DEF Values
    <3> HIDE DEF bytes
    <3> QED
      BY <2>1, <3>1, SMT
  <2>4. \A k \in 1..Len(bytes) : bytes[k] # 0
    BY <1>2, <2>3 DEF Values
  <2>5. again = parse_string(Quoted(escape(bytes)))
    BY DEF Quoted
  <2> HIDE DEF again, bytes
  <2> QED
    BY <1>2, <2>3, <2>4, <2>5, AgainExact
<1> QED
  BY <1>1, <1>2 DEF StringExact

(* parse_string() accepts a string exactly if it means something and is not  *)
(* too long, as the UTF-8 form of just that, and reads back what escape()    *)
(* wrote (json.cpp:256-372, 497), for every string of every length, every    *)
(* set of symbols and every limit.                                           *)
THEOREM StringExactAlways == SSpec => []StringExact
BY StringsStay, StringAlways, PTL
=============================================================================
