-------------------------- MODULE PriceBitmapProofs --------------------------
(***************************************************************************)
(* scan_up and scan_down find the nearest marked price for every MaxPrice  *)
(* and every word size.                                                    *)
(***************************************************************************)
EXTENDS PriceBitmap, Extrema

(* p >> 6 and p & 63 of a price are a word and a bit, and give p back.     *)
LEMMA WordOfPrice ==
  ASSUME NEW p \in 0 .. MaxPrice
  PROVE  /\ p \div WordBits \in Words
         /\ p % WordBits \in Bits
         /\ p = (p \div WordBits) * WordBits + (p % WordBits)
<1> USE BitmapAssumption
<1>1. p \in Nat /\ MaxPrice \in Nat /\ WordBits \in Nat /\ WordBits > 0
  OBVIOUS
<1>2. p % WordBits \in Bits
  BY <1>1 DEF Bits
<1>3. p = WordBits * (p \div WordBits) + (p % WordBits) /\ p \div WordBits \in Nat
  BY <1>1
<1>4. MaxPrice = WordBits * (MaxPrice \div WordBits) + (MaxPrice % WordBits)
      /\ MaxPrice \div WordBits \in Nat /\ MaxPrice % WordBits \in 0 .. WordBits - 1
  BY <1>1
<1>5. p \div WordBits <= MaxPrice \div WordBits
  <2> DEFINE a == p \div WordBits
             b == MaxPrice \div WordBits
  <2>1. ASSUME a >= b + 1 PROVE FALSE
    <3>1. WordBits * a >= WordBits * (b + 1)
      BY <2>1, <1>1, <1>3, <1>4
    <3>2. WordBits * (b + 1) = WordBits * b + WordBits
      BY <1>1, <1>4
    <3> HIDE DEF a, b
    <3> QED BY <3>1, <3>2, <1>1, <1>2, <1>3, <1>4 DEF Bits, a, b
  <2> QED BY <2>1, <1>3, <1>4
<1> QED BY <1>2, <1>3, <1>4, <1>5 DEF Words, WordCount

(* A price is in one word at one bit only.                                 *)
LEMMA WordUnique ==
  ASSUME NEW k \in Words, NEW b \in Bits, NEW j \in Words, NEW c \in Bits,
         k * WordBits + b = j * WordBits + c
  PROVE  k = j /\ b = c
<1>1. k \in Int /\ j \in Int /\ b \in Int /\ c \in Int /\ WordBits \in Int /\ WordBits > 0
      /\ 0 <= b /\ b < WordBits /\ 0 <= c /\ c < WordBits
  BY BitmapAssumption DEF Words, Bits, WordCount
<1>2. CASE k >= j + 1
  <2>1. k * WordBits >= (j + 1) * WordBits
    BY <1>1, <1>2
  <2>2. (j + 1) * WordBits = j * WordBits + WordBits
    BY <1>1
  <2> QED BY <2>1, <2>2, <1>1
<1>3. CASE j >= k + 1
  <2>1. j * WordBits >= (k + 1) * WordBits
    BY <1>1, <1>3
  <2>2. (k + 1) * WordBits = k * WordBits + WordBits
    BY <1>1
  <2> QED BY <2>1, <2>2, <1>1
<1> QED BY <1>1, <1>2, <1>3
------------------------------------------------------------------------------
LEMMA InitScanInv == Init => ScanInv
<1> SUFFICES ASSUME Init PROVE ScanInv
  OBVIOUS
<1>1. 0 \in Words
  BY WordOfPrice, BitmapAssumption DEF Words, WordCount
<1> QED BY <1>1, BitmapAssumption
        DEF Init, ScanInv, TypeOK, WordsHoldMarked, UpSoFar, DownSoFar

(* A scan that returns leaves everything the invariant speaks of alone.    *)
LEMMA ReturnKeeps ==
  ASSUME ScanInv, NEW p \in Prices \cup {kNoPrice}, return(p)
  PROVE  ScanInv'
<1>1. 0 \in Words /\ 0 \in 0 .. MaxPrice
  BY WordOfPrice, BitmapAssumption DEF Words, WordCount
<1> QED BY <1>1 DEF ScanInv, TypeOK, WordsHoldMarked, UpSoFar, DownSoFar, return

(* A bit of a word that the invariant describes is a marked price.         *)
LEMMA BitIsMarked ==
  ASSUME ScanInv, NEW k \in Words, NEW b \in words[k]
  PROVE  k * WordBits + b \in marked /\ b \in Bits
BY DEF ScanInv, TypeOK, WordsHoldMarked

LEMMA MarkedIsBit ==
  ASSUME ScanInv, NEW p \in marked
  PROVE  p \div WordBits \in Words /\ p % WordBits \in words[p \div WordBits]
<1>1. p \in 0 .. MaxPrice
  BY BitmapAssumption DEF ScanInv, TypeOK, Prices
<1> QED BY <1>1, WordOfPrice DEF ScanInv, WordsHoldMarked

(* Setting or clearing the bit of p marks or unmarks p and nothing else.   *)
LEMMA MarkKeeps ==
  ASSUME ScanInv, NEW p \in Prices, SetBit(p) \/ ClearBit(p)
  PROVE  ScanInv'
<1> DEFINE kp == p \div WordBits
           bp == p % WordBits
<1>1. kp \in Words /\ bp \in Bits /\ p = kp * WordBits + bp
  BY WordOfPrice, BitmapAssumption DEF Prices
<1> HIDE DEF kp, bp
<1>2. TypeOK'
  BY <1>1 DEF ScanInv, TypeOK, SetBit, ClearBit, kp, bp
<1>3. ASSUME NEW k \in Words, NEW b \in Bits
      PROVE  (b \in words[k] <=> k * WordBits + b \in marked)'
  <2>1. k * WordBits + b = p <=> k = kp /\ b = bp
    BY <1>1, WordUnique
  <2>2. b \in words[k] <=> k * WordBits + b \in marked
    BY DEF ScanInv, WordsHoldMarked
  <2>3. CASE SetBit(p)
    <3>1. b \in words'[k] <=> b \in words[k] \/ (k = kp /\ b = bp)
      BY <2>3, <1>1 DEF SetBit, ScanInv, TypeOK, kp, bp
    <3> QED BY <3>1, <2>1, <2>2, <2>3 DEF SetBit
  <2>4. CASE ClearBit(p)
    <3>1. b \in words'[k] <=> b \in words[k] /\ ~ (k = kp /\ b = bp)
      BY <2>4, <1>1 DEF ClearBit, ScanInv, TypeOK, kp, bp
    <3> QED BY <3>1, <2>1, <2>2, <2>4 DEF ClearBit
  <2> QED BY <2>3, <2>4
<1>4. UpSoFar' /\ DownSoFar'
  BY DEF SetBit, ClearBit, UpSoFar, DownSoFar
<1> QED BY <1>2, <1>3, <1>4 DEF ScanInv, WordsHoldMarked
------------------------------------------------------------------------------
(* Entering either loop establishes its invariant.                         *)
LEMMA EnterKeeps ==
  ASSUME ScanInv, NEW p \in Prices, ScanUp(p + 1) \/ ScanDown(p - 1)
  PROVE  ScanInv'
<1> USE BitmapAssumption
<1>1. CASE ScanUp(p + 1) /\ p + 1 > MaxPrice
  <2>1. return(kNoPrice)
    BY <1>1 DEF ScanUp, Prices
  <2> QED BY <2>1, ReturnKeeps
<1>2. CASE ScanDown(p - 1) /\ p - 1 < 1
  <2>1. return(kNoPrice)
    BY <1>2 DEF ScanDown, Prices
  <2> QED BY <2>1, ReturnKeeps
<1>3. ASSUME NEW f \in 1 .. MaxPrice, NEW k, k = f \div WordBits,
             pc' \in {"up", "down"}, from' = f, w' = k, result' = << >>,
             UNCHANGED <<words, marked>>,
             pc' = "up" => word' = {b \in words[k] : b >= f % WordBits},
             pc' = "down" => word' = {b \in words[k] : b <= f % WordBits}
      PROVE  ScanInv'
  <2>1. f \in 0 .. MaxPrice /\ f \in Int
    OBVIOUS
  <2>2. k \in Words /\ f % WordBits \in Bits /\ f = k * WordBits + (f % WordBits)
    BY <1>3, <2>1, WordOfPrice
  <2>3. k \in Int /\ f % WordBits \in Int /\ k * WordBits \in Int /\ WordBits \in Int
        /\ (k + 1) * WordBits = k * WordBits + WordBits
        /\ 0 <= f % WordBits /\ f % WordBits < WordBits
    BY <2>2 DEF Words, Bits, WordCount
  <2>4. f >= k * WordBits /\ f < (k + 1) * WordBits
    BY <2>2, <2>3
  <2>5. \A b \in words[k] : b \in Int
    BY <2>2 DEF ScanInv, TypeOK, Bits
  <2>6. \A b \in words[k] : /\ b >= f % WordBits <=> k * WordBits + b >= f
                            /\ b <= f % WordBits <=> k * WordBits + b <= f
    BY <2>1, <2>2, <2>3, <2>5
  <2>7. \A q \in marked : q \in Int
    BY DEF ScanInv, TypeOK, Prices
  <2>8. TypeOK'
    BY <1>3, <2>1, <2>2 DEF ScanInv, TypeOK
  <2>9. WordsHoldMarked'
    BY <1>3 DEF ScanInv, WordsHoldMarked
  <2>10. UpSoFar'
    BY <1>3, <2>3, <2>4, <2>6, <2>7 DEF UpSoFar
  <2>11. DownSoFar'
    BY <1>3, <2>3, <2>4, <2>6, <2>7 DEF DownSoFar
  <2> QED BY <2>8, <2>9, <2>10, <2>11 DEF ScanInv
<1>4. CASE ScanUp(p + 1) /\ p + 1 <= MaxPrice
  <2>1. p + 1 \in 1 .. MaxPrice
    BY <1>4 DEF Prices
  <2> QED BY <1>3, <1>4, <2>1 DEF ScanUp, Prices, return
<1>5. CASE ScanDown(p - 1) /\ p - 1 >= 1
  <2>1. p - 1 \in 1 .. MaxPrice
    BY <1>5 DEF Prices
  <2> QED BY <1>3, <1>5, <2>1 DEF ScanDown, Prices, return
<1> QED BY <1>1, <1>2, <1>4, <1>5 DEF Prices

(* Multiplying by the word size keeps the order of words.                  *)
LEMMA TimesMonotone ==
  ASSUME NEW j \in Int, NEW k \in Int, j <= k
  PROVE  j * WordBits <= k * WordBits
BY BitmapAssumption

LEMMA WordOrder ==
  ASSUME NEW j \in Int, NEW k \in Int, NEW b \in Bits, j * WordBits + b >= k * WordBits
  PROVE  j >= k
<1>1. b \in Int /\ b < WordBits /\ WordBits \in Int /\ WordBits > 0
  BY BitmapAssumption DEF Bits
<1>2. CASE j + 1 <= k
  <2>1. (j + 1) * WordBits <= k * WordBits
    BY <1>2, TimesMonotone
  <2>2. (j + 1) * WordBits = j * WordBits + WordBits /\ j * WordBits \in Int /\ k * WordBits \in Int
    BY <1>1
  <2> QED BY <1>1, <2>1, <2>2
<1> QED BY <1>2

(* A round that finds nothing in its word moves on without missing a price.*)
LEMMA RoundKeeps ==
  ASSUME ScanInv, word = {}, UNCHANGED <<words, marked, pc, from, result>>,
         \/ pc = "up" /\ w + 1 \in Words /\ w' = w + 1 /\ word' = words[w + 1]
         \/ pc = "down" /\ w - 1 \in Words /\ w' = w - 1 /\ word' = words[w - 1]
  PROVE  ScanInv'
<1> USE BitmapAssumption
<1>1. TypeOK' /\ WordsHoldMarked'
  BY DEF ScanInv, TypeOK, WordsHoldMarked
<1>2. w \in Int /\ from \in Int /\ WordBits \in Int /\ w * WordBits \in Int
      /\ (w + 1) * WordBits = w * WordBits + WordBits
      /\ (w - 1) * WordBits = w * WordBits - WordBits
      /\ ((w + 1) + 1) * WordBits = w * WordBits + WordBits + WordBits
  BY DEF ScanInv, TypeOK, Words, WordCount
<1>3. ASSUME NEW q \in marked
      PROVE  /\ q \in Int
             /\ q \div WordBits \in Words /\ q \div WordBits \in Int
             /\ q % WordBits \in words[q \div WordBits]
             /\ q % WordBits \in Bits /\ q % WordBits \in Int /\ 0 <= q % WordBits /\ q % WordBits < WordBits
             /\ q = (q \div WordBits) * WordBits + (q % WordBits)
  <2>1. q \in 0 .. MaxPrice /\ q \in Int
    BY DEF ScanInv, TypeOK, Prices
  <2>2. q % WordBits \in Bits /\ q \div WordBits \in Words
    BY <2>1, WordOfPrice
  <2> QED BY <2>1, <2>2, WordOfPrice, MarkedIsBit DEF Words, Bits, WordCount
<1>4. CASE pc = "up"
  <2>1. w' = w + 1 /\ w + 1 \in Words /\ word' = words[w + 1] /\ words' = words
    BY <1>4
  <2>2. ASSUME NEW q \in marked, q >= from PROVE q >= (w + 1) * WordBits
    <3>1. q >= w * WordBits
      BY <1>4, <2>2 DEF ScanInv, UpSoFar
    <3>2. q \div WordBits >= w
      BY <3>1, <1>2, <1>3, WordOrder, ZenonT(30)
    <3>3. q \div WordBits # w
      <4>1. word = {b \in words[w] : w * WordBits + b >= from}
        BY <1>4 DEF ScanInv, UpSoFar
      <4> QED BY <4>1, <1>3, <2>2
    <3>4. w + 1 \in Int /\ q \div WordBits \in Int /\ w + 1 <= q \div WordBits
      BY <3>2, <3>3, <1>2, <1>3
    <3>5. (w + 1) * WordBits <= (q \div WordBits) * WordBits
      BY <3>4, TimesMonotone
    <3> QED BY <3>4, <3>5, <1>2, <1>3
  <2>3. from < (w + 1) * WordBits
    BY <1>4 DEF ScanInv, UpSoFar
  <2>4. \A b \in words[w + 1] : (w + 1) * WordBits + b >= from
    <3>1. \A b \in words[w + 1] : b \in Int /\ b >= 0
      BY <2>1 DEF ScanInv, TypeOK, Bits
    <3> QED BY <3>1, <2>3, <1>2
  <2>5. UpSoFar'
    <3>1. result = << >>
      BY <1>4 DEF ScanInv, UpSoFar
    <3>2. from < ((w + 1) + 1) * WordBits
      BY <2>3, <1>2, BitmapAssumption
    <3> QED BY <1>4, <2>1, <2>2, <2>4, <3>1, <3>2 DEF UpSoFar
  <2> QED BY <1>1, <1>4, <2>5 DEF ScanInv, DownSoFar
<1>5. CASE pc = "down"
  <2>1. w' = w - 1 /\ w - 1 \in Words /\ word' = words[w - 1] /\ words' = words
    BY <1>5
  <2>2. ASSUME NEW q \in marked, q <= from PROVE q < w * WordBits
    <3> DEFINE k == q \div WordBits
               b == q % WordBits
    <3>1. k \in Int /\ b \in Int /\ 0 <= b /\ b < WordBits /\ q = k * WordBits + b /\ k * WordBits \in Int
      BY <1>2, <1>3
    <3>2. k # w
      BY <1>3, <1>5, <2>2 DEF ScanInv, DownSoFar
    <3>3. q < (w + 1) * WordBits
      BY <1>5, <2>2 DEF ScanInv, DownSoFar
    <3> HIDE DEF k, b
    <3>4. CASE w + 1 <= k
      <4>1. w + 1 \in Int
        BY <1>2
      <4>2. (w + 1) * WordBits <= k * WordBits
        BY <3>1, <3>4, <4>1, TimesMonotone
      <4> QED BY <4>2, <3>1, <3>3, <1>2
    <3>5. CASE k + 1 <= w
      <4>1. k + 1 \in Int /\ (k + 1) * WordBits = k * WordBits + WordBits
        BY <3>1, <1>2
      <4>2. (k + 1) * WordBits <= w * WordBits
        BY <3>5, <4>1, <1>2, TimesMonotone
      <4> QED BY <4>1, <4>2, <3>1, <1>2
    <3> QED BY <3>1, <3>2, <3>4, <3>5, <1>2
  <2>3. from >= w * WordBits
    BY <1>5 DEF ScanInv, DownSoFar
  <2>4. \A b \in words[w - 1] : (w - 1) * WordBits + b <= from
    <3>1. \A b \in words[w - 1] : b \in Int /\ b < WordBits
      BY <2>1 DEF ScanInv, TypeOK, Bits
    <3> QED BY <3>1, <2>3, <1>2
  <2>5. ((w - 1) + 1) * WordBits = w * WordBits
    BY <1>2
  <2>6. DownSoFar'
    <3>1. result = << >>
      BY <1>5 DEF ScanInv, DownSoFar
    <3>2. from >= (w - 1) * WordBits
      BY <2>3, <1>2, BitmapAssumption
    <3> QED BY <1>5, <2>1, <2>2, <2>4, <2>5, <3>1, <3>2 DEF DownSoFar
  <2> QED BY <1>1, <1>5, <2>6 DEF ScanInv, UpSoFar
<1> QED BY <1>4, <1>5
------------------------------------------------------------------------------
(* Where a marked price sits in relation to the current word.              *)
LEMMA MarkedFacts ==
  ASSUME ScanInv, NEW q \in marked
  PROVE  \E k \in Words, b \in Bits : q = k * WordBits + b /\ b \in words[k] /\ q \in Prices
<1>1. q \in Prices /\ q \in 0 .. MaxPrice
  BY BitmapAssumption DEF ScanInv, TypeOK, Prices
<1>2. q \div WordBits \in Words /\ q % WordBits \in Bits
      /\ q = (q \div WordBits) * WordBits + (q % WordBits)
  BY <1>1, WordOfPrice
<1> QED BY <1>1, <1>2, MarkedIsBit

(* The types that the arithmetic below needs.                              *)
LEMMA WordTypes ==
  ASSUME ScanInv
  PROVE  /\ w \in Int /\ from \in Int /\ WordBits \in Int /\ w * WordBits \in Int
         /\ (w + 1) * WordBits = w * WordBits + WordBits /\ WordCount \in Int
         /\ \A b \in Bits : b \in Nat /\ b < WordBits
         /\ \A k \in Words : k \in Int /\ k < WordCount /\ k >= 0 /\ k * WordBits \in Int
         /\ word \in SUBSET Nat /\ marked \in SUBSET Nat
BY BitmapAssumption DEF ScanInv, TypeOK, Words, Bits, WordCount, Prices

(* A marked price from `from' up is in the current word's offer or in a    *)
(* later word.                                                             *)
LEMMA UpCandidates ==
  ASSUME ScanInv, pc = "up", NEW q \in marked, q >= from
  PROVE  \/ \E b \in word : q = w * WordBits + b
         \/ q >= (w + 1) * WordBits /\ w + 1 \in Words
<1>1. PICK k \in Words, b \in Bits : q = k * WordBits + b /\ b \in words[k]
  BY MarkedFacts
<1>2. q >= w * WordBits
  BY DEF ScanInv, UpSoFar
<1>3. k >= w
  BY <1>1, <1>2, WordTypes, WordOrder
<1>4. CASE k = w
  BY <1>1, <1>4 DEF ScanInv, UpSoFar
<1>5. CASE w + 1 <= k
  <2>1. (w + 1) * WordBits <= k * WordBits
    BY <1>5, WordTypes, TimesMonotone
  <2>2. w + 1 \in Words
    BY <1>5, WordTypes, SMTT(20) DEF ScanInv, TypeOK, Words
  <2> QED BY <1>1, <2>1, <2>2, WordTypes
<1> QED BY <1>3, <1>4, <1>5, WordTypes

LEMMA DownCandidates ==
  ASSUME ScanInv, pc = "down", NEW q \in marked, q <= from
  PROVE  \/ \E b \in word : q = w * WordBits + b
         \/ q < w * WordBits /\ w # 0
<1>1. PICK k \in Words, b \in Bits : q = k * WordBits + b /\ b \in words[k]
  BY MarkedFacts
<1>2. q < (w + 1) * WordBits
  BY DEF ScanInv, DownSoFar
<1>3. CASE w + 1 <= k
  <2>1. (w + 1) * WordBits <= k * WordBits
    BY <1>3, WordTypes, TimesMonotone
  <2> QED BY <1>1, <1>2, <2>1, WordTypes
<1>4. CASE k = w
  BY <1>1, <1>4 DEF ScanInv, DownSoFar
<1>5. CASE k + 1 <= w
  <2>1. (k + 1) * WordBits <= w * WordBits /\ k \in Int
    BY <1>5, WordTypes, TimesMonotone
  <2>2. (k + 1) * WordBits = k * WordBits + WordBits
    BY <2>1, WordTypes
  <2> QED BY <1>1, <1>5, <2>1, <2>2, WordTypes
<1> QED BY <1>3, <1>4, <1>5, WordTypes

(* What a round of scan_up returns is the lowest marked price from `from'. *)
LEMMA UpReturns ==
  ASSUME ScanInv, pc = "up"
  PROVE  /\ word # {} => w * WordBits + Min(word) \in Prices
                         /\ LowestFrom(marked, from) = w * WordBits + Min(word)
         /\ (word = {} /\ w + 1 = WordCount) => LowestFrom(marked, from) = kNoPrice
<1> DEFINE ps == {p \in marked : p >= from}
<1>1. ps \in SUBSET Nat
  BY WordTypes
<1>2. ASSUME word # {}
      PROVE  w * WordBits + Min(word) \in Prices /\ LowestFrom(marked, from) = w * WordBits + Min(word)
  <2> DEFINE m == w * WordBits + Min(word)
  <2>1. Min(word) \in word /\ \A y \in word : Min(word) <= y
    BY <1>2, WordTypes, MinProperty
  <2>2. m \in ps /\ m \in Prices
    <3>1. Min(word) \in words[w] /\ m >= from /\ w \in Words
      BY <2>1 DEF ScanInv, TypeOK, UpSoFar
    <3> QED BY <3>1, BitIsMarked DEF ScanInv, TypeOK
  <2>3. Min(word) \in Nat /\ Min(word) < WordBits
    BY <2>1, WordTypes DEF ScanInv, TypeOK
  <2>4. ASSUME NEW y \in ps PROVE m <= y
    <3>1. y \in Int
      BY WordTypes
    <3>2. CASE \E b \in word : y = w * WordBits + b
      BY <2>1, <2>3, <3>2, WordTypes
    <3>3. CASE y >= (w + 1) * WordBits
      BY <2>3, <3>1, <3>3, WordTypes
    <3> QED BY <3>2, <3>3, UpCandidates
  <2> HIDE DEF m, ps
  <2>5. Min(ps) = m /\ ps # {}
    BY <1>1, <2>2, <2>4, MinUnique
  <2> QED BY <2>2, <2>5 DEF LowestFrom, ps, m
<1>3. ASSUME word = {}, w + 1 = WordCount PROVE LowestFrom(marked, from) = kNoPrice
  <2>1. w + 1 \notin Words
    BY <1>3, WordTypes DEF Words
  <2>2. ps = {}
    BY <1>3, <2>1, UpCandidates
  <2> QED BY <2>2 DEF LowestFrom
<1> QED BY <1>2, <1>3

(* What a round of scan_down returns is the highest marked price to `from'.*)
LEMMA DownReturns ==
  ASSUME ScanInv, pc = "down"
  PROVE  /\ word # {} => w * WordBits + Max(word) \in Prices
                         /\ HighestTo(marked, from) = w * WordBits + Max(word)
         /\ (word = {} /\ w = 0) => HighestTo(marked, from) = kNoPrice
<1> DEFINE ps == {p \in marked : p <= from}
<1>1. ps \in SUBSET Nat
  BY WordTypes
<1>2. ASSUME word # {}
      PROVE  w * WordBits + Max(word) \in Prices /\ HighestTo(marked, from) = w * WordBits + Max(word)
  <2> DEFINE m == w * WordBits + Max(word)
  <2>1. Max(word) \in word /\ \A y \in word : Max(word) >= y
    <3>1. WordBits \in Nat /\ \A b \in word : b <= WordBits
      BY WordTypes, BitmapAssumption DEF ScanInv, TypeOK
    <3> QED BY <1>2, <3>1, WordTypes, MaxProperty
  <2>2. m \in ps /\ m \in Prices
    <3>1. Max(word) \in words[w] /\ m <= from /\ w \in Words
      BY <2>1 DEF ScanInv, TypeOK, DownSoFar
    <3> QED BY <3>1, BitIsMarked DEF ScanInv, TypeOK
  <2>3. Max(word) \in Nat
    BY <2>1, WordTypes
  <2>4. ASSUME NEW y \in ps PROVE m >= y
    <3>1. y \in Int
      BY WordTypes
    <3>2. CASE \E b \in word : y = w * WordBits + b
      BY <2>1, <2>3, <3>2, WordTypes
    <3>3. CASE y < w * WordBits
      BY <2>3, <3>1, <3>3, WordTypes
    <3> QED BY <3>2, <3>3, DownCandidates
  <2> HIDE DEF m, ps
  <2>5. Max(ps) = m /\ ps # {}
    BY <1>1, <2>2, <2>4, MaxUnique
  <2> QED BY <2>2, <2>5 DEF HighestTo, ps, m
<1>3. ASSUME word = {}, w = 0 PROVE HighestTo(marked, from) = kNoPrice
  <2>1. ps = {}
    BY <1>3, DownCandidates
  <2> QED BY <2>1 DEF HighestTo
<1> QED BY <1>2, <1>3
------------------------------------------------------------------------------
(* The step property: ScanFindsNearest for one step.                       *)
Nearest ==
  /\ (pc = "up" /\ result' # << >>) => result' = <<LowestFrom(marked, from)>>
  /\ (pc = "down" /\ result' # << >>) => result' = <<HighestTo(marked, from)>>
  /\ (pc = "idle" /\ result' # << >>) => result' = <<kNoPrice>>

(* Every step keeps the loop invariants and returns what it should.        *)
LEMMA NextScanInv ==
  ASSUME ScanInv, [Next]_vars
  PROVE  ScanInv' /\ [Nearest]_vars
<1>0. w + 1 # WordCount => w + 1 \in Words
  BY WordTypes DEF ScanInv, TypeOK, Words
<1>1. ASSUME NEW p \in Prices, SetBit(p) \/ ClearBit(p) PROVE ScanInv' /\ Nearest
  BY <1>1, MarkKeeps DEF SetBit, ClearBit, Nearest
<1>2. ASSUME NEW p \in Prices, ScanUp(p + 1) \/ ScanDown(p - 1) PROVE ScanInv' /\ Nearest
  BY <1>2, EnterKeeps DEF ScanUp, ScanDown, return, Nearest
<1>3. CASE UpRound
  <2>1. CASE word # {} /\ return(w * WordBits + Min(word))
    <3>1. w * WordBits + Min(word) \in Prices /\ LowestFrom(marked, from) = w * WordBits + Min(word)
      BY <1>3, <2>1, UpReturns DEF UpRound
    <3> QED BY <1>3, <2>1, <3>1, ReturnKeeps DEF UpRound, return, Nearest
  <2>2. CASE word = {} /\ w + 1 = WordCount /\ return(kNoPrice)
    <3>1. LowestFrom(marked, from) = kNoPrice
      BY <1>3, <2>2, UpReturns DEF UpRound
    <3> QED BY <1>3, <2>2, <3>1, ReturnKeeps DEF UpRound, return, Nearest
  <2>3. CASE word = {} /\ w + 1 # WordCount /\ w' = w + 1 /\ word' = words[w + 1]
             /\ UNCHANGED <<words, marked, pc, from, result>>
    <3>1. ScanInv'
      BY <1>0, <1>3, <2>3, RoundKeeps DEF UpRound
    <3>2. UNCHANGED vars \/ Nearest
      BY <1>3, <2>3 DEF UpRound, Nearest, vars, ScanInv, TypeOK, UpSoFar
    <3> QED BY <3>1, <3>2
  <2> QED BY <1>3, <2>1, <2>2, <2>3 DEF UpRound
<1>4. CASE DownRound
  <2>1. CASE word # {} /\ return(w * WordBits + Max(word))
    <3>1. w * WordBits + Max(word) \in Prices /\ HighestTo(marked, from) = w * WordBits + Max(word)
      BY <1>4, <2>1, DownReturns DEF DownRound
    <3> QED BY <1>4, <2>1, <3>1, ReturnKeeps DEF DownRound, return, Nearest
  <2>2. CASE word = {} /\ w = 0 /\ return(kNoPrice)
    <3>1. HighestTo(marked, from) = kNoPrice
      BY <1>4, <2>2, DownReturns DEF DownRound
    <3> QED BY <1>4, <2>2, <3>1, ReturnKeeps DEF DownRound, return, Nearest
  <2>3. CASE word = {} /\ w # 0 /\ w' = w - 1 /\ word' = words[w - 1]
             /\ UNCHANGED <<words, marked, pc, from, result>>
    <3>1. w - 1 \in Words
      BY <2>3, WordTypes DEF ScanInv, TypeOK, Words
    <3>2. ScanInv'
      BY <3>1, <1>4, <2>3, RoundKeeps DEF DownRound
    <3>3. UNCHANGED vars \/ Nearest
      BY <1>4, <2>3 DEF DownRound, Nearest, vars, ScanInv, TypeOK, DownSoFar
    <3> QED BY <3>2, <3>3
  <2> QED BY <1>4, <2>1, <2>2, <2>3 DEF DownRound
<1>5. CASE UNCHANGED vars
  BY <1>5 DEF vars, ScanInv, TypeOK, WordsHoldMarked, UpSoFar, DownSoFar
<1> QED BY <1>1, <1>2, <1>3, <1>4, <1>5 DEF Next

(* The loop invariants of scan_up and scan_down always hold.               *)
THEOREM ScanInvariant == Spec => []ScanInv
<1> QED BY InitScanInv, NextScanInv, PTL DEF Spec

(* scan_up and scan_down return the nearest marked price, for every        *)
(* max_price and word size.                                                *)
THEOREM ScanCorrect == Spec => ScanFindsNearest
<1>1. ScanInv /\ [Next]_vars => [Nearest]_vars
  BY NextScanInv
<1> QED BY <1>1, ScanInvariant, PTL DEF Spec, ScanFindsNearest, Nearest
==============================================================================
