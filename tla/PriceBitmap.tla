----------------------------- MODULE PriceBitmap -----------------------------
(***************************************************************************)
(* The bitmap over prices of one side of a Book (bits_ in book.hpp,        *)
(* src/book.cpp): how insert and level_emptied set and clear a price's     *)
(* bit, and the word-by-word loops of scan_up and scan_down that find the  *)
(* next best price.  A word is the set of its bits that are 1.             *)
(***************************************************************************)
EXTENDS Integers, FiniteSetsExt

CONSTANTS
  MaxPrice,   \* max_price_
  WordBits    \* 64

ASSUME BitmapAssumption == MaxPrice \in Nat \ {0} /\ WordBits \in Nat \ {0}

VARIABLES
  words,      \* bits_[s]
  marked,     \* history: the prices whose bit was set and not cleared since
  pc,         \* "idle", or "up" / "down" inside the loop of a scan
  from,       \* the scan's argument
  w, word,    \* its locals
  result      \* <<p>> when the last step ended a scan with p, else <<>>

vars == <<words, marked, pc, from, w, word, result>>

kNoPrice == -1
Prices == 1 .. MaxPrice
Bits == 0 .. WordBits - 1
WordCount == (MaxPrice \div WordBits) + 1
Words == 0 .. WordCount - 1

Init ==
  /\ words = [k \in Words |-> {}]
  /\ marked = {}
  /\ pc = "idle" /\ from = 0 /\ w = 0 /\ word = {} /\ result = << >>

(* Fault: the word is that of the price before.                            *)
SetBit_shifted(p) ==
  /\ pc = "idle"
  /\ words' = [words EXCEPT ![(p - 1) \div WordBits] = @ \cup {p % WordBits}]
  /\ marked' = marked \cup {p}
  /\ result' = << >>
  /\ UNCHANGED <<pc, from, w, word>>

(* insert() of the first order of a level.                                 *)
SetBit(p) ==
  /\ pc = "idle"
  /\ words' = [words EXCEPT ![p \div WordBits] = @ \cup {p % WordBits}]
  /\ marked' = marked \cup {p}
  /\ result' = << >>
  /\ UNCHANGED <<pc, from, w, word>>

(* level_emptied() *)
ClearBit(p) ==
  /\ pc = "idle"
  /\ words' = [words EXCEPT ![p \div WordBits] = @ \ {p % WordBits}]
  /\ marked' = marked \ {p}
  /\ result' = << >>
  /\ UNCHANGED <<pc, from, w, word>>

(* A scan ends: its locals are gone.                                       *)
return(p) ==
  /\ pc' = "idle" /\ from' = 0 /\ w' = 0 /\ word' = {}
  /\ result' = <<p>>
  /\ UNCHANGED <<words, marked>>

(* Fault: the first word is not masked.                                    *)
ScanUp_unmasked(f) ==
  /\ pc = "idle" /\ f <= MaxPrice
  /\ pc' = "up" /\ from' = f /\ result' = << >>
  /\ w' = f \div WordBits
  /\ word' = words[f \div WordBits]
  /\ UNCHANGED <<words, marked>>

(* scan_up(f) and scan_down(f) up to their loop: the part of the first     *)
(* word that is not before (not after) f.                                  *)
ScanUp(f) ==
  /\ pc = "idle"
  /\ \/ f > MaxPrice /\ return(kNoPrice)
     \/ /\ f <= MaxPrice
        /\ pc' = "up" /\ from' = f /\ result' = << >>
        /\ w' = f \div WordBits
        /\ word' = {b \in words[f \div WordBits] : b >= f % WordBits}
        /\ UNCHANGED <<words, marked>>

ScanDown(f) ==
  /\ pc = "idle"
  /\ \/ f < 1 /\ return(kNoPrice)
     \/ /\ f >= 1
        /\ pc' = "down" /\ from' = f /\ result' = << >>
        /\ w' = f \div WordBits
        /\ word' = {b \in words[f \div WordBits] : b <= f % WordBits}
        /\ UNCHANGED <<words, marked>>

(* One round of scan_up's loop.                                            *)
UpRound ==
  /\ pc = "up"
  /\ \/ word # {} /\ return(w * WordBits + Min(word))
     \/ word = {} /\ w + 1 = WordCount /\ return(kNoPrice)
     \/ /\ word = {} /\ w + 1 # WordCount
        /\ w' = w + 1
        /\ word' = words[w + 1]
        /\ UNCHANGED <<words, marked, pc, from, result>>

(* Fault: the loop does not move to the word below.                        *)
DownRound_stays ==
  /\ pc = "down"
  /\ \/ word # {} /\ return(w * WordBits + Max(word))
     \/ word = {} /\ w = 0 /\ return(kNoPrice)
     \/ word = {} /\ w # 0 /\ UNCHANGED vars

(* One round of scan_down's loop.                                          *)
DownRound ==
  /\ pc = "down"
  /\ \/ word # {} /\ return(w * WordBits + Max(word))
     \/ word = {} /\ w = 0 /\ return(kNoPrice)
     \/ /\ word = {} /\ w # 0
        /\ w' = w - 1
        /\ word' = words[w - 1]
        /\ UNCHANGED <<words, marked, pc, from, result>>

Next ==
  \/ \E p \in Prices : SetBit(p) \/ ClearBit(p) \/ ScanUp(p + 1) \/ ScanDown(p - 1)
  \/ UpRound
  \/ DownRound

Spec == Init /\ [][Next]_vars

(* A call of scan_up or scan_down runs.                                    *)
FairSpec == Spec /\ WF_vars(UpRound) /\ WF_vars(DownRound)
------------------------------------------------------------------------------
TypeOK ==
  /\ words \in [Words -> SUBSET Bits]
  /\ marked \in SUBSET Prices
  /\ pc \in {"idle", "up", "down"}
  /\ from \in 0 .. MaxPrice
  /\ w \in Words
  /\ word \in SUBSET Bits
  /\ result = << >> \/ result \in {<<p>> : p \in Prices \cup {kNoPrice}}

(* The reference: what Engine's scan_up and scan_down stand for.           *)
LowestFrom(S, f) == LET ps == {p \in S : p >= f} IN IF ps = {} THEN kNoPrice ELSE Min(ps)
HighestTo(S, f) == LET ps == {p \in S : p <= f} IN IF ps = {} THEN kNoPrice ELSE Max(ps)

(* A scan never steps over a marked price and never ends on an unmarked    *)
(* one: it returns the lowest marked price from its argument up, the       *)
(* highest from its argument down, and kNoPrice only when there is none,   *)
(* also across word boundaries and at the last word.                       *)
ScanFindsNearest ==
  [][/\ (pc = "up" /\ result' # << >>) => result' = <<LowestFrom(marked, from)>>
     /\ (pc = "down" /\ result' # << >>) => result' = <<HighestTo(marked, from)>>
     /\ (pc = "idle" /\ result' # << >>) => result' = <<kNoPrice>>]_vars

(* Every scan ends; in particular it leaves the array at its last word.    *)
ScanEnds == (pc # "idle") ~> (pc = "idle")

(* The loop invariant: the words hold the marked prices, `word' is what    *)
(* the current word has to offer, and what lies between `from' and the     *)
(* current word is unmarked.                                               *)
WordsHoldMarked == \A k \in Words, b \in Bits : b \in words[k] <=> k * WordBits + b \in marked

UpSoFar ==
  pc = "up" =>
    /\ result = << >>
    /\ from < (w + 1) * WordBits
    /\ word = {b \in words[w] : w * WordBits + b >= from}
    /\ \A p \in marked : p >= from => p >= w * WordBits

DownSoFar ==
  pc = "down" =>
    /\ result = << >>
    /\ from >= w * WordBits
    /\ word = {b \in words[w] : w * WordBits + b <= from}
    /\ \A p \in marked : p <= from => p < (w + 1) * WordBits

ScanInv == TypeOK /\ WordsHoldMarked /\ UpSoFar /\ DownSoFar
==============================================================================
