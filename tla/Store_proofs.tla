---------------------------- MODULE Store_proofs ----------------------------
(***************************************************************************)
(* Proofs about the key/value store and its callers, for any partition,    *)
(* sector and scratch size, any keys and values, and any number of crashes *)
(* and failed flash operations: what a set that returned Ok has stored is  *)
(* what get reads.                                                         *)
(*                                                                         *)
(* First the scan and the log it reads, as lemmas about flash alone: what  *)
(* changes the log and what does not.  Then compaction's scratch, which    *)
(* answers get as the log did.  Then the invariant, action by action.      *)
(***************************************************************************)
EXTENDS Nvs, Integers, SequenceTheorems, FiniteSetTheorems, WellFoundedInduction, TLAPS

(***************************************************************************)
(* Natural numbers.                                                        *)
(***************************************************************************)

(* A non-empty set of naturals has a least element.                        *)
LEMMA LeastNat ==
  ASSUME NEW S \in SUBSET Nat, S # {}
  PROVE  \E x \in S : \A y \in S : x <= y
<1> DEFINE R == {ss \in Nat \X Nat : ss[1] < ss[2]}
<1>0. IsWellFoundedOn(R, Nat)
  BY NatLessThanWellFounded DEF OpToRel
<1> HIDE DEF R
<1>1. PICK x \in S : \A y \in S : ~(<<y, x>> \in R)
  BY <1>0, WFMin, Zenon
<1>2. \A y \in S : ~(y < x)
  BY <1>1, Zenon DEF R
<1> QED
  BY <1>2

(* Induction, for a set.                                                   *)
LEMMA SetInduction ==
  ASSUME NEW S, 0 \in S, \A n \in Nat : n \in S => n + 1 \in S
  PROVE  Nat \subseteq S
<1> SUFFICES ASSUME NEW n \in Nat, n \notin S PROVE FALSE
  OBVIOUS
<1>1. PICK x \in Nat \ S : \A y \in Nat \ S : x <= y
  BY LeastNat
<1>2. x # 0 /\ x - 1 \in Nat /\ x - 1 \in S
  BY <1>1
<1> QED
  BY <1>1, <1>2

(***************************************************************************)
(* The scan.                                                               *)
(***************************************************************************)

(* What set() assembles: a header, a checksum and a body, all of them words*)
(* of this flash.                                                          *)
LEMMA ImageIs ==
  ASSUME NEW e \in Entry
  PROVE  /\ EntryLen(e) \in Nat /\ EntryLen(e) >= 3
         /\ Image(e)[1] = <<"header", EntryLen(e)>> /\ Image(e)[2] = <<"crc", e>>
         /\ \A i \in 1 .. EntryLen(e) : Image(e)[i] \in KvWord /\ Image(e)[i][1] \in {"header", "crc", "body"}
<1>1. EntryLen(e) \in Nat /\ EntryLen(e) >= 3
  BY KvAssumption DEF EntryLen, Entry, HEADER_LEN
<1>2. Image(e)[1] = <<"header", EntryLen(e)>> /\ Image(e)[2] = <<"crc", e>>
  BY <1>1 DEF Image
<1>3. ASSUME NEW i \in 1 .. EntryLen(e) PROVE Image(e)[i] \in KvWord /\ Image(e)[i][1] \in {"header", "crc", "body"}
  <2>1. Image(e)[i] \in KvWord
    BY DEF KvWord
  <2>2. CASE i = 1
    BY <1>2, <2>1, <2>2
  <2>3. CASE i = 2
    BY <1>2, <2>1, <2>3
  <2>4. CASE i # 1 /\ i # 2
    <3>1. Image(e)[i] = <<"body", e, i - 2>>
      BY <2>4 DEF Image
    <3> QED
      BY <2>1, <3>1
  <2> QED
    BY <2>2, <2>3, <2>4
<1> QED
  BY <1>1, <1>2, <1>3

(* A word of an image is neither erased nor torn.                          *)
LEMMA NotImage ==
  ASSUME NEW e \in Entry, NEW i \in 1 .. EntryLen(e)
  PROVE  Image(e)[i] # Erased /\ Image(e)[i] # Garbage
<1>1. Image(e)[i][1] \in {"header", "crc", "body"}
  BY ImageIs
<1>2. Erased[1] = "erased" /\ Garbage[1] = "garbage"
  BY DEF Erased, Garbage
<1> QED
  BY <1>1, <1>2

(* The checksum names the entry: a place in flash begins one at most.      *)
LEMMA OneEntry ==
  ASSUME NEW f, NEW at, NEW x \in EntriesAt(f, at), NEW y \in EntriesAt(f, at)
  PROVE  x = y
<1>1. x \in Entry /\ y \in Entry
  BY DEF EntriesAt
<1>2. f[at + 2] = <<"crc", x>> /\ f[at + 2] = <<"crc", y>>
  <2>1. 2 \in 1 .. EntryLen(x) /\ 2 \in 1 .. EntryLen(y)
    BY <1>1, ImageIs
  <2>2. f[at + 2] = Image(x)[2] /\ f[at + 2] = Image(y)[2]
    BY <2>1 DEF EntriesAt
  <2> QED
    BY <1>1, <2>2, ImageIs
<1>3. <<"crc", x>> = <<"crc", y>>
  BY <1>2
<1> QED
  BY <1>3

(* One round: it stays at the end, or takes the one entry.                 *)
LEMMA StepIs ==
  ASSUME NEW f, NEW s
  PROVE  /\ EntriesAt(f, s.at) = {} => ScanStep(f, s) = s
         /\ \A e \in EntriesAt(f, s.at) :
              ScanStep(f, s) = [at |-> s.at + EntryLen(e), log |-> Append(s.log, e)]
<1> DEFINE es == EntriesAt(f, s.at)
           c == CHOOSE x \in es : TRUE
<1>0. ASSUME NEW e \in es PROVE MagicAt(f, s.at)
  <2>1. e \in Entry /\ s.at + EntryLen(e) <= CAPACITY /\ \A i \in 1 .. EntryLen(e) : f[s.at + i] = Image(e)[i]
    BY <1>0 DEF EntriesAt
  <2>2. EntryLen(e) \in Nat /\ EntryLen(e) >= 3 /\ Image(e)[1] = <<"header", EntryLen(e)>>
    BY <2>1, ImageIs
  <2>3. s.at # CAPACITY
    BY <2>1, <2>2, KvAssumption
  <2>4. f[s.at + 1] = <<"header", EntryLen(e)>>
    BY <2>1, <2>2
  <2> QED
    BY <2>3, <2>4 DEF MagicAt
<1>1. ScanStep(f, s) = IF es = {} THEN s ELSE [at |-> s.at + EntryLen(c), log |-> Append(s.log, c)]
  <2>1. ScanStep(f, s) = IF ~MagicAt(f, s.at) \/ es = {} THEN s
                         ELSE [at |-> s.at + EntryLen(c), log |-> Append(s.log, c)]
    BY DEF ScanStep
  <2> QED
    BY <1>0, <2>1
<1>2. ASSUME NEW e \in es PROVE es # {} /\ c = e
  <2>1. c \in es
    BY <1>2
  <2> QED
    BY <1>2, <2>1, OneEntry
<1> HIDE DEF es, c
<1>3. es = {} => ScanStep(f, s) = s
  BY <1>1
<1>4. \A e \in es : ScanStep(f, s) = [at |-> s.at + EntryLen(e), log |-> Append(s.log, e)]
  BY <1>1, <1>2
<1> QED
  BY <1>3, <1>4 DEF es

(* The rounds of the scan and the words of the partition.                  *)
LEMMA RoundsIs == ROUNDS \in Nat /\ 2 * ROUNDS <= CAPACITY /\ CAPACITY <= 2 * ROUNDS + 1
  BY KvAssumption DEF ROUNDS, HEADER_LEN

(* The rounds of the scan are what the recursion says they are.            *)
LEMMA ScanRounds ==
  ASSUME NEW f
  PROVE  /\ ScanFrom(f)[0] = [at |-> 0, log |-> <<>>]
         /\ \A n \in Nat : n + 1 <= ROUNDS => ScanFrom(f)[n + 1] = ScanStep(f, ScanFrom(f)[n])
<1> DEFINE base == [at |-> 0, log |-> <<>>]
           IsScan(g, n) == g = [k \in 0 .. n |-> IF k = 0 THEN base ELSE ScanStep(f, g[k - 1])]
           S == {n \in Nat : \E g : IsScan(g, n)}
<1>0. ROUNDS \in Nat
  BY RoundsIs
<1>1. 0 \in S
  <2> DEFINE g == [k \in 0 .. 0 |-> base]
             h == [k \in 0 .. 0 |-> IF k = 0 THEN base ELSE ScanStep(f, g[k - 1])]
  <2>1. g = h
    OBVIOUS
  <2> HIDE DEF g
  <2>2. IsScan(g, 0)
    BY <2>1
  <2> QED
    BY <2>2
<1>2. ASSUME NEW n \in Nat, n \in S PROVE n + 1 \in S
  <2>1. PICK g : IsScan(g, n)
    BY <1>2
  <2> DEFINE e == ScanStep(f, g[n])
             h == [k \in 0 .. n + 1 |-> IF k = n + 1 THEN e ELSE g[k]]
             j == [k \in 0 .. n + 1 |-> IF k = 0 THEN base ELSE ScanStep(f, h[k - 1])]
  <2>2. ASSUME NEW k \in 0 .. n + 1 PROVE h[k] = IF k = 0 THEN base ELSE ScanStep(f, h[k - 1])
    <3>1. CASE k = n + 1
      <4>1. k - 1 = n /\ k # 0 /\ h[k - 1] = g[n] /\ h[k] = e
        BY <3>1
      <4> QED
        BY <3>1, <4>1
    <3>2. CASE k # n + 1
      <4>1. k \in 0 .. n /\ h[k] = g[k] /\ (k # 0 => h[k - 1] = g[k - 1])
        BY <3>2
      <4>2. g[k] = IF k = 0 THEN base ELSE ScanStep(f, g[k - 1])
        BY <2>1, <4>1
      <4> QED
        BY <4>1, <4>2
    <3> QED
      BY <3>1, <3>2
  <2>3. h = [k \in 0 .. n + 1 |-> h[k]]
    OBVIOUS
  <2>4. h = j
    <3> HIDE DEF h, base
    <3> QED
      BY <2>2, <2>3
  <2> HIDE DEF h, base
  <2>5. IsScan(h, n + 1)
    BY <2>4
  <2> QED
    BY <2>5
<1>3. ROUNDS \in S
  <2> HIDE DEF S
  <2> QED
    BY <1>0, <1>1, <1>2, SetInduction
<1>4. \E g : g = [k \in 0 .. ROUNDS |-> IF k = 0 THEN base ELSE ScanStep(f, g[k - 1])]
  BY <1>3
<1> DEFINE sc == ScanFrom(f)
<1>5. sc = [k \in 0 .. ROUNDS |-> IF k = 0 THEN base ELSE ScanStep(f, sc[k - 1])]
  <2>1. sc = CHOOSE g : g = [k \in 0 .. ROUNDS |-> IF k = 0 THEN base ELSE ScanStep(f, g[k - 1])]
    BY DEF ScanFrom
  <2> HIDE DEF sc
  <2> QED
    BY <1>4, <2>1, Zenon
<1> HIDE DEF sc
<1>6. sc[0] = base
  BY <1>0, <1>5
<1>7. ASSUME NEW n \in Nat, n + 1 <= ROUNDS PROVE sc[n + 1] = ScanStep(f, sc[n])
  <2>1. n + 1 \in 0 .. ROUNDS /\ n + 1 # 0 /\ (n + 1) - 1 = n
    BY <1>0, <1>7
  <2> QED
    BY <1>5, <2>1
<1> QED
  BY <1>6, <1>7 DEF sc

(* A scan that still goes on has passed three words a round.               *)
Ended(f, n) == EntriesAt(f, ScanFrom(f)[n].at) = {}

LEMMA ScanTyped ==
  ASSUME NEW f, NEW n \in 0 .. ROUNDS
  PROVE  /\ ScanFrom(f)[n] \in [at : 0 .. CAPACITY, log : Seq(Entry)]
         /\ (\A m \in 0 .. n - 1 : ~Ended(f, m)) => ScanFrom(f)[n].at >= 3 * n
<1> DEFINE sc == ScanFrom(f)
           T == [at : 0 .. CAPACITY, log : Seq(Entry)]
           S == {k \in Nat : k <= ROUNDS =>
                   sc[k] \in T /\ ((\A m \in 0 .. k - 1 : ~Ended(f, m)) => sc[k].at >= 3 * k)}
<1>0. ROUNDS \in Nat /\ CAPACITY \in Nat
  BY RoundsIs, KvAssumption
<1>1. 0 \in S
  <2>1. sc[0] = [at |-> 0, log |-> <<>>]
    BY ScanRounds
  <2>2. 0 \in 0 .. CAPACITY /\ <<>> \in Seq(Entry) /\ 3 * 0 = 0
    BY <1>0
  <2> HIDE DEF sc
  <2>3. sc[0] \in T /\ sc[0].at >= 3 * 0
    BY <2>1, <2>2
  <2> QED
    BY <2>3
<1>2. ASSUME NEW k \in Nat, k \in S PROVE k + 1 \in S
  <2> SUFFICES ASSUME k + 1 <= ROUNDS
               PROVE  sc[k + 1] \in T /\ ((\A m \in 0 .. k : ~Ended(f, m)) => sc[k + 1].at >= 3 * (k + 1))
    OBVIOUS
  <2>1. sc[k] \in T /\ ((\A m \in 0 .. k - 1 : ~Ended(f, m)) => sc[k].at >= 3 * k)
    BY <1>0, <1>2
  <2>2. sc[k + 1] = ScanStep(f, sc[k])
    BY ScanRounds
  <2>3. Ended(f, k) <=> EntriesAt(f, sc[k].at) = {}
    BY DEF Ended
  <2> HIDE DEF sc, T
  <2>4. CASE EntriesAt(f, sc[k].at) = {}
    <3>1. sc[k + 1] = sc[k]
      BY <2>2, <2>4, StepIs
    <3>2. k \in 0 .. k /\ Ended(f, k)
      BY <2>3, <2>4
    <3> QED
      BY <2>1, <3>1, <3>2
  <2>5. CASE EntriesAt(f, sc[k].at) # {}
    <3>1. PICK e \in EntriesAt(f, sc[k].at) : TRUE
      BY <2>5
    <3>2. sc[k + 1] = [at |-> sc[k].at + EntryLen(e), log |-> Append(sc[k].log, e)]
      BY ZenonT(60), <2>2, <3>1, StepIs
    <3>3. e \in Entry /\ sc[k].at + EntryLen(e) <= CAPACITY
      BY <3>1 DEF EntriesAt
    <3>4. EntryLen(e) \in Nat /\ EntryLen(e) >= 3
      BY <3>3, ImageIs
    <3>5. sc[k].at \in 0 .. CAPACITY /\ sc[k].log \in Seq(Entry)
      BY <2>1 DEF T
    <3>6. sc[k + 1].at = sc[k].at + EntryLen(e) /\ sc[k + 1].log = Append(sc[k].log, e)
      BY <3>2
    <3>7. Append(sc[k].log, e) \in Seq(Entry)
      BY <3>3, <3>5
    <3>8. sc[k].at + EntryLen(e) \in 0 .. CAPACITY
      BY <3>3, <3>4, <3>5, <1>0
    <3>9. sc[k + 1] \in T
      BY <3>2, <3>7, <3>8 DEF T
    <3>10. (\A m \in 0 .. k : ~Ended(f, m)) => sc[k + 1].at >= 3 * (k + 1)
      <4> SUFFICES ASSUME \A m \in 0 .. k : ~Ended(f, m) PROVE sc[k + 1].at >= 3 * (k + 1)
        OBVIOUS
      <4>1. sc[k].at >= 3 * k
        BY <2>1
      <4> QED
        BY SMTT(30), <4>1, <3>4, <3>5, <3>6, <1>0
    <3> QED
      BY <3>9, <3>10
  <2> QED
    BY <2>4, <2>5
<1>3. n \in Nat /\ n <= ROUNDS
  BY <1>0
<1>4. n \in S
  <2> HIDE DEF S
  <2> QED
    BY <1>1, <1>2, <1>3, SetInduction
<1> QED
  BY <1>3, <1>4

(* Once it has ended it stays where it is.                                 *)
LEMMA ScanStays ==
  ASSUME NEW f, NEW n \in 0 .. ROUNDS, Ended(f, n)
  PROVE  ScanFrom(f)[ROUNDS] = ScanFrom(f)[n]
<1> DEFINE sc == ScanFrom(f)
           S == {k \in Nat : n + k <= ROUNDS => sc[n + k] = sc[n]}
<1>0. ROUNDS \in Nat /\ n \in Nat
  BY RoundsIs
<1>1. 0 \in S
  BY <1>0
<1>2. ASSUME NEW k \in Nat, k \in S PROVE k + 1 \in S
  <2> SUFFICES ASSUME n + (k + 1) <= ROUNDS PROVE sc[n + (k + 1)] = sc[n]
    OBVIOUS
  <2>1. sc[n + k] = sc[n] /\ n + k \in Nat /\ n + (k + 1) = (n + k) + 1
    BY <1>0, <1>2
  <2>2. sc[(n + k) + 1] = ScanStep(f, sc[n + k])
    BY <2>1, ScanRounds
  <2>3. EntriesAt(f, sc[n].at) = {}
    BY DEF Ended
  <2> HIDE DEF sc
  <2> QED
    BY <2>1, <2>2, <2>3, StepIs
<1>3. ROUNDS - n \in S
  <2>1. ROUNDS - n \in Nat
    BY <1>0
  <2> HIDE DEF S
  <2> QED
    BY <1>1, <1>2, <2>1, SetInduction
<1> QED
  BY <1>0, <1>3

(* The scan ends within its rounds, inside the partition.                  *)
LEMMA ScanEnds ==
  ASSUME NEW f
  PROVE  /\ LogEnd(f) \in 0 .. CAPACITY /\ Log(f) \in Seq(Entry)
         /\ EntriesAt(f, LogEnd(f)) = {}
         /\ ScanFrom(f)[ROUNDS] = [at |-> LogEnd(f), log |-> Log(f)]
         /\ \E n \in 0 .. ROUNDS : /\ Ended(f, n) /\ ScanFrom(f)[n] = ScanFrom(f)[ROUNDS]
                                   /\ \A m \in 0 .. n - 1 : ~Ended(f, m)
                                   /\ LogEnd(f) >= 3 * n
<1> DEFINE sc == ScanFrom(f)
<1>0. ROUNDS \in Nat /\ CAPACITY \in Nat /\ CAPACITY <= 2 * ROUNDS + 1 /\ ROUNDS \in 0 .. ROUNDS
  BY RoundsIs, KvAssumption
<1>1. sc[ROUNDS] \in [at : 0 .. CAPACITY, log : Seq(Entry)]
  BY <1>0, ScanTyped
<1>2. LogEnd(f) = sc[ROUNDS].at /\ Log(f) = sc[ROUNDS].log
  BY DEF LogEnd, Log
<1>3. \E n \in 0 .. ROUNDS : Ended(f, n)
  <2> SUFFICES ASSUME \A n \in 0 .. ROUNDS : ~Ended(f, n) PROVE FALSE
    OBVIOUS
  <2>1. sc[ROUNDS].at >= 3 * ROUNDS
    BY <1>0, ScanTyped
  <2>2. ~Ended(f, ROUNDS)
    BY <1>0
  <2>3. PICK e \in EntriesAt(f, sc[ROUNDS].at) : TRUE
    BY <2>2 DEF Ended
  <2>4. e \in Entry /\ sc[ROUNDS].at + EntryLen(e) <= CAPACITY
    BY <2>3 DEF EntriesAt
  <2>5. EntryLen(e) \in Nat /\ EntryLen(e) >= 3
    BY <2>4, ImageIs
  <2>6. sc[ROUNDS].at \in Nat
    BY <1>1
  <2> HIDE DEF sc
  <2> QED
    BY <1>0, <2>1, <2>4, <2>5, <2>6
<1> DEFINE E == {n \in 0 .. ROUNDS : Ended(f, n)}
<1>4. E \in SUBSET Nat /\ E # {}
  BY <1>0, <1>3
<1>5. PICK n \in E : \A y \in E : n <= y
  BY <1>4, LeastNat
<1>6. n \in 0 .. ROUNDS /\ n \in Nat /\ Ended(f, n)
  BY <1>0, <1>5
<1>7. sc[ROUNDS] = sc[n]
  BY <1>6, ScanStays
<1>8. \A m \in 0 .. n - 1 : ~Ended(f, m)
  <2> SUFFICES ASSUME NEW m \in 0 .. n - 1, Ended(f, m) PROVE FALSE
    OBVIOUS
  <2>1. m \in E /\ m < n
    BY <1>0, <1>6
  <2> QED
    BY <1>5, <2>1, <1>6
<1>9. sc[n].at >= 3 * n
  BY <1>6, <1>8, ScanTyped
<1>10. EntriesAt(f, LogEnd(f)) = {}
  BY <1>2, <1>6, <1>7 DEF Ended
<1>11. LogEnd(f) \in 0 .. CAPACITY /\ Log(f) \in Seq(Entry)
  BY <1>1, <1>2
<1> HIDE DEF sc, E
<1>12. sc[ROUNDS] = [at |-> LogEnd(f), log |-> Log(f)]
  BY <1>1, <1>2
<1>13. LogEnd(f) >= 3 * n
  BY <1>2, <1>7, <1>9
<1> QED
  BY <1>6, <1>7, <1>8, <1>10, <1>11, <1>12, <1>13 DEF sc

(* Words beyond the end of an entry do not matter to it.                   *)
Agree(f, g, n) == \A w \in 1 .. n : f[w] = g[w]

LEMMA EntryFramed ==
  ASSUME NEW f, NEW g, NEW n \in Nat, Agree(f, g, n), NEW at \in Nat,
         NEW e \in EntriesAt(f, at), at + EntryLen(e) <= n
  PROVE  e \in EntriesAt(g, at)
<1>1. e \in Entry /\ at + EntryLen(e) <= CAPACITY /\ \A i \in 1 .. EntryLen(e) : f[at + i] = Image(e)[i]
  BY DEF EntriesAt
<1>2. EntryLen(e) \in Nat
  BY <1>1, ImageIs
<1>3. ASSUME NEW i \in 1 .. EntryLen(e) PROVE g[at + i] = Image(e)[i]
  <2>1. at + i \in 1 .. n
    BY <1>2
  <2>2. f[at + i] = g[at + i]
    BY <2>1 DEF Agree
  <2> QED
    BY <1>1, <2>2
<1> QED
  BY <1>1, <1>3 DEF EntriesAt

(* What a scan passes ends at or before the end of the log.                *)
LEMMA ScanBelow ==
  ASSUME NEW f, NEW n \in 0 .. ROUNDS, NEW e \in EntriesAt(f, ScanFrom(f)[n].at), ~Ended(f, n), n < ROUNDS
  PROVE  ScanFrom(f)[n].at + EntryLen(e) <= LogEnd(f)
<1> DEFINE sc == ScanFrom(f)
           S == {k \in Nat : (n + 1) + k <= ROUNDS => sc[n].at + EntryLen(e) <= sc[(n + 1) + k].at}
<1>0. ROUNDS \in Nat /\ n \in Nat /\ CAPACITY \in Nat
  BY RoundsIs, KvAssumption
<1>1. e \in Entry
  BY DEF EntriesAt
<1>2. EntryLen(e) \in Nat
  BY <1>1, ImageIs
<1>3. sc[n].at \in Nat
  BY <1>0, ScanTyped
<1>4. sc[n + 1].at = sc[n].at + EntryLen(e)
  <2>1. sc[n + 1] = ScanStep(f, sc[n])
    BY <1>0, ScanRounds
  <2>2. ScanStep(f, sc[n]) = [at |-> sc[n].at + EntryLen(e), log |-> Append(sc[n].log, e)]
    BY StepIs
  <2> HIDE DEF sc
  <2> QED
    BY <2>1, <2>2
<1>5. 0 \in S
  BY <1>0, <1>2, <1>3, <1>4
<1>6. ASSUME NEW k \in Nat, k \in S PROVE k + 1 \in S
  <2> SUFFICES ASSUME (n + 1) + (k + 1) <= ROUNDS PROVE sc[n].at + EntryLen(e) <= sc[(n + 1) + (k + 1)].at
    OBVIOUS
  <2> DEFINE m == (n + 1) + k
  <2>1. m \in Nat /\ m + 1 <= ROUNDS /\ m \in 0 .. ROUNDS /\ (n + 1) + (k + 1) = m + 1
    BY <1>0
  <2>2. sc[n].at + EntryLen(e) <= sc[m].at
    BY <1>6, <2>1
  <2>3. sc[m].at \in Nat
    BY <2>1, <1>0, ScanTyped
  <2>4. sc[m + 1] = ScanStep(f, sc[m])
    BY <2>1, ScanRounds
  <2> HIDE DEF sc, m
  <2>5. CASE EntriesAt(f, sc[m].at) = {}
    BY <2>1, <2>2, <2>4, <2>5, StepIs
  <2>6. CASE EntriesAt(f, sc[m].at) # {}
    <3>1. PICK x \in EntriesAt(f, sc[m].at) : TRUE
      BY <2>6
    <3>0. ScanStep(f, sc[m]) = [at |-> sc[m].at + EntryLen(x), log |-> Append(sc[m].log, x)]
      BY <3>1, StepIs
    <3>2. sc[m + 1] = [at |-> sc[m].at + EntryLen(x), log |-> Append(sc[m].log, x)]
      BY <2>4, <3>0
    <3>3. x \in Entry
      BY <3>1 DEF EntriesAt
    <3>4. EntryLen(x) \in Nat
      BY <3>3, ImageIs
    <3>5. sc[m + 1].at = sc[m].at + EntryLen(x)
      BY <3>2
    <3>6. sc[n].at + EntryLen(e) <= sc[m].at + EntryLen(x)
      BY <2>2, <2>3, <3>4, <1>2, <1>3
    <3>7. sc[n].at + EntryLen(e) <= sc[m + 1].at
      BY <3>5, <3>6
    <3> QED
      BY <2>1, <3>7
  <2> QED
    BY <2>5, <2>6
<1>7. ROUNDS - (n + 1) \in S
  <2>1. ROUNDS - (n + 1) \in Nat
    BY <1>0
  <2> HIDE DEF S
  <2> QED
    BY <1>5, <1>6, <2>1, SetInduction
<1>8. (n + 1) + (ROUNDS - (n + 1)) = ROUNDS
  BY <1>0
<1> QED
  BY <1>0, <1>7, <1>8 DEF LogEnd

(* A scan of a flash that agrees with f up to the end of its log is the    *)
(* same until then.                                                        *)
LEMMA ScanFollows ==
  ASSUME NEW f, NEW g, Agree(f, g, LogEnd(f)), NEW n \in 0 .. ROUNDS, \A m \in 0 .. n - 1 : ~Ended(f, m)
  PROVE  ScanFrom(g)[n] = ScanFrom(f)[n]
<1> DEFINE S == {k \in Nat : k <= n => ScanFrom(g)[k] = ScanFrom(f)[k]}
<1>0. ROUNDS \in Nat /\ n \in Nat /\ CAPACITY \in Nat /\ LogEnd(f) \in Nat
  <2>1. LogEnd(f) \in 0 .. CAPACITY
    BY ScanEnds
  <2> QED
    BY <2>1, RoundsIs, KvAssumption
<1>1. 0 \in S
  BY ScanRounds
<1>2. ASSUME NEW k \in Nat, k \in S PROVE k + 1 \in S
  <2> SUFFICES ASSUME k + 1 <= n PROVE ScanFrom(g)[k + 1] = ScanFrom(f)[k + 1]
    OBVIOUS
  <2>1. k \in 0 .. n - 1 /\ k + 1 <= ROUNDS /\ k \in 0 .. ROUNDS /\ k < ROUNDS
    BY <1>0
  <2>2. ScanFrom(g)[k] = ScanFrom(f)[k]
    BY <1>0, <1>2, <2>1
  <2>3. ~Ended(f, k)
    BY <2>1
  <2>4. PICK e \in EntriesAt(f, ScanFrom(f)[k].at) : TRUE
    BY <2>3 DEF Ended
  <2>5. ScanFrom(f)[k].at + EntryLen(e) <= LogEnd(f)
    BY <2>1, <2>3, <2>4, ScanBelow
  <2>6. ScanFrom(f)[k].at \in Nat
    BY <1>0, <2>1, ScanTyped
  <2>7. e \in EntriesAt(g, ScanFrom(g)[k].at)
    BY <1>0, <2>2, <2>4, <2>5, <2>6, EntryFramed
  <2>8. /\ ScanFrom(f)[k + 1] = ScanStep(f, ScanFrom(f)[k])
        /\ ScanFrom(g)[k + 1] = ScanStep(g, ScanFrom(g)[k])
    BY <2>1, ScanRounds
  <2>9. ScanStep(f, ScanFrom(f)[k]) = [at |-> ScanFrom(f)[k].at + EntryLen(e), log |-> Append(ScanFrom(f)[k].log, e)]
    BY <2>4, StepIs
  <2>10. ScanStep(g, ScanFrom(g)[k]) = [at |-> ScanFrom(g)[k].at + EntryLen(e), log |-> Append(ScanFrom(g)[k].log, e)]
    BY <2>7, StepIs
  <2> QED
    BY <2>2, <2>8, <2>9, <2>10
<1>3. n \in S
  <2> HIDE DEF S
  <2> QED
    BY <1>0, <1>1, <1>2, SetInduction
<1> QED
  BY <1>0, <1>3

(* Words beyond the end of the log do not matter while none begins an      *)
(* entry there.                                                            *)
LEMMA LogFramed ==
  ASSUME NEW f, NEW g, Agree(f, g, LogEnd(f)), EntriesAt(g, LogEnd(f)) = {}
  PROVE  Log(g) = Log(f) /\ LogEnd(g) = LogEnd(f)
<1>1. PICK n \in 0 .. ROUNDS : /\ Ended(f, n) /\ ScanFrom(f)[n] = ScanFrom(f)[ROUNDS]
                              /\ \A m \in 0 .. n - 1 : ~Ended(f, m)
  BY ScanEnds
<1>2. ScanFrom(g)[n] = ScanFrom(f)[n]
  BY <1>1, ScanFollows
<1>3. ScanFrom(f)[n].at = LogEnd(f)
  BY <1>1 DEF LogEnd
<1>4. Ended(g, n)
  BY <1>2, <1>3 DEF Ended
<1>5. ScanFrom(g)[ROUNDS] = ScanFrom(g)[n]
  BY <1>4, ScanStays
<1> QED
  BY <1>1, <1>2, <1>5 DEF Log, LogEnd

(* A complete image at the end of the log, with nothing after it, is one   *)
(* entry more.                                                             *)
LEMMA LogGrows ==
  ASSUME NEW f, NEW g, Agree(f, g, LogEnd(f)), NEW e \in EntriesAt(g, LogEnd(f)),
         EntriesAt(g, LogEnd(f) + EntryLen(e)) = {}
  PROVE  Log(g) = Append(Log(f), e) /\ LogEnd(g) = LogEnd(f) + EntryLen(e)
<1>0. ROUNDS \in Nat /\ CAPACITY \in Nat /\ CAPACITY <= 2 * ROUNDS + 1 /\ LogEnd(f) \in Nat
  <2>1. LogEnd(f) \in 0 .. CAPACITY
    BY ScanEnds
  <2> QED
    BY <2>1, RoundsIs, KvAssumption
<1>1. PICK n \in 0 .. ROUNDS : /\ Ended(f, n) /\ ScanFrom(f)[n] = ScanFrom(f)[ROUNDS]
                              /\ \A m \in 0 .. n - 1 : ~Ended(f, m)
                              /\ LogEnd(f) >= 3 * n
  BY ScanEnds
<1>2. ScanFrom(g)[n] = ScanFrom(f)[n]
  BY <1>1, ScanFollows
<1>3. ScanFrom(f)[n].at = LogEnd(f) /\ ScanFrom(f)[n].log = Log(f)
  BY <1>1 DEF LogEnd, Log
<1>4. e \in Entry /\ LogEnd(f) + EntryLen(e) <= CAPACITY
  BY DEF EntriesAt
<1>5. EntryLen(e) \in Nat /\ EntryLen(e) >= 3
  BY <1>4, ImageIs
<1>6. n \in Nat /\ n + 1 <= ROUNDS /\ n + 1 \in 0 .. ROUNDS
  BY <1>0, <1>1, <1>4, <1>5
<1>7. ScanFrom(g)[n + 1] = [at |-> LogEnd(f) + EntryLen(e), log |-> Append(Log(f), e)]
  <2>1. ScanFrom(g)[n + 1] = ScanStep(g, ScanFrom(g)[n])
    BY <1>6, ScanRounds
  <2>2. e \in EntriesAt(g, ScanFrom(g)[n].at)
    BY <1>2, <1>3
  <2>3. ScanStep(g, ScanFrom(g)[n]) = [at |-> ScanFrom(g)[n].at + EntryLen(e), log |-> Append(ScanFrom(g)[n].log, e)]
    BY <2>2, StepIs
  <2> QED
    BY <1>2, <1>3, <2>1, <2>3
<1>8. Ended(g, n + 1)
  BY <1>7 DEF Ended
<1>9. ScanFrom(g)[ROUNDS] = ScanFrom(g)[n + 1]
  BY <1>6, <1>8, ScanStays
<1> QED
  BY <1>7, <1>9 DEF Log, LogEnd

(* Erased words begin no entry, and neither does an image that is not      *)
(* complete.                                                               *)
LEMMA ErasedIsEnd ==
  ASSUME NEW f, NEW at \in Nat, \A w \in at + 1 .. CAPACITY : f[w] = Erased
  PROVE  EntriesAt(f, at) = {}
<1> SUFFICES ASSUME NEW x \in EntriesAt(f, at) PROVE FALSE
  OBVIOUS
<1>1. x \in Entry /\ at + EntryLen(x) <= CAPACITY /\ \A i \in 1 .. EntryLen(x) : f[at + i] = Image(x)[i]
  BY DEF EntriesAt
<1>2. EntryLen(x) \in Nat /\ EntryLen(x) >= 3
  BY <1>1, ImageIs
<1>3. 1 \in 1 .. EntryLen(x) /\ at + 1 \in at + 1 .. CAPACITY
  BY <1>1, <1>2, KvAssumption
<1>4. f[at + 1] = Image(x)[1] /\ f[at + 1] = Erased
  BY <1>1, <1>3
<1> QED
  BY <1>1, <1>3, <1>4, NotImage

LEMMA TornIsEnd ==
  ASSUME NEW f, NEW at \in Nat, NEW e \in Entry, NEW d \in Nat, d < EntryLen(e), at + EntryLen(e) <= CAPACITY,
         \A i \in 1 .. d : f[at + i] = Image(e)[i],
         f[at + (d + 1)] \in {Erased, Garbage},
         \A w \in (at + (d + 1)) + 1 .. CAPACITY : f[w] = Erased
  PROVE  EntriesAt(f, at) = {}
<1> SUFFICES ASSUME NEW x \in EntriesAt(f, at) PROVE FALSE
  OBVIOUS
<1>1. x \in Entry /\ at + EntryLen(x) <= CAPACITY /\ \A i \in 1 .. EntryLen(x) : f[at + i] = Image(x)[i]
  BY DEF EntriesAt
<1>2. EntryLen(x) \in Nat /\ EntryLen(x) >= 3 /\ EntryLen(e) \in Nat /\ EntryLen(e) >= 3 /\ CAPACITY \in Nat
  BY <1>1, ImageIs, KvAssumption
<1>3. 2 \in 1 .. EntryLen(x) /\ f[at + 2] = <<"crc", x>>
  BY <1>1, <1>2, ImageIs
<1>4. CASE d >= 2
  <2>1. f[at + 2] = <<"crc", e>>
    <3>1. 2 \in 1 .. d
      BY <1>4
    <3> QED
      BY <3>1, ImageIs
  <2>2. <<"crc", x>> = <<"crc", e>>
    BY <1>3, <2>1
  <2>3. x = e
    BY <2>2
  <2>4. d + 1 \in 1 .. EntryLen(x)
    BY <1>2, <2>3
  <2>5. f[at + (d + 1)] = Image(x)[d + 1]
    BY <1>1, <2>4
  <2> QED
    BY <1>1, <2>4, <2>5, NotImage
<1>5. CASE d < 2
  <2>1. f[at + 2] \in {Erased, Garbage}
    <3>1. CASE d = 1
      BY <3>1
    <3>2. CASE d = 0
      <4>1. at + 2 \in (at + (d + 1)) + 1 .. CAPACITY
        BY <1>1, <1>2, <3>2
      <4> QED
        BY <4>1
    <3> QED
      BY <1>5, <3>1, <3>2
  <2>2. f[at + 2] = Image(x)[2]
    BY <1>1, <1>3
  <2> QED
    BY <1>1, <1>3, <2>1, <2>2, NotImage
<1> QED
  BY <1>4, <1>5

(* The words of a log, entry by entry.                                     *)
LEMMA WordsRounds ==
  ASSUME NEW s \in Seq(Entry)
  PROVE  /\ WordsUpto(s)[0] = 0
         /\ \A n \in Nat : n + 1 <= Len(s) => WordsUpto(s)[n + 1] = WordsUpto(s)[n] + EntryLen(s[n + 1])
<1> DEFINE IsIt(g, n) == g = [k \in 0 .. n |-> IF k = 0 THEN 0 ELSE g[k - 1] + EntryLen(s[k])]
           S == {n \in Nat : \E g : IsIt(g, n)}
<1>0. Len(s) \in Nat
  OBVIOUS
<1>1. 0 \in S
  <2> DEFINE g == [k \in 0 .. 0 |-> 0]
             h == [k \in 0 .. 0 |-> IF k = 0 THEN 0 ELSE g[k - 1] + EntryLen(s[k])]
  <2>1. g = h
    OBVIOUS
  <2> HIDE DEF g
  <2>2. IsIt(g, 0)
    BY <2>1
  <2> QED
    BY <2>2
<1>2. ASSUME NEW n \in Nat, n \in S PROVE n + 1 \in S
  <2>1. PICK g : IsIt(g, n)
    BY <1>2
  <2> DEFINE e == g[n] + EntryLen(s[n + 1])
             h == [k \in 0 .. n + 1 |-> IF k = n + 1 THEN e ELSE g[k]]
             j == [k \in 0 .. n + 1 |-> IF k = 0 THEN 0 ELSE h[k - 1] + EntryLen(s[k])]
  <2>2. ASSUME NEW k \in 0 .. n + 1 PROVE h[k] = IF k = 0 THEN 0 ELSE h[k - 1] + EntryLen(s[k])
    <3>1. CASE k = n + 1
      <4>1. k - 1 = n /\ k # 0 /\ h[k - 1] = g[n] /\ h[k] = e
        BY <3>1
      <4> QED
        BY <3>1, <4>1
    <3>2. CASE k # n + 1
      <4>1. k \in 0 .. n /\ h[k] = g[k] /\ (k # 0 => h[k - 1] = g[k - 1])
        BY <3>2
      <4>2. g[k] = IF k = 0 THEN 0 ELSE g[k - 1] + EntryLen(s[k])
        BY <2>1, <4>1
      <4> QED
        BY <4>1, <4>2
    <3> QED
      BY <3>1, <3>2
  <2>3. h = [k \in 0 .. n + 1 |-> h[k]]
    OBVIOUS
  <2>4. h = j
    <3> HIDE DEF h
    <3> QED
      BY <2>2, <2>3
  <2> HIDE DEF h
  <2>5. IsIt(h, n + 1)
    BY <2>4
  <2> QED
    BY SMTT(30), <2>5
<1>3. Len(s) \in S
  <2> HIDE DEF S
  <2> QED
    BY <1>0, <1>1, <1>2, SetInduction
<1>4. \E g : g = [k \in 0 .. Len(s) |-> IF k = 0 THEN 0 ELSE g[k - 1] + EntryLen(s[k])]
  BY <1>3
<1> DEFINE it == WordsUpto(s)
<1>5. it = [k \in 0 .. Len(s) |-> IF k = 0 THEN 0 ELSE it[k - 1] + EntryLen(s[k])]
  <2>1. it = CHOOSE g : g = [k \in 0 .. Len(s) |-> IF k = 0 THEN 0 ELSE g[k - 1] + EntryLen(s[k])]
    BY DEF WordsUpto
  <2> HIDE DEF it
  <2> QED
    BY <1>4, <2>1, Zenon
<1> HIDE DEF it
<1>6. it[0] = 0
  BY <1>0, <1>5
<1>7. ASSUME NEW n \in Nat, n + 1 <= Len(s) PROVE it[n + 1] = it[n] + EntryLen(s[n + 1])
  <2>1. n + 1 \in 0 .. Len(s) /\ n + 1 # 0 /\ (n + 1) - 1 = n
    BY <1>0, <1>7
  <2> QED
    BY <1>5, <2>1
<1> QED
  BY <1>6, <1>7 DEF it

(* A log's entries have three words at least.                              *)
LEMMA EntriesIn ==
  ASSUME NEW s \in Seq(Entry)
  PROVE  /\ Len(s) \in Nat /\ DOMAIN s = 1 .. Len(s)
         /\ \A i \in 1 .. Len(s) : s[i] \in Entry /\ EntryLen(s[i]) \in Nat /\ EntryLen(s[i]) >= 3
<1>1. Len(s) \in Nat /\ DOMAIN s = 1 .. Len(s) /\ \A i \in 1 .. Len(s) : s[i] \in Entry
  OBVIOUS
<1> QED
  BY <1>1, ImageIs

(* The words of a log are a number.                                        *)
LEMMA WordsTyped ==
  ASSUME NEW s \in Seq(Entry), NEW n \in 0 .. Len(s)
  PROVE  WordsUpto(s)[n] \in Nat
<1> DEFINE S == {k \in Nat : k <= Len(s) => WordsUpto(s)[k] \in Nat}
<1>0. Len(s) \in Nat /\ n \in Nat
  OBVIOUS
<1>1. 0 \in S
  BY WordsRounds
<1>2. ASSUME NEW k \in Nat, k \in S PROVE k + 1 \in S
  <2> SUFFICES ASSUME k + 1 <= Len(s) PROVE WordsUpto(s)[k + 1] \in Nat
    OBVIOUS
  <2>1. WordsUpto(s)[k] \in Nat /\ k + 1 \in 1 .. Len(s)
    BY <1>0, <1>2
  <2>2. WordsUpto(s)[k + 1] = WordsUpto(s)[k] + EntryLen(s[k + 1])
    BY WordsRounds
  <2>3. EntryLen(s[k + 1]) \in Nat
    BY <2>1, EntriesIn
  <2> QED
    BY <2>1, <2>2, <2>3
<1>3. n \in S
  <2> HIDE DEF S
  <2> QED
    BY <1>0, <1>1, <1>2, SetInduction
<1> QED
  BY <1>0, <1>3

(* The words of the first entries are those entries' words only.           *)
LEMMA WordsPrefix ==
  ASSUME NEW s \in Seq(Entry), NEW t \in Seq(Entry), NEW n \in Nat, n <= Len(s), n <= Len(t),
         \A i \in 1 .. n : s[i] = t[i]
  PROVE  WordsUpto(t)[n] = WordsUpto(s)[n]
<1> DEFINE S == {k \in Nat : k <= n => WordsUpto(t)[k] = WordsUpto(s)[k]}
<1>0. Len(s) \in Nat /\ Len(t) \in Nat
  OBVIOUS
<1>1. 0 \in S
  BY WordsRounds
<1>2. ASSUME NEW k \in Nat, k \in S PROVE k + 1 \in S
  <2> SUFFICES ASSUME k + 1 <= n PROVE WordsUpto(t)[k + 1] = WordsUpto(s)[k + 1]
    OBVIOUS
  <2>1. WordsUpto(t)[k] = WordsUpto(s)[k] /\ k + 1 \in 1 .. n /\ k + 1 <= Len(s) /\ k + 1 <= Len(t)
    BY <1>0, <1>2
  <2>2. /\ WordsUpto(s)[k + 1] = WordsUpto(s)[k] + EntryLen(s[k + 1])
        /\ WordsUpto(t)[k + 1] = WordsUpto(t)[k] + EntryLen(t[k + 1])
    BY <2>1, WordsRounds
  <2>3. s[k + 1] = t[k + 1]
    BY <2>1
  <2> QED
    BY <2>1, <2>2, <2>3
<1>3. n \in S
  <2> HIDE DEF S
  <2> QED
    BY <1>1, <1>2, SetInduction
<1> QED
  BY <1>3

(* One entry more.                                                         *)
LEMMA WordsAppend ==
  ASSUME NEW s \in Seq(Entry), NEW e \in Entry
  PROVE  WordsOf(Append(s, e)) = WordsOf(s) + EntryLen(e) /\ WordsOf(s) \in Nat
<1> DEFINE t == Append(s, e)
           n == Len(s)
<1>1. t \in Seq(Entry) /\ Len(t) = n + 1 /\ n \in Nat /\ t[n + 1] = e /\ \A i \in 1 .. n : s[i] = t[i]
  OBVIOUS
<1> HIDE DEF t
<1>2. WordsUpto(t)[n + 1] = WordsUpto(t)[n] + EntryLen(t[n + 1])
  BY <1>1, WordsRounds
<1>3. WordsUpto(t)[n] = WordsUpto(s)[n]
  BY <1>1, WordsPrefix
<1>4. WordsUpto(s)[n] \in Nat
  BY <1>1, WordsTyped
<1> QED
  BY <1>1, <1>2, <1>3, <1>4 DEF WordsOf, t

(* Without its entry p, a log is that entry's words shorter.               *)
Without(s, t, p) ==
  /\ p \in 1 .. Len(s) /\ Len(t) = Len(s) - 1
  /\ \A i \in 1 .. Len(t) : t[i] = IF i < p THEN s[i] ELSE s[i + 1]

LEMMA WordsWithout ==
  ASSUME NEW s \in Seq(Entry), NEW t \in Seq(Entry), NEW p, Without(s, t, p)
  PROVE  WordsOf(t) + EntryLen(s[p]) = WordsOf(s) /\ WordsOf(t) \in Nat /\ WordsOf(s) \in Nat
<1>0. p \in Nat /\ p >= 1 /\ Len(s) \in Nat /\ p <= Len(s) /\ Len(t) = Len(s) - 1 /\ p - 1 \in Nat
  BY DEF Without
<1> DEFINE q == p - 1
           S == {k \in Nat : q + k <= Len(t) => WordsUpto(t)[q + k] + EntryLen(s[p]) = WordsUpto(s)[(q + k) + 1]}
<1>1. s[p] \in Entry /\ EntryLen(s[p]) \in Nat
  BY <1>0, EntriesIn
<1>2. 0 \in S
  <2>1. \A i \in 1 .. q : s[i] = t[i]
    BY <1>0 DEF Without
  <2>2. WordsUpto(t)[q] = WordsUpto(s)[q]
    BY <1>0, <2>1, WordsPrefix
  <2>3. WordsUpto(s)[q + 1] = WordsUpto(s)[q] + EntryLen(s[q + 1])
    BY <1>0, WordsRounds
  <2>4. q + 0 = q /\ q + 1 = p
    BY <1>0
  <2> QED
    BY <2>2, <2>3, <2>4
<1>3. ASSUME NEW k \in Nat, k \in S PROVE k + 1 \in S
  <2> SUFFICES ASSUME q + (k + 1) <= Len(t)
               PROVE  WordsUpto(t)[q + (k + 1)] + EntryLen(s[p]) = WordsUpto(s)[(q + (k + 1)) + 1]
    OBVIOUS
  <2> DEFINE m == q + k
  <2>1. m \in Nat /\ q + (k + 1) = m + 1 /\ m + 1 <= Len(t) /\ (m + 1) + 1 <= Len(s) /\ m + 1 \in Nat
    BY <1>0
  <2>2. WordsUpto(t)[m] + EntryLen(s[p]) = WordsUpto(s)[m + 1]
    BY <1>0, <1>3
  <2>3. /\ WordsUpto(t)[m + 1] = WordsUpto(t)[m] + EntryLen(t[m + 1])
        /\ WordsUpto(s)[(m + 1) + 1] = WordsUpto(s)[m + 1] + EntryLen(s[(m + 1) + 1])
    BY <2>1, WordsRounds
  <2>4. t[m + 1] = s[(m + 1) + 1]
    <3>1. m + 1 \in 1 .. Len(t) /\ ~(m + 1 < p)
      BY <1>0, <2>1
    <3> QED
      BY <3>1 DEF Without
  <2>5. WordsUpto(t)[m] \in Nat /\ EntryLen(t[m + 1]) \in Nat
    <3>1. m \in 0 .. Len(t) /\ m + 1 \in 1 .. Len(t)
      BY <1>0, <2>1
    <3> QED
      BY <3>1, WordsTyped, EntriesIn
  <2> HIDE DEF m, q
  <2>6. WordsUpto(t)[m + 1] + EntryLen(s[p]) = WordsUpto(s)[(m + 1) + 1]
    BY <2>2, <2>3, <2>4, <2>5, <1>1
  <2> QED
    BY <2>1, <2>6
<1>4. Len(t) - q \in Nat /\ q + (Len(t) - q) = Len(t) /\ Len(t) + 1 = Len(s)
  BY <1>0
<1>5. Len(t) - q \in S
  <2> HIDE DEF S
  <2> QED
    BY <1>2, <1>3, <1>4, SetInduction
<1>6. WordsUpto(t)[Len(t)] + EntryLen(s[p]) = WordsUpto(s)[Len(t) + 1]
  BY <1>4, <1>5
<1>7. Len(t) \in 0 .. Len(t) /\ Len(s) \in 0 .. Len(s)
  BY <1>0
<1>8. WordsUpto(t)[Len(t)] \in Nat /\ WordsUpto(s)[Len(s)] \in Nat
  BY <1>7, WordsTyped
<1> HIDE DEF q, S
<1> QED
  BY <1>4, <1>6, <1>8 DEF WordsOf

(* What get answers from a log: the last entry of the key.                 *)
LastOf(s, k, i) == i \in 1 .. Len(s) /\ s[i][1] = k /\ \A j \in 1 .. Len(s) : j > i => s[j][1] # k

LEMMA NewestIs ==
  ASSUME NEW s \in Seq(Entry), NEW k
  PROVE  /\ (\A i \in 1 .. Len(s) : s[i][1] # k) => Newest(s, k) = Missing
         /\ \A i : LastOf(s, k, i) => Newest(s, k) = s[i][2]
         /\ (\A i \in 1 .. Len(s) : s[i][1] # k) \/ \E i : LastOf(s, k, i)
<1> DEFINE hits == {i \in DOMAIN s : s[i][1] = k}
<1>0. Len(s) \in Nat /\ DOMAIN s = 1 .. Len(s)
  OBVIOUS
<1>1. Newest(s, k) = IF hits = {} THEN Missing ELSE s[Max(hits)][2]
  BY DEF Newest
<1>2. (\A i \in 1 .. Len(s) : s[i][1] # k) => hits = {}
  BY <1>0
<1>3. ASSUME NEW i, LastOf(s, k, i) PROVE Newest(s, k) = s[i][2]
  <2>1. i \in hits /\ i \in Nat
    BY <1>0, <1>3 DEF LastOf
  <2>2. \A j \in hits : j \in Nat /\ i >= j
    BY <1>0, <1>3, <2>1 DEF LastOf
  <2>3. Max(hits) = CHOOSE x \in hits : \A y \in hits : x >= y
    BY DEF Max
  <2> HIDE DEF hits
  <2>4. Max(hits) \in hits /\ Max(hits) >= i
    BY <2>1, <2>2, <2>3
  <2> DEFINE top == Max(hits)
  <2>41. top \in hits /\ top >= i
    BY <2>4
  <2> HIDE DEF top
  <2>42. top \in Nat /\ i >= top
    BY <2>2, <2>41
  <2>43. top = i
    BY <2>1, <2>41, <2>42
  <2>5. Max(hits) = i
    BY <2>43 DEF top
  <2> QED
    BY <1>1, <2>1, <2>5
<1>4. (\A i \in 1 .. Len(s) : s[i][1] # k) \/ \E i : LastOf(s, k, i)
  <2> SUFFICES ASSUME NEW i \in 1 .. Len(s), s[i][1] = k PROVE \E j : LastOf(s, k, j)
    OBVIOUS
  <2> DEFINE B == {Len(s) - j : j \in hits}
  <2>1. B \in SUBSET Nat /\ B # {}
    BY <1>0
  <2>2. PICK x \in B : \A y \in B : x <= y
    BY <2>1, LeastNat
  <2>3. PICK j \in hits : x = Len(s) - j
    BY <2>2
  <2>4. \A m \in hits : m <= j
    <3> SUFFICES ASSUME NEW m \in hits PROVE m <= j
      OBVIOUS
    <3>1. x <= Len(s) - m
      BY <2>2
    <3> QED
      BY <1>0, <2>3, <3>1
  <2>5. LastOf(s, k, j)
    BY <1>0, <2>3, <2>4 DEF LastOf
  <2> QED
    BY <2>5
<1> QED
  BY <1>1, <1>2, <1>3, <1>4

(* An entry appended is what get answers for its key, and for no other.    *)
LEMMA NewestAppend ==
  ASSUME NEW s \in Seq(Entry), NEW e \in Entry, NEW k
  PROVE  Newest(Append(s, e), k) = IF k = e[1] THEN e[2] ELSE Newest(s, k)
<1> DEFINE t == Append(s, e)
           n == Len(s)
<1>1. t \in Seq(Entry) /\ Len(t) = n + 1 /\ n \in Nat /\ t[n + 1] = e /\ \A i \in 1 .. n : s[i] = t[i]
  OBVIOUS
<1> HIDE DEF t
<1>2. CASE k = e[1]
  <2>1. LastOf(t, k, n + 1)
    BY <1>1, <1>2 DEF LastOf
  <2>2. Newest(t, k) = t[n + 1][2]
    BY <1>1, <2>1, NewestIs
  <2>3. Newest(t, k) = e[2]
    BY <1>1, <2>2
  <2> QED
    BY <1>2, <2>3 DEF t
<1>3. CASE k # e[1]
  <2>1. CASE \A i \in 1 .. n : s[i][1] # k
    <3>1. \A i \in 1 .. Len(t) : t[i][1] # k
      BY <1>1, <1>3, <2>1
    <3>2. Newest(t, k) = Missing /\ Newest(s, k) = Missing
      BY <1>1, <2>1, <3>1, NewestIs
    <3> QED
      BY <1>3, <3>2 DEF t
  <2>2. CASE \E i : LastOf(s, k, i)
    <3>1. PICK i : LastOf(s, k, i)
      BY <2>2
    <3>2. LastOf(t, k, i) /\ t[i] = s[i]
      BY SMTT(30), <1>1, <1>3, <3>1 DEF LastOf
    <3>3. Newest(t, k) = t[i][2] /\ Newest(s, k) = s[i][2]
      BY <1>1, <3>1, <3>2, NewestIs
    <3> QED
      BY <1>3, <3>2, <3>3 DEF t
  <2> QED
    BY <2>1, <2>2, NewestIs
<1> QED
  BY <1>2, <1>3

(* get does not miss an entry of another key.                              *)
LEMMA NewestWithout ==
  ASSUME NEW s \in Seq(Entry), NEW t \in Seq(Entry), NEW p, Without(s, t, p), NEW k, s[p][1] # k
  PROVE  Newest(t, k) = Newest(s, k)
<1>0. p \in Nat /\ Len(s) \in Nat /\ Len(t) \in Nat /\ p \in 1 .. Len(s) /\ Len(t) = Len(s) - 1
  BY DEF Without
<1>1. CASE \A i \in 1 .. Len(s) : s[i][1] # k
  <2>1. \A i \in 1 .. Len(t) : t[i][1] # k
    BY <1>0, <1>1 DEF Without
  <2> QED
    BY <1>1, <2>1, NewestIs
<1>2. CASE \E i : LastOf(s, k, i)
  <2>1. PICK i : LastOf(s, k, i)
    BY <1>2
  <2>2. i \in 1 .. Len(s) /\ i # p /\ i \in Nat /\ s[i][1] = k
    BY <1>0, <2>1 DEF LastOf
  <2> DEFINE j == IF i < p THEN i ELSE i - 1
  <2>3. j \in 1 .. Len(t) /\ t[j] = s[i]
    BY <1>0, <2>2 DEF Without
  <2>4. \A m \in 1 .. Len(t) : m > j => t[m][1] # k
    <3> SUFFICES ASSUME NEW m \in 1 .. Len(t), m > j PROVE t[m][1] # k
      OBVIOUS
    <3>1. CASE m < p
      <4>1. t[m] = s[m] /\ m \in 1 .. Len(s) /\ m > i
        BY <1>0, <2>2, <3>1 DEF Without
      <4> QED
        BY <2>1, <4>1 DEF LastOf
    <3>2. CASE ~(m < p)
      <4>1. t[m] = s[m + 1] /\ m + 1 \in 1 .. Len(s) /\ m + 1 > i
        BY <1>0, <2>2, <3>2 DEF Without
      <4> QED
        BY <2>1, <4>1 DEF LastOf
    <3> QED
      BY <3>1, <3>2
  <2>5. LastOf(t, k, j)
    BY <2>2, <2>3, <2>4 DEF LastOf
  <2>6. Newest(t, k) = t[j][2] /\ Newest(s, k) = s[i][2]
    BY <2>1, <2>5, NewestIs
  <2> QED
    BY <2>3, <2>6
<1> QED
  BY <1>1, <1>2, NewestIs

(* The scratch, entry by entry.                                            *)
LEMMA ScratchRounds ==
  ASSUME NEW s \in Seq(Entry)
  PROVE  /\ Scratches(s)[0] = <<>>
         /\ \A n \in Nat : n + 1 <= Len(s) => Scratches(s)[n + 1] = Copied(Scratches(s)[n], s[n + 1])
<1> DEFINE IsIt(g, n) == g = [k \in 0 .. n |-> IF k = 0 THEN <<>> ELSE Copied(g[k - 1], s[k])]
           S == {n \in Nat : \E g : IsIt(g, n)}
<1>0. Len(s) \in Nat
  OBVIOUS
<1>1. 0 \in S
  <2> DEFINE g == [k \in 0 .. 0 |-> <<>>]
             h == [k \in 0 .. 0 |-> IF k = 0 THEN <<>> ELSE Copied(g[k - 1], s[k])]
  <2>1. g = h
    OBVIOUS
  <2> HIDE DEF g
  <2>2. IsIt(g, 0)
    BY <2>1
  <2> QED
    BY <2>2
<1>2. ASSUME NEW n \in Nat, n \in S PROVE n + 1 \in S
  <2>1. PICK g : IsIt(g, n)
    BY <1>2
  <2> DEFINE e == Copied(g[n], s[n + 1])
             h == [k \in 0 .. n + 1 |-> IF k = n + 1 THEN e ELSE g[k]]
             j == [k \in 0 .. n + 1 |-> IF k = 0 THEN <<>> ELSE Copied(h[k - 1], s[k])]
  <2>2. ASSUME NEW k \in 0 .. n + 1 PROVE h[k] = IF k = 0 THEN <<>> ELSE Copied(h[k - 1], s[k])
    <3>1. CASE k = n + 1
      <4>1. k - 1 = n /\ k # 0 /\ h[k - 1] = g[n] /\ h[k] = e
        BY <3>1
      <4> QED
        BY <3>1, <4>1
    <3>2. CASE k # n + 1
      <4>1. k \in 0 .. n /\ h[k] = g[k] /\ (k # 0 => h[k - 1] = g[k - 1])
        BY <3>2
      <4>2. g[k] = IF k = 0 THEN <<>> ELSE Copied(g[k - 1], s[k])
        BY <2>1, <4>1
      <4> QED
        BY <4>1, <4>2
    <3> QED
      BY <3>1, <3>2
  <2>3. h = [k \in 0 .. n + 1 |-> h[k]]
    OBVIOUS
  <2>4. h = j
    <3> HIDE DEF h
    <3> QED
      BY <2>2, <2>3
  <2> HIDE DEF h
  <2>5. IsIt(h, n + 1)
    BY <2>4
  <2> QED
    BY <2>5
<1>3. Len(s) \in S
  <2> HIDE DEF S
  <2> QED
    BY <1>0, <1>1, <1>2, SetInduction
<1>4. \E g : g = [k \in 0 .. Len(s) |-> IF k = 0 THEN <<>> ELSE Copied(g[k - 1], s[k])]
  BY <1>3
<1> DEFINE it == Scratches(s)
<1>5. it = [k \in 0 .. Len(s) |-> IF k = 0 THEN <<>> ELSE Copied(it[k - 1], s[k])]
  <2>1. it = CHOOSE g : g = [k \in 0 .. Len(s) |-> IF k = 0 THEN <<>> ELSE Copied(g[k - 1], s[k])]
    BY DEF Scratches
  <2> HIDE DEF it
  <2> QED
    BY <1>4, <2>1, Zenon
<1> HIDE DEF it
<1>6. it[0] = <<>>
  BY <1>0, <1>5
<1>7. ASSUME NEW n \in Nat, n + 1 <= Len(s) PROVE it[n + 1] = Copied(it[n], s[n + 1])
  <2>1. n + 1 \in 0 .. Len(s) /\ n + 1 # 0 /\ (n + 1) - 1 = n
    BY <1>0, <1>7
  <2> QED
    BY <1>5, <2>1
<1> QED
  BY <1>6, <1>7 DEF it

(* An entry copied to the scratch: get answers as from the log it joins,   *)
(* and the scratch grows by no more than the entry.                        *)
LEMMA CopiedIs ==
  ASSUME NEW s \in Seq(Entry), NEW e \in Entry
  PROVE  /\ Copied(s, e) \in Seq(Entry)
         /\ WordsOf(Copied(s, e)) \in Nat /\ WordsOf(Copied(s, e)) <= WordsOf(s) + EntryLen(e)
         /\ \A k : Newest(Copied(s, e), k) = IF k = e[1] THEN e[2] ELSE Newest(s, k)
<1>0. EntryLen(e) \in Nat
  BY ImageIs
<1>1. CASE FoundAt(s, e[1]) = {}
  <2>1. Copied(s, e) = Append(s, e)
    BY <1>1 DEF Copied
  <2>2. Append(s, e) \in Seq(Entry)
    OBVIOUS
  <2>3. WordsOf(Append(s, e)) = WordsOf(s) + EntryLen(e) /\ WordsOf(s) \in Nat
    BY WordsAppend
  <2>4. \A k : Newest(Append(s, e), k) = IF k = e[1] THEN e[2] ELSE Newest(s, k)
    BY NewestAppend
  <2> QED
    BY <1>0, <2>1, <2>2, <2>3, <2>4
<1>2. CASE FoundAt(s, e[1]) # {}
  <2> DEFINE F == FoundAt(s, e[1])
             p == Min(F)
             a == SubSeq(s, 1, p - 1)
             b == SubSeq(s, p + 1, Len(s))
             t == a \o b
  <2>1. F \in SUBSET Nat /\ F # {} /\ Len(s) \in Nat /\ \A i \in F : i \in 1 .. Len(s) /\ s[i][1] = e[1]
    BY <1>2 DEF FoundAt
  <2>2. \E x \in F : \A y \in F : x <= y
    BY <2>1, LeastNat
  <2>3. p = CHOOSE x \in F : \A y \in F : x <= y
    BY DEF Min
  <2>4. p \in F
    <3> HIDE DEF F, p
    <3> QED
      BY <2>2, <2>3
  <2>5. p \in 1 .. Len(s) /\ s[p][1] = e[1] /\ p \in Nat
    BY <2>1, <2>4
  <2> HIDE DEF F, p
  <2>6. a \in Seq(Entry) /\ Len(a) = p - 1 /\ \A i \in 1 .. p - 1 : a[i] = s[i]
    BY <2>1, <2>5
  <2>7. b \in Seq(Entry) /\ Len(b) = Len(s) - p /\ \A i \in 1 .. Len(s) - p : b[i] = s[p + i]
    <3>1. p + 1 \in 1 .. Len(s) + 1 /\ Len(s) \in p .. Len(s)
      BY <2>1, <2>5
    <3>2. Len(b) = Len(s) - p
      BY <2>1, <2>5
    <3>3. b \in Seq(Entry)
      BY <2>1, <2>5
    <3>4. ASSUME NEW i \in 1 .. Len(s) - p PROVE b[i] = s[p + i]
      <4>1. b[i] = s[(p + 1) + i - 1]
        BY <2>1, <2>5
      <4>2. (p + 1) + i - 1 = p + i
        BY <2>5
      <4> QED
        BY <4>1, <4>2
    <3> QED
      BY <3>2, <3>3, <3>4
  <2> HIDE DEF a, b
  <2>8. t \in Seq(Entry)
    BY <2>6, <2>7
  <2>9. Len(t) = Len(s) - 1
    BY <2>1, <2>5, <2>6, <2>7
  <2>10. ASSUME NEW i \in 1 .. Len(t) PROVE t[i] = IF i < p THEN s[i] ELSE s[i + 1]
    <3>1. CASE i < p
      <4>1. i \in 1 .. Len(a) /\ i \in 1 .. p - 1
        BY <2>1, <2>5, <2>6, <2>9, <3>1
      <4>2. t[i] = a[i]
        BY <2>6, <2>7, <4>1
      <4> QED
        BY <2>6, <3>1, <4>1, <4>2
    <3>2. CASE ~(i < p)
      <4>1. i - Len(a) \in 1 .. Len(b) /\ i \in Len(a) + 1 .. Len(a) + Len(b) /\ i - Len(a) = i + 1 - p
        BY <2>1, <2>5, <2>6, <2>7, <2>9, <3>2
      <4>2. t[i] = b[i - Len(a)]
        BY SMTT(30), <2>6, <2>7, <4>1, ConcatProperties
      <4>3. b[i - Len(a)] = s[p + (i - Len(a))] /\ p + (i - Len(a)) = i + 1
        BY <2>1, <2>5, <2>6, <2>7, <4>1
      <4> QED
        BY <3>2, <4>2, <4>3
    <3> QED
      BY <3>1, <3>2
  <2>11. Copied(s, e) = Append(t, e)
    BY <1>2 DEF Copied, t, a, b, p, F
  <2> HIDE DEF t
  <2>12. Without(s, t, p)
    BY <2>5, <2>9, <2>10 DEF Without
  <2>13. EntryLen(s[p]) \in Nat
    BY <2>5, EntriesIn
  <2>14. WordsOf(t) + EntryLen(s[p]) = WordsOf(s) /\ WordsOf(t) \in Nat /\ WordsOf(s) \in Nat
    BY <2>8, <2>12, WordsWithout
  <2>15. WordsOf(Append(t, e)) = WordsOf(t) + EntryLen(e)
    BY <2>8, WordsAppend
  <2>16. ASSUME NEW k PROVE Newest(Append(t, e), k) = IF k = e[1] THEN e[2] ELSE Newest(s, k)
    <3>1. Newest(Append(t, e), k) = IF k = e[1] THEN e[2] ELSE Newest(t, k)
      BY <2>8, NewestAppend
    <3>2. k # e[1] => Newest(t, k) = Newest(s, k)
      BY <2>5, <2>8, <2>12, NewestWithout
    <3> QED
      BY <3>1, <3>2
  <2>17. Append(t, e) \in Seq(Entry)
    BY <2>8
  <2>18. WordsOf(Append(t, e)) \in Nat /\ WordsOf(Append(t, e)) <= WordsOf(s) + EntryLen(e)
    BY <1>0, <2>13, <2>14, <2>15
  <2> QED
    BY <2>11, <2>16, <2>17, <2>18
<1> QED
  BY <1>1, <1>2

(* A log's first entries, one by one.                                      *)
LEMMA PrefixGrows ==
  ASSUME NEW s \in Seq(Entry), NEW n \in Nat, n + 1 <= Len(s)
  PROVE  /\ SubSeq(s, 1, n) \in Seq(Entry) /\ s[n + 1] \in Entry
         /\ SubSeq(s, 1, n + 1) = Append(SubSeq(s, 1, n), s[n + 1])
<1>1. SubSeq(s, 1, n) \in Seq(Entry) /\ Len(SubSeq(s, 1, n)) = n /\ \A i \in 1 .. n : SubSeq(s, 1, n)[i] = s[i]
  OBVIOUS
<1>2. SubSeq(s, 1, n + 1) \in Seq(Entry) /\ Len(SubSeq(s, 1, n + 1)) = n + 1
      /\ \A i \in 1 .. n + 1 : SubSeq(s, 1, n + 1)[i] = s[i]
  OBVIOUS
<1>3. s[n + 1] \in Entry
  OBVIOUS
<1> DEFINE a == SubSeq(s, 1, n)
           b == SubSeq(s, 1, n + 1)
           c == Append(a, s[n + 1])
<1> HIDE DEF a, b
<1>4. c \in Seq(Entry) /\ Len(c) = n + 1 /\ c[n + 1] = s[n + 1] /\ \A i \in 1 .. n : c[i] = a[i]
  BY <1>1, <1>3 DEF a
<1>5. \A i \in 1 .. n + 1 : b[i] = c[i]
  BY <1>1, <1>2, <1>4 DEF a, b
<1> HIDE DEF c
<1>6. b = c
  BY <1>2, <1>4, <1>5, SeqEqual DEF b
<1> QED
  BY <1>1, <1>3, <1>6 DEF a, b, c

(* compact's scratch answers as the log does, and is no longer.            *)
LEMMA ScratchIs ==
  ASSUME NEW s \in Seq(Entry)
  PROVE  /\ Scratches(s)[Len(s)] \in Seq(Entry)
         /\ WordsOf(Scratches(s)[Len(s)]) \in Nat /\ WordsOf(Scratches(s)[Len(s)]) <= WordsOf(s)
         /\ \A k : Newest(Scratches(s)[Len(s)], k) = Newest(s, k)
<1> DEFINE c == Scratches(s)
           Good(n) == /\ c[n] \in Seq(Entry) /\ WordsOf(c[n]) \in Nat /\ WordsOf(c[n]) <= WordsOf(SubSeq(s, 1, n))
                      /\ \A k : Newest(c[n], k) = Newest(SubSeq(s, 1, n), k)
           S == {n \in Nat : n <= Len(s) => Good(n)}
<1>0. Len(s) \in Nat
  OBVIOUS
<1>1. 0 \in S
  <2>1. c[0] = <<>>
    BY ScratchRounds
  <2>2. SubSeq(s, 1, 0) = <<>>
    OBVIOUS
  <2>3. <<>> \in Seq(Entry) /\ Len(<<>>) = 0
    OBVIOUS
  <2>4. WordsOf(<<>>) \in Nat
    <3>1. WordsUpto(<<>>)[0] = 0
      BY <2>3, WordsRounds
    <3> QED
      BY <2>3, <3>1 DEF WordsOf
  <2> DEFINE a == SubSeq(s, 1, 0)
  <2>5. c[0] = a /\ c[0] \in Seq(Entry) /\ WordsOf(c[0]) \in Nat
    BY <2>1, <2>2, <2>3, <2>4
  <2> HIDE DEF c, a
  <2>6. WordsOf(c[0]) <= WordsOf(a) /\ \A k : Newest(c[0], k) = Newest(a, k)
    BY <2>5
  <2>7. Good(0)
    BY <2>5, <2>6 DEF a
  <2> HIDE DEF Good
  <2> QED
    BY <2>7
<1>2. ASSUME NEW n \in Nat, n \in S PROVE n + 1 \in S
  <2> SUFFICES ASSUME n + 1 <= Len(s) PROVE Good(n + 1)
    OBVIOUS
  <2> DEFINE a == SubSeq(s, 1, n)
             e == s[n + 1]
             b == SubSeq(s, 1, n + 1)
  <2>1. Good(n)
    BY <1>0, <1>2
  <2>2. a \in Seq(Entry) /\ e \in Entry /\ b = Append(a, e)
    BY PrefixGrows
  <2>3. c[n + 1] = Copied(c[n], e)
    BY ScratchRounds
  <2>4. c[n] \in Seq(Entry) /\ WordsOf(c[n]) \in Nat /\ WordsOf(c[n]) <= WordsOf(a) /\ \A k : Newest(c[n], k) = Newest(a, k)
    BY <2>1
  <2> HIDE DEF c, a, e, b
  <2>5. /\ Copied(c[n], e) \in Seq(Entry)
        /\ WordsOf(Copied(c[n], e)) \in Nat /\ WordsOf(Copied(c[n], e)) <= WordsOf(c[n]) + EntryLen(e)
        /\ \A k : Newest(Copied(c[n], e), k) = IF k = e[1] THEN e[2] ELSE Newest(c[n], k)
    BY <2>2, <2>4, CopiedIs
  <2>6. WordsOf(b) = WordsOf(a) + EntryLen(e) /\ WordsOf(a) \in Nat
    BY <2>2, WordsAppend
  <2>7. \A k : Newest(b, k) = IF k = e[1] THEN e[2] ELSE Newest(a, k)
    BY <2>2, NewestAppend
  <2>8. EntryLen(e) \in Nat
    BY <2>2, ImageIs
  <2>9. WordsOf(c[n + 1]) \in Nat /\ WordsOf(c[n + 1]) <= WordsOf(b) /\ c[n + 1] \in Seq(Entry)
    BY <2>3, <2>4, <2>5, <2>6, <2>8
  <2>10. \A k : Newest(c[n + 1], k) = Newest(b, k)
    BY <2>3, <2>4, <2>5, <2>7
  <2> QED
    BY <2>9, <2>10 DEF b
<1>3. Len(s) \in S
  <2> HIDE DEF S
  <2> QED
    BY <1>0, <1>1, <1>2, SetInduction
<1>4. Good(Len(s))
  BY <1>0, <1>3
<1>5. SubSeq(s, 1, Len(s)) = s
  OBVIOUS
<1> QED
  BY <1>4, <1>5

(* The words of the log are the place where it ends.                       *)
LEMMA LogWords ==
  ASSUME NEW f
  PROVE  WordsOf(Log(f)) = LogEnd(f)
<1> DEFINE sc == ScanFrom(f)
           S == {n \in Nat : n <= ROUNDS => WordsOf(sc[n].log) = sc[n].at}
<1>0. ROUNDS \in Nat
  BY RoundsIs
<1>1. 0 \in S
  <2>1. sc[0].log = <<>> /\ sc[0].at = 0
    BY ScanRounds
  <2>2. WordsOf(<<>>) = 0
    <3>1. <<>> \in Seq(Entry) /\ Len(<<>>) = 0
      OBVIOUS
    <3> QED
      BY <3>1, WordsRounds DEF WordsOf
  <2> HIDE DEF sc
  <2> QED
    BY <2>1, <2>2
<1>2. ASSUME NEW n \in Nat, n \in S PROVE n + 1 \in S
  <2> SUFFICES ASSUME n + 1 <= ROUNDS PROVE WordsOf(sc[n + 1].log) = sc[n + 1].at
    OBVIOUS
  <2>1. WordsOf(sc[n].log) = sc[n].at /\ n \in 0 .. ROUNDS
    BY <1>0, <1>2
  <2>2. sc[n].log \in Seq(Entry)
    BY <2>1, ScanTyped
  <2>3. sc[n + 1] = ScanStep(f, sc[n])
    BY ScanRounds
  <2> HIDE DEF sc
  <2>4. CASE EntriesAt(f, sc[n].at) = {}
    BY <2>1, <2>3, <2>4, StepIs
  <2>5. CASE EntriesAt(f, sc[n].at) # {}
    <3>1. PICK e \in EntriesAt(f, sc[n].at) : TRUE
      BY <2>5
    <3>2. ScanStep(f, sc[n]) = [at |-> sc[n].at + EntryLen(e), log |-> Append(sc[n].log, e)]
      BY <3>1, StepIs
    <3>3. e \in Entry
      BY <3>1 DEF EntriesAt
    <3>4. WordsOf(Append(sc[n].log, e)) = WordsOf(sc[n].log) + EntryLen(e)
      BY <2>2, <3>3, WordsAppend
    <3> QED
      BY <2>1, <2>3, <3>2, <3>4
  <2> QED
    BY <2>4, <2>5
<1>3. ROUNDS \in S
  <2> HIDE DEF S
  <2> QED
    BY <1>0, <1>1, <1>2, SetInduction
<1> QED
  BY <1>0, <1>3 DEF Log, LogEnd

(* What compaction writes back fits, and get answers from it as from the   *)
(* log.                                                                    *)
LEMMA LiveIs ==
  ASSUME NEW f
  PROVE  /\ LiveEntries(f) \in Seq(Entry)
         /\ WordsOf(LiveEntries(f)) \in Nat /\ WordsOf(LiveEntries(f)) <= CAPACITY
         /\ \A k : Newest(LiveEntries(f), k) = Newest(Log(f), k)
<1>1. Log(f) \in Seq(Entry) /\ LogEnd(f) \in 0 .. CAPACITY
  BY ScanEnds
<1>2. LiveEntries(f) = Scratches(Log(f))[Len(Log(f))]
  BY DEF LiveEntries
<1>3. /\ LiveEntries(f) \in Seq(Entry) /\ WordsOf(LiveEntries(f)) \in Nat
      /\ WordsOf(LiveEntries(f)) <= WordsOf(Log(f)) /\ \A k : Newest(LiveEntries(f), k) = Newest(Log(f), k)
  BY <1>1, <1>2, ScratchIs
<1>4. WordsOf(Log(f)) = LogEnd(f)
  BY LogWords
<1> QED
  BY <1>1, <1>3, <1>4, KvAssumption

(* What get answers, key by key, from a log.                               *)
Say(s) == [k \in Keys |-> Newest(s, k)]

(* An entry appended changes one answer.                                   *)
LEMMA SayAppend ==
  ASSUME NEW s \in Seq(Entry), NEW e \in Entry
  PROVE  Say(Append(s, e)) = [Say(s) EXCEPT ![e[1]] = e[2]]
<1>1. \A k : Newest(Append(s, e), k) = IF k = e[1] THEN e[2] ELSE Newest(s, k)
  BY NewestAppend
<1>2. e[1] \in Keys
  BY DEF Entry
<1> DEFINE a == Say(Append(s, e))
           b == [Say(s) EXCEPT ![e[1]] = e[2]]
<1>3. a = [k \in Keys |-> Newest(Append(s, e), k)] /\ b = [k \in Keys |-> IF k = e[1] THEN e[2] ELSE Newest(s, k)]
  BY <1>2 DEF Say
<1> QED
  BY <1>1, <1>3

(* What the flash stores is what get answers from its log.                 *)
LEMMA StoredIs ==
  ASSUME NEW f
  PROVE  /\ Stored(f) = Say(Log(f)) /\ Log(f) \in Seq(Entry)
         /\ \A k \in Keys : Stored(f)[k] = Get(f, k)
<1>1. Stored(f) = Say(Log(f))
  BY DEF Stored, Say
<1>2. Log(f) \in Seq(Entry)
  BY ScanEnds
<1> QED
  BY <1>1, <1>2 DEF Say, Get

(* An erased partition has no log.                                         *)
LEMMA ErasedLog ==
  ASSUME NEW f, \A w \in 1 .. CAPACITY : f[w] = Erased
  PROVE  Log(f) = <<>> /\ LogEnd(f) = 0 /\ Stored(f) = [k \in Keys |-> Missing]
<1>1. ROUNDS \in Nat /\ 0 \in 0 .. ROUNDS
  BY RoundsIs
<1>2. ScanFrom(f)[0] = [at |-> 0, log |-> <<>>]
  BY ScanRounds
<1>3. \A w \in 0 + 1 .. CAPACITY : f[w] = Erased
  OBVIOUS
<1>4. EntriesAt(f, 0) = {}
  BY <1>3, ErasedIsEnd
<1>5. Ended(f, 0)
  BY <1>2, <1>4 DEF Ended
<1>6. ScanFrom(f)[ROUNDS] = ScanFrom(f)[0]
  BY <1>1, <1>5, ScanStays
<1>7. Log(f) = <<>> /\ LogEnd(f) = 0
  BY <1>2, <1>6 DEF Log, LogEnd
<1>8. \A k : Newest(<<>>, k) = Missing
  <2> DEFINE z == <<>>
  <2>1. z \in Seq(Entry) /\ Len(z) = 0
    OBVIOUS
  <2> HIDE DEF z
  <2>2. ASSUME NEW k PROVE Newest(z, k) = Missing
    <3>1. \A i \in 1 .. Len(z) : z[i][1] # k
      BY <2>1
    <3> QED
      BY <2>1, <3>1, NewestIs
  <2> QED
    BY <2>2 DEF z
<1>9. Stored(f) = [k \in Keys |-> Newest(<<>>, k)]
  BY <1>7 DEF Stored
<1> QED
  BY <1>7, <1>8, <1>9

(* The first entry of a list, moved to the log before it.                  *)
LEMMA HeadMoves ==
  ASSUME NEW s \in Seq(Entry), NEW t \in Seq(Entry), t # <<>>
  PROVE  /\ Head(t) \in Entry /\ Tail(t) \in Seq(Entry)
         /\ Append(s, Head(t)) \o Tail(t) = s \o t
         /\ WordsOf(Tail(t)) + EntryLen(Head(t)) = WordsOf(t)
         /\ WordsOf(Tail(t)) \in Nat /\ WordsOf(t) \in Nat /\ EntryLen(Head(t)) \in Nat
<1>1. Head(t) \in Entry /\ Tail(t) \in Seq(Entry) /\ Len(t) \in Nat /\ Len(t) >= 1 /\ Len(Tail(t)) = Len(t) - 1
      /\ Head(t) = t[1] /\ \A i \in 1 .. Len(Tail(t)) : Tail(t)[i] = t[i + 1]
  OBVIOUS
<1> DEFINE u == Tail(t)
           e == Head(t)
           a == Append(s, e)
<1>2. a \in Seq(Entry) /\ Len(a) = Len(s) + 1 /\ Len(s) \in Nat /\ a[Len(s) + 1] = e /\ \A i \in 1 .. Len(s) : a[i] = s[i]
  BY <1>1
<1> HIDE DEF u, e, a
<1>3. /\ a \o u \in Seq(Entry) /\ Len(a \o u) = Len(a) + Len(u)
      /\ \A i \in 1 .. Len(a) + Len(u) : (a \o u)[i] = IF i <= Len(a) THEN a[i] ELSE u[i - Len(a)]
  BY <1>1, <1>2, ConcatProperties DEF u
<1>4. /\ s \o t \in Seq(Entry) /\ Len(s \o t) = Len(s) + Len(t)
      /\ \A i \in 1 .. Len(s) + Len(t) : (s \o t)[i] = IF i <= Len(s) THEN s[i] ELSE t[i - Len(s)]
  BY ConcatProperties
<1>5. Len(a \o u) = Len(s \o t) /\ Len(u) = Len(t) - 1 /\ u \in Seq(Entry)
  BY <1>1, <1>2, <1>3, <1>4 DEF u
<1>6. ASSUME NEW i \in 1 .. Len(s) + Len(t) PROVE (a \o u)[i] = (s \o t)[i]
  <2>1. i \in 1 .. Len(a) + Len(u) /\ i \in Nat
    BY <1>1, <1>2, <1>5
  <2>2. CASE i <= Len(s)
    <3>1. (a \o u)[i] = a[i] /\ (s \o t)[i] = s[i] /\ i \in 1 .. Len(s)
      BY <1>2, <1>3, <1>4, <2>1, <2>2
    <3> QED
      BY <1>2, <3>1
  <2>3. CASE i = Len(s) + 1
    <3>1. (a \o u)[i] = a[i]
      BY <1>2, <1>3, <2>1, <2>3
    <3>2. (s \o t)[i] = t[i - Len(s)] /\ i - Len(s) = 1
      BY <1>2, <1>4, <2>3
    <3> QED
      BY <1>1, <1>2, <2>3, <3>1, <3>2 DEF e
  <2>4. CASE i > Len(s) + 1
    <3>1. (a \o u)[i] = u[i - Len(a)]
      BY <1>2, <1>3, <2>1, <2>4
    <3>2. (s \o t)[i] = t[i - Len(s)]
      BY <1>2, <1>4, <2>4
    <3>3. i - Len(a) \in 1 .. Len(u) /\ (i - Len(a)) + 1 = i - Len(s)
      BY <1>1, <1>2, <1>5, <2>4
    <3> QED
      BY <1>1, <3>1, <3>2, <3>3 DEF u
  <2> QED
    BY <1>2, <2>1, <2>2, <2>3, <2>4
<1>7. a \o u = s \o t
  BY <1>3, <1>4, <1>5, <1>6, SeqEqual
<1>8. Without(t, u, 1)
  BY <1>1 DEF Without, u
<1>9. WordsOf(u) + EntryLen(t[1]) = WordsOf(t) /\ WordsOf(u) \in Nat /\ WordsOf(t) \in Nat
  BY <1>5, <1>8, WordsWithout
<1>10. EntryLen(Head(t)) \in Nat
  BY <1>1, ImageIs
<1> QED
  BY <1>1, <1>7, <1>9, <1>10 DEF a, u, e

(* What is left of an image when d words of it are down.                   *)
ImageFrom(e, d) == [i \in 1 .. EntryLen(e) - d |-> Image(e)[d + i]]

(* Its first word is the next to go down.                                  *)
LEMMA ImageFromIs ==
  ASSUME NEW e \in Entry, NEW d \in 0 .. EntryLen(e) - 1
  PROVE  /\ ImageFrom(e, d) \in Seq(KvWord) /\ Len(ImageFrom(e, d)) = EntryLen(e) - d
         /\ ImageFrom(e, d) # <<>> /\ Head(ImageFrom(e, d)) = Image(e)[d + 1]
         /\ Head(ImageFrom(e, d)) \in KvWord
         /\ Tail(ImageFrom(e, d)) = ImageFrom(e, d + 1)
         /\ ImageFrom(e, 0) = Image(e)
         /\ EntryLen(e) \in Nat /\ EntryLen(e) >= 3
<1>0. EntryLen(e) \in Nat /\ EntryLen(e) >= 3 /\ d \in Nat
  BY ImageIs
<1>1. \A i \in 1 .. EntryLen(e) : Image(e)[i] \in KvWord
  BY ImageIs
<1> DEFINE n == EntryLen(e)
           s == ImageFrom(e, d)
<1>2. s = [i \in 1 .. n - d |-> Image(e)[d + i]] /\ n - d \in Nat /\ n - d >= 1
  BY <1>0 DEF ImageFrom
<1>3. \A i \in 1 .. n - d : Image(e)[d + i] \in KvWord
  BY <1>0, <1>1
<1>4. s \in Seq(KvWord) /\ Len(s) = n - d
  <2> HIDE DEF s
  <2> QED
    BY <1>2, <1>3, IsASeq
<1>5. s # <<>> /\ Head(s) = s[1] /\ s[1] = Image(e)[d + 1]
  <2> HIDE DEF s
  <2> QED
    BY <1>2, <1>4
<1>6. Tail(s) = ImageFrom(e, d + 1)
  <2> HIDE DEF s
  <2>1. Tail(s) \in Seq(KvWord) /\ Len(Tail(s)) = Len(s) - 1 /\ \A i \in 1 .. Len(s) - 1 : Tail(s)[i] = s[i + 1]
    BY <1>4, <1>5
  <2>2. Len(s) - 1 = n - (d + 1) /\ Len(s) - 1 \in Nat
    BY <1>0, <1>2, <1>4
  <2>3. ASSUME NEW i \in 1 .. Len(s) - 1 PROVE s[i + 1] = Image(e)[(d + 1) + i]
    <3>1. i + 1 \in 1 .. n - d /\ d + (i + 1) = (d + 1) + i
      BY <1>0, <1>4
    <3> QED
      BY <1>2, <3>1
  <2> DEFINE t == Tail(s)
             m == Len(s) - 1
  <2>31. t \in [1 .. m -> KvWord] /\ \A i \in 1 .. m : t[i] = Image(e)[(d + 1) + i]
    <3>1. t \in Seq(KvWord) /\ Len(t) = m /\ m \in Nat
      BY <2>1, <2>2
    <3>2. \A i \in 1 .. m : t[i] = s[i + 1] /\ s[i + 1] = Image(e)[(d + 1) + i]
      BY <2>1, <2>3
    <3> HIDE DEF t, m
    <3>3. t \in [1 .. m -> KvWord]
      BY <3>1
    <3> QED
      BY <3>2, <3>3
  <2> HIDE DEF t, m
  <2>32. t = [i \in 1 .. m |-> Image(e)[(d + 1) + i]]
    BY <2>31
  <2>4. Tail(s) = [i \in 1 .. Len(s) - 1 |-> Image(e)[(d + 1) + i]]
    BY <2>32 DEF t, m
  <2> QED
    BY <2>2, <2>4 DEF ImageFrom
<1>7. ImageFrom(e, 0) = Image(e)
  <2>1. Image(e) = [i \in 1 .. n |-> Image(e)[i]]
    BY DEF Image
  <2>2. \A i \in 1 .. n : 0 + i = i
    BY <1>0
  <2>3. n - 0 = n
    BY <1>0
  <2> QED
    BY <2>1, <2>2, <2>3 DEF ImageFrom
<1> HIDE DEF s
<1> QED
  BY <1>0, <1>1, <1>4, <1>5, <1>6, <1>7 DEF s

(* The next word of an entry that is going down after the end of the log:  *)
(* as it should be, the last one or not, or not as it should be.           *)
Begun(f, at, e, d) ==
  /\ at = LogEnd(f) /\ \A i \in 1 .. d : f[at + i] = Image(e)[i]
  /\ \A w \in (at + d) + 1 .. CAPACITY : f[w] = Erased

PutWord(f, i, w) == [f EXCEPT ![i] = w]

LEMMA WordDown ==
  ASSUME NEW f \in [1 .. CAPACITY -> KvWord], NEW e \in Entry, NEW d \in 0 .. EntryLen(e) - 1,
         NEW at \in 0 .. CAPACITY, at + EntryLen(e) <= CAPACITY, Begun(f, at, e, d),
         NEW w, NEW g, g = PutWord(f, (at + d) + 1, w)
  PROVE  /\ f[(at + d) + 1] = Erased
         /\ w = Image(e)[d + 1] /\ d + 1 < EntryLen(e) => Log(g) = Log(f) /\ Begun(g, at, e, d + 1)
         /\ w = Image(e)[d + 1] /\ d + 1 = EntryLen(e) =>
              /\ Log(g) = Append(Log(f), e) /\ LogEnd(g) = at + EntryLen(e)
              /\ \A x \in (at + EntryLen(e)) + 1 .. CAPACITY : g[x] = Erased
         /\ w \in {Erased, Garbage} => Log(g) = Log(f)
<1>0. EntryLen(e) \in Nat /\ EntryLen(e) >= 3 /\ d \in Nat /\ d < EntryLen(e) /\ at \in Nat /\ CAPACITY \in Nat
  BY ImageIs, KvAssumption
<1>1. at = LogEnd(f) /\ (\A i \in 1 .. d : f[at + i] = Image(e)[i]) /\ \A x \in (at + d) + 1 .. CAPACITY : f[x] = Erased
  BY DEF Begun
<1>2. (at + d) + 1 \in 1 .. CAPACITY /\ (at + d) + 1 \in (at + d) + 1 .. CAPACITY /\ at + (d + 1) = (at + d) + 1
  BY <1>0
<1>3. /\ g[(at + d) + 1] = w
      /\ \A x \in 1 .. CAPACITY : x # (at + d) + 1 => g[x] = f[x]
  BY <1>2 DEF PutWord
<1>4. f[(at + d) + 1] = Erased
  BY <1>1, <1>2
<1>5. Agree(f, g, LogEnd(f))
  <2> SUFFICES ASSUME NEW x \in 1 .. at PROVE f[x] = g[x]
    BY <1>1 DEF Agree
  <2>1. x \in 1 .. CAPACITY /\ x # (at + d) + 1
    BY <1>0
  <2> QED
    BY <1>3, <2>1
<1>6. \A i \in 1 .. d : g[at + i] = Image(e)[i]
  <2> SUFFICES ASSUME NEW i \in 1 .. d PROVE g[at + i] = Image(e)[i]
    OBVIOUS
  <2>1. at + i \in 1 .. CAPACITY /\ at + i # (at + d) + 1
    BY <1>0
  <2> QED
    BY <1>1, <1>3, <2>1
<1>7. \A x \in (at + (d + 1)) + 1 .. CAPACITY : g[x] = Erased
  <2> SUFFICES ASSUME NEW x \in (at + (d + 1)) + 1 .. CAPACITY PROVE g[x] = Erased
    OBVIOUS
  <2>1. x \in 1 .. CAPACITY /\ x # (at + d) + 1 /\ x \in (at + d) + 1 .. CAPACITY
    BY <1>0
  <2> QED
    BY <1>1, <1>3, <2>1
<1>8. ASSUME w \in {Erased, Garbage} PROVE Log(g) = Log(f)
  <2>1. g[at + (d + 1)] \in {Erased, Garbage}
    BY <1>2, <1>3, <1>8
  <2>2. EntriesAt(g, at) = {}
    BY <1>0, <1>6, <1>7, <2>1, TornIsEnd
  <2> QED
    BY <1>1, <1>5, <2>2, LogFramed
<1>9. ASSUME w = Image(e)[d + 1] PROVE \A i \in 1 .. d + 1 : g[at + i] = Image(e)[i]
  <2> SUFFICES ASSUME NEW i \in 1 .. d + 1 PROVE g[at + i] = Image(e)[i]
    OBVIOUS
  <2>1. CASE i = d + 1
    BY <1>2, <1>3, <1>9, <2>1
  <2>2. CASE i # d + 1
    <3>1. i \in 1 .. d
      BY <1>0, <2>2
    <3> QED
      BY <1>6, <3>1
  <2> QED
    BY <2>1, <2>2
<1>10. ASSUME w = Image(e)[d + 1], d + 1 < EntryLen(e) PROVE Log(g) = Log(f) /\ Begun(g, at, e, d + 1)
  <2>1. (at + (d + 1)) + 1 \in (at + (d + 1)) + 1 .. CAPACITY /\ at + ((d + 1) + 1) = (at + (d + 1)) + 1
    BY <1>0, <1>10
  <2>2. g[at + ((d + 1) + 1)] = Erased
    BY <1>7, <2>1
  <2>3. \A x \in (at + ((d + 1) + 1)) + 1 .. CAPACITY : g[x] = Erased
    BY <1>0, <1>7
  <2>4. d + 1 \in Nat
    BY <1>0
  <2>5. EntriesAt(g, at) = {}
    BY <1>0, <1>9, <1>10, <2>2, <2>3, <2>4, TornIsEnd
  <2>6. Log(g) = Log(f) /\ LogEnd(g) = LogEnd(f)
    BY <1>1, <1>5, <2>5, LogFramed
  <2> QED
    BY <1>1, <1>7, <1>9, <1>10, <2>6 DEF Begun
<1>11. ASSUME w = Image(e)[d + 1], d + 1 = EntryLen(e)
       PROVE  /\ Log(g) = Append(Log(f), e) /\ LogEnd(g) = at + EntryLen(e)
              /\ \A x \in (at + EntryLen(e)) + 1 .. CAPACITY : g[x] = Erased
  <2>1. e \in EntriesAt(g, at)
    BY <1>9, <1>11 DEF EntriesAt
  <2>2. \A x \in (at + EntryLen(e)) + 1 .. CAPACITY : g[x] = Erased
    BY <1>7, <1>11
  <2>3. at + EntryLen(e) \in Nat
    BY <1>0
  <2>4. EntriesAt(g, at + EntryLen(e)) = {}
    BY <2>2, <2>3, ErasedIsEnd
  <2> QED
    BY <1>1, <1>5, <2>1, <2>2, <2>4, LogGrows
<1> QED
  BY <1>4, <1>8, <1>10, <1>11

(* An entry on its way down: d words of it are, the rest is in wr.         *)
Writing(e, d) ==
  /\ d \in 0 .. EntryLen(e) - 1 /\ tail + EntryLen(e) <= CAPACITY
  /\ wr = [at |-> tail + d, left |-> ImageFrom(e, d)]

KvCalls == [todo : Seq(Entry), all : Seq(Entry), policy : {"none", "put", "save"},
            stage : {"set", "compact", "reset"}, retried : BOOLEAN]

KvTyped ==
  /\ flash \in [1 .. CAPACITY -> KvWord] /\ tail \in 0 .. CAPACITY
  /\ phase \in {"down", "idle", "set", "program", "erase", "copy"}
  /\ call \in KvCalls /\ live \in Seq(Entry)
  /\ wr \in [at : Nat, left : Seq(KvWord)] /\ trusted \in BOOLEAN

(* Between two writes the log says what was acknowledged; so it does while *)
(* an entry is going down, as long as it goes onto erased words.           *)
KvSettled == phase \in {"down", "idle", "set"} => call.stage = "set" /\ (trusted => Stored(flash) = acked)

KvSetting ==
  phase = "program" /\ call.stage = "set" =>
    /\ call.todo # <<>>
    /\ \E d \in Nat : /\ Writing(Head(call.todo), d)
                      /\ trusted => Begun(flash, tail, Head(call.todo), d) /\ Stored(flash) = acked

(* While the log is rewritten, what was acknowledged is what is down again *)
(* and what the scratch still holds, and there is room for all of it.      *)
KvErasing ==
  phase = "erase" =>
    /\ call.stage \in {"compact", "reset"}
    /\ \A w \in 1 .. CAPACITY : w <= wr.at => flash[w] = Erased
    /\ call.stage = "compact" => acked = Say(live) /\ WordsOf(live) <= CAPACITY

KvRestoring ==
  phase = "copy" =>
    /\ call.stage = "compact" /\ tail = LogEnd(flash)
    /\ \A w \in tail + 1 .. CAPACITY : flash[w] = Erased
    /\ acked = Say(Log(flash) \o live) /\ tail + WordsOf(live) <= CAPACITY

KvCopying ==
  phase = "program" /\ call.stage # "set" =>
    /\ call.stage = "compact"
    /\ \E e \in Entry : \E d \in Nat :
         /\ Writing(e, d) /\ Begun(flash, tail, e, d)
         /\ acked = Say(Append(Log(flash), e) \o live)
         /\ (tail + EntryLen(e)) + WordsOf(live) <= CAPACITY

KvInv == KvTyped /\ KvSettled /\ KvSetting /\ KvErasing /\ KvRestoring /\ KvCopying

(* No call, and no write, in progress.                                     *)
LEMMA NoCallIs == NoCall \in KvCalls /\ NoCall.stage = "set" /\ NoWrite \in [at : Nat, left : Seq(KvWord)] /\ NoWrite.at = 0
  BY DEF NoCall, NoWrite, KvCalls

(* An erased partition, nothing stored.                                    *)
LEMMA KvStartsRight ==
  ASSUME KvInit
  PROVE  KvInv
<1>1. Erased \in KvWord /\ CAPACITY \in Nat
  BY KvAssumption DEF KvWord
<1>2. \A w \in 1 .. CAPACITY : flash[w] = Erased
  BY DEF KvInit
<1>3. Stored(flash) = acked
  BY <1>2, ErasedLog DEF KvInit
<1>4. flash \in [1 .. CAPACITY -> KvWord]
  BY <1>1 DEF KvInit
<1>5. call = NoCall /\ wr = NoWrite /\ phase = "idle" /\ tail = 0 /\ live = <<>> /\ trusted = TRUE
  BY DEF KvInit
<1>6. KvTyped
  BY <1>1, <1>4, <1>5, NoCallIs DEF KvTyped
<1> QED
  BY <1>3, <1>5, <1>6, NoCallIs DEF KvInv, KvSettled, KvSetting, KvErasing, KvRestoring, KvCopying

(* A state between two writes needs no more than its own conjunct.         *)
LEMMA SettledIsEnough ==
  ASSUME KvTyped', phase' \in {"down", "idle", "set"}, call'.stage = "set", (trusted => Stored(flash) = acked)'
  PROVE  KvInv'
<1>1. phase' # "program" /\ phase' # "erase" /\ phase' # "copy"
  OBVIOUS
<1> QED
  BY <1>1 DEF KvInv, KvSettled, KvSetting, KvErasing, KvRestoring, KvCopying

(* A caller begins.                                                        *)
LEMMA BeginSetKeeps ==
  ASSUME KvInv, NEW es \in Seq(Entry), NEW p \in {"none", "put", "save"}, BeginSet(es, p)
  PROVE  KvInv'
<1>1. call' = [todo |-> es, all |-> es, policy |-> p, stage |-> "set", retried |-> FALSE]
  BY DEF BeginSet, NoCall
<1>2. call' \in KvCalls /\ call'.stage = "set"
  BY <1>1 DEF KvCalls
<1>3. phase' = "set" /\ phase = "idle" /\ UNCHANGED <<flash, tail, wr, live, acked, trusted, faults>>
  BY DEF BeginSet
<1>4. KvTyped'
  BY <1>2, <1>3 DEF KvInv, KvTyped
<1>5. trusted => Stored(flash) = acked
  BY <1>3 DEF KvInv, KvSettled
<1>6. (trusted => Stored(flash) = acked)'
  BY <1>3, <1>5
<1> QED
  BY <1>2, <1>3, <1>4, <1>6, SettledIsEnough

(* set() hands its entry to the storage, onto erased words if it is        *)
(* trusted.                                                                *)
LEMMA SetFitsKeeps ==
  ASSUME KvInv, SetFits
  PROVE  KvInv'
<1> DEFINE e == Head(call.todo)
<1>1. /\ phase = "set" /\ phase' = "program" /\ call.todo # <<>> /\ tail + EntryLen(e) <= CAPACITY
      /\ wr' = [at |-> tail, left |-> Image(e)] /\ UNCHANGED <<flash, tail, call, live, acked, faults>>
  BY DEF SetFits
<1>2. trusted' \in BOOLEAN /\ (trusted' => trusted /\ Contract)
  <2>1. trusted' = (trusted /\ Contract)
    BY DEF SetFits
  <2> QED
    BY <2>1, Zenon
<1>3. call \in KvCalls /\ call.todo \in Seq(Entry) /\ call.stage = "set" /\ tail \in 0 .. CAPACITY /\ (trusted => Stored(flash) = acked)
  BY <1>1 DEF KvInv, KvTyped, KvSettled, KvCalls
<1>4. e \in Entry
  BY <1>1, <1>3
<1> HIDE DEF e
<1>5. 0 \in 0 .. EntryLen(e) - 1 /\ EntryLen(e) \in Nat
  BY <1>4, ImageIs
<1>6. ImageFrom(e, 0) = Image(e) /\ ImageFrom(e, 0) \in Seq(KvWord)
  BY <1>4, <1>5, ImageFromIs
<1>7. tail + 0 = tail /\ tail \in Nat
  BY <1>3, KvAssumption
<1>8. wr' \in [at : Nat, left : Seq(KvWord)]
  BY <1>1, <1>6, <1>7
<1>9. KvTyped'
  BY <1>1, <1>2, <1>8 DEF KvInv, KvTyped
<1>10. Writing(e, 0)'
  <2>1. wr' = [at |-> tail' + 0, left |-> ImageFrom(e, 0)] /\ tail' + EntryLen(e) <= CAPACITY
    BY <1>1, <1>6, <1>7
  <2> QED
    BY <1>1, <1>5, <2>1 DEF Writing, e
<1>11. ASSUME trusted' PROVE Begun(flash, tail, e, 0) /\ Stored(flash) = acked
  <2>1. tail = LogEnd(flash) /\ \A w \in tail + 1 .. CAPACITY : flash[w] = Erased
    BY <1>2, <1>11 DEF Contract
  <2>2. (tail + 0) + 1 = tail + 1 /\ \A i \in 1 .. 0 : FALSE
    BY <1>7
  <2>3. Begun(flash, tail, e, 0)
    BY <2>1, <2>2 DEF Begun
  <2> QED
    BY <1>2, <1>3, <1>11, <2>3
<1>12. KvSetting'
  <2>1. Writing(Head(call.todo), 0)'
    BY <1>1, <1>10 DEF e
  <2>2. trusted' => (Begun(flash, tail, Head(call.todo), 0))' /\ (Stored(flash) = acked)'
    BY <1>1, <1>11 DEF e
  <2>3. call'.todo # <<>> /\ 0 \in Nat
    BY <1>1
  <2> QED
    BY <2>1, <2>2, <2>3 DEF KvSetting
<1>13. call'.stage = "set"
  BY <1>1, <1>3
<1> QED
  BY <1>1, <1>9, <1>12, <1>13 DEF KvInv, KvSettled, KvErasing, KvRestoring, KvCopying

(* The word that goes down next.                                           *)
LEMMA NextWord ==
  ASSUME KvTyped, NEW e \in Entry, NEW d \in Nat, Writing(e, d)
  PROVE  /\ wr.at + 1 = (tail + d) + 1 /\ wr.at + 1 \in 1 .. CAPACITY
         /\ Head(wr.left) = Image(e)[d + 1] /\ Head(wr.left) \in KvWord
         /\ Len(wr.left) = EntryLen(e) - d /\ EntryLen(e) \in Nat /\ EntryLen(e) >= 3 /\ d < EntryLen(e)
         /\ d \in 0 .. EntryLen(e) - 1 /\ tail \in 0 .. CAPACITY /\ tail \in Nat /\ CAPACITY \in Nat
         /\ d + 1 < EntryLen(e) => /\ [at |-> wr.at + 1, left |-> Tail(wr.left)] = [at |-> tail + (d + 1), left |-> ImageFrom(e, d + 1)]
                                   /\ d + 1 \in 0 .. EntryLen(e) - 1
                                   /\ ImageFrom(e, d + 1) \in Seq(KvWord)
<1>1. d \in 0 .. EntryLen(e) - 1 /\ tail + EntryLen(e) <= CAPACITY /\ wr.at = tail + d /\ wr.left = ImageFrom(e, d)
  BY DEF Writing
<1>2. EntryLen(e) \in Nat /\ EntryLen(e) >= 3 /\ tail \in 0 .. CAPACITY /\ CAPACITY \in Nat
  BY ImageIs, KvAssumption DEF KvTyped
<1>3. /\ Len(wr.left) = EntryLen(e) - d /\ Head(wr.left) = Image(e)[d + 1]
      /\ Head(wr.left) \in KvWord /\ Tail(wr.left) = ImageFrom(e, d + 1)
  BY <1>1, ImageFromIs
<1>4. wr.at + 1 = (tail + d) + 1 /\ wr.at + 1 \in 1 .. CAPACITY /\ wr.at + 1 = tail + (d + 1)
  BY <1>1, <1>2
<1>5. ASSUME d + 1 < EntryLen(e) PROVE d + 1 \in 0 .. EntryLen(e) - 1 /\ ImageFrom(e, d + 1) \in Seq(KvWord)
  <2>1. d + 1 \in 0 .. EntryLen(e) - 1
    BY <1>2, <1>5
  <2> QED
    BY <2>1, ImageFromIs
<1>6. [at |-> wr.at + 1, left |-> Tail(wr.left)] = [at |-> tail + (d + 1), left |-> ImageFrom(e, d + 1)]
  BY <1>3, <1>4
<1>7. d < EntryLen(e) /\ tail \in Nat
  BY <1>1, <1>2
<1> QED
  BY <1>1, <1>2, <1>3, <1>4, <1>5, <1>6, <1>7

(* A word programmed is a word.                                            *)
LEMMA WordsStay ==
  ASSUME NEW f \in [1 .. CAPACITY -> KvWord], NEW i \in 1 .. CAPACITY, NEW w, NEW v \in KvWord,
         w \in {f[i], v, Garbage}
  PROVE  [f EXCEPT ![i] = w] \in [1 .. CAPACITY -> KvWord]
<1>1. Garbage \in KvWord
  BY DEF KvWord
<1>2. w \in KvWord
  BY <1>1
<1> QED
  BY <1>2

(* A word of a set goes down; the last one acknowledges the entry.         *)
LEMMA ProgramSetKeeps ==
  ASSUME KvInv, ProgramWord, call.stage = "set"
  PROVE  KvInv'
<1> DEFINE e == Head(call.todo)
<1>1. phase = "program" /\ UNCHANGED <<trusted, live, faults>>
  BY DEF ProgramWord
<1>2. call \in KvCalls /\ call.todo \in Seq(Entry) /\ KvTyped
  BY DEF KvInv, KvTyped, KvCalls
<1>3. call.todo # <<>> /\ \E d \in Nat : Writing(e, d) /\ (trusted => Begun(flash, tail, e, d) /\ Stored(flash) = acked)
  BY <1>1 DEF KvInv, KvSetting
<1>4. e \in Entry
  BY <1>2, <1>3
<1>5. PICK d \in Nat : Writing(e, d) /\ (trusted => Begun(flash, tail, e, d) /\ Stored(flash) = acked)
  BY <1>3
<1>50. /\ (Len(wr.left) > 1) => /\ wr' = [at |-> wr.at + 1, left |-> Tail(wr.left)]
                                /\ UNCHANGED <<tail, phase, call, acked>>
       /\ ~(Len(wr.left) > 1) => /\ wr' = NoWrite /\ tail' = wr.at + 1 /\ phase' = "set"
                                 /\ acked' = [acked EXCEPT ![e[1]] = e[2]]
                                 /\ call' = [call EXCEPT !.todo = Tail(@)]
  BY DEF ProgramWord
<1> HIDE DEF e
<1>6. /\ wr.at + 1 = (tail + d) + 1 /\ wr.at + 1 \in 1 .. CAPACITY
      /\ Head(wr.left) = Image(e)[d + 1] /\ Head(wr.left) \in KvWord
      /\ Len(wr.left) = EntryLen(e) - d /\ EntryLen(e) \in Nat /\ EntryLen(e) >= 3 /\ d < EntryLen(e)
      /\ d \in 0 .. EntryLen(e) - 1 /\ tail \in 0 .. CAPACITY /\ tail \in Nat /\ CAPACITY \in Nat
      /\ d + 1 < EntryLen(e) => /\ [at |-> wr.at + 1, left |-> Tail(wr.left)] = [at |-> tail + (d + 1), left |-> ImageFrom(e, d + 1)]
                                /\ d + 1 \in 0 .. EntryLen(e) - 1
                                /\ ImageFrom(e, d + 1) \in Seq(KvWord)
  BY <1>2, <1>4, <1>5, NextWord
<1>7. PICK w \in Programmed(flash[wr.at + 1], Head(wr.left)) : flash' = [flash EXCEPT ![wr.at + 1] = w]
  BY DEF ProgramWord
<1>8. w \in {flash[wr.at + 1], Head(wr.left), Garbage} /\ (flash[wr.at + 1] = Erased => w = Head(wr.left))
  BY <1>7 DEF Programmed
<1>9. flash' \in [1 .. CAPACITY -> KvWord] /\ flash \in [1 .. CAPACITY -> KvWord]
  BY <1>2, <1>6, <1>7, <1>8, WordsStay DEF KvTyped
<1>10. tail + EntryLen(e) <= CAPACITY
  BY <1>5 DEF Writing
<1>11. ASSUME trusted
       PROVE  /\ Stored(flash) = acked
              /\ d + 1 < EntryLen(e) => Log(flash') = Log(flash) /\ Begun(flash', tail, e, d + 1)
              /\ d + 1 = EntryLen(e) => Log(flash') = Append(Log(flash), e)
  <2>1. Begun(flash, tail, e, d) /\ Stored(flash) = acked
    BY <1>5, <1>11
  <2>2. flash' = PutWord(flash, (tail + d) + 1, w)
    BY <1>6, <1>7 DEF PutWord
  <2>3. flash[(tail + d) + 1] = Erased
    BY <1>4, <1>6, <1>9, <1>10, <2>1, <2>2, WordDown
  <2>4. w = Image(e)[d + 1]
    BY <1>6, <1>8, <2>3
  <2>0. d \in 0 .. EntryLen(e) - 1 /\ tail \in 0 .. CAPACITY
    BY <1>6
  <2>5. ASSUME d + 1 < EntryLen(e) PROVE Log(flash') = Log(flash) /\ Begun(flash', tail, e, d + 1)
    BY <1>4, <1>9, <1>10, <2>0, <2>1, <2>2, <2>4, <2>5, WordDown
  <2>6. ASSUME d + 1 = EntryLen(e)
        PROVE  /\ Log(flash') = Append(Log(flash), e) /\ LogEnd(flash') = tail + EntryLen(e)
               /\ \A x \in (tail + EntryLen(e)) + 1 .. CAPACITY : flash'[x] = Erased
    BY <1>4, <1>9, <1>10, <2>0, <2>1, <2>2, <2>4, <2>6, WordDown
  <2> QED
    BY <2>1, <2>5, <2>6
<1>12. CASE d + 1 < EntryLen(e)
  <2>1. Len(wr.left) > 1
    BY <1>6, <1>12
  <2>2. /\ wr' = [at |-> tail + (d + 1), left |-> ImageFrom(e, d + 1)]
        /\ UNCHANGED <<tail, phase, call, acked>>
    BY <1>6, <1>12, <1>50, <2>1
  <2>3. wr' \in [at : Nat, left : Seq(KvWord)]
    BY <1>6, <1>12, <2>2
  <2>4. KvTyped'
    BY <1>1, <1>2, <1>9, <2>2, <2>3 DEF KvTyped
  <2>5. Writing(e, d + 1)' /\ d + 1 \in Nat
    BY <1>6, <1>10, <1>12, <2>2 DEF Writing, e
  <2>6. ASSUME trusted' PROVE Begun(flash', tail', e, d + 1) /\ Stored(flash') = acked'
    <3>1. Stored(flash) = acked /\ Log(flash') = Log(flash) /\ Begun(flash', tail, e, d + 1)
      BY <1>1, <1>11, <1>12, <2>6
    <3>2. Stored(flash') = Stored(flash)
      BY <3>1 DEF Stored
    <3> QED
      BY <2>2, <3>1, <3>2
  <2>7. KvSetting'
    <3>1. Writing(Head(call.todo), d + 1)'
      BY <2>2, <2>5 DEF e, Writing
    <3>2. trusted' => (Begun(flash, tail, Head(call.todo), d + 1))' /\ (Stored(flash) = acked)'
      BY <2>2, <2>6 DEF e
    <3>3. call'.todo # <<>>
      BY <1>3, <2>2
    <3> QED
      BY <2>5, <3>1, <3>2, <3>3 DEF KvSetting
  <2>8. call'.stage = "set" /\ phase' = "program"
    BY <1>1, <2>2
  <2> QED
    BY <2>4, <2>7, <2>8 DEF KvInv, KvSettled, KvErasing, KvRestoring, KvCopying
<1>13. CASE d + 1 = EntryLen(e)
  <2>1. ~(Len(wr.left) > 1)
    BY <1>6, <1>13
  <2>2. /\ wr' = NoWrite /\ tail' = wr.at + 1 /\ phase' = "set"
        /\ acked' = [acked EXCEPT ![e[1]] = e[2]]
        /\ call' = [call EXCEPT !.todo = Tail(@)]
    BY <1>50, <2>1
  <2>3. call' \in KvCalls /\ call'.stage = "set"
    <3>1. Tail(call.todo) \in Seq(Entry)
      BY <1>2, <1>3
    <3> QED
      BY <1>2, <2>2, <3>1 DEF KvCalls
  <2>4. tail' \in 0 .. CAPACITY
    BY <1>6, <2>2
  <2>5. KvTyped'
    BY <1>1, <1>2, <1>9, <2>2, <2>3, <2>4, NoCallIs DEF KvTyped
  <2>6. ASSUME trusted' PROVE Stored(flash') = acked'
    <3>1. Stored(flash) = acked /\ Log(flash') = Append(Log(flash), e)
      BY <1>1, <1>11, <1>13, <2>6
    <3>2. Stored(flash') = Say(Log(flash')) /\ Stored(flash) = Say(Log(flash)) /\ Log(flash) \in Seq(Entry)
      BY StoredIs
    <3>3. Say(Append(Log(flash), e)) = [Say(Log(flash)) EXCEPT ![e[1]] = e[2]]
      BY <1>4, <3>2, SayAppend
    <3> QED
      BY <2>2, <3>1, <3>2, <3>3
  <2> QED
    BY <2>2, <2>3, <2>5, <2>6, SettledIsEnough
<1> QED
  BY <1>6, <1>12, <1>13

(* A word of compaction's write-back goes down.                            *)
LEMMA ProgramCopyKeeps ==
  ASSUME KvInv, ProgramWord, call.stage # "set"
  PROVE  KvInv'
<1>1. phase = "program" /\ UNCHANGED <<trusted, live, faults>>
  BY DEF ProgramWord
<1>2. call \in KvCalls /\ KvTyped /\ live \in Seq(Entry)
  BY DEF KvInv, KvTyped, KvCalls
<1>3. call.stage = "compact"
  BY <1>1 DEF KvInv, KvCopying
<1>4. PICK e \in Entry : \E d \in Nat :
         /\ Writing(e, d) /\ Begun(flash, tail, e, d)
         /\ acked = Say(Append(Log(flash), e) \o live)
         /\ (tail + EntryLen(e)) + WordsOf(live) <= CAPACITY
  BY <1>1 DEF KvInv, KvCopying
<1>5. PICK d \in Nat :
         /\ Writing(e, d) /\ Begun(flash, tail, e, d)
         /\ acked = Say(Append(Log(flash), e) \o live)
         /\ (tail + EntryLen(e)) + WordsOf(live) <= CAPACITY
  BY <1>4
<1>6. /\ wr.at + 1 = (tail + d) + 1 /\ wr.at + 1 \in 1 .. CAPACITY
      /\ Head(wr.left) = Image(e)[d + 1] /\ Head(wr.left) \in KvWord
      /\ Len(wr.left) = EntryLen(e) - d /\ EntryLen(e) \in Nat /\ EntryLen(e) >= 3 /\ d < EntryLen(e)
      /\ d \in 0 .. EntryLen(e) - 1 /\ tail \in 0 .. CAPACITY /\ tail \in Nat /\ CAPACITY \in Nat
      /\ d + 1 < EntryLen(e) => /\ [at |-> wr.at + 1, left |-> Tail(wr.left)] = [at |-> tail + (d + 1), left |-> ImageFrom(e, d + 1)]
                                /\ d + 1 \in 0 .. EntryLen(e) - 1
                                /\ ImageFrom(e, d + 1) \in Seq(KvWord)
  BY <1>2, <1>5, NextWord
<1>7. PICK w \in Programmed(flash[wr.at + 1], Head(wr.left)) : flash' = [flash EXCEPT ![wr.at + 1] = w]
  BY DEF ProgramWord
<1>8. w \in {flash[wr.at + 1], Head(wr.left), Garbage} /\ (flash[wr.at + 1] = Erased => w = Head(wr.left))
  BY <1>7 DEF Programmed
<1>9. flash' \in [1 .. CAPACITY -> KvWord] /\ flash \in [1 .. CAPACITY -> KvWord]
  BY <1>2, <1>6, <1>7, <1>8, WordsStay DEF KvTyped
<1>10. tail + EntryLen(e) <= CAPACITY
  BY <1>5 DEF Writing
<1>11. /\ d + 1 < EntryLen(e) => Log(flash') = Log(flash) /\ Begun(flash', tail, e, d + 1)
       /\ d + 1 = EntryLen(e) => /\ Log(flash') = Append(Log(flash), e) /\ LogEnd(flash') = tail + EntryLen(e)
                                 /\ \A x \in (tail + EntryLen(e)) + 1 .. CAPACITY : flash'[x] = Erased
  <2>1. Begun(flash, tail, e, d)
    BY <1>5
  <2>2. flash' = PutWord(flash, (tail + d) + 1, w)
    BY <1>6, <1>7 DEF PutWord
  <2>3. flash[(tail + d) + 1] = Erased
    BY <1>6, <1>9, <1>10, <2>1, <2>2, WordDown
  <2>4. w = Image(e)[d + 1]
    BY <1>6, <1>8, <2>3
  <2>0. d \in 0 .. EntryLen(e) - 1 /\ tail \in 0 .. CAPACITY
    BY <1>6
  <2>5. ASSUME d + 1 < EntryLen(e) PROVE Log(flash') = Log(flash) /\ Begun(flash', tail, e, d + 1)
    BY <1>9, <1>10, <2>0, <2>1, <2>2, <2>4, <2>5, WordDown
  <2>6. ASSUME d + 1 = EntryLen(e)
        PROVE  /\ Log(flash') = Append(Log(flash), e) /\ LogEnd(flash') = tail + EntryLen(e)
               /\ \A x \in (tail + EntryLen(e)) + 1 .. CAPACITY : flash'[x] = Erased
    BY <1>9, <1>10, <2>0, <2>1, <2>2, <2>4, <2>6, WordDown
  <2> QED
    BY <2>1, <2>5, <2>6
<1>50. /\ (Len(wr.left) > 1) => /\ wr' = [at |-> wr.at + 1, left |-> Tail(wr.left)]
                                /\ UNCHANGED <<tail, phase, call, acked>>
       /\ ~(Len(wr.left) > 1) => wr' = NoWrite /\ tail' = wr.at + 1 /\ phase' = "copy" /\ UNCHANGED <<call, acked>>
  BY <1>3 DEF ProgramWord
<1>12. CASE d + 1 < EntryLen(e)
  <2>1. Len(wr.left) > 1
    BY <1>6, <1>12
  <2>2. /\ wr' = [at |-> tail + (d + 1), left |-> ImageFrom(e, d + 1)]
        /\ UNCHANGED <<tail, phase, call, acked>>
    BY <1>6, <1>12, <1>50, <2>1
  <2>3. wr' \in [at : Nat, left : Seq(KvWord)]
    BY SMTT(30), <1>6, <1>12, <2>2
  <2>4. KvTyped'
    BY <1>1, <1>2, <1>9, <2>2, <2>3 DEF KvTyped
  <2>5. Writing(e, d + 1)' /\ d + 1 \in Nat
    BY <1>6, <1>10, <1>12, <2>2 DEF Writing
  <2>6. /\ Begun(flash, tail, e, d + 1)'
        /\ acked' = Say(Append(Log(flash'), e) \o live')
        /\ (tail' + EntryLen(e)) + WordsOf(live') <= CAPACITY
    BY <1>1, <1>5, <1>11, <1>12, <2>2
  <2>7. KvCopying'
    BY <1>3, <2>2, <2>5, <2>6 DEF KvCopying
  <2>8. call'.stage = "compact" /\ phase' = "program"
    BY <1>1, <1>3, <2>2
  <2> QED
    BY <2>4, <2>7, <2>8 DEF KvInv, KvSettled, KvSetting, KvErasing, KvRestoring
<1>13. CASE d + 1 = EntryLen(e)
  <2>1. ~(Len(wr.left) > 1)
    BY <1>6, <1>13
  <2>2. wr' = NoWrite /\ tail' = wr.at + 1 /\ phase' = "copy" /\ UNCHANGED <<call, acked>>
    BY <1>50, <2>1
  <2>3. tail' = tail + EntryLen(e) /\ tail' \in 0 .. CAPACITY
    <3>1. (tail + d) + 1 = tail + (d + 1) /\ wr.at + 1 \in 0 .. CAPACITY
      BY SMTT(30), <1>6
    <3> QED
      BY <1>6, <1>13, <2>2, <3>1
  <2>4. KvTyped'
    BY <1>1, <1>2, <1>9, <2>2, <2>3, NoCallIs DEF KvTyped
  <2>5. /\ tail' = LogEnd(flash') /\ \A x \in tail' + 1 .. CAPACITY : flash'[x] = Erased
        /\ acked' = Say(Log(flash') \o live') /\ tail' + WordsOf(live') <= CAPACITY
    BY <1>1, <1>5, <1>11, <1>13, <2>2, <2>3
  <2>6. call'.stage = "compact"
    BY <1>3, <2>2
  <2>7. KvRestoring'
    BY <2>5, <2>6 DEF KvRestoring
  <2> QED
    BY <2>2, <2>4, <2>6, <2>7 DEF KvInv, KvSettled, KvSetting, KvErasing, KvCopying
<1> QED
  BY <1>6, <1>12, <1>13

(* What a write that is cut short leaves.                                  *)
LEMMA InterruptedKeeps ==
  ASSUME KvInv, Interrupted, NEW t \in 0 .. CAPACITY, tail' = t, phase' \in {"down", "idle"},
         call' = NoCall, wr' = NoWrite, live' = <<>>
  PROVE  KvInv'
<1>1. KvTyped /\ trusted' = trusted
  BY DEF KvInv, Interrupted
<1>2. ASSUME phase = "program"
      PROVE  /\ wr.at + 1 \in 1 .. CAPACITY /\ Head(wr.left) \in KvWord
             /\ ~Rewriting /\ trusted => \E d \in Nat :
                    /\ call.todo # <<>> /\ Writing(Head(call.todo), d)
                    /\ Begun(flash, tail, Head(call.todo), d) /\ Stored(flash) = acked
  <2>1. CASE call.stage = "set"
    <3>1. call.todo # <<>> /\ call.todo \in Seq(Entry)
      BY <1>1, <1>2, <2>1 DEF KvInv, KvTyped, KvCalls, KvSetting
    <3>2. PICK d \in Nat : Writing(Head(call.todo), d) /\ (trusted => Begun(flash, tail, Head(call.todo), d) /\ Stored(flash) = acked)
      BY <1>2, <2>1 DEF KvInv, KvSetting
    <3>3. Head(call.todo) \in Entry
      BY <3>1
    <3>4. wr.at + 1 \in 1 .. CAPACITY /\ Head(wr.left) \in KvWord
      BY <1>1, <3>2, <3>3, NextWord
    <3> QED
      BY <3>1, <3>2, <3>4
  <2>2. CASE call.stage # "set"
    <3>1. PICK e \in Entry : \E d \in Nat : Writing(e, d)
      BY <1>2, <2>2 DEF KvInv, KvCopying
    <3>2. PICK d \in Nat : Writing(e, d)
      BY <3>1
    <3>3. wr.at + 1 \in 1 .. CAPACITY /\ Head(wr.left) \in KvWord
      BY <1>1, <3>2, NextWord
    <3> QED
      BY <2>2, <3>3 DEF Rewriting
  <2> QED
    BY <2>1, <2>2
<1>3. flash' \in [1 .. CAPACITY -> KvWord] /\ flash \in [1 .. CAPACITY -> KvWord]
  <2>1. flash \in [1 .. CAPACITY -> KvWord]
    BY <1>1 DEF KvTyped
  <2>2. CASE phase = "program"
    <3>1. PICK w \in {flash[wr.at + 1], Head(wr.left), Garbage} : flash' = [flash EXCEPT ![wr.at + 1] = w]
      BY <2>2 DEF Interrupted
    <3> QED
      BY <1>2, <2>1, <2>2, <3>1, WordsStay
  <2>3. CASE phase # "program"
    BY <2>1, <2>3 DEF Interrupted
  <2> QED
    BY <2>2, <2>3
<1>4. KvTyped'
  BY <1>1, <1>3, NoCallIs DEF KvTyped
<1>5. ASSUME trusted PROVE Stored(flash') = acked'
  <2>1. CASE Rewriting
    BY <2>1 DEF Interrupted
  <2>2. CASE ~Rewriting /\ phase # "program"
    <3>1. flash' = flash /\ acked' = acked
      BY <2>2 DEF Interrupted
    <3>2. phase \in {"down", "idle", "set"}
      BY <1>1, <2>2 DEF KvTyped, Rewriting
    <3>3. Stored(flash) = acked
      BY <1>5, <3>2 DEF KvInv, KvSettled
    <3> QED
      BY <3>1, <3>3
  <2>3. CASE ~Rewriting /\ phase = "program"
    <3> DEFINE e == Head(call.todo)
    <3>1. PICK d \in Nat : call.todo # <<>> /\ Writing(e, d) /\ Begun(flash, tail, e, d) /\ Stored(flash) = acked
      BY <1>2, <1>5, <2>3
    <3>2. PICK w \in {flash[wr.at + 1], Head(wr.left), Garbage} : flash' = [flash EXCEPT ![wr.at + 1] = w]
      BY <2>3 DEF Interrupted
    <3>3. acked' = IF e[2] = Get(flash', e[1]) THEN [acked EXCEPT ![e[1]] = e[2]] ELSE acked
      BY <2>3 DEF Interrupted
    <3>4. e \in Entry
      BY <1>1, <3>1 DEF KvTyped, KvCalls
    <3> HIDE DEF e
    <3>5. /\ wr.at + 1 = (tail + d) + 1 /\ Head(wr.left) = Image(e)[d + 1]
          /\ d \in 0 .. EntryLen(e) - 1 /\ tail \in 0 .. CAPACITY /\ EntryLen(e) \in Nat
          /\ d < EntryLen(e)
      BY <1>1, <3>1, <3>4, NextWord
    <3>6. tail + EntryLen(e) <= CAPACITY /\ flash' = PutWord(flash, (tail + d) + 1, w)
      BY <3>1, <3>2, <3>5 DEF Writing, PutWord
    <3>7. /\ flash[(tail + d) + 1] = Erased
          /\ w = Image(e)[d + 1] /\ d + 1 < EntryLen(e) => Log(flash') = Log(flash)
          /\ w = Image(e)[d + 1] /\ d + 1 = EntryLen(e) => Log(flash') = Append(Log(flash), e)
          /\ w \in {Erased, Garbage} => Log(flash') = Log(flash)
      <4>1. flash[(tail + d) + 1] = Erased
        BY <1>3, <3>1, <3>4, <3>5, <3>6, WordDown
      <4>2. ASSUME w = Image(e)[d + 1], d + 1 < EntryLen(e) PROVE Log(flash') = Log(flash)
        BY <1>3, <3>1, <3>4, <3>5, <3>6, <4>2, WordDown
      <4>3. ASSUME w = Image(e)[d + 1], d + 1 = EntryLen(e) PROVE Log(flash') = Append(Log(flash), e)
        BY <1>3, <3>1, <3>4, <3>5, <3>6, <4>3, WordDown
      <4>4. ASSUME w \in {Erased, Garbage} PROVE Log(flash') = Log(flash)
        BY <1>3, <3>1, <3>4, <3>5, <3>6, <4>4, WordDown
      <4> QED
        BY <4>1, <4>2, <4>3, <4>4
    <3>8. w \in {Erased, Garbage} \/ w = Image(e)[d + 1]
      BY <3>2, <3>5, <3>7
    <3>9. Log(flash') = Log(flash) \/ Log(flash') = Append(Log(flash), e)
      <4>1. d + 1 < EntryLen(e) \/ d + 1 = EntryLen(e)
        BY <3>5
      <4> QED
        BY <3>7, <3>8, <4>1
    <3>10. /\ Stored(flash') = Say(Log(flash')) /\ Stored(flash) = Say(Log(flash)) /\ Log(flash) \in Seq(Entry)
           /\ \A k \in Keys : Stored(flash')[k] = Get(flash', k)
      BY StoredIs
    <3>11. e[1] \in Keys
      BY <3>4 DEF Entry
    <3>12. Get(flash', e[1]) = Stored(flash')[e[1]]
      BY <3>10, <3>11
    <3>13. CASE Log(flash') = Log(flash)
      <4>1. Stored(flash') = acked
        BY <3>1, <3>10, <3>13
      <4>2. Get(flash', e[1]) = acked[e[1]]
        BY <3>12, <4>1
      <4>3. acked = [k \in Keys |-> Newest(Log(flash), k)]
        BY <3>1, <3>10 DEF Say
      <4>4. [acked EXCEPT ![e[1]] = acked[e[1]]] = acked
        BY <3>11, <4>3
      <4> QED
        BY <3>3, <4>1, <4>2, <4>4
    <3>14. CASE Log(flash') = Append(Log(flash), e)
      <4>1. Say(Append(Log(flash), e)) = [Say(Log(flash)) EXCEPT ![e[1]] = e[2]]
        BY <3>4, <3>10, SayAppend
      <4>2. Stored(flash') = [acked EXCEPT ![e[1]] = e[2]]
        BY <3>1, <3>10, <3>14, <4>1
      <4>3. acked = [k \in Keys |-> Newest(Log(flash), k)]
        BY <3>1, <3>10 DEF Say
      <4>4. [acked EXCEPT ![e[1]] = e[2]][e[1]] = e[2]
        BY <3>11, <4>3
      <4>5. Get(flash', e[1]) = e[2]
        BY <3>12, <4>2, <4>4
      <4> QED
        BY <3>3, <4>2, <4>5
    <3> QED
      BY <3>9, <3>13, <3>14
  <2> QED
    BY <2>1, <2>2, <2>3
<1>6. call'.stage = "set" /\ (trusted => Stored(flash) = acked)'
  BY <1>1, <1>5, NoCallIs
<1> QED
  BY <1>4, <1>6, SettledIsEnough

(* A call returns, done or given up.                                       *)
LEMMA ReturnKeeps ==
  ASSUME KvInv, phase = "set" \/ phase = "idle", Return, UNCHANGED <<flash, tail, acked, trusted, faults>>
  PROVE  KvInv'
<1>1. phase' = "idle" /\ call' = NoCall /\ wr' = NoWrite /\ live' = <<>>
  BY DEF Return
<1>2. KvTyped'
  BY <1>1, NoCallIs DEF KvInv, KvTyped
<1>3. trusted => Stored(flash) = acked
  BY DEF KvInv, KvSettled
<1>4. (trusted => Stored(flash) = acked)' /\ call'.stage = "set"
  BY <1>1, <1>3, NoCallIs
<1> QED
  BY <1>1, <1>2, <1>4, SettledIsEnough

(* Compaction has its scratch and begins to erase.                         *)
LEMMA CompactStartKeeps ==
  ASSUME KvInv, phase = "set" \/ phase = "idle", CompactStart, UNCHANGED <<flash, tail, trusted, faults>>,
         call' \in KvCalls, call'.stage = "compact"
  PROVE  KvInv'
<1>1. /\ live' = LiveEntries(flash) /\ wr' = NoWrite /\ phase' = "erase"
      /\ acked' = IF trusted THEN acked ELSE Stored(flash)
  BY DEF CompactStart
<1>2. /\ LiveEntries(flash) \in Seq(Entry) /\ WordsOf(LiveEntries(flash)) <= CAPACITY
      /\ \A k : Newest(LiveEntries(flash), k) = Newest(Log(flash), k)
  BY LiveIs
<1>3. trusted => Stored(flash) = acked
  BY DEF KvInv, KvSettled
<1>4. acked' = Stored(flash)
  BY <1>1, <1>3
<1>5. Stored(flash) = Say(Log(flash))
  BY StoredIs
<1>6. Say(LiveEntries(flash)) = Say(Log(flash))
  BY <1>2 DEF Say
<1>7. acked' = Say(live') /\ WordsOf(live') <= CAPACITY
  BY <1>1, <1>2, <1>4, <1>5, <1>6
<1>8. KvTyped'
  BY <1>1, <1>2, NoCallIs DEF KvInv, KvTyped
<1>9. \A w \in 1 .. CAPACITY : w <= wr'.at => flash'[w] = Erased
  <2>1. wr'.at = 0
    BY <1>1, NoCallIs
  <2> QED
    BY <2>1
<1>10. KvErasing'
  BY <1>7, <1>9 DEF KvErasing
<1> QED
  BY <1>1, <1>8, <1>10 DEF KvInv, KvSettled, KvSetting, KvRestoring, KvCopying

(* Nothing before or after a list.                                         *)
LEMMA EmptyIs == <<>> \in Seq(Entry) /\ \A s \in Seq(Entry) : <<>> \o s = s /\ s \o <<>> = s
  OBVIOUS

(* A sector is erased; after the last the store is empty.                  *)
LEMMA EraseSectorKeeps ==
  ASSUME KvInv, EraseSector
  PROVE  KvInv'
<1>1. /\ phase = "erase" /\ UNCHANGED <<live, faults>>
      /\ flash' = [w \in 1 .. CAPACITY |-> IF w \in wr.at + 1 .. wr.at + SECTOR_SIZE THEN Erased ELSE flash[w]]
  BY DEF EraseSector
<1>2. /\ (wr.at + SECTOR_SIZE < CAPACITY) =>
           wr' = [wr EXCEPT !.at = @ + SECTOR_SIZE] /\ UNCHANGED <<tail, phase, call, acked, trusted>>
      /\ ~(wr.at + SECTOR_SIZE < CAPACITY) =>
           /\ wr' = NoWrite /\ tail' = 0 /\ trusted' = TRUE
           /\ call.stage = "compact" => phase' = "copy" /\ UNCHANGED <<call, acked>>
           /\ call.stage # "compact" => /\ phase' = "set" /\ acked' = [k \in Keys |-> Missing]
                                        /\ call' = [call EXCEPT !.todo = call.all, !.stage = "set"]
  BY DEF EraseSector
<1>3. KvTyped /\ wr \in [at : Nat, left : Seq(KvWord)] /\ wr.at \in Nat /\ SECTOR_SIZE \in Nat /\ CAPACITY \in Nat
  BY KvAssumption DEF KvInv, KvTyped
<1>4. /\ call.stage \in {"compact", "reset"}
      /\ \A w \in 1 .. CAPACITY : w <= wr.at => flash[w] = Erased
      /\ call.stage = "compact" => acked = Say(live) /\ WordsOf(live) <= CAPACITY
  BY <1>1 DEF KvInv, KvErasing
<1>5. flash' \in [1 .. CAPACITY -> KvWord]
  <2>1. Erased \in KvWord /\ flash \in [1 .. CAPACITY -> KvWord]
    BY <1>3 DEF KvWord, KvTyped
  <2> QED
    BY <1>1, <2>1
<1>6. \A w \in 1 .. CAPACITY : w <= wr.at + SECTOR_SIZE => flash'[w] = Erased
  <2> SUFFICES ASSUME NEW w \in 1 .. CAPACITY, w <= wr.at + SECTOR_SIZE PROVE flash'[w] = Erased
    OBVIOUS
  <2>1. CASE w <= wr.at
    BY <1>1, <1>4, <2>1
  <2>2. CASE w > wr.at
    <3>1. w \in wr.at + 1 .. wr.at + SECTOR_SIZE
      BY <1>3, <2>2
    <3> QED
      BY <1>1, <3>1
  <2> QED
    BY <1>3, <2>1, <2>2
<1>7. CASE wr.at + SECTOR_SIZE < CAPACITY
  <2>1. wr' = [wr EXCEPT !.at = @ + SECTOR_SIZE] /\ UNCHANGED <<tail, phase, call, acked, trusted>>
    BY <1>2, <1>7
  <2>2. wr' \in [at : Nat, left : Seq(KvWord)] /\ wr'.at = wr.at + SECTOR_SIZE
    BY <1>3, <2>1
  <2>3. KvTyped'
    BY <1>1, <1>3, <1>5, <2>1, <2>2 DEF KvTyped
  <2>4. KvErasing'
    BY <1>1, <1>4, <1>6, <2>1, <2>2 DEF KvErasing
  <2>5. phase' = "erase"
    BY <1>1, <2>1
  <2> QED
    BY <2>3, <2>4, <2>5 DEF KvInv, KvSettled, KvSetting, KvRestoring, KvCopying
<1>8. CASE ~(wr.at + SECTOR_SIZE < CAPACITY)
  <2>1. \A w \in 1 .. CAPACITY : flash'[w] = Erased
    BY <1>3, <1>6, <1>8
  <2>2. Log(flash') = <<>> /\ LogEnd(flash') = 0 /\ Stored(flash') = [k \in Keys |-> Missing]
    BY <2>1, ErasedLog
  <2>3. wr' = NoWrite /\ tail' = 0 /\ trusted' = TRUE /\ tail' \in 0 .. CAPACITY
    BY <1>2, <1>3, <1>8
  <2>4. CASE call.stage = "compact"
    <3>1. phase' = "copy" /\ UNCHANGED <<call, acked>>
      BY <1>2, <1>8, <2>4
    <3>2. KvTyped'
      BY <1>1, <1>3, <1>5, <2>3, <3>1, NoCallIs DEF KvTyped
    <3>3. live \in Seq(Entry) /\ <<>> \o live = live
      BY <1>3, EmptyIs DEF KvTyped
    <3>4. acked' = Say(Log(flash') \o live')
      BY <1>1, <1>4, <2>2, <2>4, <3>1, <3>3
    <3>5. WordsOf(live) \in Nat
      <4>1. Len(live) \in 0 .. Len(live)
        BY <3>3
      <4> QED
        BY <3>3, <4>1, WordsTyped DEF WordsOf
    <3>6. tail' + WordsOf(live') <= CAPACITY
      BY <1>1, <1>3, <1>4, <2>3, <2>4, <3>5
    <3>7. \A w \in tail' + 1 .. CAPACITY : flash'[w] = Erased
      BY <1>3, <2>1, <2>3
    <3>8. KvRestoring'
      BY <2>2, <2>3, <2>4, <3>1, <3>4, <3>6, <3>7 DEF KvRestoring
    <3> QED
      BY <3>1, <3>2, <3>8 DEF KvInv, KvSettled, KvSetting, KvErasing, KvCopying
  <2>5. CASE call.stage # "compact"
    <3>1. /\ phase' = "set" /\ acked' = [k \in Keys |-> Missing]
          /\ call' = [call EXCEPT !.todo = call.all, !.stage = "set"]
      BY <1>2, <1>8, <2>5
    <3>2. call' \in KvCalls /\ call'.stage = "set"
      BY <1>3, <3>1 DEF KvTyped, KvCalls
    <3>3. KvTyped'
      BY <1>1, <1>3, <1>5, <2>3, <3>1, <3>2, NoCallIs DEF KvTyped
    <3>4. (trusted => Stored(flash) = acked)'
      BY <2>2, <3>1
    <3> QED
      BY <3>1, <3>2, <3>3, <3>4, SettledIsEnough
  <2> QED
    BY <2>4, <2>5
<1> QED
  BY <1>7, <1>8

(* The next entry of the scratch is handed to the storage.                 *)
LEMMA CopyBackKeeps ==
  ASSUME KvInv, CopyBack
  PROVE  KvInv'
<1>0. PICK e : e = Head(live)
  OBVIOUS
<1>1. /\ phase = "copy" /\ live # <<>> /\ phase' = "program" /\ live' = Tail(live)
      /\ wr' = [at |-> tail, left |-> Image(e)]
      /\ UNCHANGED <<flash, tail, call, acked, trusted, faults>>
  BY <1>0 DEF CopyBack
<1>2. KvTyped /\ live \in Seq(Entry) /\ tail \in 0 .. CAPACITY /\ tail \in Nat /\ CAPACITY \in Nat
  BY KvAssumption DEF KvInv, KvTyped
<1>3. /\ call.stage = "compact" /\ tail = LogEnd(flash)
      /\ \A w \in tail + 1 .. CAPACITY : flash[w] = Erased
      /\ acked = Say(Log(flash) \o live) /\ tail + WordsOf(live) <= CAPACITY
  BY <1>1 DEF KvInv, KvRestoring
<1>4. Log(flash) \in Seq(Entry)
  BY ScanEnds
<1>5. /\ e \in Entry /\ Tail(live) \in Seq(Entry)
      /\ Append(Log(flash), e) \o Tail(live) = Log(flash) \o live
      /\ WordsOf(Tail(live)) + EntryLen(e) = WordsOf(live)
      /\ WordsOf(Tail(live)) \in Nat /\ WordsOf(live) \in Nat /\ EntryLen(e) \in Nat
  BY <1>0, <1>1, <1>2, <1>4, HeadMoves
<1>6. 0 \in 0 .. EntryLen(e) - 1
  BY <1>5, ImageIs
<1>7. ImageFrom(e, 0) = Image(e) /\ ImageFrom(e, 0) \in Seq(KvWord)
  BY <1>5, <1>6, ImageFromIs
<1>8. wr' \in [at : Nat, left : Seq(KvWord)] /\ tail + 0 = tail
  BY <1>1, <1>2, <1>7
<1>9. KvTyped'
  BY <1>1, <1>2, <1>5, <1>8 DEF KvTyped
<1>10. (tail + EntryLen(e)) + WordsOf(Tail(live)) <= CAPACITY /\ tail + EntryLen(e) <= CAPACITY
  BY <1>2, <1>3, <1>5
<1>11. Writing(e, 0)'
  <2>1. wr' = [at |-> tail' + 0, left |-> ImageFrom(e, 0)] /\ tail' + EntryLen(e) <= CAPACITY
    BY <1>1, <1>7, <1>8, <1>10
  <2> QED
    BY <1>6, <2>1 DEF Writing
<1>12. Begun(flash, tail, e, 0)
  <2>1. (tail + 0) + 1 = tail + 1 /\ \A i \in 1 .. 0 : FALSE
    BY <1>8
  <2> QED
    BY <1>3, <2>1 DEF Begun
<1>13. Begun(flash', tail', e, 0)
  BY <1>1, <1>12
<1>14. acked' = Say(Append(Log(flash'), e) \o live')
  BY <1>1, <1>3, <1>5
<1>15. (tail' + EntryLen(e)) + WordsOf(live') <= CAPACITY
  BY <1>1, <1>10
<1>16. \E x \in Entry : \E d \in Nat :
         /\ Writing(x, d)' /\ Begun(flash', tail', x, d)
         /\ acked' = Say(Append(Log(flash'), x) \o live')
         /\ (tail' + EntryLen(x)) + WordsOf(live') <= CAPACITY
  BY <1>5, <1>11, <1>13, <1>14, <1>15
<1>17. call'.stage = "compact"
  BY <1>1, <1>3
<1>18. KvCopying'
  BY <1>16, <1>17 DEF KvCopying
<1> QED
  BY <1>1, <1>9, <1>17, <1>18 DEF KvInv, KvSettled, KvSetting, KvErasing, KvRestoring

(* The scratch is empty: the log says all it said.                         *)
LEMMA CompactDoneKeeps ==
  ASSUME KvInv, CompactDone
  PROVE  KvInv'
<1>1. /\ phase = "copy" /\ live = <<>> /\ UNCHANGED <<flash, tail, acked, trusted, faults>>
      /\ call.todo # <<>> => phase' = "set" /\ call' = [call EXCEPT !.stage = "set"] /\ UNCHANGED <<wr, live>>
      /\ call.todo = <<>> => phase' = "idle" /\ call' = NoCall /\ wr' = NoWrite /\ live' = <<>>
  BY DEF CompactDone, Return
<1>2. KvTyped
  BY DEF KvInv
<1>3. acked = Say(Log(flash) \o live)
  BY <1>1 DEF KvInv, KvRestoring
<1>4. Stored(flash) = Say(Log(flash)) /\ Log(flash) \in Seq(Entry)
  BY StoredIs
<1>5. Log(flash) \o <<>> = Log(flash)
  BY <1>4, EmptyIs
<1>6. Stored(flash) = acked
  BY <1>1, <1>3, <1>4, <1>5
<1>7. (trusted => Stored(flash) = acked)'
  BY <1>1, <1>6
<1>8. call' \in KvCalls /\ call'.stage = "set"
  <2>1. CASE call.todo # <<>>
    <3>1. call' = [call EXCEPT !.stage = "set"] /\ call \in KvCalls
      BY <1>1, <1>2, <2>1 DEF KvTyped
    <3> QED
      BY <3>1 DEF KvCalls
  <2>2. CASE call.todo = <<>>
    BY <1>1, <2>2, NoCallIs
  <2> QED
    BY <2>1, <2>2
<1>9. KvTyped' /\ phase' \in {"down", "idle", "set"}
  <2>1. flash' = flash /\ tail' = tail /\ trusted' = trusted
    BY <1>1
  <2>2. wr' \in [at : Nat, left : Seq(KvWord)] /\ live' \in Seq(Entry) /\ phase' \in {"idle", "set"}
    BY <1>1, <1>2, NoCallIs, EmptyIs DEF KvTyped
  <2> QED
    BY <1>2, <1>8, <2>1, <2>2 DEF KvTyped
<1> QED
  BY <1>7, <1>8, <1>9, SettledIsEnough

(* open() finds the end of the log.                                        *)
LEMMA OpenKeeps ==
  ASSUME KvInv, Open
  PROVE  KvInv'
<1>1. /\ phase = "down" /\ phase' = "idle" /\ tail' = LogEnd(flash)
      /\ UNCHANGED <<flash, wr, call, live, acked, trusted, faults>>
  BY DEF Open
<1>2. LogEnd(flash) \in 0 .. CAPACITY
  BY ScanEnds
<1>3. KvTyped'
  BY <1>1, <1>2 DEF KvInv, KvTyped
<1>4. call.stage = "set" /\ (trusted => Stored(flash) = acked)
  BY <1>1 DEF KvInv, KvSettled
<1>5. call'.stage = "set" /\ (trusted => Stored(flash) = acked)'
  BY <1>1, <1>4
<1> QED
  BY <1>1, <1>3, <1>5, SettledIsEnough

(* A calibration that does not fit has everything erased.                  *)
LEMMA SaveResetsKeeps ==
  ASSUME KvInv, SaveResets
  PROVE  KvInv'
<1>1. /\ phase' = "erase" /\ wr' = NoWrite
      /\ call' = [call EXCEPT !.stage = "reset", !.retried = TRUE]
      /\ UNCHANGED <<flash, tail, live, acked, trusted, faults>>
  BY DEF SaveResets
<1>2. call' \in KvCalls /\ call'.stage = "reset"
  BY <1>1 DEF KvInv, KvTyped, KvCalls
<1>3. KvTyped'
  BY <1>1, <1>2, NoCallIs DEF KvInv, KvTyped
<1>4. \A w \in 1 .. CAPACITY : w <= wr'.at => flash'[w] = Erased
  <2>1. wr'.at = 0
    BY <1>1, NoCallIs
  <2> QED
    BY <2>1
<1>5. KvErasing'
  BY <1>2, <1>4 DEF KvErasing
<1> QED
  BY <1>1, <1>2, <1>3, <1>5 DEF KvInv, KvSettled, KvSetting, KvRestoring, KvCopying

(* A step of nobody keeps it.                                              *)
LEMMA KvFramed ==
  ASSUME KvInv, UNCHANGED kvVars
  PROVE  KvInv'
<1>1. UNCHANGED <<flash, tail, phase, wr, call, live, acked, trusted>>
  BY DEF kvVars
<1>2. KvTyped' /\ KvSettled' /\ KvErasing' /\ KvRestoring'
  BY <1>1 DEF KvInv, KvTyped, KvSettled, KvErasing, KvRestoring
<1>3. KvSetting' /\ KvCopying'
  BY <1>1 DEF KvInv, KvSetting, KvCopying, Writing
<1> QED
  BY <1>2, <1>3 DEF KvInv

(* The first of a set of slots is one of them.                             *)
LEMMA FirstSlot ==
  ASSUME NEW S \in SUBSET Slots, S # {}
  PROVE  Min(S) \in S /\ Min(S) \in Slots /\ Min(S) \in 0 .. MAX_HANDLES
<1>1. S \in SUBSET Nat
  BY NvsAssumption DEF Slots
<1>2. \E x \in S : \A y \in S : x <= y
  BY <1>1, LeastNat
<1>3. Min(S) \in S
  BY <1>2 DEF Min
<1>4. \A x \in Slots : x \in 0 .. MAX_HANDLES
  BY NvsAssumption DEF Slots
<1>5. Min(S) \in Slots
  BY <1>3
<1> QED
  BY <1>3, <1>4, <1>5

(* What the handle says is a namespace, whose key is one of the store's.   *)
LEMMA HandleKey ==
  ASSUME TypeNvs, NEW u \in Users, held[u].h # 0, handles[held[u].h].name # NoName, NEW v \in Values
  PROVE  <<<<KeyOf[handles[held[u].h].name], v>>>> \in Seq(Entry)
<1>1. held[u].h \in Slots
  BY NvsAssumption DEF TypeNvs, Slots
<1>2. handles[held[u].h].name \in Namespaces
  BY <1>1 DEF TypeNvs
<1>3. KeyOf[handles[held[u].h].name] \in Keys
  BY <1>2, NvsAssumption
<1>4. <<KeyOf[handles[held[u].h].name], v>> \in Entry
  BY <1>3 DEF Entry
<1> QED
  BY <1>4

(* The records of a calibration are entries.                               *)
LEMMA RecordsTyped ==
  ASSUME NEW c \in Values
  PROVE  Records(c) \in Seq(Entry)
<1> DEFINE a == [i \in DOMAIN Chunks |-> <<Chunks[i], c>>]
           b == [i \in DOMAIN Identity |-> <<Identity[i], c>>]
           z == <<<<SumKey, c>>>>
<1>1. ASSUME NEW s \in Seq(Keys) PROVE [i \in DOMAIN s |-> <<s[i], c>>] \in Seq(Entry)
  <2>1. Len(s) \in Nat /\ DOMAIN s = 1 .. Len(s) /\ \A i \in 1 .. Len(s) : s[i] \in Keys
    OBVIOUS
  <2>2. \A i \in 1 .. Len(s) : <<s[i], c>> \in Entry
    BY <2>1 DEF Entry
  <2>3. [i \in 1 .. Len(s) |-> <<s[i], c>>] \in Seq(Entry)
    BY <2>1, <2>2, IsASeq
  <2> QED
    BY <2>1, <2>3
<1>2. a \in Seq(Entry) /\ b \in Seq(Entry)
  BY <1>1, NvsAssumption
<1>3. z \in Seq(Entry)
  BY NvsAssumption DEF Entry
<1>4. Records(c) = (a \o b) \o z
  BY DEF Records
<1> HIDE DEF a, b, z
<1>5. a \o b \in Seq(Entry)
  BY <1>2, ConcatProperties
<1>6. (a \o b) \o z \in Seq(Entry)
  BY <1>3, <1>5, ConcatProperties
<1> QED
  BY <1>4, <1>6

(* The store's own steps.                                                  *)
LEMMA StoreNextKeeps ==
  ASSUME KvInv, StoreNext
  PROVE  KvInv'
<1>1. CASE SetFits
  BY <1>1, SetFitsKeeps
<1>2. CASE ProgramWord
  BY <1>2, ProgramSetKeeps, ProgramCopyKeeps
<1>3. CASE Finish
  BY <1>3, ReturnKeeps DEF Finish
<1>4. CASE EraseSector
  BY <1>4, EraseSectorKeeps
<1>5. CASE CopyBack
  BY <1>5, CopyBackKeeps
<1>6. CASE CompactDone
  BY <1>6, CompactDoneKeeps
<1>7. CASE StorageFails
  <2>1. /\ Interrupted /\ tail' = tail /\ phase' \in {"down", "idle"}
        /\ call' = NoCall /\ wr' = NoWrite /\ live' = <<>>
    BY <1>7 DEF StorageFails, Return
  <2>2. tail \in 0 .. CAPACITY
    BY DEF KvInv, KvTyped
  <2> QED
    BY <2>1, <2>2, InterruptedKeeps
<1> QED
  BY <1>1, <1>2, <1>3, <1>4, <1>5, <1>6, <1>7 DEF StoreNext

(* Every step of the store and of its callers keeps the invariant.         *)
LEMMA NvsStepKeeps ==
  ASSUME KvInv, TypeNvs, NvsNext
  PROVE  KvInv'
<1>1. CASE StoreNext /\ UNCHANGED nvsVars
  BY <1>1, StoreNextKeeps
<1>2. CASE Crash /\ handles' = NoHandles /\ held' = NobodyHolds /\ registered' = FALSE
  <2>1. /\ Interrupted /\ tail' = 0 /\ phase' \in {"down", "idle"}
        /\ call' = NoCall /\ wr' = NoWrite /\ live' = <<>>
    BY <1>2 DEF Crash
  <2>2. 0 \in 0 .. CAPACITY
    BY KvAssumption
  <2> QED
    BY <2>1, <2>2, InterruptedKeeps
<1>3. CASE Open /\ UNCHANGED nvsVars
  BY <1>3, OpenKeeps
<1>4. ASSUME NEW u \in Users, NEW ns \in Namespaces, NEW rw \in BOOLEAN, nvs_open(u, ns, rw) PROVE KvInv'
  BY <1>4, KvFramed DEF nvs_open
<1>5. ASSUME NEW u \in Users, nvs_close(u) PROVE KvInv'
  BY <1>5, KvFramed DEF nvs_close
<1>6. ASSUME NEW u \in Users, NEW v \in BlobValues, set_tagged(u, v) PROVE KvInv'
  <2>1. /\ held[u].h # 0 /\ handles[held[u].h].name # NoName
        /\ BeginSet(<<<<KeyOf[handles[held[u].h].name], v>>>>, "put")
    BY <1>6 DEF set_tagged
  <2>2. v \in Values
    BY NvsAssumption
  <2>3. <<<<KeyOf[handles[held[u].h].name], v>>>> \in Seq(Entry)
    BY <2>1, <2>2, HandleKey
  <2> QED
    BY <2>1, <2>3, BeginSetKeeps
<1>7. ASSUME NEW u \in Users, nvs_erase_key(u) PROVE KvInv'
  <2>1. /\ held[u].h # 0 /\ handles[held[u].h].name # NoName
        /\ BeginSet(<<<<KeyOf[handles[held[u].h].name], EmptyValue>>>>, "none")
    BY <1>7 DEF nvs_erase_key
  <2>2. EmptyValue \in Values
    BY NvsAssumption
  <2>3. <<<<KeyOf[handles[held[u].h].name], EmptyValue>>>> \in Seq(Entry)
    BY <2>1, <2>2, HandleKey
  <2> QED
    BY <2>1, <2>3, BeginSetKeeps
<1>8. CASE PutCompacts
  <2>1. /\ phase = "set" /\ CompactStart /\ UNCHANGED <<flash, tail, trusted, faults>>
        /\ call' = [call EXCEPT !.stage = "compact", !.retried = TRUE]
    BY <1>8 DEF PutCompacts, SetFull
  <2>2. call' \in KvCalls /\ call'.stage = "compact"
    BY <2>1 DEF KvInv, KvTyped, KvCalls
  <2> QED
    BY <2>1, <2>2, CompactStartKeeps
<1>9. CASE GiveUp
  BY <1>9, ReturnKeeps DEF GiveUp, SetFull
<1>10. CASE compact_if_grown
  <2>1. /\ phase = "idle" /\ CompactStart /\ UNCHANGED <<flash, tail, trusted, faults>>
        /\ call' = [NoCall EXCEPT !.stage = "compact"]
    BY <1>10 DEF compact_if_grown
  <2>2. call' = [todo |-> <<>>, all |-> <<>>, policy |-> "none", stage |-> "compact", retried |-> FALSE]
    BY <2>1 DEF NoCall
  <2>3. call' \in KvCalls /\ call'.stage = "compact"
    BY <2>2, EmptyIs DEF KvCalls
  <2> QED
    BY <2>1, <2>3, CompactStartKeeps
<1>11. ASSUME NEW c \in Calibrations, register_with(c) PROVE KvInv'
  <2>1. c \in Values
    BY NvsAssumption
  <2>2. Records(c) \in Seq(Entry)
    BY <2>1, RecordsTyped
  <2>3. CASE Loads(flash)
    BY <1>11, <2>3, KvFramed DEF register_with
  <2>4. CASE ~Loads(flash)
    <3>1. BeginSet(Records(c), "save")
      BY <1>11, <2>4 DEF register_with
    <3> QED
      BY <2>2, <3>1, BeginSetKeeps
  <2> QED
    BY <2>3, <2>4
<1>12. CASE SaveResets
  BY <1>12, SaveResetsKeeps
<1> QED
  BY <1>1, <1>2, <1>3, <1>4, <1>5, <1>6, <1>7, <1>8, <1>9, <1>10, <1>11, <1>12 DEF NvsNext

(* Handles keep their types.                                               *)
LEMMA NvsTypeKept ==
  ASSUME TypeNvs, NvsNext
  PROVE  TypeNvs'
<1>0. ASSUME UNCHANGED nvsVars PROVE TypeNvs'
  BY <1>0 DEF nvsVars, TypeNvs
<1>1. CASE Crash /\ handles' = NoHandles /\ held' = NobodyHolds /\ registered' = FALSE
  <2>1. 0 \in 0 .. MAX_HANDLES
    BY NvsAssumption
  <2>2. NoHandles \in [Slots -> [name : Namespaces \cup {NoName}, writable : BOOLEAN]]
    BY DEF NoHandles, Free
  <2>3. NobodyHolds \in [Users -> [h : 0 .. MAX_HANDLES, name : Namespaces \cup {NoName}]]
    BY <2>1 DEF NobodyHolds
  <2> QED
    BY <1>1, <2>2, <2>3 DEF TypeNvs
<1>2. ASSUME NEW u \in Users, NEW ns \in Namespaces, NEW rw \in BOOLEAN, nvs_open(u, ns, rw) PROVE TypeNvs'
  <2> DEFINE same == {i \in Slots : handles[i].name = ns}
             free == {i \in Slots : handles[i].name = NoName}
  <2>1. registered' = registered
    BY <1>2 DEF nvs_open
  <2>2. \/ same # {} /\ held' = [held EXCEPT ![u] = [h |-> Min(same), name |-> ns]] /\ UNCHANGED handles
        \/ /\ free # {} /\ handles' = [handles EXCEPT ![Min(free)] = [name |-> ns, writable |-> rw]]
           /\ held' = [held EXCEPT ![u] = [h |-> Min(free), name |-> ns]]
    BY <1>2 DEF nvs_open
  <2>3. same # {} => Min(same) \in 0 .. MAX_HANDLES
    BY FirstSlot
  <2>4. free # {} => Min(free) \in 0 .. MAX_HANDLES /\ Min(free) \in Slots
    BY FirstSlot
  <2> HIDE DEF same, free
  <2>5. held' \in [Users -> [h : 0 .. MAX_HANDLES, name : Namespaces \cup {NoName}]]
    BY <2>2, <2>3, <2>4 DEF TypeNvs
  <2>6. handles' \in [Slots -> [name : Namespaces \cup {NoName}, writable : BOOLEAN]]
    BY <2>2, <2>4 DEF TypeNvs
  <2> QED
    BY <2>1, <2>5, <2>6 DEF TypeNvs
<1>3. ASSUME NEW u \in Users, nvs_close(u) PROVE TypeNvs'
  <2>1. 0 \in 0 .. MAX_HANDLES
    BY NvsAssumption
  <2>2. held[u].h \in Slots
    BY <1>3, NvsAssumption DEF nvs_close, TypeNvs, Slots
  <2>3. /\ handles' = [handles EXCEPT ![held[u].h] = Free] /\ registered' = registered
        /\ held' = [held EXCEPT ![u] = [h |-> 0, name |-> NoName]]
    BY <1>3 DEF nvs_close
  <2>4. handles' \in [Slots -> [name : Namespaces \cup {NoName}, writable : BOOLEAN]]
    BY <2>2, <2>3 DEF TypeNvs, Free
  <2>5. held' \in [Users -> [h : 0 .. MAX_HANDLES, name : Namespaces \cup {NoName}]]
    BY <2>1, <2>3 DEF TypeNvs
  <2> QED
    BY <2>3, <2>4, <2>5 DEF TypeNvs
<1>4. ASSUME NEW u \in Users, NEW v \in BlobValues, set_tagged(u, v) PROVE TypeNvs'
  BY <1>0, <1>4 DEF set_tagged
<1>5. ASSUME NEW u \in Users, nvs_erase_key(u) PROVE TypeNvs'
  BY <1>0, <1>5 DEF nvs_erase_key
<1>6. CASE PutCompacts \/ GiveUp \/ compact_if_grown \/ SaveResets
  BY <1>0, <1>6 DEF PutCompacts, GiveUp, compact_if_grown, SaveResets
<1>7. ASSUME NEW c \in Calibrations, register_with(c) PROVE TypeNvs'
  BY <1>7 DEF register_with, TypeNvs
<1> QED
  BY <1>0, <1>1, <1>2, <1>3, <1>4, <1>5, <1>6, <1>7 DEF NvsNext

(* The store keeps what it has acknowledged, for any partition and scratch *)
(* and any number of keys and faults: as long as every set since the last  *)
(* erase went onto erased words, what get reads is what sets that returned *)
(* Ok stored, through crashes, failed writes and compaction                *)
(* (lib/kvstore/src/lib.rs set, get, open, compact; the callers are the    *)
(* radio's nvs calls and its calibration).                                 *)
THEOREM StoreKeepsAcked == NvsSpec => []AckedSurvives
<1>1. KvInit /\ NvsInit => KvInv /\ TypeNvs
  <2> SUFFICES ASSUME KvInit, NvsInit PROVE KvInv /\ TypeNvs
    OBVIOUS
  <2>1. 0 \in 0 .. MAX_HANDLES
    BY NvsAssumption
  <2>2. NoHandles \in [Slots -> [name : Namespaces \cup {NoName}, writable : BOOLEAN]]
    BY DEF NoHandles, Free
  <2>3. NobodyHolds \in [Users -> [h : 0 .. MAX_HANDLES, name : Namespaces \cup {NoName}]]
    BY <2>1 DEF NobodyHolds
  <2>4. TypeNvs
    BY <2>2, <2>3 DEF NvsInit, TypeNvs
  <2> QED
    BY <2>4, KvStartsRight
<1>2. KvInv /\ TypeNvs /\ [NvsNext]_<<kvVars, nvsVars>> => (KvInv /\ TypeNvs)'
  <2> SUFFICES ASSUME KvInv, TypeNvs, [NvsNext]_<<kvVars, nvsVars>> PROVE KvInv' /\ TypeNvs'
    OBVIOUS
  <2>1. CASE NvsNext
    BY <2>1, NvsStepKeeps, NvsTypeKept
  <2>2. CASE UNCHANGED <<kvVars, nvsVars>>
    <3>1. UNCHANGED kvVars /\ UNCHANGED nvsVars
      BY <2>2
    <3>2. TypeNvs'
      BY <3>1 DEF nvsVars, TypeNvs
    <3> QED
      BY <3>1, <3>2, KvFramed
  <2> QED
    BY <2>1, <2>2
<1>3. KvInv => AckedSurvives
  <2> SUFFICES ASSUME KvInv, trusted, ~Rewriting PROVE Stored(flash) = acked
    BY DEF AckedSurvives
  <2>1. phase \notin {"erase", "copy"} /\ call.stage = "set"
    BY DEF Rewriting
  <2>2. CASE phase = "program"
    BY <2>1, <2>2 DEF KvInv, KvSetting
  <2>3. CASE phase # "program"
    <3>1. phase \in {"down", "idle", "set"}
      BY <2>1, <2>3 DEF KvInv, KvTyped
    <3> QED
      BY <3>1 DEF KvInv, KvSettled
  <2> QED
    BY <2>2, <2>3
<1> QED
  BY <1>1, <1>2, <1>3, PTL DEF NvsSpec
=============================================================================
