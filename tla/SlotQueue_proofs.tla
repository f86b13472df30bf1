-------------------------- MODULE SlotQueue_proofs --------------------------
(***************************************************************************)
(* Proofs about the lock-free ring, for any number of slots, producers and *)
(* consumers and any word size.                                            *)
(***************************************************************************)
EXTENDS SlotQueue, FiniteSetTheorems, SequenceTheorems, TLAPS

LEMMA SlotOfType ==
  ASSUME NEW p \in Positions
  PROVE  SlotOf(p) \in 0 .. N - 1
  BY QueueAssumption DEF SlotOf, Positions

LEMMA IncType ==
  ASSUME NEW p \in Positions
  PROVE  Inc(p) \in Positions
  BY QueueAssumption DEF Inc, Positions

LEMMA PositionZero == 0 \in Positions
  BY QueueAssumption DEF Positions

(* The retry budget of a call in progress is never used up: the last retry *)
(* returns.                                                                *)
Budget == \A x \in Callers : pc[x] # "idle" => retries[x] # 0

Typed == TypeOK /\ Budget

LEMMA InitTyped == Init => Typed
  BY QueueAssumption, PositionZero DEF Init, Typed, TypeOK, Budget

LEMMA NextTyped == Typed /\ [Next]_vars => Typed'
<1> SUFFICES ASSUME Typed, [Next]_vars PROVE Typed'
  OBVIOUS
<1> USE PositionZero DEF Typed, TypeOK, Budget, Goto
<1>0. 0 \in 0 .. N + 1 /\ N + 1 \in 0 .. N + 1 /\ N + 1 # 0
  BY QueueAssumption
<1>1. ASSUME NEW p \in Producers, NEW m \in Messages, CallSend(p, m) PROVE Typed'
  BY <1>0, <1>1 DEF CallSend, Callers
<1>2. ASSUME NEW c \in Consumers, CallRecv(c) PROVE Typed'
  BY <1>0, <1>2 DEF CallRecv, Callers
<1>3. ASSUME NEW x \in Callers, LoadOwn(x) PROVE Typed'
  BY <1>3 DEF LoadOwn
<1>4. ASSUME NEW x \in Callers, CheckRoom(x) PROVE Typed'
  BY <1>0, <1>4, ZenonT(60) DEF CheckRoom, Finish
<1>5. ASSUME NEW x \in Callers, ClaimSlot(x) PROVE Typed'
  BY <1>0, <1>5, SlotOfType DEF ClaimSlot, Finish
<1>6. ASSUME NEW p \in Producers, CasTail(p) PROVE Typed'
  BY <1>6, IncType DEF CasTail, Callers
<1>7. ASSUME NEW c \in Consumers, CasHead(c) PROVE Typed'
  BY <1>7, IncType DEF CasHead, Callers
<1>8. ASSUME NEW x \in Callers, Copy(x) PROVE Typed'
  BY <1>8, SlotOfType DEF Copy
<1>9. ASSUME NEW x \in Callers, Publish(x) PROVE Typed'
  BY <1>0, <1>9, SlotOfType DEF Publish, Finish
<1>10. ASSUME NEW x \in Callers, Undo(x) PROVE Typed'
  <2>1. \A r \in 0 .. N + 1 : r # 0 /\ r # 1 => r - 1 \in 0 .. N + 1 /\ r - 1 # 0
    BY QueueAssumption
  <2>2. CASE retries[x] = 1
    BY <1>0, <1>10, <2>2, SlotOfType DEF Undo, Finish
  <2>3. CASE retries[x] # 1
    <3>1. retries' = [retries EXCEPT ![x] = retries[x] - 1]
      BY <1>10, <2>3 DEF Undo
    <3>2. retries[x] - 1 \in 0 .. N + 1 /\ retries[x] - 1 # 0
      BY <1>10, <2>1, <2>3 DEF Undo
    <3>3. slotState' \in [0 .. N - 1 -> {"FREE", "WRITING", "READY", "READING"}]
      BY <1>10, SlotOfType DEF Undo
    <3> QED
      BY <1>10, <2>3, <3>1, <3>2, <3>3 DEF Undo
  <2> QED
    BY <2>2, <2>3
<1>11. CASE UNCHANGED vars
  BY <1>11 DEF vars
<1> QED
  BY <1>1, <1>2, <1>3, <1>4, <1>5, <1>6, <1>7, <1>8, <1>9, <1>10, <1>11 DEF Next

----------------------------------------------------------------------------
(* Slot ownership.                                                         *)
LEMMA InitExclusive == Init => SlotExclusive
  BY DEF Init, SlotExclusive, Holds, Callers

(* A step of x that changes neither what x holds nor any slot.             *)
LEMMA NothingClaimed ==
  ASSUME SlotExclusive, slotState' = slotState,
         \A y \in Callers, s \in 0 .. N - 1 : Holds(y, s)' <=> Holds(y, s)
  PROVE  SlotExclusive'
  BY DEF SlotExclusive, Callers

(* x gives its slot up, and nobody else holds it.                          *)
LEMMA SlotReleased ==
  ASSUME Typed, SlotExclusive, NEW x \in Callers,
         pc[x] \in {"publish", "undo"}, pc'[x] \in {"idle", "load"},
         \A y \in Callers \ {x} : pc'[y] = pc[y] /\ pos'[y] = pos[y],
         NEW v \in {"FREE", "READY"},
         slotState' = [slotState EXCEPT ![SlotOf(pos[x])] = v]
  PROVE  SlotExclusive'
<1> DEFINE s0 == SlotOf(pos[x])
<1>1. s0 \in 0 .. N - 1 /\ Holds(x, s0)
  BY SlotOfType DEF Typed, TypeOK, Holds
<1>2. \A s : ~Holds(x, s)'
  BY DEF Holds
<1>3. \A y \in Callers \ {x} : \A s : Holds(y, s)' <=> Holds(y, s)
  BY DEF Holds
<1>4. \A y \in Callers \ {x} : ~Holds(y, s0)
  BY <1>1 DEF SlotExclusive
<1>5. \A s \in 0 .. N - 1 : s # s0 => ~Holds(x, s) /\ slotState'[s] = slotState[s]
  BY <1>1 DEF Holds, Typed, TypeOK
<1>6. slotState'[s0] = v
  BY <1>1 DEF Typed, TypeOK
<1> HIDE DEF s0
<1>7. \A s \in 0 .. N - 1, y \in Callers : Holds(y, s)' => Holds(y, s) /\ y # x /\ s # s0
  BY <1>2, <1>3, <1>4
<1>8. ASSUME NEW s \in 0 .. N - 1
      PROVE  /\ slotState'[s] = "WRITING" <=> \E p \in Producers : Holds(p, s)'
             /\ slotState'[s] = "READING" <=> \E c \in Consumers : Holds(c, s)'
  <2>1. CASE s = s0
    BY <1>6, <1>7, <2>1 DEF Callers
  <2>2. CASE s # s0
    <3>1. \A y \in Callers : Holds(y, s)' <=> Holds(y, s)
      BY <1>2, <1>3, <1>5, <2>2
    <3> QED
      BY <1>5, <2>2, <3>1 DEF SlotExclusive, Callers
  <2> QED
    BY <2>1, <2>2
<1> QED
  BY <1>7, <1>8 DEF SlotExclusive

LEMMA NextExclusive == Typed /\ SlotExclusive /\ [Next]_vars => SlotExclusive'
<1> SUFFICES ASSUME Typed, SlotExclusive, [Next]_vars PROVE SlotExclusive'
  OBVIOUS
<1> USE DEF Goto
<1>1. ASSUME NEW p \in Producers, NEW m \in Messages, CallSend(p, m) PROVE SlotExclusive'
  BY <1>1, NothingClaimed DEF CallSend, Holds, Typed, TypeOK
<1>2. ASSUME NEW c \in Consumers, CallRecv(c) PROVE SlotExclusive'
  BY <1>2, NothingClaimed DEF CallRecv, Holds, Typed, TypeOK
<1>3. ASSUME NEW x \in Callers, LoadOwn(x) PROVE SlotExclusive'
  BY <1>3, NothingClaimed DEF LoadOwn, Holds, Typed, TypeOK
<1>4. ASSUME NEW x \in Callers, CheckRoom(x) PROVE SlotExclusive'
  BY <1>4, NothingClaimed DEF CheckRoom, Finish, Holds, Typed, TypeOK
<1>5. ASSUME NEW x \in Callers, ClaimSlot(x) PROVE SlotExclusive'
  <2> DEFINE s0 == SlotOf(pos[x])
             from == IF x \in Producers THEN "FREE" ELSE "READY"
             to == IF x \in Producers THEN "WRITING" ELSE "READING"
  <2>1. CASE slotState[s0] # from
    BY <1>5, <2>1, NothingClaimed DEF ClaimSlot, Finish, Holds, Typed, TypeOK
  <2>2. CASE slotState[s0] = from
    <3>1. /\ slotState' = [slotState EXCEPT ![s0] = to]
          /\ pc[x] = "claim" /\ pc' = [pc EXCEPT ![x] = "cas"] /\ pos' = pos
      BY <1>5, <2>2 DEF ClaimSlot
    <3>2. s0 \in 0 .. N - 1
      BY SlotOfType DEF Typed, TypeOK
    <3>3. \A y \in Callers : ~Holds(y, s0)
      BY <2>2, <3>2 DEF SlotExclusive, Callers
    <3>4. \A y \in Callers, s \in 0 .. N - 1 :
            Holds(y, s)' <=> Holds(y, s) \/ (y = x /\ s = s0)
      BY <3>1 DEF Holds, Typed, TypeOK
    <3>5. \A s \in 0 .. N - 1 : slotState'[s] = IF s = s0 THEN to ELSE slotState[s]
      BY <3>1 DEF Typed, TypeOK
    <3>6. x \in Producers <=> x \notin Consumers
      BY QueueAssumption DEF Callers
    <3> HIDE DEF s0
    <3>7. \A s \in 0 .. N - 1, y, z \in Callers : Holds(y, s)' /\ Holds(z, s)' => y = z
      BY <3>3, <3>4 DEF SlotExclusive
    <3>8. ASSUME NEW s \in 0 .. N - 1
          PROVE  /\ slotState'[s] = "WRITING" <=> \E p \in Producers : Holds(p, s)'
                 /\ slotState'[s] = "READING" <=> \E c \in Consumers : Holds(c, s)'
      <4>1. CASE s = s0
        BY <3>3, <3>4, <3>5, <3>6, <4>1 DEF Callers
      <4>2. CASE s # s0
        BY <3>4, <3>5, <4>2 DEF SlotExclusive, Callers
      <4> QED
        BY <4>1, <4>2
    <3> QED
      BY <3>7, <3>8 DEF SlotExclusive
  <2> QED
    BY <2>1, <2>2
<1>6. ASSUME NEW p \in Producers, CasTail(p) PROVE SlotExclusive'
  BY <1>6, NothingClaimed DEF CasTail, Holds, Typed, TypeOK
<1>7. ASSUME NEW c \in Consumers, CasHead(c) PROVE SlotExclusive'
  BY <1>7, NothingClaimed DEF CasHead, Holds, Typed, TypeOK
<1>8. ASSUME NEW x \in Callers, Copy(x) PROVE SlotExclusive'
  BY <1>8, NothingClaimed DEF Copy, Holds, Typed, TypeOK
<1>9. ASSUME NEW x \in Callers, Publish(x) PROVE SlotExclusive'
  BY <1>9, SlotReleased DEF Publish, Finish, Typed, TypeOK
<1>10. ASSUME NEW x \in Callers, Undo(x) PROVE SlotExclusive'
  BY <1>10, SlotReleased DEF Undo, Finish, Typed, TypeOK
<1>11. CASE UNCHANGED vars
  BY <1>11, NothingClaimed DEF vars, Holds
<1> QED
  BY <1>1, <1>2, <1>3, <1>4, <1>5, <1>6, <1>7, <1>8, <1>9, <1>10, <1>11 DEF Next

(* The slot state is a lock around the slot's memory: a message is never   *)
(* read while it is written or written over while it is read, with any     *)
(* number of producers and consumers.                                      *)
THEOREM SlotsExclusive == Spec => [](TypeOK /\ SlotExclusive)
<1>1. Init => Typed /\ SlotExclusive
  BY InitTyped, InitExclusive
<1>2. (Typed /\ SlotExclusive) /\ [Next]_vars => (Typed /\ SlotExclusive)'
  BY NextTyped, NextExclusive
<1>3. Typed => TypeOK
  BY DEF Typed
<1> QED
  BY <1>1, <1>2, <1>3, PTL DEF Spec

----------------------------------------------------------------------------
(* Arithmetic of the positions.                                            *)
LEMMA ModSmall ==
  ASSUME NEW m \in Nat \ {0}, NEW a \in Nat, a < m
  PROVE  a % m = a
  OBVIOUS

LEMMA ModWrap ==
  ASSUME NEW m \in Nat \ {0}, NEW a \in Nat, m <= a, a < 2 * m
  PROVE  a % m = a - m
  OBVIOUS

LEMMA ModNeg ==
  ASSUME NEW m \in Nat \ {0}, NEW a \in Int, a < 0, 0 - m <= a
  PROVE  a % m = a + m
  OBVIOUS

LEMMA IncForm ==
  ASSUME NEW p \in Positions
  PROVE  Inc(p) = IF p = POS_MOD - 1 THEN 0 ELSE p + 1
<1>1. CASE p = POS_MOD - 1
  BY <1>1, QueueAssumption, ModWrap DEF Inc, Positions
<1>2. CASE p # POS_MOD - 1
  BY <1>2, QueueAssumption, ModSmall DEF Inc, Positions
<1> QED
  BY <1>1, <1>2

LEMMA CountForm ==
  ASSUME NEW p \in Positions, NEW h \in Positions
  PROVE  Count(p, h) = IF p < h THEN p - h + POS_MOD ELSE p - h
<1>1. CASE p < h
  BY <1>1, QueueAssumption, ModNeg DEF Count, Positions
<1>2. CASE ~(p < h)
  BY <1>2, QueueAssumption, ModSmall DEF Count, Positions
<1> QED
  BY <1>1, <1>2

(* The position k places after h, and back.                                *)
LEMMA OffsetForm ==
  ASSUME NEW h \in Positions, NEW k \in Positions
  PROVE  /\ (h + k) % POS_MOD = IF h + k < POS_MOD THEN h + k ELSE h + k - POS_MOD
         /\ (h + k) % POS_MOD \in Positions
         /\ Count((h + k) % POS_MOD, h) = k
<1>0. /\ h \in Nat /\ k \in Nat /\ h < POS_MOD /\ k < POS_MOD
      /\ POS_MOD \in Nat \ {0} /\ h + k \in Nat /\ h + k < 2 * POS_MOD
  BY QueueAssumption DEF Positions
<1>1. (h + k) % POS_MOD = IF h + k < POS_MOD THEN h + k ELSE h + k - POS_MOD
  <2>1. CASE h + k < POS_MOD
    BY <1>0, <2>1, ModSmall
  <2>2. CASE ~(h + k < POS_MOD)
    <3>1. POS_MOD <= h + k
      BY <1>0, <2>2
    <3> DEFINE a == h + k
    <3>2. a \in Nat /\ POS_MOD <= a /\ a < 2 * POS_MOD
      BY <1>0, <3>1
    <3> HIDE DEF a
    <3>3. a % POS_MOD = a - POS_MOD
      BY <1>0, <3>2, ModWrap
    <3>4. a % POS_MOD = IF a < POS_MOD THEN a ELSE a - POS_MOD
      BY <1>0, <3>2, <3>3
    <3> QED
      BY <1>0, <3>4 DEF a
  <2> QED
    BY <2>1, <2>2
<1>2. (h + k) % POS_MOD \in Positions
  BY <1>0, <1>1 DEF Positions
<1> DEFINE q == (h + k) % POS_MOD
<1>3. Count(q, h) = IF q < h THEN q - h + POS_MOD ELSE q - h
  BY <1>2, CountForm
<1>4. q = IF h + k < POS_MOD THEN h + k ELSE h + k - POS_MOD
  BY <1>1
<1> HIDE DEF q
<1>5. Count(q, h) = k
  BY <1>0, <1>3, <1>4
<1> QED
  BY <1>1, <1>2, <1>5 DEF q

LEMMA CountType ==
  ASSUME NEW p \in Positions, NEW h \in Positions
  PROVE  /\ Count(p, h) \in Positions /\ Count(h, h) = 0
         /\ (h + Count(p, h)) % POS_MOD = p
<1>0. p \in Nat /\ h \in Nat /\ p < POS_MOD /\ h < POS_MOD /\ POS_MOD \in Nat
  BY QueueAssumption DEF Positions
<1>1. /\ Count(p, h) = IF p < h THEN p - h + POS_MOD ELSE p - h
      /\ Count(h, h) = IF h < h THEN h - h + POS_MOD ELSE h - h
  BY CountForm
<1>2. Count(p, h) \in Positions /\ Count(h, h) = 0
  BY <1>0, <1>1 DEF Positions
<1>3. (h + Count(p, h)) % POS_MOD =
        IF h + Count(p, h) < POS_MOD THEN h + Count(p, h) ELSE h + Count(p, h) - POS_MOD
  BY <1>2, OffsetForm
<1>4. (h + Count(p, h)) % POS_MOD = p
  <2> DEFINE r == (h + Count(p, h)) % POS_MOD
             n == Count(p, h)
  <2>1. /\ r = IF h + n < POS_MOD THEN h + n ELSE h + n - POS_MOD
        /\ n = IF p < h THEN p - h + POS_MOD ELSE p - h
    BY <1>1, <1>3
  <2> HIDE DEF r, n
  <2>2. r = p
    BY <1>0, <2>1
  <2> QED
    BY <2>2 DEF r
<1> QED
  BY <1>2, <1>4

(* A send moves the tail one place on: the window gains that position.     *)
LEMMA TailAdvanced ==
  ASSUME NEW t \in Positions, NEW h \in Positions, Count(t, h) + 1 < POS_MOD
  PROVE  /\ Count(Inc(t), h) = Count(t, h) + 1
         /\ \A q \in Positions :
              Count(q, h) < Count(Inc(t), h) <=> Count(q, h) < Count(t, h) \/ q = t
<1>0. t \in Nat /\ h \in Nat /\ t < POS_MOD /\ h < POS_MOD /\ POS_MOD \in Nat
  BY QueueAssumption DEF Positions
<1>1. /\ Count(t, h) = IF t < h THEN t - h + POS_MOD ELSE t - h
      /\ Count(Inc(t), h) = IF Inc(t) < h THEN Inc(t) - h + POS_MOD ELSE Inc(t) - h
      /\ Inc(t) = IF t = POS_MOD - 1 THEN 0 ELSE t + 1
  BY CountForm, IncForm, IncType
<1>2. Count(Inc(t), h) = Count(t, h) + 1
  BY <1>0, <1>1
<1>3. ASSUME NEW q \in Positions
      PROVE  Count(q, h) < Count(Inc(t), h) <=> Count(q, h) < Count(t, h) \/ q = t
  <2>1. q \in Nat /\ q < POS_MOD
    BY QueueAssumption DEF Positions
  <2>2. Count(q, h) = IF q < h THEN q - h + POS_MOD ELSE q - h
    BY CountForm
  <2> QED
    BY <1>0, <1>1, <1>2, <2>1, <2>2
<1> QED
  BY <1>2, <1>3

(* A receive moves the head one place on, past the oldest position only.   *)
LEMMA HeadAdvanced ==
  ASSUME NEW t \in Positions, NEW h \in Positions, Count(t, h) > 0
  PROVE  /\ Count(t, Inc(h)) = Count(t, h) - 1
         /\ \A q \in Positions :
              Count(q, Inc(h)) < Count(t, Inc(h)) <=> Count(q, h) < Count(t, h) /\ q # h
         /\ \A k \in 0 .. POS_MOD - 2 :
              (Inc(h) + k) % POS_MOD = (h + (k + 1)) % POS_MOD
<1>0. t \in Nat /\ h \in Nat /\ t < POS_MOD /\ h < POS_MOD /\ POS_MOD \in Nat
  BY QueueAssumption DEF Positions
<1>1. /\ Count(t, h) = IF t < h THEN t - h + POS_MOD ELSE t - h
      /\ Count(t, Inc(h)) = IF t < Inc(h) THEN t - Inc(h) + POS_MOD ELSE t - Inc(h)
      /\ Inc(h) = IF h = POS_MOD - 1 THEN 0 ELSE h + 1
  BY CountForm, IncForm, IncType
<1>2. Count(t, Inc(h)) = Count(t, h) - 1
  BY <1>0, <1>1
<1>3. ASSUME NEW q \in Positions
      PROVE  Count(q, Inc(h)) < Count(t, Inc(h)) <=> Count(q, h) < Count(t, h) /\ q # h
  <2>1. q \in Nat /\ q < POS_MOD
    BY QueueAssumption DEF Positions
  <2>2. /\ Count(q, h) = IF q < h THEN q - h + POS_MOD ELSE q - h
        /\ Count(q, Inc(h)) = IF q < Inc(h) THEN q - Inc(h) + POS_MOD ELSE q - Inc(h)
    BY CountForm, IncType
  <2> QED
    BY <1>0, <1>1, <1>2, <2>1, <2>2
<1>4. ASSUME NEW k \in 0 .. POS_MOD - 2
      PROVE  (Inc(h) + k) % POS_MOD = (h + (k + 1)) % POS_MOD
  <2>1. k \in Positions /\ k + 1 \in Positions /\ k \in Nat /\ k < POS_MOD
    BY QueueAssumption DEF Positions
  <2>2. (Inc(h) + k) % POS_MOD =
          IF Inc(h) + k < POS_MOD THEN Inc(h) + k ELSE Inc(h) + k - POS_MOD
    BY <2>1, OffsetForm, IncType
  <2>3. (h + (k + 1)) % POS_MOD =
          IF h + (k + 1) < POS_MOD THEN h + (k + 1) ELSE h + (k + 1) - POS_MOD
    BY <2>1, OffsetForm
  <2> DEFINE a == (Inc(h) + k) % POS_MOD
             b == (h + (k + 1)) % POS_MOD
  <2>4. /\ a = IF Inc(h) + k < POS_MOD THEN Inc(h) + k ELSE Inc(h) + k - POS_MOD
        /\ b = IF h + (k + 1) < POS_MOD THEN h + (k + 1) ELSE h + (k + 1) - POS_MOD
    BY <2>2, <2>3
  <2> HIDE DEF a, b
  <2>5. a = b
    BY <1>0, <1>1, <2>1, <2>4
  <2> QED
    BY <2>5 DEF a, b
<1> QED
  BY <1>2, <1>3, <1>4

----------------------------------------------------------------------------
(* The queue between head and tail.  A position is in the queue from the   *)
(* tail compare-exchange that reserved it to the head compare-exchange     *)
(* that took it.  A slot is occupied while it belongs to such a position:  *)
(* READY, in the hands of the producer that reserved it, or in the hands   *)
(* of a consumer that has not won the head.                                *)
InQueue(q) == Count(q, head) < Count(tail, head)

Storing(p) == pc[p] \in {"copy", "publish"}

Occupying(x) == IF x \in Producers THEN Storing(x) ELSE pc[x] \in {"cas", "undo"}

Occupied(s) ==
  \/ slotState[s] = "READY"
  \/ \E x \in Callers : Holds(x, s) /\ Occupying(x)

(* The occupied slots are those of the queued positions, one position      *)
(* each, although POS_MOD need not be a multiple of N.                     *)
SlotsDistinct ==
  \A q, r \in Positions : InQueue(q) /\ InQueue(r) /\ SlotOf(q) = SlotOf(r) => q = r
QueuedIsOccupied == \A q \in Positions : InQueue(q) => Occupied(SlotOf(q))
OccupiedIsQueued ==
  \A s \in 0 .. N - 1 : Occupied(s) => \E q \in Positions : InQueue(q) /\ SlotOf(q) = s
StoredIsQueued == \A p \in Producers : Storing(p) => InQueue(pos[p])

WindowInv == SlotsDistinct /\ QueuedIsOccupied /\ OccupiedIsQueued /\ StoredIsQueued

(* What the slots and the callers' buffers hold.                           *)
DataInv ==
  /\ \A s \in 0 .. N - 1 : slotState[s] = "READY" => slots[s] \in Messages
  /\ \A c \in Consumers :
       /\ pc[c] \in {"cas", "undo", "copy"} => slots[SlotOf(pos[c])] \in Messages
       /\ pc[c] = "publish" => msg[c] \in Messages
  /\ \A p \in Producers :
       /\ pc[p] # "idle" => msg[p] \in Messages
       /\ pc[p] = "publish" => slots[SlotOf(pos[p])] = msg[p]

QueueInv == Typed /\ SlotExclusive /\ WindowInv /\ DataInv

(* Whoever holds a slot decides whether it is occupied.                    *)
HolderDecides ==
  \A x \in Callers, s \in 0 .. N - 1 : Holds(x, s) => (Occupied(s) <=> Occupying(x))

LEMMA HoldersDecide == SlotExclusive => HolderDecides
<1> SUFFICES ASSUME SlotExclusive, NEW x \in Callers, NEW s \in 0 .. N - 1, Holds(x, s)
             PROVE  Occupied(s) <=> Occupying(x)
  BY DEF HolderDecides
<1>1. slotState[s] # "READY"
  BY DEF SlotExclusive, Callers
<1>2. \A y \in Callers : Holds(y, s) => y = x
  BY DEF SlotExclusive
<1> QED
  BY <1>1, <1>2 DEF Occupied

LEMMA IntervalCard ==
  ASSUME NEW n \in Nat
  PROVE  IsFiniteSet(0 .. n - 1) /\ Cardinality(0 .. n - 1) = n
<1> DEFINE b == n - 1
<1>1. b \in Int /\ n = b + 1 /\ 0 <= b + 1
  OBVIOUS
<1> HIDE DEF b
<1>2. IsFiniteSet(0 .. b) /\ Cardinality(0 .. b) = IF 0 > b THEN 0 ELSE b - 0 + 1
  BY <1>1, FS_Interval
<1>3. IsFiniteSet(0 .. b) /\ Cardinality(0 .. b) = n
  BY <1>1, <1>2
<1> QED
  BY <1>3 DEF b

(* A free slot leaves room: the queued positions have distinct slots, and  *)
(* none of them is the free one.                                           *)
LEMMA RoomInWindow ==
  ASSUME Typed, WindowInv, NEW s \in 0 .. N - 1, ~Occupied(s)
  PROVE  Count(tail, head) < N
<1> DEFINE n == Count(tail, head)
           at(i) == (head + i) % POS_MOD
           f == [i \in 0 .. n - 1 |-> SlotOf(at(i))]
           S == 0 .. n - 1
           T == (0 .. N - 1) \ {s}
<1>0. tail \in Positions /\ head \in Positions /\ n \in Positions
  BY CountType DEF Typed, TypeOK
<1>1. n \in Nat /\ N \in Nat \ {0} /\ n < POS_MOD
  BY <1>0, QueueAssumption DEF Positions
<1>2. ASSUME NEW i \in S PROVE at(i) \in Positions /\ Count(at(i), head) = i /\ InQueue(at(i))
  <2>1. i \in Positions /\ i < n
    BY <1>1, QueueAssumption DEF Positions
  <2>2. at(i) \in Positions /\ Count(at(i), head) = i
    BY <1>0, <2>1, OffsetForm
  <2> QED
    BY <2>1, <2>2 DEF InQueue
<1>3. \A i \in S : SlotOf(at(i)) \in T
  BY <1>2, SlotOfType DEF WindowInv, QueuedIsOccupied
<1>4. \A i, j \in S : SlotOf(at(i)) = SlotOf(at(j)) => i = j
  BY <1>2 DEF WindowInv, SlotsDistinct
<1>5. f \in [S -> T] /\ \A i, j \in S : f[i] = f[j] => i = j
  BY <1>3, <1>4
<1>6. IsFiniteSet(S) /\ Cardinality(S) = n
  BY <1>1, IntervalCard
<1>7. IsFiniteSet(T) /\ Cardinality(T) = N - 1
  <2>1. IsFiniteSet(0 .. N - 1) /\ Cardinality(0 .. N - 1) = N
    BY <1>1, IntervalCard
  <2> QED
    BY <2>1, FS_RemoveElement
<1> HIDE DEF f, S, T, n, at
<1>8. ~(Cardinality(T) < Cardinality(S))
  BY <1>5, <1>6, <1>7, FS_PigeonHole
<1>9. n < N
  BY <1>1, <1>6, <1>7, <1>8
<1> QED
  BY <1>9 DEF n

(* A step that moves neither index and occupies or frees no slot.          *)
LEMMA WindowKept ==
  ASSUME WindowInv, head' = head, tail' = tail,
         \A s \in 0 .. N - 1 : Occupied(s)' <=> Occupied(s),
         \A p \in Producers : Storing(p)' => Storing(p) /\ pos'[p] = pos[p]
  PROVE  WindowInv'
<1>1. \A q : InQueue(q)' <=> InQueue(q)
  BY DEF InQueue
<1>2. SlotsDistinct'
  BY <1>1 DEF WindowInv, SlotsDistinct
<1>3. QueuedIsOccupied'
  BY <1>1, SlotOfType DEF WindowInv, QueuedIsOccupied
<1>4. OccupiedIsQueued'
  BY <1>1 DEF WindowInv, OccupiedIsQueued
<1>5. StoredIsQueued'
  BY <1>1 DEF WindowInv, StoredIsQueued
<1> QED
  BY <1>2, <1>3, <1>4, <1>5 DEF WindowInv

(* A step of x that moves neither index: only the slot x holds can change  *)
(* hands, and it stays occupied, or unoccupied.                            *)
LEMMA WindowStep ==
  ASSUME WindowInv, head' = head, tail' = tail, NEW x \in Callers, NEW s0 \in 0 .. N - 1,
         \A y \in Callers \ {x} : pc'[y] = pc[y] /\ pos'[y] = pos[y],
         \A s \in 0 .. N - 1 :
           s # s0 => slotState'[s] = slotState[s] /\ ~Holds(x, s) /\ ~Holds(x, s)',
         Occupied(s0)' <=> Occupied(s0),
         x \in Producers /\ Storing(x)' => Storing(x) /\ pos'[x] = pos[x]
  PROVE  WindowInv'
<1>1. ASSUME NEW s \in 0 .. N - 1 PROVE Occupied(s)' <=> Occupied(s)
  <2>1. CASE s = s0
    BY <2>1
  <2>2. CASE s # s0
    <3>1. \A y \in Callers \ {x} :
            Holds(y, s)' /\ Occupying(y)' <=> Holds(y, s) /\ Occupying(y)
      BY DEF Holds, Occupying, Storing
    <3> QED
      BY <2>2, <3>1 DEF Occupied
  <2> QED
    BY <2>1, <2>2
<1>2. \A p \in Producers : Storing(p)' => Storing(p) /\ pos'[p] = pos[p]
  BY DEF Storing, Callers
<1> QED
  BY <1>1, <1>2, WindowKept

(* ... and x is in no slot before or after it.                             *)
LEMMA WindowIdleStep ==
  ASSUME Typed, WindowInv, head' = head, tail' = tail, slotState' = slotState, NEW x \in Callers,
         \A y \in Callers \ {x} : pc'[y] = pc[y] /\ pos'[y] = pos[y],
         pc[x] \in {"idle", "load", "check", "claim"},
         pc'[x] \in {"idle", "load", "check", "claim"}
  PROVE  WindowInv'
<1>1. PICK s0 \in 0 .. N - 1 : s0 = SlotOf(pos[x])
  BY SlotOfType DEF Typed, TypeOK
<1>2. \A s : ~Holds(x, s) /\ ~Holds(x, s)'
  BY DEF Holds
<1>3. ~Storing(x)'
  BY DEF Storing
<1>4. Occupied(s0)' <=> Occupied(s0)
  <2>1. \A y \in Callers \ {x} :
          Holds(y, s0)' /\ Occupying(y)' <=> Holds(y, s0) /\ Occupying(y)
    BY DEF Holds, Occupying, Storing
  <2> QED
    BY <1>2, <2>1 DEF Occupied
<1> QED
  BY <1>2, <1>3, <1>4, WindowStep

(* A caller that claims its slot s0, works in it or gives it up.           *)
LEMMA WindowSlotStep ==
  ASSUME WindowInv, head' = head, tail' = tail,
         NEW x \in Callers, NEW s0 \in 0 .. N - 1, s0 = SlotOf(pos[x]),
         \A y \in Callers \ {x} : pc'[y] = pc[y] /\ pos'[y] = pos[y],
         \A s \in 0 .. N - 1 : s # s0 => slotState'[s] = slotState[s],
         pc'[x] \in {"cas", "copy", "publish", "undo"} => pos'[x] = pos[x],
         Occupied(s0)' <=> Occupied(s0),
         x \in Producers /\ Storing(x)' => Storing(x)
  PROVE  WindowInv'
<1>1. \A s \in 0 .. N - 1 : s # s0 => ~Holds(x, s) /\ ~Holds(x, s)'
  BY DEF Holds
<1>2. x \in Producers /\ Storing(x)' => Storing(x) /\ pos'[x] = pos[x]
  BY DEF Storing
<1> QED
  BY <1>1, <1>2, WindowStep

(* A producer that wins the tail: the window grows by its position, whose  *)
(* slot was not occupied, so there was room.                               *)
LEMMA WindowSend ==
  ASSUME Typed, SlotExclusive, SlotExclusive', WindowInv,
         NEW p \in Producers, CasTail(p), tail = pos[p]
  PROVE  /\ WindowInv'
         /\ Count(tail, head) < N /\ Count(tail, head)' = Count(tail, head) + 1
         /\ ~InQueue(tail)
         /\ \A q \in Positions : InQueue(q)' <=> InQueue(q) \/ q = tail
<1>1. PICK s0 \in 0 .. N - 1 : s0 = SlotOf(pos[p])
  BY SlotOfType DEF Typed, TypeOK, Callers
<1>2. /\ pc[p] = "cas" /\ pc' = [pc EXCEPT ![p] = "copy"]
      /\ tail' = Inc(tail) /\ UNCHANGED <<head, slotState, pos>>
  BY DEF CasTail, Goto
<1>3. p \in Callers /\ Holds(p, s0) /\ Holds(p, s0)' /\ ~Occupying(p) /\ Occupying(p)' /\ Storing(p)'
  BY <1>1, <1>2 DEF Holds, Occupying, Storing, Callers, Typed, TypeOK
<1>4. ~Occupied(s0)
  BY <1>3, HoldersDecide DEF HolderDecides
<1>5. Occupied(s0)'
  BY <1>3 DEF Occupied
<1>6. Count(tail, head) < N
  BY <1>4, RoomInWindow
<1>7. /\ tail \in Positions /\ head \in Positions /\ Count(tail, head) \in Nat
      /\ Count(tail, head) + 1 < POS_MOD
  <2>1. tail \in Positions /\ head \in Positions
    BY DEF Typed, TypeOK
  <2>2. Count(tail, head) \in Positions
    BY <2>1, CountType
  <2> QED
    BY <1>6, <2>1, <2>2, QueueAssumption DEF Positions
<1>8. /\ Count(Inc(tail), head) = Count(tail, head) + 1
      /\ \A q \in Positions :
           Count(q, head) < Count(Inc(tail), head) <=> Count(q, head) < Count(tail, head) \/ q = tail
  BY <1>7, TailAdvanced
<1>9. \A q \in Positions : InQueue(q)' <=> InQueue(q) \/ q = tail
  BY <1>2, <1>8 DEF InQueue
<1>10. ~InQueue(tail)
  BY <1>7 DEF InQueue
<1>11. \A s \in 0 .. N - 1 : Occupied(s)' <=> Occupied(s) \/ s = s0
  <2> SUFFICES ASSUME NEW s \in 0 .. N - 1, s # s0 PROVE Occupied(s)' <=> Occupied(s)
    BY <1>5
  <2>1. ~Holds(p, s) /\ ~Holds(p, s)'
    BY <1>1, <1>2 DEF Holds
  <2>2. \A y \in Callers \ {p} :
          Holds(y, s)' /\ Occupying(y)' <=> Holds(y, s) /\ Occupying(y)
    BY <1>2 DEF Holds, Occupying, Storing, Typed, TypeOK
  <2> QED
    BY <1>2, <2>1, <2>2 DEF Occupied
<1>12. \A q \in Positions : InQueue(q) => SlotOf(q) # s0
  BY <1>4 DEF WindowInv, QueuedIsOccupied
<1>13. SlotOf(tail) = s0
  BY <1>1
<1>14. SlotsDistinct'
  BY <1>9, <1>12, <1>13 DEF WindowInv, SlotsDistinct
<1>15. QueuedIsOccupied'
  BY <1>9, <1>11, <1>13, SlotOfType DEF WindowInv, QueuedIsOccupied
<1>16. OccupiedIsQueued'
  BY <1>7, <1>9, <1>11, <1>13 DEF WindowInv, OccupiedIsQueued
<1>17. StoredIsQueued'
  <2> SUFFICES ASSUME NEW y \in Producers, Storing(y)' PROVE InQueue(pos[y])'
    BY DEF StoredIsQueued
  <2>1. pos'[y] = pos[y] /\ pos[y] \in Positions
    BY <1>2 DEF Typed, TypeOK, Callers
  <2>2. CASE y = p
    BY <1>2, <1>7, <1>9, <2>1, <2>2
  <2>3. CASE y # p
    <3>1. InQueue(pos[y])
      BY <1>2, <2>3 DEF Storing, WindowInv, StoredIsQueued, Typed, TypeOK
    <3> QED
      BY <1>2, <1>9, <2>1, <3>1
  <2> QED
    BY <2>2, <2>3
<1> QED
  BY <1>2, <1>6, <1>8, <1>9, <1>10, <1>14, <1>15, <1>16, <1>17 DEF WindowInv

(* A consumer that wins the head: its slot is that of the oldest queued    *)
(* position, which leaves the window.                                      *)
LEMMA WindowTake ==
  ASSUME Typed, SlotExclusive, SlotExclusive', WindowInv,
         NEW c \in Consumers, CasHead(c), head = pos[c]
  PROVE  /\ WindowInv'
         /\ InQueue(head)
         /\ \A q \in Positions : InQueue(q)' <=> InQueue(q) /\ q # head
<1>1. PICK s0 \in 0 .. N - 1 : s0 = SlotOf(pos[c])
  BY SlotOfType DEF Typed, TypeOK, Callers
<1>2. /\ pc[c] = "cas" /\ pc' = [pc EXCEPT ![c] = "copy"]
      /\ head' = Inc(head) /\ UNCHANGED <<tail, slotState, pos>>
  BY DEF CasHead, Goto
<1>3. c \in Callers /\ c \notin Producers
  BY QueueAssumption DEF Callers
<1>4. Holds(c, s0) /\ Holds(c, s0)' /\ Occupying(c) /\ ~Occupying(c)'
  BY <1>1, <1>2, <1>3 DEF Holds, Occupying, Typed, TypeOK
<1>5. Occupied(s0)
  BY <1>3, <1>4 DEF Occupied
<1>6. ~Occupied(s0)'
  <2>1. HolderDecides'
    BY HoldersDecide, PTL
  <2> QED
    BY <1>3, <1>4, <2>1 DEF HolderDecides
<1>7. PICK r \in Positions : InQueue(r) /\ SlotOf(r) = s0
  BY <1>5 DEF WindowInv, OccupiedIsQueued
<1>8. /\ tail \in Positions /\ head \in Positions
      /\ Count(tail, head) > 0 /\ InQueue(head)
  <2>1. tail \in Positions /\ head \in Positions
    BY DEF Typed, TypeOK
  <2>2. Count(r, head) \in Positions /\ Count(tail, head) \in Positions /\ Count(head, head) = 0
    BY <2>1, CountType
  <2>3. Count(r, head) \in Nat /\ Count(tail, head) \in Nat
    BY <2>2 DEF Positions
  <2> QED
    BY <1>7, <2>1, <2>2, <2>3 DEF InQueue
<1>9. SlotOf(head) = s0
  BY <1>1
<1>10. \A q \in Positions :
         Count(q, Inc(head)) < Count(tail, Inc(head)) <=> Count(q, head) < Count(tail, head) /\ q # head
  BY <1>8, HeadAdvanced
<1>11. \A q \in Positions : InQueue(q)' <=> InQueue(q) /\ q # head
  BY <1>2, <1>10 DEF InQueue
<1>12. \A s \in 0 .. N - 1 : Occupied(s)' <=> Occupied(s) /\ s # s0
  <2> SUFFICES ASSUME NEW s \in 0 .. N - 1, s # s0 PROVE Occupied(s)' <=> Occupied(s)
    BY <1>6
  <2>1. ~Holds(c, s) /\ ~Holds(c, s)'
    BY <1>1, <1>2 DEF Holds
  <2>2. \A y \in Callers \ {c} :
          Holds(y, s)' /\ Occupying(y)' <=> Holds(y, s) /\ Occupying(y)
    BY <1>2 DEF Holds, Occupying, Storing, Typed, TypeOK
  <2> QED
    BY <1>2, <2>1, <2>2 DEF Occupied
<1>13. \A q \in Positions : InQueue(q) /\ SlotOf(q) = s0 => q = head
  BY <1>8, <1>9 DEF WindowInv, SlotsDistinct
<1>14. SlotsDistinct'
  BY <1>11 DEF WindowInv, SlotsDistinct
<1>15. QueuedIsOccupied'
  BY <1>11, <1>12, <1>13, SlotOfType DEF WindowInv, QueuedIsOccupied
<1>16. OccupiedIsQueued'
  BY <1>9, <1>11, <1>12 DEF WindowInv, OccupiedIsQueued
<1>17. StoredIsQueued'
  <2> SUFFICES ASSUME NEW y \in Producers, Storing(y)' PROVE InQueue(pos[y])'
    BY DEF StoredIsQueued
  <2>1. pos'[y] = pos[y] /\ pos[y] \in Positions /\ y \in Callers /\ y # c
    BY <1>2, <1>3 DEF Typed, TypeOK, Callers
  <2>2. Storing(y)
    BY <1>2, <2>1 DEF Storing, Typed, TypeOK
  <2>3. pos[y] # head
    BY <1>3, <1>4, <1>9, <2>1, <2>2 DEF SlotExclusive, Holds, Storing
  <2>4. InQueue(pos[y])
    BY <2>2 DEF WindowInv, StoredIsQueued
  <2> QED
    BY <1>2, <1>11, <2>1, <2>3, <2>4
<1> QED
  BY <1>8, <1>11, <1>14, <1>15, <1>16, <1>17 DEF WindowInv

LEMMA InitQueueInv == Init => QueueInv
<1> SUFFICES ASSUME Init PROVE QueueInv
  OBVIOUS
<1>1. \A q \in Positions : ~InQueue(q)
  <2> TAKE q \in Positions
  <2>1. Count(q, head) \in Positions /\ Count(tail, head) = 0
    BY PositionZero, CountType DEF Init
  <2> QED
    BY <2>1 DEF InQueue, Positions
<1>2. \A s \in 0 .. N - 1 : ~Occupied(s)
  BY DEF Init, Occupied, Holds
<1>3. WindowInv
  BY <1>1, <1>2 DEF WindowInv, SlotsDistinct, QueuedIsOccupied, OccupiedIsQueued,
                    StoredIsQueued, Storing, Init, Callers
<1>4. DataInv
  BY DEF DataInv, Init, Callers
<1> QED
  BY <1>3, <1>4, InitTyped, InitExclusive DEF QueueInv

LEMMA NextWindowInv ==
  ASSUME Typed, SlotExclusive, SlotExclusive', WindowInv, [Next]_vars
  PROVE  WindowInv'
<1> USE DEF Goto
<1>0. HolderDecides /\ HolderDecides'
  BY HoldersDecide, PTL
<1>1. ASSUME NEW p \in Producers, NEW m \in Messages, CallSend(p, m) PROVE WindowInv'
  BY <1>1, WindowIdleStep DEF CallSend, Typed, TypeOK, Callers
<1>2. ASSUME NEW c \in Consumers, CallRecv(c) PROVE WindowInv'
  BY <1>2, WindowIdleStep DEF CallRecv, Typed, TypeOK, Callers
<1>3. ASSUME NEW x \in Callers, LoadOwn(x) PROVE WindowInv'
  BY <1>3, WindowIdleStep DEF LoadOwn, Typed, TypeOK
<1>4. ASSUME NEW x \in Callers, CheckRoom(x) PROVE WindowInv'
  BY <1>4, WindowIdleStep DEF CheckRoom, Finish, Typed, TypeOK
<1>5. ASSUME NEW x \in Callers, ClaimSlot(x) PROVE WindowInv'
  <2>1. CASE slotState[SlotOf(pos[x])] # (IF x \in Producers THEN "FREE" ELSE "READY")
    BY <1>5, <2>1, WindowIdleStep DEF ClaimSlot, Finish, Typed, TypeOK
  <2>2. CASE slotState[SlotOf(pos[x])] = (IF x \in Producers THEN "FREE" ELSE "READY")
    <3>1. PICK s0 \in 0 .. N - 1 : s0 = SlotOf(pos[x])
      BY SlotOfType DEF Typed, TypeOK
    <3>2. /\ head' = head /\ tail' = tail
          /\ slotState[s0] = IF x \in Producers THEN "FREE" ELSE "READY"
          /\ slotState' = [slotState EXCEPT ![s0] = IF x \in Producers THEN "WRITING" ELSE "READING"]
          /\ pc' = [pc EXCEPT ![x] = "cas"] /\ pos' = pos
      BY <1>5, <2>2, <3>1 DEF ClaimSlot
    <3>3. Holds(x, s0)'
      BY <3>1, <3>2 DEF Holds, Typed, TypeOK
    <3>4. Occupied(s0)' <=> Occupied(s0)
      <4>1. \A y \in Callers : ~Holds(y, s0)
        BY <3>2 DEF SlotExclusive, Callers
      <4>2. Occupied(s0) <=> x \notin Producers
        BY <3>2, <4>1 DEF Occupied
      <4>3. Occupied(s0)' <=> Occupying(x)'
        BY <1>0, <3>3 DEF HolderDecides
      <4>4. Occupying(x)' <=> x \notin Producers
        BY <3>2 DEF Occupying, Storing, Typed, TypeOK
      <4> QED
        BY <4>2, <4>3, <4>4
    <3>5. /\ \A y \in Callers \ {x} : pc'[y] = pc[y] /\ pos'[y] = pos[y]
          /\ \A s \in 0 .. N - 1 : s # s0 => slotState'[s] = slotState[s]
          /\ ~Storing(x)' /\ pos'[x] = pos[x]
      BY <3>2 DEF Typed, TypeOK, Storing
    <3> QED
      BY <3>1, <3>2, <3>4, <3>5, WindowSlotStep
  <2> QED
    BY <2>1, <2>2
<1>6. ASSUME NEW p \in Producers, CasTail(p) PROVE WindowInv'
  <2>1. CASE tail = pos[p]
    BY <1>6, <2>1, WindowSend
  <2>2. CASE tail # pos[p]
    <3>1. PICK s0 \in 0 .. N - 1 : s0 = SlotOf(pos[p])
      BY SlotOfType DEF Typed, TypeOK, Callers
    <3>2. /\ pc[p] = "cas" /\ pc' = [pc EXCEPT ![p] = "undo"]
          /\ UNCHANGED <<head, tail, slotState, pos>> /\ p \in Callers
      BY <1>6, <2>2 DEF CasTail, Callers
    <3>3. Holds(p, s0) /\ Holds(p, s0)' /\ ~Occupying(p) /\ ~Occupying(p)' /\ ~Storing(p)'
      BY <3>1, <3>2 DEF Holds, Occupying, Storing, Typed, TypeOK
    <3>4. Occupied(s0)' <=> Occupied(s0)
      BY <1>0, <3>2, <3>3 DEF HolderDecides
    <3>5. \A y \in Callers \ {p} : pc'[y] = pc[y] /\ pos'[y] = pos[y]
      BY <3>2 DEF Typed, TypeOK
    <3> QED
      BY <3>1, <3>2, <3>3, <3>4, <3>5, WindowSlotStep
  <2> QED
    BY <2>1, <2>2
<1>7. ASSUME NEW c \in Consumers, CasHead(c) PROVE WindowInv'
  <2>1. CASE head = pos[c]
    BY <1>7, <2>1, WindowTake
  <2>2. CASE head # pos[c]
    <3>1. PICK s0 \in 0 .. N - 1 : s0 = SlotOf(pos[c])
      BY SlotOfType DEF Typed, TypeOK, Callers
    <3>2. /\ pc[c] = "cas" /\ pc' = [pc EXCEPT ![c] = "undo"] /\ c \notin Producers
          /\ UNCHANGED <<head, tail, slotState, pos>> /\ c \in Callers
      BY <1>7, <2>2, QueueAssumption DEF CasHead, Callers
    <3>3. Holds(c, s0) /\ Holds(c, s0)' /\ Occupying(c) /\ Occupying(c)' /\ ~Storing(c)'
      BY <3>1, <3>2 DEF Holds, Occupying, Storing, Typed, TypeOK
    <3>4. Occupied(s0)' <=> Occupied(s0)
      BY <1>0, <3>2, <3>3 DEF HolderDecides
    <3>5. \A y \in Callers \ {c} : pc'[y] = pc[y] /\ pos'[y] = pos[y]
      BY <3>2 DEF Typed, TypeOK
    <3> QED
      BY <3>1, <3>2, <3>3, <3>4, <3>5, WindowSlotStep
  <2> QED
    BY <2>1, <2>2
<1>8. ASSUME NEW x \in Callers, Copy(x) PROVE WindowInv'
  <2>1. PICK s0 \in 0 .. N - 1 : s0 = SlotOf(pos[x])
    BY SlotOfType DEF Typed, TypeOK
  <2>2. /\ pc[x] = "copy" /\ pc' = [pc EXCEPT ![x] = "publish"]
        /\ UNCHANGED <<head, tail, slotState, pos>>
    BY <1>8 DEF Copy
  <2>3. Holds(x, s0) /\ Holds(x, s0)' /\ (Occupying(x)' <=> Occupying(x)) /\ Storing(x)
    BY <2>1, <2>2 DEF Holds, Occupying, Storing, Typed, TypeOK
  <2>4. Occupied(s0)' <=> Occupied(s0)
    BY <1>0, <2>3 DEF HolderDecides
  <2>5. \A y \in Callers \ {x} : pc'[y] = pc[y] /\ pos'[y] = pos[y]
    BY <2>2 DEF Typed, TypeOK
  <2> QED
    BY <2>1, <2>2, <2>3, <2>4, <2>5, WindowSlotStep
<1>9. ASSUME NEW x \in Callers, Publish(x) \/ Undo(x) PROVE WindowInv'
  <2>1. PICK s0 \in 0 .. N - 1 : s0 = SlotOf(pos[x])
    BY SlotOfType DEF Typed, TypeOK
  <2>2. PICK v \in {"FREE", "READY"} :
          /\ slotState' = [slotState EXCEPT ![s0] = v]
          /\ v = "READY" <=> Occupying(x)
    BY <1>9, <2>1 DEF Publish, Undo, Occupying, Storing
  <2>3. /\ pc[x] \in {"publish", "undo"} /\ pc'[x] \in {"idle", "load"}
        /\ UNCHANGED <<head, tail>>
        /\ \A y \in Callers \ {x} : pc'[y] = pc[y] /\ pos'[y] = pos[y]
    BY <1>9 DEF Publish, Undo, Finish, Typed, TypeOK
  <2>4. Holds(x, s0) /\ ~Storing(x)' /\ ~Holds(x, s0)'
    BY <2>1, <2>3 DEF Holds, Storing
  <2>5. slotState'[s0] = v /\ \A s \in 0 .. N - 1 : s # s0 => slotState'[s] = slotState[s]
    BY <2>2 DEF Typed, TypeOK
  <2>6. Occupied(s0)' <=> Occupied(s0)
    <3>1. Occupied(s0) <=> Occupying(x)
      BY <1>0, <2>4 DEF HolderDecides
    <3>2. \A y \in Callers : ~Holds(y, s0)'
      BY <2>5 DEF SlotExclusive, Callers
    <3>3. Occupied(s0)' <=> v = "READY"
      BY <2>5, <3>2 DEF Occupied
    <3> QED
      BY <2>2, <3>1, <3>3
  <2> QED
    BY <2>1, <2>3, <2>4, <2>5, <2>6, WindowSlotStep
<1>10. CASE UNCHANGED vars
  BY <1>10, WindowKept DEF vars, Occupied, Occupying, Holds, Storing
<1> QED
  BY <1>1, <1>2, <1>3, <1>4, <1>5, <1>6, <1>7, <1>8, <1>9, <1>10 DEF Next

LEMMA NextDataInv ==
  ASSUME Typed, SlotExclusive, DataInv, [Next]_vars
  PROVE  DataInv'
<1> USE DEF Goto
<1>0. \A x \in Callers : SlotOf(pos[x]) \in 0 .. N - 1
  BY SlotOfType DEF Typed, TypeOK
<1>1. ASSUME NEW p \in Producers, NEW m \in Messages, CallSend(p, m) PROVE DataInv'
  BY <1>1, QueueAssumption DEF CallSend, DataInv, Typed, TypeOK, Callers
<1>2. ASSUME NEW c \in Consumers, CallRecv(c) PROVE DataInv'
  BY <1>2, QueueAssumption DEF CallRecv, DataInv, Typed, TypeOK, Callers
<1>3. ASSUME NEW x \in Callers, LoadOwn(x) PROVE DataInv'
  BY <1>3 DEF LoadOwn, DataInv, Typed, TypeOK, Callers
<1>4. ASSUME NEW x \in Callers, CheckRoom(x) PROVE DataInv'
  BY <1>4 DEF CheckRoom, Finish, DataInv, Typed, TypeOK, Callers
<1>5. ASSUME NEW x \in Callers, ClaimSlot(x) PROVE DataInv'
  <2>1. CASE slotState[SlotOf(pos[x])] # (IF x \in Producers THEN "FREE" ELSE "READY")
    BY <1>5, <2>1, SMTT(30) DEF ClaimSlot, Finish, DataInv, Typed, TypeOK, Callers
  <2>2. CASE slotState[SlotOf(pos[x])] = (IF x \in Producers THEN "FREE" ELSE "READY")
    <3>1. /\ slotState' = [slotState EXCEPT ![SlotOf(pos[x])] =
                                IF x \in Producers THEN "WRITING" ELSE "READING"]
          /\ pc[x] = "claim" /\ pc' = [pc EXCEPT ![x] = "cas"]
          /\ UNCHANGED <<slots, pos, msg>>
      BY <1>5, <2>2 DEF ClaimSlot
    <3>2. \A s \in 0 .. N - 1 : slotState'[s] = "READY" => slotState[s] = "READY"
      BY <1>0, <3>1 DEF Typed, TypeOK
    <3>3. \A y \in Callers : pc'[y] = IF y = x THEN "cas" ELSE pc[y]
      BY <3>1 DEF Typed, TypeOK
    <3> QED
      BY <1>0, <2>2, <3>1, <3>2, <3>3, QueueAssumption DEF DataInv, Callers
  <2> QED
    BY <2>1, <2>2
<1>6. ASSUME NEW p \in Producers, CasTail(p) PROVE DataInv'
  BY <1>6, QueueAssumption DEF CasTail, DataInv, Typed, TypeOK, Callers
<1>7. ASSUME NEW c \in Consumers, CasHead(c) PROVE DataInv'
  BY <1>7, QueueAssumption DEF CasHead, DataInv, Typed, TypeOK, Callers
<1>8. ASSUME NEW x \in Callers, Copy(x) PROVE DataInv'
  <2>1. CASE x \in Producers
    <3>1. /\ slots' = [slots EXCEPT ![SlotOf(pos[x])] = msg[x]]
          /\ pc[x] = "copy" /\ pc' = [pc EXCEPT ![x] = "publish"]
          /\ UNCHANGED <<msg, pos, slotState>>
      BY <1>8, <2>1 DEF Copy
    <3>2. msg[x] \in Messages
      BY <2>1, <3>1 DEF DataInv
    <3>3. \A s \in 0 .. N - 1 : slots'[s] = IF s = SlotOf(pos[x]) THEN msg[x] ELSE slots[s]
      BY <3>1 DEF Typed, TypeOK
    <3>4. \A y \in Callers \ {x} : pc[y] = "publish" => SlotOf(pos[y]) # SlotOf(pos[x])
      BY <1>0, <3>1 DEF SlotExclusive, Holds
    <3>5. \A y \in Callers : pc'[y] = IF y = x THEN "publish" ELSE pc[y]
      BY <3>1 DEF Typed, TypeOK
    <3> QED
      BY <1>0, <2>1, <3>1, <3>2, <3>3, <3>4, <3>5, QueueAssumption DEF DataInv, Callers
  <2>2. CASE x \in Consumers
    BY <1>8, <2>2, QueueAssumption DEF Copy, DataInv, Typed, TypeOK, Callers
  <2> QED
    BY <2>1, <2>2 DEF Callers
<1>9. ASSUME NEW x \in Callers, Publish(x) PROVE DataInv'
  BY <1>0, <1>9, QueueAssumption DEF Publish, Finish, DataInv, Typed, TypeOK, Callers
<1>10. ASSUME NEW x \in Callers, Undo(x) PROVE DataInv'
  BY <1>0, <1>10, QueueAssumption, ZenonT(60) DEF Undo, Finish, DataInv, Typed, TypeOK, Callers
<1>11. CASE UNCHANGED vars
  BY <1>11 DEF vars, DataInv
<1> QED
  BY <1>1, <1>2, <1>3, <1>4, <1>5, <1>6, <1>7, <1>8, <1>9, <1>10, <1>11 DEF Next

LEMMA NextQueueInv == QueueInv /\ [Next]_vars => QueueInv'
  BY NextTyped, NextExclusive, NextWindowInv, NextDataInv DEF QueueInv


----------------------------------------------------------------------------
(* The refinement.  What the queue holds at a position.                    *)
Values ==
  \A q \in Positions :
    /\ \A p \in Producers : Storing(p) /\ pos[p] = q => ValueAt(q) = msg[p]
    /\ (\A p \in Producers : Storing(p) => pos[p] # q) => ValueAt(q) = slots[SlotOf(q)]

LEMMA ValuesRight == Typed /\ SlotExclusive => Values
<1> SUFFICES ASSUME Typed, SlotExclusive PROVE Values
  OBVIOUS
<1> SUFFICES ASSUME NEW q \in Positions
             PROVE  /\ \A p \in Producers : Storing(p) /\ pos[p] = q => ValueAt(q) = msg[p]
                    /\ (\A p \in Producers : Storing(p) => pos[p] # q) => ValueAt(q) = slots[SlotOf(q)]
  BY DEF Values
<1>1. ASSUME NEW p \in Producers, Storing(p), pos[p] = q PROVE ValueAt(q) = msg[p]
  <2>1. \A x \in Producers : Storing(x) /\ pos[x] = q => x = p
    BY <1>1, SlotOfType DEF SlotExclusive, Holds, Storing, Callers
  <2>2. p = CHOOSE x \in Producers : pc[x] \in {"copy", "publish"} /\ pos[x] = q
    BY <1>1, <2>1 DEF Storing
  <2> QED
    BY <1>1, <2>2 DEF ValueAt, Storing
<1>2. ASSUME \A p \in Producers : Storing(p) => pos[p] # q PROVE ValueAt(q) = slots[SlotOf(q)]
  BY <1>2 DEF ValueAt, Storing
<1> QED
  BY <1>1, <1>2

LEMMA ValueType ==
  ASSUME Typed, Values, NEW q \in Positions
  PROVE  ValueAt(q) \in Messages \cup {Nothing}
<1>1. CASE \E p \in Producers : Storing(p) /\ pos[p] = q
  BY <1>1 DEF Values, Typed, TypeOK, Callers
<1>2. CASE \A p \in Producers : Storing(p) => pos[p] # q
  BY <1>2, SlotOfType DEF Values, Typed, TypeOK
<1> QED
  BY <1>1, <1>2

(* A step that changes no slot and no producer's store in progress.        *)
LEMMA ValuesKept ==
  ASSUME Values, Values', slots' = slots,
         \A p \in Producers : Storing(p)' <=> Storing(p),
         \A p \in Producers : Storing(p) => pos'[p] = pos[p] /\ msg'[p] = msg[p]
  PROVE  \A q \in Positions : ValueAt(q)' = ValueAt(q)
<1> SUFFICES ASSUME NEW q \in Positions PROVE ValueAt(q)' = ValueAt(q)
  OBVIOUS
<1>1. CASE \E p \in Producers : Storing(p) /\ pos[p] = q
  BY <1>1 DEF Values
<1>2. CASE \A p \in Producers : Storing(p) => pos[p] # q
  BY <1>2 DEF Values
<1> QED
  BY <1>1, <1>2

(* Where the i-th message is.                                              *)
LEMMA EntryPosition ==
  ASSUME Typed, NEW i \in 1 .. Count(tail, head)
  PROVE  /\ (head + i - 1) % POS_MOD = (head + (i - 1)) % POS_MOD
         /\ i - 1 \in Positions
         /\ (head + i - 1) % POS_MOD \in Positions /\ InQueue((head + i - 1) % POS_MOD)
<1>1. head \in Positions /\ tail \in Positions /\ Count(tail, head) \in Positions
  BY CountType DEF Typed, TypeOK
<1>2. /\ i - 1 \in Positions /\ i - 1 < Count(tail, head) /\ head + i - 1 = head + (i - 1)
  BY <1>1, QueueAssumption DEF Positions
<1>3. (head + (i - 1)) % POS_MOD \in Positions /\ Count((head + (i - 1)) % POS_MOD, head) = i - 1
  BY <1>1, <1>2, OffsetForm
<1> QED
  BY <1>2, <1>3 DEF InQueue

LEMMA ContentsType ==
  ASSUME Typed, Values
  PROVE  /\ Count(tail, head) \in Nat
         /\ Contents \in [1 .. Count(tail, head) -> Messages \cup {Nothing}]
<1>1. head \in Positions /\ tail \in Positions /\ Count(tail, head) \in Positions
  BY CountType DEF Typed, TypeOK
<1>2. Count(tail, head) \in Nat
  BY <1>1, QueueAssumption DEF Positions
<1>3. \A i \in 1 .. Count(tail, head) :
        ValueAt((head + i - 1) % POS_MOD) \in Messages \cup {Nothing}
  BY EntryPosition, ValueType
<1> QED
  BY <1>2, <1>3 DEF Contents

LEMMA ContentsKept ==
  ASSUME Typed, head' = head, tail' = tail,
         \A q \in Positions : InQueue(q) => ValueAt(q)' = ValueAt(q)
  PROVE  Contents' = Contents
<1>1. \A i \in 1 .. Count(tail, head) :
        ValueAt((head + i - 1) % POS_MOD)' = ValueAt((head + i - 1) % POS_MOD)
  <2> TAKE i \in 1 .. Count(tail, head)
  <2>1. PICK q \in Positions : q = (head + i - 1) % POS_MOD /\ InQueue(q)
    BY EntryPosition
  <2>2. ValueAt(q)' = ValueAt(q)
    BY <2>1
  <2> QED
    BY <2>1, <2>2
<1>2. Contents' = [i \in 1 .. Count(tail, head) |-> ValueAt((head + i - 1) % POS_MOD)']
  BY DEF Contents
<1> QED
  BY <1>1, <1>2 DEF Contents

(* Sequences as functions on an interval.                                  *)
LEMMA AppendIs ==
  ASSUME NEW S, NEW n \in Nat, NEW f \in [1 .. n -> S], NEW m \in S,
         NEW g \in [1 .. n + 1 -> S], \A i \in 1 .. n : g[i] = f[i], g[n + 1] = m
  PROVE  Len(f) = n /\ g = Append(f, m)
  OBVIOUS

LEMMA TailIs ==
  ASSUME NEW S, NEW n \in Nat \ {0}, NEW f \in [1 .. n -> S],
         NEW g \in [1 .. n - 1 -> S], \A i \in 1 .. n - 1 : g[i] = f[i + 1]
  PROVE  f # <<>> /\ Head(f) = f[1] /\ g = Tail(f)
  OBVIOUS

(* What a consumer has taken.                                              *)
TakenBy(c) ==
  IF pc[c] = "copy" THEN slots[SlotOf(pos[c])]
  ELSE IF pc[c] = "publish" THEN msg[c] ELSE Nothing

LEMMA TakenIs == Taken = [c \in Consumers |-> TakenBy(c)]
  BY DEF Taken, TakenBy

LEMMA TakenKept ==
  ASSUME \A c \in Consumers : TakenBy(c)' = TakenBy(c)
  PROVE  Taken' = Taken
<1>1. Taken' = [c \in Consumers |-> TakenBy(c)']
  BY DEF Taken, TakenBy
<1> QED
  BY <1>1, TakenIs

(* A step of x that is no compare-exchange won and no consumer's return:   *)
(* the abstract queue does not move.                                       *)
LEMMA StutterStep ==
  ASSUME Typed, Values, Values', head' = head, tail' = tail, slots' = slots, NEW x \in Callers,
         \A y \in Callers \ {x} : pc'[y] = pc[y] /\ pos'[y] = pos[y] /\ msg'[y] = msg[y],
         pc[x] \notin {"copy", "publish"}, pc'[x] \notin {"copy", "publish"}
  PROVE  UNCHANGED Abstract!fifoVars
<1>1. \A p \in Producers : Storing(p)' <=> Storing(p)
  BY DEF Storing, Callers
<1>2. \A p \in Producers : Storing(p) => pos'[p] = pos[p] /\ msg'[p] = msg[p]
  BY DEF Storing, Callers
<1>3. \A q \in Positions : ValueAt(q)' = ValueAt(q)
  BY <1>1, <1>2, ValuesKept
<1>4. Contents' = Contents
  BY <1>3, ContentsKept
<1>5. \A c \in Consumers : TakenBy(c)' = TakenBy(c)
  BY DEF TakenBy, Callers
<1> QED
  BY <1>4, <1>5, TakenKept DEF Abstract!fifoVars

(* The tail compare-exchange won is the abstract send.                     *)
LEMMA SendSimulates ==
  ASSUME QueueInv, QueueInv', NEW p \in Producers, CasTail(p), tail = pos[p]
  PROVE  Abstract!Send(msg[p]) /\ msg[p] \in Messages
<1>0. PICK n \in Nat : n = Count(tail, head)
  BY ValuesRight, ContentsType DEF QueueInv
<1>1. /\ pc[p] = "cas" /\ pc' = [pc EXCEPT ![p] = "copy"]
      /\ tail' = Inc(tail) /\ UNCHANGED <<slots, head, pos, msg>>
      /\ p \in Callers /\ p \notin Consumers
  BY QueueAssumption DEF CasTail, Goto, Callers
<1>2. /\ n < N /\ Count(tail, head)' = n + 1 /\ ~InQueue(tail)
      /\ tail \in Positions /\ head \in Positions
  BY <1>0, WindowSend DEF QueueInv, Typed, TypeOK
<1>3. Values /\ Values' /\ Typed /\ Typed'
  BY ValuesRight, PTL DEF QueueInv
<1>4. /\ n \in Nat /\ Contents \in [1 .. n -> Messages \cup {Nothing}]
      /\ Contents' \in [1 .. n + 1 -> Messages \cup {Nothing}]
  <2>1. n \in Nat /\ Contents \in [1 .. n -> Messages \cup {Nothing}]
    BY <1>0, <1>3, ContentsType
  <2>2. (Contents \in [1 .. Count(tail, head) -> Messages \cup {Nothing}])'
    BY <1>3, ContentsType, PTL
  <2> QED
    BY <1>2, <2>1, <2>2
<1>5. ASSUME NEW q \in Positions, InQueue(q) PROVE ValueAt(q)' = ValueAt(q)
  <2>1. q # tail
    BY <1>2, <1>5
  <2>2. \A y \in Producers : pos'[y] = q => (Storing(y)' <=> Storing(y))
    BY <1>1, <2>1 DEF Storing, QueueInv, Typed, TypeOK
  <2>3. CASE \E y \in Producers : Storing(y) /\ pos[y] = q
    BY <1>1, <1>3, <2>2, <2>3 DEF Values
  <2>4. CASE \A y \in Producers : Storing(y) => pos[y] # q
    BY <1>1, <1>3, <2>2, <2>4 DEF Values
  <2> QED
    BY <2>3, <2>4
<1>6. \A i \in 1 .. n : Contents'[i] = Contents[i]
  <2> TAKE i \in 1 .. n
  <2>1. PICK q \in Positions : q = (head + i - 1) % POS_MOD /\ InQueue(q)
    BY <1>0, <1>3, EntryPosition
  <2>2. Contents[i] = ValueAt(q)
    BY <1>0, <2>1 DEF Contents
  <2>3. i \in 1 .. Count(tail, head)'
    BY <1>2, <1>4
  <2>4. Contents'[i] = ValueAt((head + i - 1) % POS_MOD)'
    BY <2>3 DEF Contents
  <2>5. Contents'[i] = ValueAt(q)'
    BY <1>1, <2>1, <2>4
  <2> QED
    BY <1>5, <2>1, <2>2, <2>5
<1>7. Contents'[n + 1] = msg[p]
  <2>1. n + 1 \in 1 .. Count(tail, head)'
    BY <1>2, <1>4
  <2>2. Contents'[n + 1] = ValueAt((head + (n + 1) - 1) % POS_MOD)'
    BY <1>1, <2>1 DEF Contents
  <2>3. head + (n + 1) - 1 = head + n
    BY <1>2, <1>4 DEF Positions
  <2>4. (head + n) % POS_MOD = tail
    BY <1>0, <1>2, CountType
  <2>5. PICK q \in Positions : q = tail
    BY <1>2
  <2>6. ValueAt(q)' = msg[p]
    BY <1>1, <1>3, <2>5 DEF Values, Storing, QueueInv, Typed, TypeOK
  <2>7. (head' + (n + 1) - 1) % POS_MOD = q
    BY <1>1, <2>3, <2>4, <2>5
  <2> QED
    BY <1>1, <2>2, <2>6, <2>7
<1>8. msg[p] \in Messages
  BY <1>1 DEF QueueInv, DataInv
<1>9. Len(Contents) = n /\ Contents' = Append(Contents, msg[p])
  BY <1>4, <1>6, <1>7, <1>8, AppendIs
<1>10. \A c \in Consumers : TakenBy(c)' = TakenBy(c)
  BY <1>1 DEF TakenBy, QueueInv, Typed, TypeOK, Callers
<1>11. Taken' = Taken
  BY <1>10, TakenKept
<1> QED
  BY <1>2, <1>8, <1>9, <1>11 DEF Abstract!Send

(* The head compare-exchange won is the abstract receive.                  *)
LEMMA TakeSimulates ==
  ASSUME QueueInv, QueueInv', NEW c \in Consumers, CasHead(c), head = pos[c]
  PROVE  Abstract!Take(c)
<1>0. PICK n \in Nat : n = Count(tail, head)
  BY ValuesRight, ContentsType DEF QueueInv
<1>1. /\ pc[c] = "cas" /\ pc' = [pc EXCEPT ![c] = "copy"]
      /\ head' = Inc(head) /\ UNCHANGED <<slots, tail, pos, msg>>
      /\ c \in Callers /\ c \notin Producers
  BY QueueAssumption DEF CasHead, Goto, Callers
<1>2. Values /\ Values' /\ Typed /\ Typed'
  BY ValuesRight, PTL DEF QueueInv
<1>3. InQueue(head) /\ tail \in Positions /\ head \in Positions
  BY WindowTake DEF QueueInv, Typed, TypeOK
<1>4. n > 0 /\ n < POS_MOD
  <2>1. Count(head, head) = 0 /\ Count(tail, head) \in Positions
    BY <1>3, CountType
  <2> QED
    BY <1>0, <1>3, <2>1, QueueAssumption DEF InQueue, Positions
<1>5. /\ Count(tail, head)' = n - 1
      /\ \A k \in 0 .. POS_MOD - 2 : (Inc(head) + k) % POS_MOD = (head + (k + 1)) % POS_MOD
  BY <1>0, <1>1, <1>3, <1>4, HeadAdvanced
<1>6. /\ Contents \in [1 .. n -> Messages \cup {Nothing}]
      /\ Contents' \in [1 .. n - 1 -> Messages \cup {Nothing}]
  <2>1. Contents \in [1 .. n -> Messages \cup {Nothing}]
    BY <1>0, <1>2, ContentsType
  <2>2. (Contents \in [1 .. Count(tail, head) -> Messages \cup {Nothing}])'
    BY <1>2, ContentsType, PTL
  <2> QED
    BY <1>5, <2>1, <2>2
<1>7. \A q \in Positions : ValueAt(q)' = ValueAt(q)
  <2>1. \A p \in Producers : Storing(p)' <=> Storing(p)
    BY <1>1 DEF Storing, QueueInv, Typed, TypeOK
  <2> QED
    BY <1>1, <1>2, <2>1, ValuesKept
<1>8. \A i \in 1 .. n - 1 : Contents'[i] = Contents[i + 1]
  <2> TAKE i \in 1 .. n - 1
  <2>1. i + 1 \in 1 .. Count(tail, head) /\ i \in 1 .. Count(tail, head)'
    BY <1>0, <1>5
  <2>2. PICK q \in Positions : q = (head + (i + 1) - 1) % POS_MOD
    BY <1>2, <2>1, EntryPosition
  <2>3. Contents[i + 1] = ValueAt(q)
    BY <2>1, <2>2 DEF Contents
  <2>4. Contents'[i] = ValueAt((head + i - 1) % POS_MOD)'
    BY <2>1 DEF Contents
  <2>5. (Inc(head) + i - 1) % POS_MOD = q
    <3>1. PICK k \in Int : k = i - 1
      OBVIOUS
    <3>2. k \in 0 .. POS_MOD - 2
      BY <1>4, <3>1, QueueAssumption
    <3>3. (Inc(head) + k) % POS_MOD = (head + (k + 1)) % POS_MOD
      BY <1>5, <3>2
    <3>4. Inc(head) \in Positions /\ head \in Positions
      BY <1>3, IncType
    <3>5. Inc(head) + i - 1 = Inc(head) + k /\ head + (i + 1) - 1 = head + (k + 1)
      BY <3>1, <3>4 DEF Positions
    <3> QED
      BY <2>2, <3>3, <3>5
  <2>6. Contents'[i] = ValueAt(q)'
    BY <1>1, <2>4, <2>5
  <2> QED
    BY <1>7, <2>3, <2>6
<1>9. /\ Contents # <<>> /\ Head(Contents) = Contents[1] /\ Contents' = Tail(Contents)
  BY <1>4, <1>6, <1>8, TailIs
<1>10. Contents[1] = slots[SlotOf(head)]
  <2>1. Contents[1] = ValueAt((head + 1 - 1) % POS_MOD)
    BY <1>0, <1>4 DEF Contents
  <2>2. (head + 1 - 1) % POS_MOD = head
    BY <1>3, QueueAssumption, ModSmall DEF Positions
  <2>3. \A p \in Producers : Storing(p) => pos[p] # head
    <3> SUFFICES ASSUME NEW p \in Producers, Storing(p), pos[p] = head PROVE FALSE
      OBVIOUS
    <3>1. Holds(p, SlotOf(head)) /\ Holds(c, SlotOf(head)) /\ p \in Callers
      BY <1>1 DEF Holds, Storing, Callers
    <3> QED
      BY <1>1, <1>3, <3>1, SlotOfType DEF QueueInv, SlotExclusive
  <2>4. ValueAt(head) = slots[SlotOf(head)]
    BY <1>2, <1>3, <2>3 DEF Values
  <2> QED
    BY <2>1, <2>2, <2>4
<1>11. Taken[c] = Nothing
  BY <1>1, TakenIs DEF TakenBy
<1>12. Taken' = [Taken EXCEPT ![c] = slots[SlotOf(head)]]
  <2>1. Taken' = [d \in Consumers |-> TakenBy(d)']
    BY DEF Taken, TakenBy
  <2>2. \A d \in Consumers : TakenBy(d)' = IF d = c THEN slots[SlotOf(head)] ELSE TakenBy(d)
    BY <1>1 DEF TakenBy, QueueInv, Typed, TypeOK, Callers
  <2> QED
    BY <2>1, <2>2, TakenIs
<1> QED
  BY <1>9, <1>10, <1>11, <1>12 DEF Abstract!Take

(* Copying is invisible: a producer stores what the queue already holds,   *)
(* at a slot that belongs to its position alone, and a consumer reads what *)
(* it has taken.                                                           *)
LEMMA CopySimulates ==
  ASSUME QueueInv, QueueInv', NEW x \in Callers, Copy(x)
  PROVE  UNCHANGED Abstract!fifoVars
<1>1. /\ pc[x] = "copy" /\ pc' = [pc EXCEPT ![x] = "publish"]
      /\ UNCHANGED <<head, tail, pos>>
  BY DEF Copy, Goto
<1>2. Values /\ Values' /\ Typed
  BY ValuesRight, PTL DEF QueueInv
<1>3. PICK s0 \in 0 .. N - 1 : s0 = SlotOf(pos[x])
  BY SlotOfType DEF QueueInv, Typed, TypeOK
<1>4. \A p \in Producers : Storing(p)' <=> Storing(p)
  BY <1>1 DEF Storing, QueueInv, Typed, TypeOK
<1>5. \A y \in Callers : Holds(y, s0) => y = x
  BY <1>1, <1>3 DEF QueueInv, SlotExclusive, Holds
<1>6. CASE x \in Producers
  <2>1. /\ slots' = [slots EXCEPT ![s0] = msg[x]] /\ msg' = msg /\ Storing(x)
        /\ x \notin Consumers
    BY <1>1, <1>3, <1>6, QueueAssumption DEF Copy, Storing
  <2>2. ASSUME NEW q \in Positions, InQueue(q) PROVE ValueAt(q)' = ValueAt(q)
    <3>1. CASE \E p \in Producers : Storing(p) /\ pos[p] = q
      BY <1>1, <1>2, <1>4, <2>1, <3>1 DEF Values
    <3>2. CASE \A p \in Producers : Storing(p) => pos[p] # q
      <4>1. InQueue(pos[x]) /\ pos[x] \in Positions /\ q # pos[x]
        BY <1>6, <2>1, <3>2 DEF QueueInv, WindowInv, StoredIsQueued, Typed, TypeOK
      <4>2. SlotOf(q) # s0 /\ SlotOf(q) \in 0 .. N - 1
        BY <1>3, <2>2, <4>1, SlotOfType DEF QueueInv, WindowInv, SlotsDistinct
      <4>3. slots'[SlotOf(q)] = slots[SlotOf(q)]
        BY <2>1, <4>2 DEF QueueInv, Typed, TypeOK
      <4> QED
        BY <1>1, <1>2, <1>4, <3>2, <4>3 DEF Values
    <3> QED
      BY <3>1, <3>2
  <2>3. \A c \in Consumers : TakenBy(c)' = TakenBy(c)
    <3> TAKE c \in Consumers
    <3>1. c \in Callers /\ c # x /\ pc'[c] = pc[c] /\ SlotOf(pos[c]) \in 0 .. N - 1
      BY <1>1, <2>1, SlotOfType DEF QueueInv, Typed, TypeOK, Callers
    <3>2. pc[c] = "copy" => slots'[SlotOf(pos[c])] = slots[SlotOf(pos[c])]
      BY <1>5, <2>1, <3>1 DEF Holds, QueueInv, Typed, TypeOK
    <3> QED
      BY <1>1, <2>1, <3>1, <3>2 DEF TakenBy
  <2> QED
    BY <1>1, <1>2, <2>2, <2>3, ContentsKept, TakenKept DEF Abstract!fifoVars
<1>7. CASE x \notin Producers
  <2>1. slots' = slots /\ msg' = [msg EXCEPT ![x] = slots[SlotOf(pos[x])]]
    BY <1>7 DEF Copy
  <2>2. \A q \in Positions : ValueAt(q)' = ValueAt(q)
    <3>1. \A p \in Producers : pos'[p] = pos[p] /\ msg'[p] = msg[p]
      BY <1>1, <1>7, <2>1 DEF QueueInv, Typed, TypeOK
    <3> QED
      BY <1>2, <1>4, <2>1, <3>1, ValuesKept
  <2>3. \A c \in Consumers : TakenBy(c)' = TakenBy(c)
    BY <1>1, <2>1 DEF TakenBy, QueueInv, Typed, TypeOK, Callers
  <2> QED
    BY <1>1, <1>2, <2>2, <2>3, ContentsKept, TakenKept DEF Abstract!fifoVars
<1> QED
  BY <1>6, <1>7

(* A producer's publish is invisible too; a consumer's is its return.      *)
LEMMA PublishSimulates ==
  ASSUME QueueInv, QueueInv', NEW x \in Callers, Publish(x)
  PROVE  IF x \in Producers THEN UNCHANGED Abstract!fifoVars ELSE Abstract!Return(x)
<1>1. /\ pc[x] = "publish" /\ pc' = [pc EXCEPT ![x] = "idle"]
      /\ pos' = [pos EXCEPT ![x] = 0] /\ msg' = [msg EXCEPT ![x] = Nothing]
      /\ UNCHANGED <<slots, head, tail>>
  BY DEF Publish, Finish, Goto
<1>2. Values /\ Values' /\ Typed
  BY ValuesRight, PTL DEF QueueInv
<1>3. /\ pc'[x] = "idle"
      /\ \A y \in Callers \ {x} : pc'[y] = pc[y] /\ pos'[y] = pos[y] /\ msg'[y] = msg[y]
  BY <1>1 DEF QueueInv, Typed, TypeOK
<1>4. \A c \in Consumers : c # x => TakenBy(c)' = TakenBy(c)
  BY <1>1, <1>3 DEF TakenBy, Callers
<1>5. CASE x \in Producers
  <2>1. ASSUME NEW q \in Positions PROVE ValueAt(q)' = ValueAt(q)
    <3>1. \A p \in Producers \ {x} : Storing(p)' <=> Storing(p)
      BY <1>3 DEF Storing, Callers
    <3>2. ~Storing(x)' /\ Storing(x)
      BY <1>1, <1>3 DEF Storing
    <3>3. CASE q = pos[x]
      <4>1. ValueAt(q) = msg[x] /\ slots[SlotOf(q)] = msg[x]
        BY <1>1, <1>2, <1>5, <3>2, <3>3 DEF Values, QueueInv, DataInv
      <4>2. \A p \in Producers \ {x} : Storing(p) => pos[p] # q
        BY <1>1, <3>3, SlotOfType DEF Storing, Holds, QueueInv, SlotExclusive, Callers
      <4>3. \A p \in Producers : Storing(p)' => pos'[p] # q
        BY <1>3, <3>1, <3>2, <4>2 DEF Callers
      <4> QED
        BY <1>1, <1>2, <4>1, <4>3 DEF Values
    <3>4. CASE q # pos[x]
      <4>1. CASE \E p \in Producers : Storing(p) /\ pos[p] = q
        BY <1>2, <1>3, <3>1, <3>4, <4>1 DEF Values, Callers
      <4>2. CASE \A p \in Producers : Storing(p) => pos[p] # q
        <5>1. \A p \in Producers : Storing(p)' => pos'[p] # q
          BY <1>3, <3>1, <3>2, <4>2 DEF Callers
        <5> QED
          BY <1>1, <1>2, <4>2, <5>1 DEF Values
      <4> QED
        BY <4>1, <4>2
    <3> QED
      BY <3>3, <3>4
  <2>2. x \notin Consumers
    BY <1>5, QueueAssumption
  <2> QED
    BY <1>1, <1>2, <1>4, <1>5, <2>1, <2>2, ContentsKept, TakenKept DEF Abstract!fifoVars
<1>6. CASE x \notin Producers
  <2>1. x \in Consumers
    BY <1>6 DEF Callers
  <2>2. \A q \in Positions : ValueAt(q)' = ValueAt(q)
    <3>1. \A p \in Producers : Storing(p)' <=> Storing(p)
      BY <1>3, <1>6 DEF Storing, Callers
    <3>2. \A p \in Producers : pos'[p] = pos[p] /\ msg'[p] = msg[p]
      BY <1>3, <1>6 DEF Callers
    <3> QED
      BY <1>1, <1>2, <3>1, <3>2, ValuesKept
  <2>3. Contents' = Contents
    BY <1>1, <1>2, <2>2, ContentsKept
  <2>4. Taken[x] # Nothing
    BY <1>1, <2>1, TakenIs, QueueAssumption DEF TakenBy, QueueInv, DataInv
  <2>5. Taken' = [Taken EXCEPT ![x] = Nothing]
    <3>1. Taken' = [d \in Consumers |-> TakenBy(d)']
      BY DEF Taken, TakenBy
    <3>2. TakenBy(x)' = Nothing
      BY <1>3 DEF TakenBy
    <3> QED
      BY <1>4, <3>1, <3>2, TakenIs
  <2> QED
    BY <1>6, <2>3, <2>4, <2>5 DEF Abstract!Return
<1> QED
  BY <1>5, <1>6

LEMMA InitSimulates == Init => Abstract!FifoInit
<1> SUFFICES ASSUME Init PROVE Abstract!FifoInit
  OBVIOUS
<1>1. Count(tail, head) = 0
  BY PositionZero, CountType DEF Init
<1>2. Contents = <<>>
  BY <1>1 DEF Contents
<1>3. Taken = [c \in Consumers |-> Nothing]
  BY TakenIs DEF TakenBy, Init, Callers
<1> QED
  BY <1>2, <1>3 DEF Abstract!FifoInit

LEMMA NextSimulates ==
  QueueInv /\ QueueInv' /\ [Next]_vars => [Abstract!FifoNext]_(Abstract!fifoVars)
<1> SUFFICES ASSUME QueueInv, QueueInv', [Next]_vars
             PROVE  Abstract!FifoNext \/ UNCHANGED Abstract!fifoVars
  OBVIOUS
<1>0. Typed /\ Values /\ Values'
  BY ValuesRight, PTL DEF QueueInv
<1>1. ASSUME NEW p \in Producers, NEW m \in Messages, CallSend(p, m)
      PROVE  UNCHANGED Abstract!fifoVars
  BY <1>0, <1>1, StutterStep DEF CallSend, Goto, Typed, TypeOK, Callers
<1>2. ASSUME NEW c \in Consumers, CallRecv(c) PROVE UNCHANGED Abstract!fifoVars
  BY <1>0, <1>2, StutterStep DEF CallRecv, Goto, Typed, TypeOK, Callers
<1>3. ASSUME NEW x \in Callers, LoadOwn(x) PROVE UNCHANGED Abstract!fifoVars
  BY <1>0, <1>3, StutterStep DEF LoadOwn, Goto, Typed, TypeOK
<1>4. ASSUME NEW x \in Callers, CheckRoom(x) PROVE UNCHANGED Abstract!fifoVars
  BY <1>0, <1>4, StutterStep DEF CheckRoom, Finish, Goto, Typed, TypeOK
<1>5. ASSUME NEW x \in Callers, ClaimSlot(x) PROVE UNCHANGED Abstract!fifoVars
  BY <1>0, <1>5, StutterStep DEF ClaimSlot, Finish, Goto, Typed, TypeOK
<1>6. ASSUME NEW p \in Producers, CasTail(p)
      PROVE  Abstract!FifoNext \/ UNCHANGED Abstract!fifoVars
  <2>1. CASE tail = pos[p]
    BY <1>6, <2>1, SendSimulates DEF Abstract!FifoNext
  <2>2. CASE tail # pos[p]
    BY <1>0, <1>6, <2>2, StutterStep DEF CasTail, Goto, Typed, TypeOK, Callers
  <2> QED
    BY <2>1, <2>2
<1>7. ASSUME NEW c \in Consumers, CasHead(c)
      PROVE  Abstract!FifoNext \/ UNCHANGED Abstract!fifoVars
  <2>1. CASE head = pos[c]
    BY <1>7, <2>1, TakeSimulates DEF Abstract!FifoNext
  <2>2. CASE head # pos[c]
    BY <1>0, <1>7, <2>2, StutterStep DEF CasHead, Goto, Typed, TypeOK, Callers
  <2> QED
    BY <2>1, <2>2
<1>8. ASSUME NEW x \in Callers, Copy(x) PROVE UNCHANGED Abstract!fifoVars
  BY <1>8, CopySimulates
<1>9. ASSUME NEW x \in Callers, Publish(x)
      PROVE  Abstract!FifoNext \/ UNCHANGED Abstract!fifoVars
  BY <1>9, PublishSimulates DEF Abstract!FifoNext, Callers
<1>10. ASSUME NEW x \in Callers, Undo(x) PROVE UNCHANGED Abstract!fifoVars
  BY <1>0, <1>10, StutterStep DEF Undo, Finish, Goto, Typed, TypeOK
<1>11. CASE UNCHANGED vars
  BY <1>11 DEF vars, Abstract!fifoVars, Contents, ValueAt, Taken
<1> QED
  BY <1>1, <1>2, <1>3, <1>4, <1>5, <1>6, <1>7, <1>8, <1>9, <1>10, <1>11 DEF Next

(* The ring is a bounded FIFO of N messages for any N, any word size above *)
(* N, any number of producers and consumers and any interleaving of their  *)
(* atomic accesses: the send takes effect at the tail compare-exchange and *)
(* the receive at the head compare-exchange of api/src/queue.rs.           *)
THEOREM RingIsFifo == Spec => ImplementsFifo
<1>1. Init => QueueInv /\ Abstract!FifoInit
  BY InitQueueInv, InitSimulates
<1>2. QueueInv /\ [Next]_vars => QueueInv'
  BY NextQueueInv
<1>3. QueueInv /\ QueueInv' /\ [Next]_vars => [Abstract!FifoNext]_(Abstract!fifoVars)
  BY NextSimulates
<1> QED
  BY <1>1, <1>2, <1>3, PTL DEF Spec, ImplementsFifo, Abstract!FifoSpec
=============================================================================
