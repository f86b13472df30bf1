----------------------------- MODULE SlotQueue -----------------------------
(***************************************************************************)
(* The lock-free ring of api/src/queue.rs: try_send and try_recv, one      *)
(* atomic access per step.  Each slot is FREE -> WRITING -> READY ->       *)
(* READING -> FREE; the slot is claimed before the position.  Positions    *)
(* are machine words: POS_MOD stands for 2^32, and need not be a multiple  *)
(* of N.                                                                   *)
(*                                                                         *)
(* compare_exchange_weak is modelled as the strong form: S32C1I on Xtensa  *)
(* and the critical section portable-atomic uses on Cortex-M0+ do not fail *)
(* spuriously.                                                             *)
(***************************************************************************)
EXTENDS Integers, Sequences, TLC

CONSTANTS
  N,          \* slots
  POS_MOD,    \* positions wrap at this value
  Producers, Consumers, Messages,
  Nothing     \* uninitialised memory, or no message

ASSUME QueueAssumption ==
  /\ N \in Nat \ {0}
  /\ POS_MOD \in Nat
  /\ POS_MOD > N
  /\ Nothing \notin Messages
  /\ Producers \cap Consumers = {}

VARIABLES
  slots, slotState, tail, head,
  pc, pos, retries,         \* a caller's label, position, retries_left
  msg                       \* the message a producer sends or a consumer read

vars == <<slots, slotState, tail, head, pc, pos, retries, msg>>

Callers == Producers \cup Consumers
Positions == 0 .. POS_MOD - 1
SlotOf(p) == p % N
Count(t, h) == (t - h) % POS_MOD
Inc(p) == (p + 1) % POS_MOD

TypeOK ==
  /\ slots \in [0 .. N - 1 -> Messages \cup {Nothing}]
  /\ slotState \in [0 .. N - 1 -> {"FREE", "WRITING", "READY", "READING"}]
  /\ tail \in Positions /\ head \in Positions
  /\ pc \in [Callers -> {"idle", "load", "check", "claim", "cas", "copy",
                         "publish", "undo"}]
  /\ pos \in [Callers -> Positions]
  /\ retries \in [Callers -> 0 .. N + 1]
  /\ msg \in [Callers -> Messages \cup {Nothing}]

Init ==
  /\ slots = [i \in 0 .. N - 1 |-> Nothing]
  /\ slotState = [i \in 0 .. N - 1 |-> "FREE"]
  /\ tail = 0 /\ head = 0
  /\ pc = [x \in Callers |-> "idle"]
  /\ pos = [x \in Callers |-> 0]
  /\ retries = [x \in Callers |-> 0]
  /\ msg = [x \in Callers |-> Nothing]

Goto(x, l) == pc' = [pc EXCEPT ![x] = l]

(* The call returns; its locals are dead.                                  *)
Finish(x) ==
  /\ Goto(x, "idle")
  /\ pos' = [pos EXCEPT ![x] = 0]
  /\ retries' = [retries EXCEPT ![x] = 0]
  /\ msg' = [msg EXCEPT ![x] = Nothing]

(* try_send / try_recv is called.                                          *)
CallSend(p, m) ==
  /\ pc[p] = "idle"
  /\ msg' = [msg EXCEPT ![p] = m]
  /\ retries' = [retries EXCEPT ![p] = N + 1]
  /\ Goto(p, "load")
  /\ UNCHANGED <<slots, slotState, tail, head, pos>>

CallRecv(c) ==
  /\ pc[c] = "idle"
  /\ retries' = [retries EXCEPT ![c] = N + 1]
  /\ Goto(c, "load")
  /\ UNCHANGED <<slots, slotState, tail, head, pos, msg>>

(* The index loads, own index first.                                       *)
LoadOwn(x) ==
  /\ pc[x] = "load"
  /\ pos' = [pos EXCEPT ![x] = IF x \in Producers THEN tail ELSE head]
  /\ Goto(x, "check")
  /\ UNCHANGED <<slots, slotState, tail, head, retries, msg>>

(* The other index: full by count, or empty, means return.                 *)
CheckRoom(x) ==
  /\ pc[x] = "check"
  /\ IF IF x \in Producers THEN Count(pos[x], head) >= N ELSE pos[x] = tail
       THEN Finish(x)
       ELSE Goto(x, "claim") /\ UNCHANGED <<pos, retries, msg>>
  /\ UNCHANGED <<slots, slotState, tail, head>>

(* Mutant: a consumer that takes the slot without claiming it.             *)
ClaimSlotUnguarded(x) ==
  /\ pc[x] = "claim"
  /\ LET s == SlotOf(pos[x]) IN
     IF slotState[s] = (IF x \in Producers THEN "FREE" ELSE "READY")
       THEN /\ slotState' = IF x \in Producers
                              THEN [slotState EXCEPT ![s] = "WRITING"] ELSE slotState
            /\ Goto(x, "cas")
            /\ UNCHANGED <<pos, retries, msg>>
       ELSE slotState' = slotState /\ Finish(x)
  /\ UNCHANGED <<slots, tail, head>>

(* Claim the slot before the position: one compare-exchange, no retry.     *)
ClaimSlot(x) ==
  /\ pc[x] = "claim"
  /\ LET s == SlotOf(pos[x])
         from == IF x \in Producers THEN "FREE" ELSE "READY"
         to == IF x \in Producers THEN "WRITING" ELSE "READING"
     IN IF slotState[s] = from
          THEN /\ slotState' = [slotState EXCEPT ![s] = to]
               /\ Goto(x, "cas")
               /\ UNCHANGED <<pos, retries, msg>>
          ELSE slotState' = slotState /\ Finish(x)
  /\ UNCHANGED <<slots, tail, head>>

(* Mutant: advance the position whatever it is by now.                     *)
CasTailBlind(p) ==
  /\ pc[p] = "cas"
  /\ tail' = Inc(pos[p])
  /\ Goto(p, "copy")
  /\ UNCHANGED <<slots, slotState, head, pos, retries, msg>>

(* The position compare-exchange: the send takes effect here ...           *)
CasTail(p) ==
  /\ pc[p] = "cas"
  /\ IF tail = pos[p]
       THEN tail' = Inc(tail) /\ Goto(p, "copy")
       ELSE tail' = tail /\ Goto(p, "undo")
  /\ UNCHANGED <<slots, slotState, head, pos, retries, msg>>

(* ... and the receive here.                                               *)
CasHead(c) ==
  /\ pc[c] = "cas"
  /\ IF head = pos[c]
       THEN head' = Inc(head) /\ Goto(c, "copy")
       ELSE head' = head /\ Goto(c, "undo")
  /\ UNCHANGED <<slots, slotState, tail, pos, retries, msg>>

Copy(x) ==
  /\ pc[x] = "copy"
  /\ IF x \in Producers
       THEN slots' = [slots EXCEPT ![SlotOf(pos[x])] = msg[x]] /\ msg' = msg
       ELSE slots' = slots /\ msg' = [msg EXCEPT ![x] = slots[SlotOf(pos[x])]]
  /\ Goto(x, "publish")
  /\ UNCHANGED <<slotState, tail, head, pos, retries>>

(* Store READY, or give the slot back, and return Ok.                      *)
Publish(x) ==
  /\ pc[x] = "publish"
  /\ slotState' = [slotState EXCEPT ![SlotOf(pos[x])] =
                     IF x \in Producers THEN "READY" ELSE "FREE"]
  /\ Finish(x)
  /\ UNCHANGED <<slots, tail, head>>

(* Won the slot, lost the position: release it and retry, bounded.         *)
Undo(x) ==
  /\ pc[x] = "undo"
  /\ slotState' = [slotState EXCEPT ![SlotOf(pos[x])] =
                     IF x \in Producers THEN "FREE" ELSE "READY"]
  /\ IF retries[x] = 1
       THEN Finish(x)
       ELSE /\ retries' = [retries EXCEPT ![x] = @ - 1]
            /\ Goto(x, "load")
            /\ UNCHANGED <<pos, msg>>
  /\ UNCHANGED <<slots, tail, head>>

Next ==
  \/ \E p \in Producers, m \in Messages : CallSend(p, m)
  \/ \E c \in Consumers : CallRecv(c)
  \/ \E x \in Callers : LoadOwn(x) \/ CheckRoom(x) \/ ClaimSlot(x)
  \/ \E p \in Producers : CasTail(p)
  \/ \E c \in Consumers : CasHead(c)
  \/ \E x \in Callers : Copy(x) \/ Publish(x) \/ Undo(x)

Spec == Init /\ [][Next]_vars

----------------------------------------------------------------------------
(* Callers between winning a slot and giving it up.                        *)
Holds(x, s) == pc[x] \in {"cas", "copy", "publish", "undo"} /\ SlotOf(pos[x]) = s

(* The slot state is a lock: one caller at a time is inside a slot, a      *)
(* producer while it is WRITING and a consumer while it is READING.        *)
SlotExclusive ==
  /\ \A s \in 0 .. N - 1, x, y \in Callers : Holds(x, s) /\ Holds(y, s) => x = y
  /\ \A s \in 0 .. N - 1 :
       /\ slotState[s] = "WRITING" <=> \E p \in Producers : Holds(p, s)
       /\ slotState[s] = "READING" <=> \E c \in Consumers : Holds(c, s)

(* The abstract queue: positions head .. tail - 1, each holding what its   *)
(* slot holds or what the producer that reserved it is about to store.     *)
ValueAt(p) ==
  IF \E x \in Producers : pc[x] \in {"copy", "publish"} /\ pos[x] = p
    THEN msg[CHOOSE x \in Producers : pc[x] \in {"copy", "publish"} /\ pos[x] = p]
    ELSE slots[SlotOf(p)]
Contents == [i \in 1 .. Count(tail, head) |-> ValueAt((head + i - 1) % POS_MOD)]
Taken ==
  [c \in Consumers |-> CASE pc[c] = "copy" -> slots[SlotOf(pos[c])]
                         [] pc[c] = "publish" -> msg[c]
                         [] OTHER -> Nothing]

Abstract == INSTANCE Fifo WITH Capacity <- N, contents <- Contents, taken <- Taken

(* The ring is a bounded FIFO: no message is lost, duplicated, overwritten *)
(* while it is read, or reordered, whatever the interleaving and across    *)
(* the wrap of the positions.                                              *)
ImplementsFifo == Abstract!FifoSpec

(* try_send: "We won the slot but lost the tail CAS. Provably unreachable  *)
(* under this queue's actual concurrency model".                           *)
(* Not an invariant of this code: see the README's list of disagreements.  *)
TailCasNeverLost == \A p \in Producers : pc[p] # "undo"

(* For TLC: callers of a kind and messages are interchangeable, so states  *)
(* are explored up to renaming them.                                       *)
Symmetry ==
  Permutations(Producers) \cup Permutations(Consumers) \cup Permutations(Messages)
=============================================================================
