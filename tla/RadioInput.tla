----------------------------- MODULE RadioInput -----------------------------
(***************************************************************************)
(* What the Wi-Fi library hands the system, through the two queues it      *)
(* crosses: driver events (radio/esp32/src/events.rs), drained by the      *)
(* dispatch task, and received frames (net.rs, RxQueue), drained by the    *)
(* network task.                                                           *)
(*                                                                         *)
(* The event ring is one lock section per push and per pop, but the wake   *)
(* comes after the push and the sleep after the pop, so a wake can find    *)
(* nobody asleep. The frame ring has a head only the producer stores and a *)
(* tail only the consumer stores; its lock is held for the copy alone.     *)
(* Events and frames are numbered as they are accepted. Time passes only   *)
(* while the dispatch task sleeps and no wake is on its way.               *)
(***************************************************************************)
EXTENDS RadioTasks, EtsTimer, Integers

CONSTANTS QUEUE_LEN,   \* of the event ring
          Posters,     \* tasks of the library that post
          IDLE_WAKE_MS,\* the time-out of the dispatch task's sleep
          RX_SLOTS,    \* of the frame ring
          MAX_INPUT    \* events and frames considered

ASSUME InputAssumption ==
  /\ {QUEUE_LEN, IDLE_WAKE_MS, MAX_INPUT} \subseteq Nat \ {0} /\ RX_SLOTS \in Nat \ {0, 1}

VARIABLES evRing,   \* Ring, and how long its oldest event has waited for the task
          evPost,   \* the posters
          evTask,   \* the dispatch task: where it is, the event it handles, its sleep
          evCount,  \* events accepted, and handled in order
          rx,       \* slots, head, tail, dropped
          rxPush,   \* the MAC's callback
          rxPop,    \* the network task's poll
          rxCount   \* frames accepted

evVars == <<evRing, evPost, evTask, evCount>>
rxVars == <<rx, rxPush, rxPop, rxCount>>
inputVars == <<evVars, rxVars>>

EvSlots == 0 .. QUEUE_LEN - 1
RxSlotNos == 0 .. RX_SLOTS - 1

TypeInput ==
  /\ evRing.slots \in [EvSlots -> 0 .. MAX_INPUT] /\ evRing.head \in EvSlots
  /\ evRing.len \in 0 .. QUEUE_LEN /\ evRing.dropped \in 0 .. MAX_INPUT
  /\ rx.slots \in [RxSlotNos -> 0 .. MAX_INPUT] /\ {rx.head, rx.tail} \subseteq RxSlotNos

InputInit ==
  /\ evRing = [slots |-> [i \in EvSlots |-> 0], head |-> 0, len |-> 0, dropped |-> 0, age |-> 0]
  /\ evPost = [p \in Posters |-> "idle"]
  /\ evTask = [at |-> "pop", event |-> 0, slept |-> 0]
  /\ evCount = [accepted |-> 0, taken |-> 0]
  /\ rx = [slots |-> [i \in RxSlotNos |-> 0], head |-> 0, tail |-> 0, dropped |-> 0]
  /\ rxPush = [at |-> "idle", head |-> 0]
  /\ rxPop = [at |-> "idle", tail |-> 0, frame |-> 0, taken |-> 0]
  /\ rxCount = 0

(* post: push under the lock; a full ring counts a drop and wakes nobody. *)
post(p) ==
  /\ evPost[p] = "idle" /\ evCount.accepted + evRing.dropped < MAX_INPUT
  /\ \/ /\ evRing.len = QUEUE_LEN
        /\ evRing' = [evRing EXCEPT !.dropped = @ + 1]
        /\ UNCHANGED <<evPost, evCount>>
     \/ /\ evRing.len < QUEUE_LEN
        /\ evRing' = [evRing EXCEPT !.slots[(evRing.head + evRing.len) % QUEUE_LEN] = evCount.accepted + 1,
                                    !.len = @ + 1]
        /\ evCount' = [evCount EXCEPT !.accepted = @ + 1]
        /\ evPost' = [evPost EXCEPT ![p] = "wake"]
  /\ UNCHANGED evTask

(* ... then wake_one_receiver, which finds the task asleep or does nothing. *)
wake(p) ==
  /\ evPost[p] = "wake"
  /\ evPost' = [evPost EXCEPT ![p] = "idle"]
  /\ evTask' = IF evTask.at = "asleep" THEN [evTask EXCEPT !.at = "pop"] ELSE evTask
  /\ UNCHANGED <<evRing, evCount>>

(* dispatch_task: the pop ... *)
Pop ==
  /\ evTask.at = "pop"
  /\ \/ /\ evRing.len = 0
        /\ evTask' = [evTask EXCEPT !.at = "block"]
        /\ UNCHANGED <<evRing, evCount>>
     \/ /\ evRing.len > 0
        /\ evTask' = [evTask EXCEPT !.at = "handle", !.event = evRing.slots[evRing.head]]
        /\ evRing' = [evRing EXCEPT !.head = (@ + 1) % QUEUE_LEN, !.len = @ - 1, !.age = 0]
        /\ evCount' = [evCount EXCEPT !.taken = @ + 1]
  /\ UNCHANGED evPost

(* ... the handler, read anew for each event ... *)
Handle ==
  /\ evTask.at = "handle"
  /\ evTask' = [evTask EXCEPT !.at = "pop"]
  /\ UNCHANGED <<evRing, evPost, evCount>>

(* ... or block_recv, in a step of its own. *)
Block ==
  /\ evTask.at = "block"
  /\ evTask' = [evTask EXCEPT !.at = "asleep", !.slept = 0]
  /\ UNCHANGED <<evRing, evPost, evCount>>

(* Mutant: the sleep has no time-out. *)
BackstopNever == FALSE

(* The sleep's time-out. *)
Backstop == evTask.at = "asleep" /\ evTask.slept = IDLE_WAKE_MS

BlockTimesOut ==
  /\ Backstop
  /\ evTask' = [evTask EXCEPT !.at = "pop"]
  /\ UNCHANGED <<evRing, evPost, evCount>>

Millisecond ==
  /\ evTask.at = "asleep" /\ ~Backstop /\ \A p \in Posters : evPost[p] = "idle"
  /\ evRing.age <= IDLE_WAKE_MS
  /\ evTask' = [evTask EXCEPT !.slept = IF @ < IDLE_WAKE_MS THEN @ + 1 ELSE @]
  /\ evRing' = [evRing EXCEPT !.age = IF evRing.len > 0 THEN @ + 1 ELSE 0]
  /\ UNCHANGED <<evPost, evCount>>

(* Mutant: the last slot is used too, and a full ring looks empty. *)
RxFullAtAll(head) == FALSE

(* One slot is left free, to tell a full ring from an empty one. *)
RxFull(head) == (head + 1) % RX_SLOTS = rx.tail

(* push: the indices, the copy under the lock, the new head. A frame that
   does not fit, or is longer than MTU, is counted and dropped. *)
RxPushCheck ==
  /\ rxPush.at = "idle" /\ rxCount + rx.dropped < MAX_INPUT
  /\ \/ /\ ~RxFull(rx.head)
        /\ rxPush' = [at |-> "copy", head |-> rx.head] /\ UNCHANGED rx
     \/ rx' = [rx EXCEPT !.dropped = @ + 1] /\ UNCHANGED rxPush
  /\ UNCHANGED <<rxPop, rxCount>>

RxPushCopy ==
  /\ rxPush.at = "copy"
  /\ rx' = [rx EXCEPT !.slots[rxPush.head] = rxCount + 1]
  /\ rxPush' = [rxPush EXCEPT !.at = "store"]
  /\ UNCHANGED <<rxPop, rxCount>>

RxPushStore ==
  /\ rxPush.at = "store"
  /\ rx' = [rx EXCEPT !.head = (rxPush.head + 1) % RX_SLOTS]
  /\ rxPush' = [rxPush EXCEPT !.at = "idle"]
  /\ rxCount' = rxCount + 1
  /\ UNCHANGED rxPop

(* pop_with: empty, or the copy under the lock, then the new tail. *)
RxPopCheck ==
  /\ rxPop.at = "idle" /\ rx.tail # rx.head
  /\ rxPop' = [rxPop EXCEPT !.at = "copy", !.tail = rx.tail]
  /\ UNCHANGED <<rx, rxPush, rxCount>>

RxPopCopy ==
  /\ rxPop.at = "copy"
  /\ rxPop' = [rxPop EXCEPT !.at = "store", !.frame = rx.slots[rxPop.tail], !.taken = @ + 1]
  /\ UNCHANGED <<rx, rxPush, rxCount>>

RxPopStore ==
  /\ rxPop.at = "store"
  /\ rx' = [rx EXCEPT !.tail = (rxPop.tail + 1) % RX_SLOTS]
  /\ rxPop' = [rxPop EXCEPT !.at = "idle"]
  /\ UNCHANGED <<rxPush, rxCount>>

EventsNext ==
  \/ \E p \in Posters : post(p) \/ wake(p)
  \/ Pop \/ Handle \/ Block \/ BlockTimesOut \/ Millisecond

FramesNext ==
  \/ RxPushCheck \/ RxPushCopy \/ RxPushStore \/ RxPopCheck \/ RxPopCopy \/ RxPopStore

(* The queues share nothing. *)
InputNext ==
  \/ EventsNext /\ UNCHANGED rxVars
  \/ FramesNext /\ UNCHANGED evVars

InputSpec == InputInit /\ [][InputNext]_inputVars

(* "One queue, one drainer, so order is preserved": events and frames come
   out in the order they were accepted, each once, and with both ends of a
   queue at rest what is in it is what was accepted and has not come out. *)
InputInOrder ==
  /\ evTask.event = evCount.taken
  /\ evRing.len = evCount.accepted - evCount.taken
  /\ rxPop.frame = rxPop.taken
  /\ (rxPush.at = "idle" /\ rxPop.at = "idle") =>
       (rx.head - rx.tail) % RX_SLOTS = rxCount - rxPop.taken

(* "A wake that races the task going to sleep costs a delay rather than an
   event that sits in the queue forever": no event waits longer than the
   sleep's time-out. *)
EventNotStuck == evRing.age <= IDLE_WAKE_MS

(* The three parts of the glue side by side; they share no state. *)
GlueSpec == BlobSpec /\ EtsSpec /\ InputSpec

(* What the Wi-Fi library is promised by the glue: its tasks are its own,  *)
(* its timers and events are late by a backstop at most, and events and    *)
(* frames keep their order (tasks.rs, ets_timer.rs, events.rs, net.rs).    *)
GlueRight == BlobTasksOwn /\ LateByBackstop /\ InputInOrder /\ EventNotStuck
=============================================================================
