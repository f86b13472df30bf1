----------------------------- MODULE RadioTasks -----------------------------
(***************************************************************************)
(* Tasks the Wi-Fi library creates (radio/esp32/src/tasks.rs) and the      *)
(* semaphore each may ask for (adapter.rs, wifi_thread_semphr_get).        *)
(*                                                                         *)
(* The library's entry point travels to the new task through a table slot: *)
(* create claims slot n, stores the entry and spawns trampoline n, which   *)
(* reads the slot back. The task's id is written by whichever of create    *)
(* and the trampoline comes first. Each access to a table is one lock      *)
(* section, and everything may happen between two of them: the task runs   *)
(* on the other core, ends, and its id and slot are taken again.           *)
(***************************************************************************)
EXTENDS Integers, FiniteSets

CONSTANTS BLOB_SLOTS,   \* the code's SLOTS
          BlobIds,      \* task ids the kernel can hand out
          Makers,       \* tasks that call create
          MAX_MADE      \* creates considered

ASSUME BlobAssumption == BLOB_SLOTS \in Nat \ {0} /\ BlobIds \subseteq Nat /\ MAX_MADE \in Nat

NO_TASK == 99
ASSUME NoTaskIsNoId == NO_TASK \notin BlobIds

VARIABLES blobSlots, \* SLOTS_TABLE
          blobTcb,   \* the kernel's task of an id: at "none" when there is none
          maker,     \* a caller of create or delete
          semphrs,   \* THREAD_SEMPHRS: the create its owner stems from, 0 for none
          made       \* creates so far; a create's number names its entry

blobVars == <<blobSlots, blobTcb, maker, semphrs, made>>

SlotNos == 1 .. BLOB_SLOTS
FREE == [used |-> FALSE, entry |-> 0, task |-> NO_TASK]
NoBlobTask == [at |-> "none", slot |-> 1, made |-> 0, entry |-> 0, task |-> NO_TASK, sem |-> 0]
IdleMaker == [at |-> "idle", slot |-> 1, id |-> NO_TASK, made |-> 0]

TypeBlob ==
  /\ blobSlots \in [SlotNos -> [used : BOOLEAN, entry : 0 .. MAX_MADE, task : BlobIds \cup {NO_TASK}]]
  /\ semphrs \in [BlobIds -> 0 .. MAX_MADE]
  /\ \A i \in BlobIds : blobTcb[i].at \in {"none", "ready", "in", "left"}

BlobInit ==
  /\ blobSlots = [n \in SlotNos |-> FREE]
  /\ blobTcb = [i \in BlobIds |-> NoBlobTask]
  /\ maker = [m \in Makers |-> IdleMaker]
  /\ semphrs = [i \in BlobIds |-> 0]
  /\ made = 0

Least(S) == CHOOSE x \in S : \A y \in S : x <= y

(* create: claim the first free slot, or answer pdFALSE. *)
claim(m) ==
  LET n == Least({k \in SlotNos : ~blobSlots[k].used})
  IN  /\ maker[m].at = "idle" /\ made < MAX_MADE
      /\ \E k \in SlotNos : ~blobSlots[k].used
      /\ blobSlots' = [blobSlots EXCEPT ![n] = [FREE EXCEPT !.used = TRUE]]
      /\ made' = made + 1
      /\ maker' = [maker EXCEPT ![m] = [IdleMaker EXCEPT !.at = "claimed", !.slot = n, !.made = made + 1]]
      /\ UNCHANGED <<blobTcb, semphrs>>

StoreEntry(m) ==
  /\ maker[m].at = "claimed"
  /\ blobSlots' = [blobSlots EXCEPT ![maker[m].slot].entry = maker[m].made]
  /\ maker' = [maker EXCEPT ![m].at = "stored"]
  /\ UNCHANGED <<blobTcb, semphrs, made>>

(* spawn_task_on takes the first free id, or there is none and the slot is
   given back. *)
Spawn(m) ==
  LET ids == {i \in BlobIds : blobTcb[i].at = "none"}
      id == Least(ids)
  IN  /\ maker[m].at = "stored"
      /\ \/ /\ ids # {}
            /\ blobTcb' = [blobTcb EXCEPT ![id] = [NoBlobTask EXCEPT !.at = "ready", !.slot = maker[m].slot,
                                                                     !.made = maker[m].made]]
            /\ maker' = [maker EXCEPT ![m].at = "spawned", ![m].id = id]
            /\ UNCHANGED blobSlots
         \/ /\ ids = {}
            /\ blobSlots' = [blobSlots EXCEPT ![maker[m].slot] = FREE]
            /\ maker' = [maker EXCEPT ![m] = IdleMaker]
            /\ UNCHANGED blobTcb
      /\ UNCHANGED <<semphrs, made>>

(* The last section of create; the handle keeps the id. *)
RecordTask(m) ==
  LET n == maker[m].slot
  IN  /\ maker[m].at = "spawned"
      /\ blobSlots' = [blobSlots EXCEPT ![n].task = IF @ = NO_TASK THEN maker[m].id ELSE @]
      /\ maker' = [maker EXCEPT ![m].at = "idle"]
      /\ UNCHANGED <<blobTcb, semphrs, made>>

(* A task about to be deleted by its handle waits for something: assumed of
   the library, which would otherwise race its own delete. *)
Deleting(i) == \E m \in Makers : maker[m].at = "deleting" /\ maker[m].id = i
Runs(i) == blobTcb[i].at = "in" /\ ~Deleting(i)

(* The task's first step: note the id, copy the slot, enter the library. *)
trampoline(i) ==
  LET n == blobTcb[i].slot
      t == IF blobSlots[n].task = NO_TASK THEN i ELSE blobSlots[n].task
  IN  /\ blobTcb[i].at = "ready"
      /\ blobSlots' = [blobSlots EXCEPT ![n].task = t]
      /\ blobTcb' = [blobTcb EXCEPT ![i].at = "in", ![i].entry = blobSlots[n].entry, ![i].task = t]
      /\ UNCHANGED <<maker, semphrs, made>>

(* wifi_thread_semphr_get: the semaphore the table has for this id, or a
   new one, entered in the table. *)
wifi_thread_semphr_get(i) ==
  LET s == IF semphrs[i] # 0 THEN semphrs[i] ELSE blobTcb[i].made
  IN  /\ Runs(i)
      /\ semphrs' = [semphrs EXCEPT ![i] = s]
      /\ blobTcb' = [blobTcb EXCEPT ![i].sem = s]
      /\ UNCHANGED <<blobSlots, maker, made>>

(* Mutant: the slot goes, the semaphore stays. *)
ReleasedKeepsSemaphore(id) ==
  /\ semphrs' = semphrs
  /\ blobSlots' = [n \in SlotNos |->
                     IF blobSlots[n].used /\ blobSlots[n].task = id THEN FREE ELSE blobSlots[n]]

(* release_slot_of, with the semaphore of the same id. *)
release_slot_of(id) ==
  /\ semphrs' = [i \in BlobIds |-> IF i = id THEN 0 ELSE semphrs[i]]
  /\ blobSlots' = [n \in SlotNos |->
                     IF blobSlots[n].used /\ blobSlots[n].task = id THEN FREE ELSE blobSlots[n]]

(* The entry returned, or the task deletes itself: the slot first ... *)
EntryReturns(i) ==
  /\ Runs(i)
  /\ release_slot_of(blobTcb[i].task)
  /\ blobTcb' = [blobTcb EXCEPT ![i].at = "left"]
  /\ UNCHANGED <<maker, made>>

DeleteNull(i) ==
  /\ Runs(i)
  /\ release_slot_of(i)
  /\ blobTcb' = [blobTcb EXCEPT ![i].at = "left"]
  /\ UNCHANGED <<maker, made>>

(* ... then the task: the id is the kernel's again. *)
delete_self(i) ==
  /\ blobTcb[i].at = "left"
  /\ blobTcb' = [blobTcb EXCEPT ![i] = NoBlobTask]
  /\ UNCHANGED <<blobSlots, maker, semphrs, made>>

(* delete with a handle, of the task its caller last created. *)
DeleteHandle(m) ==
  /\ maker[m].at = "idle" /\ maker[m].id # NO_TASK
  /\ blobTcb[maker[m].id].made = maker[m].made /\ blobTcb[maker[m].id].at = "in"
  /\ release_slot_of(maker[m].id)
  /\ maker' = [maker EXCEPT ![m].at = "deleting"]
  /\ UNCHANGED <<blobTcb, made>>

delete_task(m) ==
  /\ maker[m].at = "deleting"
  /\ blobTcb' = [blobTcb EXCEPT ![maker[m].id] = NoBlobTask]
  /\ maker' = [maker EXCEPT ![m] = IdleMaker]
  /\ UNCHANGED <<blobSlots, semphrs, made>>

BlobNext ==
  \/ \E m \in Makers : claim(m) \/ StoreEntry(m) \/ Spawn(m) \/ RecordTask(m)
                         \/ DeleteHandle(m) \/ delete_task(m)
  \/ \E i \in BlobIds : trampoline(i) \/ wifi_thread_semphr_get(i)
                          \/ EntryReturns(i) \/ DeleteNull(i) \/ delete_self(i)

BlobSpec == BlobInit /\ [][BlobNext]_blobVars

(* A task runs the entry point it was created for, under its own id, and the
   semaphore it is given was made for it, not for an earlier task of the same
   id: "a new task landing on a dead one's id would inherit its semaphore,
   count and all". And while it is in the library its slot is its own. *)
BlobTasksOwn ==
  \A i \in BlobIds : Runs(i) =>
    /\ blobTcb[i].entry = blobTcb[i].made /\ blobTcb[i].task = i
    /\ blobTcb[i].sem \in {0, blobTcb[i].made}
    /\ blobSlots[blobTcb[i].slot] = [used |-> TRUE, entry |-> blobTcb[i].made, task |-> i]
=============================================================================
