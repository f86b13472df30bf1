---------------------------- MODULE RadioObjects ----------------------------
(***************************************************************************)
(* What the radio's operating-system table makes on the heap               *)
(* (radio/esp32/src/adapter.rs): memory and its trace, boxed objects and   *)
(* the table that names them, queues in a wrapper, and a semaphore per     *)
(* task.  The table's entries are called by the blob's tasks, at the same  *)
(* time; each lock (heap, TRACE, OBJECTS, THREAD_SEMPHRS) is one step.     *)
(*                                                                         *)
(* An entry is the steps it takes, in order.  The blob frees what it has   *)
(* been given, once, and asks for one thing at a time per task.            *)
(***************************************************************************)
EXTENDS Naturals, Sequences, FiniteSets

CONSTANTS
  BlobIds,          \* task ids, reused
  HeapBlocks,       \* addresses
  MAX_ALLOCS,       \* records of the trace
  MAX_OBJECTS,      \* names of objects
  THREAD_SEMAPHORES,
  MAX_OSI_CALLS,    \* bound: entries called
  NoBlock

ASSUME ObjectsAssumption ==
  /\ {MAX_ALLOCS, MAX_OBJECTS, THREAD_SEMAPHORES, MAX_OSI_CALLS} \subseteq Nat
  /\ NoBlock \notin HeapBlocks

VARIABLES
  inHeap,      \* addresses in use
  given,       \* blocks the blob has from malloc and has not given back: address -> call
  traceLog,    \* TRACE: records, overflow, unmatched_frees
  names,       \* OBJECTS
  boxed,       \* handle -> what is behind it, and for a queue its storage
  threadSems,  \* THREAD_SEMPHRS: the slots taken
  entry,       \* per task id: the entry it is in
  lives,       \* per task id: how many tasks have had it
  osiCalls,    \* entries called
  moved        \* a realloc has moved a block (it is not traced)

objectVars == <<inHeap, given, traceLog, names, boxed, threadSems, entry, lives, osiCalls, moved>>

Away == [steps |-> <<>>, got |-> <<>>, kind |-> "none", call |-> 0, handle |-> NoBlock]
NamedKinds == {"queue", "semaphore", "mutex"}
BoxKinds == NamedKinds \cup {"events", "spinlock"}

TypeObjects ==
  /\ inHeap \subseteq HeapBlocks /\ DOMAIN given \subseteq inHeap
  /\ traceLog.records \in Seq([at : HeapBlocks, call : 1 .. MAX_OSI_CALLS, freed : BOOLEAN])
  /\ Len(traceLog.records) <= MAX_ALLOCS /\ Len(names) <= MAX_OBJECTS
  /\ DOMAIN boxed \subseteq HeapBlocks
  /\ Cardinality(threadSems) <= THREAD_SEMAPHORES
  /\ osiCalls \in 0 .. MAX_OSI_CALLS /\ moved \in BOOLEAN

ObjectsInit ==
  /\ inHeap = {} /\ given = <<>>
  /\ traceLog = [records |-> <<>>, overflow |-> 0, unmatched |-> 0]
  /\ names = <<>> /\ boxed = <<>> /\ threadSems = {}
  /\ entry = [t \in BlobIds |-> Away]
  /\ lives = [t \in BlobIds |-> 1]
  /\ osiCalls = 0
  /\ moved = FALSE

----------------------------------------------------------------------------
(* Mutant: the block goes back before its record is closed.                *)
FreeEntryLate == <<"heap_free", "note_free">>

(* The steps of each entry.  unbox frees the handle; a queue is read off   *)
(* it first, and its storage freed after.                                  *)
FreeEntry == <<"note_free", "heap_free">>
CreateEntry(kind) ==
  (IF kind = "queue" THEN <<"storage">> ELSE <<>>) \o <<"box">>
  \o (IF kind \in NamedKinds THEN <<"name">> ELSE <<>>)
DeleteEntry(kind) == IF kind = "queue" THEN <<"unbox", "drop_storage">> ELSE <<"unbox">>

Enters(t, steps, kind, handle) ==
  /\ entry[t].steps = <<>> /\ osiCalls < MAX_OSI_CALLS
  /\ osiCalls' = osiCalls + 1
  /\ entry' = [entry EXCEPT ![t] = [Away EXCEPT !.steps = steps, !.kind = kind, !.handle = handle,
                                            !.call = osiCalls + 1]]

Malloc(t) ==
  /\ Enters(t, <<"heap_alloc", "note_alloc">>, "memory", NoBlock)
  /\ UNCHANGED <<inHeap, given, traceLog, names, boxed, threadSems, lives, moved>>

OsiFree(t, a) ==
  /\ a \in DOMAIN given
  /\ Enters(t, FreeEntry, "memory", a)
  /\ given' = [b \in DOMAIN given \ {a} |-> given[b]]
  /\ UNCHANGED <<inHeap, traceLog, names, boxed, threadSems, lives, moved>>

(* osi_realloc: the heap moves the block, and the trace is not told.       *)
OsiRealloc(t, a, b) ==
  /\ entry[t].steps = <<>> /\ osiCalls < MAX_OSI_CALLS
  /\ a \in DOMAIN given /\ b \in HeapBlocks \ inHeap
  /\ osiCalls' = osiCalls + 1
  /\ inHeap' = (inHeap \ {a}) \cup {b}
  /\ given' = [c \in (DOMAIN given \ {a}) \cup {b} |-> IF c = b THEN given[a] ELSE given[c]]
  /\ moved' = TRUE
  /\ UNCHANGED <<traceLog, names, boxed, threadSems, entry, lives>>

Create(t, kind) ==
  /\ Enters(t, CreateEntry(kind), kind, NoBlock)
  /\ UNCHANGED <<inHeap, given, traceLog, names, boxed, threadSems, lives, moved>>

(* wifi_create_queue: a queue, then the wrapper that holds its handle.     *)
WifiCreateQueue(t) ==
  /\ Enters(t, CreateEntry("queue") \o <<"wrap">>, "queue", NoBlock)
  /\ UNCHANGED <<inHeap, given, traceLog, names, boxed, threadSems, lives, moved>>

(* A thread's semaphore is not the blob's to delete, nor a queue in a      *)
(* wrapper.                                                                *)
Deletable(h) ==
  /\ h \in DOMAIN boxed /\ boxed[h].kind \in BoxKinds /\ boxed[h].done
  /\ \A s \in threadSems : s.handle # h
  /\ \A t \in BlobIds : entry[t].handle # h
  /\ \A w \in DOMAIN boxed : boxed[w].kind = "wrapper" => boxed[w].inner # h

Delete(t, h) ==
  /\ Deletable(h)
  /\ Enters(t, DeleteEntry(boxed[h].kind), boxed[h].kind, h)
  /\ UNCHANGED <<inHeap, given, traceLog, names, boxed, threadSems, lives, moved>>

WifiDeleteQueue(t, w) ==
  /\ w \in DOMAIN boxed /\ boxed[w].kind = "wrapper" /\ boxed[w].done
  /\ \A u \in BlobIds : entry[u].handle # w
  /\ Enters(t, <<"unwrap">> \o DeleteEntry("queue"), "queue", w)
  /\ UNCHANGED <<inHeap, given, traceLog, names, boxed, threadSems, lives, moved>>

(* wifi_thread_semphr_get: its own, or a new one.                          *)
ThreadSemphrGet(t) ==
  /\ Enters(t, IF \E s \in threadSems : s.task = t THEN <<>>
               ELSE CreateEntry("semaphore") \o <<"store">>, "semaphore", NoBlock)
  /\ UNCHANGED <<inHeap, given, traceLog, names, boxed, threadSems, lives, moved>>

(* forget_thread_semaphore, on the way out of a task's own delete: the     *)
(* slot is emptied, the semaphore deleted, and the id is another task's.   *)
TaskEnds(t) ==
  LET mine == {s \in threadSems : s.task = t}
  IN  /\ threadSems' = threadSems \ mine
      /\ \/ /\ mine = {} /\ entry[t].steps = <<>> /\ osiCalls < MAX_OSI_CALLS
            /\ osiCalls' = osiCalls + 1
            /\ lives' = [lives EXCEPT ![t] = @ + 1]
            /\ UNCHANGED entry
         \/ \E s \in mine :
              /\ Enters(t, <<"unbox", "end">>, "semaphore", s.handle)
              /\ UNCHANGED lives
      /\ UNCHANGED <<inHeap, given, traceLog, names, boxed, moved>>

----------------------------------------------------------------------------
(* An entry that has taken its last step returns, and keeps nothing.       *)
StepIs(t, s) == entry[t].steps # <<>> /\ Head(entry[t].steps) = s
Steps(t, e) ==
  entry' = [entry EXCEPT ![t] = IF Len(e.steps) = 1 THEN Away ELSE [e EXCEPT !.steps = Tail(@)]]
Fails(t) == entry' = [entry EXCEPT ![t] = Away]

(* heap::alloc, for memory, a queue's storage, a box or a wrapper; null    *)
(* ends the entry.  A box that cannot be had leaves the storage behind.    *)
HeapAlloc(t) ==
  LET s == Head(entry[t].steps)
  IN  /\ entry[t].steps # <<>> /\ s \in {"heap_alloc", "storage", "box"}
      /\ \/ Fails(t) /\ UNCHANGED <<inHeap, boxed>>
         \/ \E a \in HeapBlocks \ inHeap :
              /\ inHeap' = inHeap \cup {a}
              /\ IF s = "box"
                 THEN /\ boxed' = [h \in DOMAIN boxed \cup {a} |->
                                     IF h # a THEN boxed[h]
                                     ELSE [kind |-> entry[t].kind, done |-> Len(entry[t].steps) = 1,
                                           inner |-> IF entry[t].got = <<>> THEN NoBlock
                                                     ELSE entry[t].got[1], life |-> lives[t]]]
                      /\ Steps(t, [entry[t] EXCEPT !.handle = a])
                 ELSE /\ Steps(t, [entry[t] EXCEPT !.got = Append(@, a)])
                      /\ UNCHANGED boxed
      /\ UNCHANGED <<given, traceLog, names, threadSems, lives, osiCalls, moved>>

(* Mutant: the table is written one record past its end.                   *)
TraceFullLate == Len(traceLog.records) > MAX_ALLOCS

(* note_alloc: a record, or one more lost to the table being full.         *)
TraceFull == Len(traceLog.records) >= MAX_ALLOCS
NoteAlloc(t) ==
  LET a == entry[t].got[1]
  IN  /\ StepIs(t, "note_alloc")
      /\ traceLog' = IF TraceFull
                     THEN [traceLog EXCEPT !.overflow = @ + 1]
                     ELSE [traceLog EXCEPT !.records = Append(@, [at |-> a, call |-> entry[t].call, freed |-> FALSE])]
      /\ given' = [b \in DOMAIN given \cup {a} |-> IF b = a THEN entry[t].call ELSE given[b]]
      /\ Steps(t, entry[t])
      /\ UNCHANGED <<inHeap, names, boxed, threadSems, lives, osiCalls, moved>>

(* note_free: the latest open record of the address.                       *)
Open(a) == {i \in 1 .. Len(traceLog.records) : traceLog.records[i].at = a /\ ~traceLog.records[i].freed}
NoteFree(t) ==
  LET hits == Open(entry[t].handle)
      last == CHOOSE i \in hits : \A j \in hits : j <= i
  IN  /\ StepIs(t, "note_free")
      /\ traceLog' = IF hits = {} THEN [traceLog EXCEPT !.unmatched = @ + 1]
                     ELSE [traceLog EXCEPT !.records[last].freed = TRUE]
      /\ Steps(t, entry[t])
      /\ UNCHANGED <<inHeap, given, names, boxed, threadSems, lives, osiCalls, moved>>

HeapFree(t) ==
  /\ StepIs(t, "heap_free")
  /\ inHeap' = inHeap \ {entry[t].handle}
  /\ Steps(t, entry[t])
  /\ UNCHANGED <<given, traceLog, names, boxed, threadSems, lives, osiCalls, moved>>

(* note_object; the handle is the blob's when it is the last step.         *)
Done(t) == [boxed EXCEPT ![entry[t].handle].done = Len(entry[t].steps) = 1]
NoteObject(t) ==
  /\ StepIs(t, "name")
  /\ names' = IF Len(names) >= MAX_OBJECTS THEN names
              ELSE Append(names, [at |-> entry[t].handle, kind |-> entry[t].kind])
  /\ boxed' = Done(t)
  /\ Steps(t, entry[t])
  /\ UNCHANGED <<inHeap, given, traceLog, threadSems, lives, osiCalls, moved>>

(* The wrapper's box; without it the queue is deleted.                     *)
Wrap(t) ==
  LET q == entry[t].handle
  IN  /\ StepIs(t, "wrap")
      /\ \/ /\ entry' = [entry EXCEPT ![t].steps = DeleteEntry("queue")]
            /\ UNCHANGED <<inHeap, boxed>>
         \/ \E a \in HeapBlocks \ inHeap :
              /\ inHeap' = inHeap \cup {a}
              /\ boxed' = [h \in DOMAIN boxed \cup {a} |->
                             IF h # a THEN boxed[h]
                             ELSE [kind |-> "wrapper", done |-> TRUE, inner |-> q, life |-> lives[t]]]
              /\ Steps(t, [entry[t] EXCEPT !.handle = NoBlock])
      /\ UNCHANGED <<given, traceLog, names, threadSems, lives, osiCalls, moved>>

(* unbox: what is behind the handle is read, the handle freed.  A wrapper  *)
(* gives the queue's handle, a queue its storage.                          *)
Unbox(t) ==
  LET h == entry[t].handle
      next == boxed[h].inner
  IN  /\ \E s \in {"unbox", "unwrap"} : StepIs(t, s)
      /\ inHeap' = inHeap \ {h}
      /\ boxed' = [k \in DOMAIN boxed \ {h} |-> boxed[k]]
      /\ Steps(t, [entry[t] EXCEPT !.handle = next, !.got = <<next>>])
      /\ UNCHANGED <<given, traceLog, names, threadSems, lives, osiCalls, moved>>

DropStorage(t) ==
  /\ StepIs(t, "drop_storage")
  /\ inHeap' = inHeap \ {entry[t].got[1]}
  /\ Steps(t, entry[t])
  /\ UNCHANGED <<given, traceLog, names, boxed, threadSems, lives, osiCalls, moved>>

(* The new semaphore into a free slot; without one it is handed out all    *)
(* the same.                                                               *)
StoreSem(t) ==
  /\ StepIs(t, "store")
  /\ threadSems' = IF Cardinality(threadSems) >= THREAD_SEMAPHORES THEN threadSems
                   ELSE threadSems \cup {[task |-> t, handle |-> entry[t].handle]}
  /\ boxed' = Done(t)
  /\ Steps(t, [entry[t] EXCEPT !.handle = NoBlock])
  /\ UNCHANGED <<inHeap, given, traceLog, names, lives, osiCalls, moved>>

EndLife(t) ==
  /\ StepIs(t, "end")
  /\ lives' = [lives EXCEPT ![t] = @ + 1]
  /\ Steps(t, entry[t])
  /\ UNCHANGED <<inHeap, given, traceLog, names, boxed, threadSems, osiCalls, moved>>

ObjectsNext ==
  \E t \in BlobIds :
    \/ Malloc(t) \/ (\E a \in HeapBlocks : OsiFree(t, a))
    \/ (\E a, b \in HeapBlocks : OsiRealloc(t, a, b))
    \/ (\E kind \in BoxKinds : Create(t, kind)) \/ WifiCreateQueue(t)
    \/ (\E h \in HeapBlocks : Delete(t, h)) \/ (\E w \in HeapBlocks : WifiDeleteQueue(t, w))
    \/ ThreadSemphrGet(t) \/ TaskEnds(t)
    \/ HeapAlloc(t) \/ NoteAlloc(t) \/ NoteFree(t) \/ HeapFree(t) \/ NoteObject(t) \/ Wrap(t)
    \/ Unbox(t) \/ DropStorage(t) \/ StoreSem(t) \/ EndLife(t)

ObjectsSpec == ObjectsInit /\ [][ObjectsNext]_objectVars

----------------------------------------------------------------------------
Idle(t) == entry[t].steps = <<>>

(* for_each_live_alloc: "Every allocation still outstanding".  As long as  *)
(* no record was lost to the table filling and no block was reallocated,   *)
(* the open records are, whenever nobody is inside an entry, exactly those *)
(* of the blocks the blob holds, whatever addresses were reused in between *)
(* (a record's kind, phase and size are the call that made it).            *)
TraceExact ==
  (\A t \in BlobIds : Idle(t)) /\ traceLog.overflow = 0 /\ ~moved =>
     /\ {<<traceLog.records[i].at, traceLog.records[i].call>> : i \in UNION {Open(a) : a \in HeapBlocks}}
        = {<<a, given[a]>> : a \in DOMAIN given}
     /\ traceLog.unmatched = 0

(* "task ids are recycled.  Without the forget, a new task landing on a    *)
(* dead one's id would inherit its semaphore": a task has one semaphore,   *)
(* it is alive, and it was made in this task's life.                       *)
ThreadSemsOwn ==
  /\ \A s, u \in threadSems : s.task = u.task => s = u
  /\ \A s \in threadSems :
       /\ s.handle \in DOMAIN boxed /\ boxed[s.handle].kind = "semaphore"
       /\ boxed[s.handle].life = lives[s.task]

(* Nothing the blob holds is free, and no two things are at one address.   *)
HandlesLive ==
  /\ \A h \in DOMAIN boxed : h \in inHeap /\ h \notin DOMAIN given
  /\ \A w \in DOMAIN boxed : boxed[w].kind = "wrapper" /\ boxed[w].done
                             /\ (\A t \in BlobIds : entry[t].handle # w) => boxed[w].inner \in DOMAIN boxed

RadioObjectsRight == TraceExact /\ ThreadSemsOwn /\ HandlesLive

(* OBJECTS: an entry that falls off the end "is reported as unknown rather *)
(* than silently mislabelled".  Not so for an address that is used again:  *)
(* describe finds the entry of the object that was deleted.                *)
describe(a) == LET hits == {i \in 1 .. Len(names) : names[i].at = a}
               IN  IF hits = {} THEN "unknown"
                   ELSE names[CHOOSE i \in hits : \A j \in hits : i <= j].kind
DescribesHandle ==
  \A h \in DOMAIN boxed : boxed[h].done => describe(h) \in {"unknown", boxed[h].kind}

(* heap: what is in use is somebody's.  Not so when the box of a queue     *)
(* cannot be had: its storage is lost.                                     *)
NothingLeaks ==
  (\A t \in BlobIds : Idle(t)) =>
     inHeap = DOMAIN given \cup DOMAIN boxed
              \cup {boxed[h].inner : h \in {k \in DOMAIN boxed : boxed[k].kind = "queue"}}
=============================================================================
