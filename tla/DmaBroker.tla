----------------------------- MODULE DmaBroker -----------------------------
(***************************************************************************)
(* kernel/src/dma_broker.rs: the bump allocator of DMA buffers, and the    *)
(* completions of transfers, which go through one queue for all drivers.   *)
(*                                                                         *)
(* Words are WORD bits wide in the code (u32); here they wrap at MAX_WORD  *)
(* + 1, so that the overflow checks of alloc matter.  Offsets stand for    *)
(* addresses.  COMPLETIONS is a bounded FIFO (SlotQueue implements it).    *)
(***************************************************************************)
EXTENDS Naturals, Sequences, FiniteSets

CONSTANTS
  DmaTasks,
  Sizes,          \* sizes passed to alloc
  POOL_SIZE,      \* bytes in the linker's dma_pool
  MAX_WORD,       \* the largest u32
  DEPTH,          \* slots of COMPLETIONS
  MAX_TRANSFERS,  \* bound: transfers ever begun
  NoTransfer

ASSUME DmaAssumption ==
  /\ POOL_SIZE \in 0 .. MAX_WORD
  /\ MAX_WORD \in Nat
  /\ (MAX_WORD + 1) % 4 = 0
  /\ Sizes \subseteq 0 .. MAX_WORD
  /\ DEPTH \in Nat \ {0}
  /\ MAX_TRANSFERS \in Nat
  /\ NoTransfer \notin Nat

VARIABLES
  offset,       \* DMA_OFFSET
  buffers,      \* the handles given out
  nextId,       \* NEXT_TRANSFER_ID
  running,      \* transfers the engines are working on
  completions,  \* COMPLETIONS
  waitsFor,     \* the transfer a task is in await_transfer for
  finished,     \* history: transfers whose interrupt has come
  lost          \* history: completions discarded or dropped under a waiter

dmaVars == <<offset, buffers, nextId, running, completions, waitsFor, finished, lost>>
transferVars == <<nextId, running, completions, waitsFor, finished, lost>>

Transfers == 1 .. MAX_TRANSFERS

TypeDma ==
  /\ offset \in 0 .. MAX_WORD
  /\ buffers \subseteq [start : 0 .. MAX_WORD, size : 0 .. MAX_WORD, owner : DmaTasks]
  /\ nextId \in 1 .. MAX_TRANSFERS + 1
  /\ running \subseteq Transfers
  /\ completions \in Seq(Transfers)
  /\ waitsFor \in [DmaTasks -> Transfers \cup {NoTransfer}]
  /\ finished \subseteq Transfers
  /\ lost \subseteq Transfers

DmaInit ==
  /\ offset = 0
  /\ buffers = {}
  /\ nextId = 1
  /\ running = {}
  /\ completions = <<>>
  /\ waitsFor = [t \in DmaTasks |-> NoTransfer]
  /\ finished = {}
  /\ lost = {}

----------------------------------------------------------------------------
(* checked_align_up4: (size + 3) & !3, None on overflow.                   *)
AlignUp4(size) == (size + 3) - ((size + 3) % 4)
AlignFits(size) == size + 3 <= MAX_WORD

(* Mutant: arithmetic that wraps.                                          *)
AllocWraps(t, size) ==
  LET aligned == AlignUp4(size) % (MAX_WORD + 1)
      end == (offset + aligned) % (MAX_WORD + 1)
  IN
  /\ waitsFor[t] = NoTransfer
  /\ end <= POOL_SIZE
  /\ offset' = end
  /\ buffers' = buffers \cup {[start |-> offset, size |-> aligned, owner |-> t]}
  /\ UNCHANGED transferVars

(* alloc, under the scheduler lock; anything that does not fit is refused. *)
Alloc(t, size) ==
  LET aligned == AlignUp4(size)
      end == offset + aligned
  IN
  /\ waitsFor[t] = NoTransfer
  /\ AlignFits(size)
  /\ end <= MAX_WORD
  /\ end <= POOL_SIZE
  /\ offset' = end
  /\ buffers' = buffers \cup {[start |-> offset, size |-> aligned, owner |-> t]}
  /\ UNCHANGED transferVars

(* begin_pair (begin is the case src = dst): both buffers are the          *)
(* caller's, then the id is minted, the driver starts the engine and calls *)
(* await_transfer.                                                         *)
Begin(t, src, dst) ==
  /\ waitsFor[t] = NoTransfer
  /\ src.owner = t /\ dst.owner = t
  /\ nextId <= MAX_TRANSFERS
  /\ nextId' = nextId + 1
  /\ running' = running \cup {nextId}
  /\ waitsFor' = [waitsFor EXCEPT ![t] = nextId]
  /\ UNCHANGED <<offset, buffers, completions, finished, lost>>

Awaited(id) == \E t \in DmaTasks : waitsFor[t] = id

(* signal_complete from the top half: a full queue drops the id.           *)
SignalComplete(id) ==
  /\ id \in running
  /\ running' = running \ {id}
  /\ finished' = finished \cup {id}
  /\ completions' = IF Len(completions) < DEPTH THEN Append(completions, id) ELSE completions
  /\ lost' = IF Len(completions) >= DEPTH /\ Awaited(id) THEN lost \cup {id} ELSE lost
  /\ UNCHANGED <<offset, buffers, nextId, waitsFor>>

(* Mutant: whatever completes first is taken for ours.                     *)
AwaitReceivesAny(t) ==
  /\ waitsFor[t] # NoTransfer
  /\ completions # <<>>
  /\ completions' = Tail(completions)
  /\ waitsFor' = [waitsFor EXCEPT ![t] = NoTransfer]
  /\ lost' = lost
  /\ UNCHANGED <<offset, buffers, nextId, running, finished>>

(* await_transfer takes a completion: its own ends the wait, any other is  *)
(* discarded.                                                              *)
AwaitReceives(t) ==
  /\ waitsFor[t] # NoTransfer
  /\ completions # <<>>
  /\ completions' = Tail(completions)
  /\ LET id == Head(completions) IN
     IF id = waitsFor[t]
       THEN waitsFor' = [waitsFor EXCEPT ![t] = NoTransfer] /\ lost' = lost
       ELSE /\ waitsFor' = waitsFor
            /\ lost' = IF Awaited(id) THEN lost \cup {id} ELSE lost
  /\ UNCHANGED <<offset, buffers, nextId, running, finished>>

(* ... or its time is up.                                                  *)
AwaitTimesOut(t) ==
  /\ waitsFor[t] # NoTransfer
  /\ waitsFor' = [waitsFor EXCEPT ![t] = NoTransfer]
  /\ UNCHANGED <<offset, buffers, nextId, running, completions, finished, lost>>

DmaNext ==
  \/ \E t \in DmaTasks, size \in Sizes : Alloc(t, size)
  \/ \E t \in DmaTasks, src \in buffers, dst \in buffers : Begin(t, src, dst)
  \/ \E t \in DmaTasks : AwaitReceives(t) \/ AwaitTimesOut(t)
  \/ \E id \in Transfers : SignalComplete(id)

DmaSpec == DmaInit /\ [][DmaNext]_dmaVars

----------------------------------------------------------------------------
(* Every buffer lies in the pool and no two overlap, however sizes near    *)
(* the top of the word are mixed with small ones.                          *)
BuffersDisjoint ==
  /\ \A b \in buffers : b.start + b.size <= POOL_SIZE /\ b.start % 4 = 0
  /\ \A a, b \in buffers :
       a # b /\ a.size > 0 /\ b.size > 0 =>
         a.start + a.size <= b.start \/ b.start + b.size <= a.start

(* A wait that ends without a timeout ends after its own transfer has: the *)
(* engine is off the buffer when the task touches it again.                *)
ReleasedWhenDone ==
  [][\A t \in DmaTasks :
       /\ waitsFor[t] # NoTransfer
       /\ waitsFor'[t] # waitsFor[t]
       /\ completions' # completions
       => waitsFor[t] \in finished]_dmaVars

(* await_transfer: "A stale id belongs to a transfer whose waiter has      *)
(* already given up": discarding one takes nothing from a live waiter.     *)
(* Not an invariant of this code: see the README's list of disagreements.  *)
DiscardsOnlyStale == lost = {}
=============================================================================
