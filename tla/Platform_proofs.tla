-------------------------- MODULE Platform_proofs --------------------------
(***************************************************************************)
(* Proofs about the platform's shared services: api::sync::Once, for any   *)
(* set of callers; the DMA broker, for any pool, word size and requests;   *)
(* programming the RP2040's flash, for any number of requests and any      *)
(* length of a job; critical sections and spinlocks, on either machine,    *)
(* for any number of cores and locks and nests of any depth; sleeping and  *)
(* software timers, for any sleepers, callbacks and table; the UART's DMA  *)
(* exchange, for any number of channels, exchanges and claims; and the     *)
(* heap, for any regions, sizes and alignments.                            *)
(***************************************************************************)
EXTENDS Sync, DmaBroker, XipLockout, Timers, Heap, DmaChannels, SequenceTheorems,
        FiniteSetTheorems, WellFoundedInduction, TLAPS

(***************************************************************************)
(* Once.                                                                   *)
(***************************************************************************)

(* Callers that no longer hold the cell see it in a state consistent with  *)
(* where they are: readers and holders imply READY with a value in place,  *)
(* and a caller about to publish has already written.                      *)
Progress ==
  /\ \A c \in Callers : oncePc[c] \in {"reading", "holding"} => onceState = "READY"
  /\ \A c \in Callers : oncePc[c] = "publishing" => onceValue # NoValue
  /\ onceState = "READY" => onceValue # NoValue

OnceInv == TypeOnce /\ HeldRefsAgree /\ OneWriter /\ Progress

LEMMA InitOnce == OnceInit => OnceInv
  BY NoValueAssumption
     DEF OnceInit, OnceInv, TypeOnce, HeldRefsAgree, OneWriter, Progress, InCell, OnceStates, OncePcs

LEMMA NextOnce == OnceInv /\ [OnceNext]_onceVars => OnceInv'
<1> SUFFICES ASSUME OnceInv, [OnceNext]_onceVars PROVE OnceInv'
  OBVIOUS
<1> USE NoValueAssumption
    DEF OnceInv, TypeOnce, HeldRefsAgree, OneWriter, Progress, InCell, OnceStates, OncePcs, OnceGoto
<1>1. ASSUME NEW c \in Callers, Claim(c) PROVE OnceInv'
  BY <1>1 DEF Claim
<1>2. ASSUME NEW c \in Callers, RunF(c) PROVE OnceInv'
  BY <1>2 DEF RunF
<1>3. ASSUME NEW c \in Callers, Write(c) PROVE OnceInv'
  BY <1>3 DEF Write
<1>4. ASSUME NEW c \in Callers, Publish(c) PROVE OnceInv'
  BY <1>4 DEF Publish
<1>5. ASSUME NEW c \in Callers, GiveBack(c) PROVE OnceInv'
  BY <1>5 DEF GiveBack
<1>6. ASSUME NEW c \in Callers, GetLoad(c) PROVE OnceInv'
  BY <1>6 DEF GetLoad
<1>7. ASSUME NEW c \in Callers, GetRef(c) PROVE OnceInv'
  BY <1>7 DEF GetRef
<1>8. CASE UNCHANGED onceVars
  BY <1>8 DEF onceVars
<1> QED
  BY <1>1, <1>2, <1>3, <1>4, <1>5, <1>6, <1>7, <1>8 DEF OnceNext

(* The safety argument written on Once: every reference handed out sees    *)
(* the one value, and there is one writer, however many callers race.      *)
THEOREM OnceSafe == OnceSpec => []OnceExclusive
<1>1. OnceInv => OnceExclusive
  BY DEF OnceInv, OnceExclusive
<1> QED
  BY InitOnce, NextOnce, <1>1, PTL DEF OnceSpec

(***************************************************************************)
(* The DMA broker.                                                         *)
(***************************************************************************)

(* The bump pointer is aligned and inside the pool, and every handle lies  *)
(* below it.                                                               *)
BelowOffset ==
  /\ offset \in Nat /\ offset <= POOL_SIZE /\ offset % 4 = 0
  /\ buffers \subseteq [start : Nat, size : Nat, owner : DmaTasks]
  /\ \A b \in buffers : b.start + b.size <= offset /\ b.start % 4 = 0

LEMMA AlignUp4Aligned ==
  ASSUME NEW size \in Nat
  PROVE  AlignUp4(size) \in Nat /\ AlignUp4(size) % 4 = 0 /\ AlignUp4(size) >= size
  BY DEF AlignUp4

LEMMA AllocBelow ==
  ASSUME BelowOffset, BuffersDisjoint, NEW t \in DmaTasks, NEW size \in Sizes, Alloc(t, size)
  PROVE  (BelowOffset /\ BuffersDisjoint)'
<1> DEFINE aligned == AlignUp4(size)
           new == [start |-> offset, size |-> aligned, owner |-> t]
<1>1. size \in Nat /\ POOL_SIZE \in Nat
  BY DmaAssumption
<1>2. aligned \in Nat /\ aligned % 4 = 0
  BY <1>1, AlignUp4Aligned
<1>3. /\ offset' = offset + aligned /\ buffers' = buffers \cup {new}
      /\ offset + aligned <= POOL_SIZE
  BY DEF Alloc
<1> HIDE DEF aligned
<1>4. (offset + aligned) % 4 = 0
  BY <1>2 DEF BelowOffset
<1>5. new \in [start : Nat, size : Nat, owner : DmaTasks]
  BY <1>2 DEF BelowOffset
<1>6. \A b \in buffers : b.start \in Nat /\ b.size \in Nat /\ b.start + b.size <= offset
  BY DEF BelowOffset
<1>7. new.start = offset /\ new.size = aligned
  OBVIOUS
<1> HIDE DEF new
<1>8. BelowOffset'
  BY <1>2, <1>3, <1>4, <1>5, <1>6, <1>7 DEF BelowOffset
<1>9. \A b \in buffers' : b.start + b.size <= POOL_SIZE /\ b.start % 4 = 0
  BY <1>1, <1>2, <1>3, <1>6, <1>7 DEF BelowOffset
<1>10. ASSUME NEW a \in buffers', NEW b \in buffers', a # b, a.size > 0, b.size > 0
       PROVE  a.start + a.size <= b.start \/ b.start + b.size <= a.start
  <2>1. CASE a \in buffers /\ b \in buffers
    BY <1>10, <2>1 DEF BuffersDisjoint
  <2>2. CASE a = new
    BY <1>3, <1>6, <1>7, <1>10, <2>2
  <2>3. CASE b = new
    BY <1>3, <1>6, <1>7, <1>10, <2>3
  <2> QED
    BY <1>3, <2>1, <2>2, <2>3
<1>11. BuffersDisjoint'
  BY <1>9, <1>10 DEF BuffersDisjoint
<1> QED
  BY <1>8, <1>11

(* alloc never hands out memory outside the pool or twice, whatever sizes  *)
(* are asked for and however close to the top of the word they are.        *)
THEOREM PoolSafe == DmaSpec => []BuffersDisjoint
<1> DEFINE I == BelowOffset /\ BuffersDisjoint
<1>1. DmaInit => I
  BY DmaAssumption DEF DmaInit, BelowOffset, BuffersDisjoint
<1>2. I /\ [DmaNext]_dmaVars => I'
  <2> SUFFICES ASSUME I, [DmaNext]_dmaVars PROVE I'
    OBVIOUS
  <2>1. CASE UNCHANGED <<offset, buffers>>
    BY <2>1 DEF BelowOffset, BuffersDisjoint
  <2>2. ASSUME NEW t \in DmaTasks, NEW size \in Sizes, Alloc(t, size) PROVE I'
    BY <2>2, AllocBelow
  <2>3. UNCHANGED <<offset, buffers>> \/ \E t \in DmaTasks, size \in Sizes : Alloc(t, size)
    BY DEF DmaNext, dmaVars, Begin, AwaitReceives, AwaitTimesOut, SignalComplete
  <2> QED
    BY <2>1, <2>2, <2>3
<1> QED
  BY <1>1, <1>2, PTL DEF DmaSpec

(* What waits to be received has had its interrupt.                        *)
QueuedHaveFinished ==
  /\ completions \in Seq(Transfers) /\ \A k \in 1 .. Len(completions) : completions[k] \in finished
  /\ waitsFor \in [DmaTasks -> Transfers \cup {NoTransfer}] /\ nextId \in Nat \ {0}

LEMMA NextQueued == QueuedHaveFinished /\ [DmaNext]_dmaVars => QueuedHaveFinished'
<1> SUFFICES ASSUME QueuedHaveFinished, [DmaNext]_dmaVars PROVE QueuedHaveFinished'
  OBVIOUS
<1>1. ASSUME NEW t \in DmaTasks, NEW size \in Sizes, Alloc(t, size) PROVE QueuedHaveFinished'
  BY <1>1 DEF Alloc, transferVars, QueuedHaveFinished
<1>2. ASSUME NEW t \in DmaTasks, NEW src \in buffers, NEW dst \in buffers, Begin(t, src, dst)
      PROVE  QueuedHaveFinished'
  BY <1>2, DmaAssumption DEF Begin, QueuedHaveFinished, Transfers
<1>3. ASSUME NEW t \in DmaTasks, AwaitReceives(t) PROVE QueuedHaveFinished'
  <2>1. Tail(completions) \in Seq(Transfers) /\ Len(Tail(completions)) = Len(completions) - 1
        /\ \A k \in 1 .. Len(Tail(completions)) : Tail(completions)[k] = completions[k + 1]
    BY <1>3 DEF AwaitReceives, QueuedHaveFinished
  <2>2. \A k \in 1 .. Len(Tail(completions)) : Tail(completions)[k] \in finished
    BY <2>1 DEF QueuedHaveFinished
  <2> QED
    BY <1>3, <2>1, <2>2 DEF AwaitReceives, QueuedHaveFinished
<1>4. ASSUME NEW t \in DmaTasks, AwaitTimesOut(t) PROVE QueuedHaveFinished'
  BY <1>4 DEF AwaitTimesOut, QueuedHaveFinished
<1>5. ASSUME NEW id \in Transfers, SignalComplete(id) PROVE QueuedHaveFinished'
  BY <1>5 DEF SignalComplete, QueuedHaveFinished
<1>6. CASE UNCHANGED dmaVars
  BY <1>6 DEF dmaVars, QueuedHaveFinished
<1> QED
  BY <1>1, <1>2, <1>3, <1>4, <1>5, <1>6 DEF DmaNext

(* await_transfer returns Ok only after the interrupt of its own transfer, *)
(* whatever else is in COMPLETIONS, for any number of tasks and transfers  *)
(* and any depth of the queue.                                             *)
THEOREM OkIsDone == DmaSpec => ReleasedWhenDone
<1> DEFINE Ended == \A t \in DmaTasks :
                      /\ waitsFor[t] # NoTransfer
                      /\ waitsFor'[t] # waitsFor[t]
                      /\ completions' # completions
                      => waitsFor[t] \in finished
<1>1. DmaInit => QueuedHaveFinished
  BY DmaAssumption DEF DmaInit, QueuedHaveFinished
<1>2. QueuedHaveFinished /\ [DmaNext]_dmaVars => [Ended]_dmaVars
  <2> SUFFICES ASSUME QueuedHaveFinished, DmaNext, NEW u \in DmaTasks,
                      waitsFor'[u] # waitsFor[u], completions' # completions
               PROVE  waitsFor[u] \in finished
    BY DEF Ended
  <2>1. PICK t \in DmaTasks : AwaitReceives(t)
    BY DEF DmaNext, Alloc, transferVars, Begin, AwaitTimesOut, SignalComplete
  <2>2. u = t /\ Head(completions) = waitsFor[t]
    BY <2>1 DEF AwaitReceives, QueuedHaveFinished
  <2> QED
    BY <2>1, <2>2 DEF AwaitReceives, QueuedHaveFinished
<1> QED
  BY <1>1, <1>2, NextQueued, PTL DEF DmaSpec, ReleasedWhenDone

(***************************************************************************)
(* The RP2040's flash: the parked core is the one that answered this       *)
(* request, and the watchdog comes back as it was.                         *)
(***************************************************************************)

(* Where Guard has LOCK, where it has a request posted, and where the      *)
(* other core is answering one.                                            *)
Posted == {"wait", "dma", "window", "rom", "drop"}
Holding == Posted \cup {"locked", "unlock"}
Answering == {"masked", "checked", "parked", "unpark"}

(* LOCK admits one core; a request is posted exactly while that core wants *)
(* one, and carries the latest generation; what is being answered is that  *)
(* request or an older one; an acknowledgement is of what its core read,   *)
(* and a core on its way out has seen its request withdrawn.               *)
OneHolder ==
  /\ xlock <=> \E c \in XipCores : xpc[c] \in Holding
  /\ \A c \in XipCores : xpc[c] \in Holding => xpc[Other(c)] \notin Holding
RequestIsLatest ==
  /\ \A c \in XipCores : xpc[c] \in Posted => gen > 0 /\ request = 2 * gen + Other(c)
  /\ (\A c \in XipCores : xpc[c] \notin Posted) => request = 0
AnswersAreOld ==
  \A c \in XipCores :
    /\ xpc[c] \in Answering => 0 < seen[c] /\ seen[c] <= 2 * gen + 1
    /\ xpc[c] = "unpark" => seen[c] # request
AckIsSeen ==
  ack # 0 => \E c \in XipCores : xpc[c] \in {"parked", "unpark"} /\ ack = seen[c]

(* The core with LOCK is the region's owner, in the middle of a call.      *)
JobInHand ==
  /\ claimed <=> region # 2
  /\ \A c \in XipCores : xpc[c] \in Holding =>
       region = c /\ (xpc[c] \notin {"drop", "unlock"} => job > 0)

(* In the ROM the deadline is that of the registers saved, which are the   *)
(* user's and have a tick the deadline can rely on.                        *)
DeadlineSaved ==
  IF \E c \in XipCores : xpc[c] = "rom"
  THEN wd = Deadline(wdSaved) /\ wdSaved = wdWanted
  ELSE wd = wdWanted

XipInv ==
  /\ TypeXip
  /\ OneHolder /\ JobInHand /\ RequestIsLatest /\ AnswersAreOld /\ AckIsSeen
  /\ XipExclusion
  /\ DeadlineSaved

----------------------------------------------------------------------------
(* The chip has two cores: each is the other's other.                      *)
LEMMA OtherCore ==
  \A c \in XipCores : /\ Other(c) \in XipCores /\ Other(c) # c /\ Other(Other(c)) = c
                      /\ \A d \in XipCores : d = c \/ d = Other(c)
  BY DEF XipCores, Other

(* Begin and drop of the deadline cancel out.                              *)
LEMMA RestoredDeadline ==
  ASSUME NEW w \in WatchdogRegs
  PROVE  Restored(Deadline(w), w) = w
  BY DEF Restored, Deadline, WatchdogRegs

(* What begin and drop write is a setting of the registers.                *)
LEMMA RegsTyped ==
  ASSUME NEW w \in WatchdogRegs, NEW s \in WatchdogRegs
  PROVE  Deadline(w) \in WatchdogRegs /\ Restored(w, s) \in WatchdogRegs
  BY DEF Restored, Deadline, WatchdogRegs

(* So are the registers out of reset.                                      *)
LEMMA ColdTyped == Cold \in WatchdogRegs /\ [Cold EXCEPT !.flintTick = FALSE] \in WatchdogRegs
  BY DEF Cold, WatchdogRegs

(* arm and disarm leave registers behind.                                  *)
LEMMA ArmTyped ==
  ASSUME wd \in WatchdogRegs, NEW p \in BOOLEAN, NEW q \in BOOLEAN
  PROVE  Arm(p, q) \in WatchdogRegs /\ [wd EXCEPT !.enabled = FALSE] \in WatchdogRegs
  BY DEF Arm, WatchdogRegs

LEMMA SetTyped == ASSUME TypeXip, NEW c \in XipCores, SetWatchdog(c) PROVE wd' \in WatchdogRegs
<1>1. wd \in WatchdogRegs
  BY DEF TypeXip
<1> QED
  BY <1>1, ArmTyped DEF SetWatchdog

(* The initial state satisfies the invariant.                              *)
LEMMA InitXipInv == XipInit => XipInv
<1> SUFFICES ASSUME XipInit PROVE XipInv
  OBVIOUS
<1>1. TypeXip
  BY ColdTyped DEF XipInit, TypeXip, XpcStates
<1>2. OneHolder /\ JobInHand /\ RequestIsLatest /\ AnswersAreOld /\ AckIsSeen /\ XipExclusion /\ DeadlineSaved
  BY OtherCore DEF XipInit, OneHolder, JobInHand, RequestIsLatest, AnswersAreOld, AckIsSeen, XipExclusion,
                   DeadlineSaved, Holding, Posted, Answering
<1> QED
  BY <1>1, <1>2 DEF XipInv

(* Every step of either core keeps the invariant.                          *)
LEMMA NextXipInv == XipInv /\ [XipNext]_xipVars => XipInv'
<1> SUFFICES ASSUME XipInv, [XipNext]_xipVars
             PROVE  XipInv'
  OBVIOUS
<1> USE OtherCore, XipAssumption
<1> USE DEF XipInv, TypeXip, OneHolder, JobInHand, RequestIsLatest, AnswersAreOld, AckIsSeen, XipExclusion, DeadlineSaved,
            XpcStates, Holding, Posted, Answering, wdVars, regionVars, Go
<1>1. ASSUME NEW c \in XipCores, CriticalSection(c)
      PROVE  XipInv'
  BY <1>1 DEF CriticalSection
<1>2. ASSUME NEW c \in XipCores, SetWatchdog(c)
      PROVE  XipInv'
  <2>1. wd' \in WatchdogRegs
    BY <1>2, SetTyped
  <2>2. \A e \in XipCores : xpc[e] # "rom"
    BY <1>2 DEF SetWatchdog
  <2> QED
    BY <1>2, <2>1, <2>2 DEF SetWatchdog
<1>3. ASSUME NEW c \in XipCores, OpenRegion(c)
      PROVE  XipInv'
  BY <1>3 DEF OpenRegion, XipCores
<1>4. ASSUME NEW c \in XipCores, BeginJob(c)
      PROVE  XipInv'
  BY <1>4 DEF BeginJob
<1>5. ASSUME NEW c \in XipCores, DropRegion(c)
      PROVE  XipInv'
  BY <1>5 DEF DropRegion
<1>6. ASSUME NEW c \in XipCores, TakeLock(c)
      PROVE  XipInv'
  <2>0. /\ xpc[c] = "task" /\ xpc' = [xpc EXCEPT ![c] = "locked"] /\ ~xlock /\ xlock' = TRUE
        /\ region = c /\ job > 0
        /\ UNCHANGED <<request, ack, gen, fifo, seen, claimed, region, job, wd, wdSaved, wdWanted>>
    BY <1>6 DEF TakeLock
  <2>1. TypeXip' /\ JobInHand'
    <3>1. \A e \in XipCores : xpc[e] \notin Holding
      BY <2>0
    <3> QED
      BY <2>0, <3>1
  <2>4. OneHolder'
    <3>1. \A e \in XipCores : xpc[e] \notin Holding
      BY <2>0
    <3>2. \A e \in XipCores : xpc'[e] \in Holding <=> e = c
      BY <2>0, <3>1
    <3> QED
      BY ONLY <2>0, <3>2, OtherCore DEF OneHolder
  <2>2. RequestIsLatest' /\ AnswersAreOld' /\ AckIsSeen' /\ XipExclusion'
    BY <2>0
  <2>3. DeadlineSaved'
    BY <2>0
  <2> QED
    BY <2>1, <2>2, <2>3, <2>4
<1>7. ASSUME NEW c \in XipCores, Busy(c)
      PROVE  XipInv'
  BY <1>7 DEF Busy
<1>8. ASSUME NEW c \in XipCores, PostRequest(c)
      PROVE  XipInv'
  <2> DEFINE d == Other(c)
  <2>0. /\ xpc[c] = "locked" /\ xpc' = [xpc EXCEPT ![c] = "wait"] /\ xpc[d] \notin Holding
        /\ gen' = gen + 1 /\ gen' \in Nat /\ request' = 2 * gen' + d /\ d \in {0, 1} /\ request' \in Nat
        /\ UNCHANGED <<ack, xlock, seen, claimed, region, job, wd, wdSaved, wdWanted>>
    BY <1>8 DEF PostRequest, next_generation, XipCores
  <2>1. TypeXip'
    BY <1>8, <2>0 DEF PostRequest
  <2>2. OneHolder' /\ JobInHand' /\ RequestIsLatest' /\ AckIsSeen' /\ XipExclusion'
    BY <2>0
  <2>3. AnswersAreOld'
    BY <2>0
  <2>4. DeadlineSaved'
    BY <2>0
  <2> QED
    BY <2>1, <2>2, <2>3, <2>4
<1>9. ASSUME NEW c \in XipCores, PeerParked(c)
      PROVE  XipInv'
  <2> DEFINE d == Other(c)
  <2>0. /\ xpc[c] = "wait" /\ xpc' = [xpc EXCEPT ![c] = "dma"] /\ ack = request
        /\ UNCHANGED <<request, ack, xlock, gen, fifo, seen, claimed, region, job, wd, wdSaved, wdWanted>>
    BY <1>9 DEF PeerParked
  <2>1. ack # 0
    BY <2>0 DEF XipCores, Other
  <2>2. xpc[d] = "parked" /\ ack = seen[d]
    BY <2>0, <2>1
  <2> QED
    BY <2>0, <2>2
<1>10. ASSUME NEW c \in XipCores, DmaIdle(c)
      PROVE  XipInv'
  BY <1>10 DEF DmaIdle
<1>11. ASSUME NEW c \in XipCores, GiveUpWindow(c)
      PROVE  XipInv'
  BY <1>11 DEF GiveUpWindow
<1>12. ASSUME NEW c \in XipCores, EnterRom(c)
      PROVE  XipInv'
  <2>1. wd' \in WatchdogRegs /\ wdSaved' \in WatchdogRegs
    BY <1>12, RegsTyped DEF EnterRom
  <2>2. wd = wdWanted
    BY <1>12 DEF EnterRom
  <2>3. wd' = Deadline(wdSaved)' /\ wdSaved' = wdWanted'
    BY <1>12, <2>2 DEF EnterRom, Deadline
  <2> QED
    BY <1>12, <2>1, <2>3 DEF EnterRom
<1>13. ASSUME NEW c \in XipCores, LeaveRom(c)
      PROVE  XipInv'
  <2>1. wd' = wdWanted /\ wdWanted' = wdWanted
    BY <1>13, RestoredDeadline DEF LeaveRom
  <2>2. job' \in Nat
    BY <1>13 DEF LeaveRom
  <2>3. \A e \in XipCores : xpc'[e] # "rom"
    BY <1>13 DEF LeaveRom
  <2> QED
    BY <1>13, <2>1, <2>2, <2>3 DEF LeaveRom
<1>14. ASSUME NEW c \in XipCores, DropRequest(c)
      PROVE  XipInv'
  BY <1>14 DEF DropRequest
<1>15. ASSUME NEW c \in XipCores, DropLock(c)
      PROVE  XipInv'
  <2>1. /\ xpc[c] = "unlock" /\ xpc' = [xpc EXCEPT ![c] = "task"] /\ xlock' = FALSE
        /\ UNCHANGED <<request, ack, gen, fifo, seen, region, claimed, job, wd, wdSaved, wdWanted>>
    BY <1>15 DEF DropLock
  <2>2. TypeXip' /\ OneHolder' /\ JobInHand'
    BY ZenonT(60), <2>1
  <2>3. RequestIsLatest' /\ AnswersAreOld' /\ AckIsSeen' /\ XipExclusion' /\ DeadlineSaved'
    BY <2>1
  <2> QED
    BY <2>2, <2>3
<1>16. ASSUME NEW c \in XipCores, WatchdogReset(c)
      PROVE  XipInv'
  BY <1>16, ColdTyped DEF WatchdogReset
<1>17. ASSUME NEW c \in XipCores, SioIrq(c)
      PROVE  XipInv'
  BY <1>17 DEF SioIrq
<1>18. ASSUME NEW c \in XipCores, ReadRequest(c)
      PROVE  XipInv'
  BY <1>18 DEF ReadRequest
<1>19. ASSUME NEW c \in XipCores, CheckRequest(c)
      PROVE  XipInv'
  BY <1>19 DEF CheckRequest
<1>20. ASSUME NEW c \in XipCores, Acknowledge(c)
      PROVE  XipInv'
  BY <1>20 DEF Acknowledge
<1>21. ASSUME NEW c \in XipCores, Unpark(c)
      PROVE  XipInv'
  BY <1>21 DEF Unpark
<1>22. ASSUME NEW c \in XipCores, ClearAck(c)
      PROVE  XipInv'
  BY <1>22 DEF ClearAck
<1>23. CASE UNCHANGED xipVars
  BY <1>23 DEF xipVars
<1> QED
  BY <1>1, <1>2, <1>3, <1>4, <1>5, <1>6, <1>7, <1>8, <1>9, <1>10, <1>11, <1>12, <1>13, <1>14, <1>15, <1>16, <1>17, <1>18, <1>19, <1>20, <1>21, <1>22, <1>23 DEF XipNext

(* The invariant holds for any number of requests and jobs of any length.  *)
THEOREM XipSafe == XipSpec => []XipInv
  BY InitXipInv, NextXipInv, PTL DEF XipSpec

(* Whoever runs the ROM with XIP off has the other core parked on this     *)
(* very request: xip.rs, acquire, drop and service_request.                *)
THEOREM XipExclusive == XipSpec => []XipExclusion
<1>1. XipInv => XipExclusion
  BY DEF XipInv
<1> QED
  BY <1>1, XipSafe, PTL

(* A ROM call runs under a deadline, and outside one the watchdog is as    *)
(* its user left it: watchdog.rs, FlashDeadline's begin and drop.          *)
THEOREM DeadlineHolds == XipSpec => []DeadlineKept
<1>1. XipInv => DeadlineKept
  BY DEF XipInv, DeadlineSaved, DeadlineKept, Deadline
<1> QED
  BY <1>1, XipSafe, PTL

(***************************************************************************)
(* Critical sections and spinlocks.                                        *)
(***************************************************************************)

Task(c) == <<c, "task">>
Isr(c) == <<c, "isr">>

(* Critical sections x has entered and not left, and those of them that    *)
(* count in LOCAL[core].depth.                                             *)
Entered(x) == Len(lockSaved[x])
HwEntered(x) == IF lockPc[x] = "hw" THEN Entered(x) - 1 ELSE Entered(x)

(* Every lock x is inside has a critical section around it; between        *)
(* cs_enter and the lock, and between the unlock and cs_exit, there is one *)
(* more.                                                                   *)
Counts ==
  \A x \in Contexts :
    /\ lockPc[x] # "panic"
    /\ lockPc[x] = "idle" => got[x] = 0 /\ Entered(x) = 0
    /\ lockPc[x] = "enter" => Entered(x) = got[x] /\ got[x] < Len(path[x])
    /\ lockPc[x] \in {"hw", "check", "acquire", "exit"} =>
         Entered(x) = got[x] + 1 /\ got[x] < Len(path[x])
    /\ lockPc[x] \in {"in", "release"} =>
         Entered(x) = got[x] /\ 0 < got[x] /\ got[x] <= Len(path[x])
    /\ lockPc[x] = "acquire" => Target(x) \in Spinlocks

(* A handler runs masked and over a task that is in no section; a section  *)
(* is masked, and leaving it unmasks the core only where it was open: at   *)
(* the outermost level of a task.                                          *)
Masking ==
  \A c \in Cores :
    /\ inIsr[c] => masked[c] /\ Entered(Task(c)) = 0
    /\ ~inIsr[c] => lockPc[Isr(c)] = "idle"
    /\ Entered(Task(c)) > 0 => masked[c]
    /\ \A k \in DOMAIN lockSaved[Task(c)] : k > 1 => lockSaved[Task(c)][k] = TRUE
    /\ \A k \in DOMAIN lockSaved[Isr(c)] : lockSaved[Isr(c)][k] = TRUE

(* RP2040: depth counts the sections of the core's two contexts, and the   *)
(* core with a positive depth is the one that has the hardware lock.       *)
Depths ==
  /\ XTENSA => \A x \in Contexts : lockPc[x] # "hw"
  /\ ~XTENSA => \A c \in Cores : /\ depth[c] = HwEntered(Task(c)) + HwEntered(Isr(c))
                                 /\ depth[c] > 0 <=> hw = c

(* holder names the core of whoever is inside, and nobody else.            *)
Holders ==
  /\ \A x \in Contexts, i \in Nat :
       i \in 1 .. got[x] /\ path[x][i] \in Spinlocks => lockHolder[path[x][i]] = CoreOf(x)
  /\ \A l \in Spinlocks : lockHolder[l] # NoCore =>
       \E x \in Contexts : CoreOf(x) = lockHolder[l] /\ \E i \in 1 .. got[x] : path[x][i] = l

LocksInv == TypeLocks /\ Counts /\ Masking /\ Depths /\ Holders

----------------------------------------------------------------------------
(* A core has two contexts, the task and the handler, and runs the latter  *)
(* while it is in an interrupt.                                            *)
LEMMA TwoContexts ==
  ASSUME TypeLocks
  PROVE  /\ \A c \in Cores : /\ Task(c) \in Contexts /\ Isr(c) \in Contexts /\ Task(c) # Isr(c)
                             /\ CoreOf(Task(c)) = c /\ CoreOf(Isr(c)) = c
                             /\ Active(Task(c)) <=> ~inIsr[c]
                             /\ Active(Isr(c)) <=> inIsr[c]
         /\ \A x \in Contexts : /\ CoreOf(x) \in Cores
                                /\ x = Task(CoreOf(x)) \/ x = Isr(CoreOf(x))
  BY DEF TypeLocks, Task, Isr, Contexts, CoreOf, Active

(* The elements of a path are locks.                                       *)
LEMMA PathLocks ==
  ASSUME NEW p \in Paths
  PROVE  /\ p \in Seq(Locks) /\ Len(p) \in Nat /\ Len(p) > 0 /\ DOMAIN p = 1 .. Len(p)
         /\ \A i \in 1 .. Len(p) : p[i] \in Locks
<1>1. p \in Seq(Locks) /\ p # <<>>
  BY SpinlockAssumption
<1> QED
  BY <1>1, LenProperties, EmptySeq, ElementOfSeq

(* On one core at most one context is in a section.                        *)
LEMMA OneInside ==
  ASSUME LocksInv, NEW x \in Contexts, NEW y \in Contexts,
         CoreOf(x) = CoreOf(y), Entered(x) > 0, Entered(y) > 0
  PROVE  x = y
<1>1. /\ CoreOf(x) \in Cores
      /\ x = Task(CoreOf(x)) \/ x = Isr(CoreOf(x))
      /\ y = Task(CoreOf(x)) \/ y = Isr(CoreOf(x))
      /\ Task(CoreOf(x)) \in Contexts /\ Isr(CoreOf(x)) \in Contexts
  BY TwoContexts DEF LocksInv
<1> QED
  BY <1>1 DEF LocksInv, Masking, Counts

(* On the RP2040 a context that is in a section has the hardware lock.     *)
LEMMA HasHardwareLock ==
  ASSUME LocksInv, ~XTENSA, NEW x \in Contexts, HwEntered(x) > 0
  PROVE  hw = CoreOf(x)
<1>1. /\ CoreOf(x) \in Cores
      /\ x = Task(CoreOf(x)) \/ x = Isr(CoreOf(x))
      /\ Task(CoreOf(x)) \in Contexts /\ Isr(CoreOf(x)) \in Contexts
  BY TwoContexts DEF LocksInv
<1>2. \A y \in Contexts : HwEntered(y) \in Nat
  BY LenProperties DEF LocksInv, TypeLocks, Counts, HwEntered, Entered
<1> QED
  BY <1>1, <1>2 DEF LocksInv, Depths

(* Whoever is inside something has entered a section that counts.          *)
LEMMA InsideIsEntered ==
  ASSUME LocksInv, NEW x \in Contexts, got[x] > 0
  PROVE  Entered(x) > 0 /\ HwEntered(x) > 0
  BY DEF LocksInv, TypeLocks, Counts, HwEntered, Entered

(* Two contexts inside one spinlock, or one Cell of the RP2040, are one.   *)
LEMMA InsideExclusive ==
  ASSUME LocksInv, NEW x \in Contexts, NEW y \in Contexts,
         NEW i \in 1 .. got[x], NEW j \in 1 .. got[y], path[x][i] = path[y][j],
         ~XTENSA \/ path[x][i] \in Spinlocks \/ CoreOf(x) = CoreOf(y)
  PROVE  x = y
<1>1. got[x] > 0 /\ got[y] > 0
  BY DEF LocksInv, TypeLocks
<1>2. Entered(x) > 0 /\ HwEntered(x) > 0 /\ Entered(y) > 0 /\ HwEntered(y) > 0
  BY <1>1, InsideIsEntered
<1>3. CoreOf(x) = CoreOf(y)
  <2>1. CASE ~XTENSA
    BY <1>2, <2>1, HasHardwareLock
  <2>2. CASE path[x][i] \in Spinlocks
    BY <2>2 DEF LocksInv, Holders, TypeLocks
  <2> QED
    BY <2>1, <2>2
<1> QED
  BY <1>2, <1>3, OneInside

(* What a core finds its own mark on, it is inside of.                     *)
LEMMA OwnMark ==
  ASSUME LocksInv, NEW x \in Contexts, Entered(x) > 0,
         NEW l \in Spinlocks, lockHolder[l] = CoreOf(x)
  PROVE  \E i \in 1 .. got[x] : path[x][i] = l
<1>1. lockHolder[l] # NoCore
  BY TwoContexts, SpinlockAssumption DEF LocksInv
<1>2. PICK y \in Contexts : CoreOf(y) = CoreOf(x) /\ \E i \in 1 .. got[y] : path[y][i] = l
  BY <1>1 DEF LocksInv, Holders
<1>3. got[y] > 0
  BY <1>2 DEF LocksInv, TypeLocks
<1>4. y = x
  BY <1>2, <1>3, InsideIsEntered, OneInside
<1> QED
  BY <1>2, <1>4

----------------------------------------------------------------------------
(* cs_enter pushes the interrupt state, cs_exit pops it.                   *)
LEMMA SavedPush ==
  ASSUME NEW s \in Seq(BOOLEAN), NEW b \in BOOLEAN
  PROVE  LET r == Append(s, b) IN
         /\ r \in Seq(BOOLEAN) /\ Len(r) = Len(s) + 1 /\ DOMAIN r = 1 .. Len(s) + 1
         /\ r[Len(s) + 1] = b /\ DOMAIN s = 1 .. Len(s) /\ Len(s) \in Nat
         /\ \A k \in 1 .. Len(s) : r[k] = s[k]
  BY AppendProperties, LenProperties

LEMMA SavedPop ==
  ASSUME NEW s \in Seq(BOOLEAN), Len(s) > 0
  PROVE  LET r == SubSeq(s, 1, Len(s) - 1) IN
         /\ r \in Seq(BOOLEAN) /\ Len(r) = Len(s) - 1 /\ DOMAIN r = 1 .. Len(s) - 1
         /\ s[Len(s)] \in BOOLEAN /\ DOMAIN s = 1 .. Len(s) /\ Len(s) \in Nat
         /\ \A k \in 1 .. Len(s) - 1 : r[k] = s[k]
<1> DEFINE n == Len(s) - 1
           r == SubSeq(s, 1, n)
<1>1. /\ Len(s) \in Nat /\ DOMAIN s = 1 .. Len(s) /\ n \in Nat /\ 1 <= n + 1 /\ n <= Len(s)
      /\ s[Len(s)] \in BOOLEAN
  BY LenProperties, ElementOfSeq
<1>2. /\ r \in Seq(BOOLEAN)
      /\ Len(r) = (IF 1 <= n THEN n - 1 + 1 ELSE 0)
      /\ \A k \in 1 .. n - 1 + 1 : r[k] = s[1 + k - 1]
  <2> HIDE DEF n
  <2> QED
    BY <1>1, SubSeqProperties
<1> HIDE DEF r
<1>3. Len(r) = n /\ DOMAIN r = 1 .. n /\ \A k \in 1 .. n : r[k] = s[k]
  <2> HIDE DEF n
  <2>1. DOMAIN r = 1 .. Len(r)
    BY <1>2, LenProperties
  <2>2. Len(r) = n
    BY <1>1, <1>2
  <2>3. \A k \in 1 .. n : r[k] = s[k]
    BY <1>1, <1>2
  <2> QED
    BY <2>1, <2>2, <2>3
<1> QED
  BY <1>1, <1>2, <1>3 DEF r

(* At the start nobody is inside anything.                                 *)
LEMMA InitLocksInv == LocksInit => LocksInv
<1> SUFFICES ASSUME LocksInit PROVE LocksInv
  OBVIOUS
<1>1. TypeLocks
  BY SpinlockAssumption, EmptySeq DEF LocksInit, TypeLocks
<1>2. Counts /\ Masking
  BY <1>1, TwoContexts, EmptySeq DEF LocksInit, Counts, Masking, Entered
<1>3. Depths
  <2>1. \A x \in Contexts : HwEntered(x) = 0 /\ lockPc[x] # "hw"
    BY EmptySeq DEF LocksInit, HwEntered, Entered
  <2>2. \A c \in Cores : depth[c] = 0 /\ hw # c
    BY SpinlockAssumption DEF LocksInit
  <2>3. \A c \in Cores : Task(c) \in Contexts /\ Isr(c) \in Contexts
    BY <1>1, TwoContexts
  <2> QED
    BY <2>1, <2>2, <2>3 DEF Depths
<1>4. Holders
  BY <1>1 DEF LocksInit, Holders
<1> QED
  BY <1>1, <1>2, <1>3, <1>4 DEF LocksInv

(* Taking an interrupt and returning from it.                              *)
LEMMA InterruptInv ==
  ASSUME LocksInv, NEW c \in Cores, Interrupt(c) \/ ReturnFromInterrupt(c), UNCHANGED machine
  PROVE  LocksInv'
<1>1. /\ UNCHANGED <<machine, lockHolder, hw, depth, path, tries, got, lockSaved, lockPc>>
      /\ inIsr' = [inIsr EXCEPT ![c] = inIsr'[c]] /\ masked' = [masked EXCEPT ![c] = inIsr'[c]]
      /\ inIsr'[c] \in BOOLEAN
      /\ inIsr'[c] => ~masked[c]
      /\ ~inIsr'[c] => inIsr[c] /\ lockPc[Isr(c)] = "idle"
  BY DEF Interrupt, ReturnFromInterrupt, LocksInv, TypeLocks, Isr
<1>2. TypeLocks' /\ Counts' /\ Depths' /\ Holders'
  <2>1. TypeLocks'
    BY <1>1 DEF LocksInv, TypeLocks
  <2>2. Counts'
    BY <1>1 DEF LocksInv, Counts, Entered, Target
  <2>3. Depths'
    BY <1>1 DEF LocksInv, Depths, Entered, HwEntered, XTENSA
  <2>4. Holders'
    BY <1>1 DEF LocksInv, Holders
  <2> QED
    BY <2>1, <2>2, <2>3, <2>4
<1>3. \A d \in Cores : Entered(Task(d)) \in Nat
  BY TwoContexts, LenProperties DEF LocksInv, TypeLocks, Entered
<1>4. Masking'
  BY <1>1, <1>3 DEF LocksInv, TypeLocks, Masking, Entered
<1> QED
  BY <1>2, <1>4 DEF LocksInv

(* with begins.                                                            *)
LEMMA StartInv ==
  ASSUME LocksInv, NEW x \in Contexts, NEW p \in Paths, NEW try \in BOOLEAN,
         Start(x, p, try), UNCHANGED machine
  PROVE  LocksInv'
<1>1. /\ Active(x) /\ lockPc[x] = "idle" /\ lockPc' = [lockPc EXCEPT ![x] = "enter"]
      /\ path' = [path EXCEPT ![x] = p] /\ tries' = [tries EXCEPT ![x] = try]
      /\ UNCHANGED <<machine, lockHolder, hw, depth, masked, inIsr, got, lockSaved>>
  BY DEF Start, At, LockGoto
<1>2. TypeLocks'
  BY <1>1 DEF LocksInv, TypeLocks
<1>3. got[x] = 0 /\ \A i \in Nat : i \notin 1 .. got[x]
  BY <1>1 DEF LocksInv, Counts
<1>4. Counts'
  BY <1>1, <1>3, PathLocks DEF LocksInv, TypeLocks, Counts, Entered, Target
<1>5. Masking'
  BY <1>1, TwoContexts DEF LocksInv, TypeLocks, Masking, Entered
<1>6. Depths'
  BY <1>1, TwoContexts DEF LocksInv, TypeLocks, Depths, HwEntered, Entered, XTENSA
<1>7. Holders'
  BY <1>1, <1>3 DEF LocksInv, TypeLocks, Holders
<1> QED
  BY <1>2, <1>4, <1>5, <1>6, <1>7 DEF LocksInv

(* cs_enter: only a task outside every section can find the core open.     *)
LEMMA CsEnterInv ==
  ASSUME LocksInv, NEW x \in Contexts, CsEnter(x), UNCHANGED machine
  PROVE  LocksInv'
<1> DEFINE c == CoreOf(x)
<1>1. /\ Active(x) /\ lockPc[x] = "enter"
      /\ lockPc' = [lockPc EXCEPT ![x] = IF XTENSA THEN "check" ELSE "hw"]
      /\ lockSaved' = [lockSaved EXCEPT ![x] = Append(@, masked[c])]
      /\ masked' = [masked EXCEPT ![c] = TRUE]
      /\ UNCHANGED <<machine, lockHolder, hw, depth, inIsr, path, tries, got>>
  BY DEF CsEnter, At, LockGoto
<1>2. /\ c \in Cores /\ (x = Task(c) \/ x = Isr(c))
      /\ \A d \in Cores : Task(d) \in Contexts /\ Isr(d) \in Contexts
      /\ \A d \in Cores : Task(d) # Isr(d) /\ (d # c => Task(d) # x /\ Isr(d) # x)
      /\ x = Task(c) => ~inIsr[c]
      /\ x = Isr(c) => inIsr[c]
  BY <1>1, TwoContexts DEF LocksInv
<1>3. /\ lockSaved'[x] \in Seq(BOOLEAN) /\ Entered(x)' = Entered(x) + 1 /\ Entered(x) \in Nat
      /\ DOMAIN lockSaved[x] = 1 .. Entered(x) /\ DOMAIN lockSaved'[x] = 1 .. Entered(x) + 1
      /\ lockSaved'[x][Entered(x) + 1] = masked[c]
      /\ \A k \in 1 .. Entered(x) : lockSaved'[x][k] = lockSaved[x][k]
      /\ \A y \in Contexts \ {x} : lockSaved'[y] = lockSaved[y] /\ Entered(y)' = Entered(y)
  <2>1. lockSaved[x] \in Seq(BOOLEAN) /\ masked[c] \in BOOLEAN
    BY <1>2 DEF LocksInv, TypeLocks
  <2>2. /\ lockSaved'[x] = Append(lockSaved[x], masked[c])
        /\ \A y \in Contexts \ {x} : lockSaved'[y] = lockSaved[y]
    BY <1>1 DEF LocksInv, TypeLocks
  <2> QED
    BY <2>1, <2>2, SavedPush DEF Entered
<1> HIDE DEF c
<1>4. TypeLocks'
  BY <1>1, <1>2, <1>3 DEF LocksInv, TypeLocks
<1>5. Counts'
  BY <1>1, <1>3 DEF LocksInv, TypeLocks, Counts, Target
<1>6. Masking'
  <2> SUFFICES ASSUME NEW d \in Cores
               PROVE  /\ inIsr[d] => masked'[d] /\ Entered(Task(d))' = 0
                      /\ ~inIsr[d] => lockPc'[Isr(d)] = "idle"
                      /\ Entered(Task(d))' > 0 => masked'[d]
                      /\ \A k \in DOMAIN lockSaved'[Task(d)] : k > 1 => lockSaved'[Task(d)][k] = TRUE
                      /\ \A k \in DOMAIN lockSaved'[Isr(d)] : lockSaved'[Isr(d)][k] = TRUE
    BY <1>1 DEF Masking, Task, Isr
  <2>1. CASE d # c
    BY SMTT(30), <1>1, <1>2, <1>3, <2>1 DEF LocksInv, TypeLocks, Masking
  <2>2. CASE d = c
    <3>1. /\ masked'[c] /\ (inIsr[c] => Entered(Task(c))' = 0) /\ (~inIsr[c] => lockPc'[Isr(c)] = "idle")
      BY SMTT(30), <1>1, <1>2, <1>3 DEF LocksInv, TypeLocks, Masking
    <3>2. Entered(x) > 0 \/ x = Isr(c) => masked[c] = TRUE
      BY <1>2, <1>3 DEF LocksInv, TypeLocks, Masking
    <3>3. /\ x = Task(c) => \A k \in 1 .. Entered(x) : k > 1 => lockSaved[x][k] = TRUE
          /\ x = Isr(c) => \A k \in 1 .. Entered(x) : lockSaved[x][k] = TRUE
      BY <1>2, <1>3 DEF LocksInv, Masking
    <3>4. ASSUME x = Task(c), NEW k \in 1 .. Entered(x) + 1, k > 1
          PROVE  lockSaved'[x][k] = TRUE
      <4>1. CASE k = Entered(x) + 1
        BY <1>3, <3>2, <3>4, <4>1
      <4>2. CASE k # Entered(x) + 1
        <5>1. k \in 1 .. Entered(x)
          BY <1>3, <4>2
        <5> QED
          BY <1>3, <3>3, <3>4, <5>1
      <4> QED
        BY <4>1, <4>2
    <3>5. x = Isr(c) => \A k \in 1 .. Entered(x) + 1 : lockSaved'[x][k] = TRUE
      BY <1>3, <3>2, <3>3
    <3> QED
      BY <1>2, <1>3, <2>2, <3>1, <3>4, <3>5 DEF LocksInv, Masking
  <2> QED
    BY <2>1, <2>2
<1>7. Depths'
  <2>1. \A y \in Contexts : HwEntered(y)' = HwEntered(y) \/ XTENSA
    BY <1>1, <1>3 DEF LocksInv, TypeLocks, HwEntered
  <2> QED
    BY <1>1, <1>2, <2>1 DEF LocksInv, TypeLocks, Depths, XTENSA
<1>8. Holders'
  BY <1>1 DEF LocksInv, Holders
<1> QED
  BY <1>4, <1>5, <1>6, <1>7, <1>8 DEF LocksInv

(* The RP2040's hardware lock: taken at depth 0, counted above.            *)
LEMMA HwAcquireInv ==
  ASSUME LocksInv, NEW x \in Contexts, HwAcquire(x), UNCHANGED machine
  PROVE  LocksInv'
<1> DEFINE c == CoreOf(x)
<1>1. /\ lockPc[x] = "hw" /\ lockPc' = [lockPc EXCEPT ![x] = "check"]
      /\ depth[c] > 0 \/ hw = NoCore
      /\ hw' = c /\ depth' = [depth EXCEPT ![c] = @ + 1]
      /\ UNCHANGED <<machine, lockHolder, masked, inIsr, path, tries, got, lockSaved>>
  BY DEF HwAcquire, At, LockGoto
<1>2. /\ c \in Cores /\ (x = Task(c) \/ x = Isr(c))
      /\ \A d \in Cores : Task(d) \in Contexts /\ Isr(d) \in Contexts /\ Task(d) # Isr(d)
      /\ \A d \in Cores : d # c => Task(d) # x /\ Isr(d) # x
  BY TwoContexts DEF LocksInv
<1> HIDE DEF c
<1>3. TypeLocks'
  BY <1>1, <1>2 DEF LocksInv, TypeLocks
<1>4. Counts'
  BY <1>1 DEF LocksInv, TypeLocks, Counts, Entered, Target
<1>5. Masking'
  BY <1>1, <1>2 DEF LocksInv, TypeLocks, Masking, Entered
<1>6. Depths'
  <2>1. ~XTENSA
    BY <1>1 DEF LocksInv, Depths
  <2>2. /\ HwEntered(x)' = HwEntered(x) + 1
        /\ \A y \in Contexts \ {x} : HwEntered(y)' = HwEntered(y)
        /\ \A y \in Contexts : HwEntered(y) \in Int
    BY <1>1, LenProperties DEF LocksInv, TypeLocks, HwEntered, Entered
  <2>3. ASSUME NEW d \in Cores
        PROVE  depth'[d] = HwEntered(Task(d))' + HwEntered(Isr(d))'
    <3>1. /\ depth[d] = HwEntered(Task(d)) + HwEntered(Isr(d))
          /\ depth'[d] = IF d = c THEN depth[d] + 1 ELSE depth[d]
      BY <1>1, <1>2, <2>1 DEF LocksInv, TypeLocks, Depths
    <3>2. CASE d = c /\ x = Task(c)
      BY <1>2, <2>2, <3>1, <3>2
    <3>3. CASE d = c /\ x = Isr(c)
      BY <1>2, <2>2, <3>1, <3>3
    <3>4. CASE d # c
      BY <1>2, <2>2, <3>1, <3>4
    <3> QED
      BY <1>2, <3>2, <3>3, <3>4
  <2>4. \A d \in Cores : depth'[d] > 0 <=> hw' = d
    BY <1>1, <1>2, <2>1, SpinlockAssumption DEF LocksInv, TypeLocks, Depths
  <2> QED
    BY <1>1, <2>1, <2>3, <2>4 DEF Depths, XTENSA
<1>7. Holders'
  BY <1>1 DEF LocksInv, Holders
<1> QED
  BY <1>3, <1>4, <1>5, <1>6, <1>7 DEF LocksInv

(* Steps inside a section, which move x between points with the same       *)
(* number of sections and locks.                                           *)
LEMMA InsideStepInv ==
  ASSUME LocksInv, NEW x \in Contexts, NEW l,
         lockPc' = [lockPc EXCEPT ![x] = l],
         \/ lockPc[x] = "check" /\ l \in {"acquire", "exit"} /\ (l = "acquire" => Target(x) \in Spinlocks)
         \/ lockPc[x] = "acquire" /\ l = "exit"
         \/ lockPc[x] = "in" /\ l = "release"
         \/ lockPc[x] = "in" /\ l = "enter" /\ got[x] < Len(path[x]),
         UNCHANGED <<machine, lockHolder, hw, depth, masked, inIsr, path, tries, got, lockSaved>>
  PROVE  LocksInv'
<1>0. \A c \in Cores : Isr(c) \in Contexts /\ Task(c) \in Contexts
  BY TwoContexts DEF LocksInv
<1>1. TypeLocks'
  BY DEF LocksInv, TypeLocks
<1>2. Counts'
  BY DEF LocksInv, TypeLocks, Counts, Entered, Target
<1>3. Masking'
  BY <1>0 DEF LocksInv, TypeLocks, Masking, Entered
<1>4. Depths'
  <2>1. \A y \in Contexts : HwEntered(y)' = HwEntered(y) /\ (lockPc'[y] = "hw" => lockPc[y] = "hw")
    BY DEF LocksInv, TypeLocks, HwEntered, Entered
  <2> QED
    BY <1>0, <2>1 DEF LocksInv, Depths, XTENSA
<1>5. Holders'
  BY DEF LocksInv, Holders
<1> QED
  BY <1>1, <1>2, <1>3, <1>4, <1>5 DEF LocksInv

(* x goes into its next lock: a Cell at once, a spinlock that nobody else  *)
(* can be inside, because the compare-exchange found it free or because x  *)
(* has the hardware lock.                                                  *)
LEMMA GoInsideInv ==
  ASSUME LocksInv, NEW x \in Contexts, lockPc[x] \in {"check", "acquire"},
         lockPc' = [lockPc EXCEPT ![x] = "in"], got' = [got EXCEPT ![x] = @ + 1],
         lockHolder' = IF Target(x) \in Spinlocks
                       THEN [lockHolder EXCEPT ![Target(x)] = CoreOf(x)] ELSE lockHolder,
         XTENSA /\ Target(x) \in Spinlocks => lockHolder[Target(x)] = NoCore,
         UNCHANGED <<machine, hw, depth, masked, inIsr, path, tries, lockSaved>>
  PROVE  LocksInv'
<1> DEFINE l == Target(x)
           n == got[x] + 1
<1>0. /\ \A y \in Contexts : CoreOf(y) \in Cores
      /\ \A c \in Cores : Isr(c) \in Contexts /\ Task(c) \in Contexts
  BY TwoContexts DEF LocksInv
<1>1. /\ got'[x] = n /\ n \in Nat /\ n > 0 /\ \A y \in Contexts \ {x} : got'[y] = got[y]
      /\ \A y \in Contexts : got[y] \in Nat
      /\ l = path[x][n] /\ Entered(x) = n /\ n <= Len(path[x]) /\ HwEntered(x) > 0
  BY DEF LocksInv, TypeLocks, Counts, Target, HwEntered
<1>2. TypeLocks'
  BY <1>0, <1>1 DEF LocksInv, TypeLocks
<1>3. Counts'
  BY <1>1 DEF LocksInv, TypeLocks, Counts, Entered, Target
<1>4. Masking'
  BY <1>0 DEF LocksInv, TypeLocks, Masking, Entered
<1>5. Depths'
  <2>1. \A y \in Contexts : HwEntered(y)' = HwEntered(y) /\ (lockPc'[y] = "hw" => lockPc[y] = "hw")
    BY DEF LocksInv, TypeLocks, HwEntered, Entered
  <2> QED
    BY <1>0, <2>1 DEF LocksInv, Depths, XTENSA
<1> HIDE DEF l, n
<1>6. lockHolder' = IF l \in Spinlocks THEN [lockHolder EXCEPT ![l] = CoreOf(x)] ELSE lockHolder
  BY DEF l
<1>7. ASSUME NEW y \in Contexts, NEW i \in Nat, i \in 1 .. got'[y], path[y][i] \in Spinlocks
      PROVE  lockHolder'[path[y][i]] = CoreOf(y)
  <2>1. CASE y = x /\ i = n
    BY <1>1, <1>6, <1>7, <2>1 DEF LocksInv, TypeLocks
  <2>2. CASE ~(y = x /\ i = n)
    <3>1. i \in 1 .. got[y]
      BY <1>1, <1>7, <2>2
    <3>2. lockHolder[path[y][i]] = CoreOf(y)
      BY <1>7, <3>1 DEF LocksInv, Holders
    <3>3. CASE path[y][i] # l
      BY <1>6, <1>7, <3>2, <3>3 DEF LocksInv, TypeLocks
    <3>4. CASE path[y][i] = l
      <4>1. ~XTENSA
        BY <1>0, <1>7, <3>2, <3>4, SpinlockAssumption DEF l
      <4>2. HwEntered(y) > 0
        BY <1>1, <3>1, InsideIsEntered
      <4>3. CoreOf(x) = CoreOf(y)
        BY <1>1, <4>1, <4>2, HasHardwareLock
      <4> QED
        BY <1>6, <1>7, <3>4, <4>3 DEF LocksInv, TypeLocks
    <3> QED
      BY <3>3, <3>4
  <2> QED
    BY <2>1, <2>2
<1>8. ASSUME NEW k \in Spinlocks, lockHolder'[k] # NoCore
      PROVE  \E y \in Contexts : CoreOf(y) = lockHolder'[k] /\ \E i \in 1 .. got'[y] : path[y][i] = k
  <2>1. CASE k = l
    <3>1. lockHolder'[k] = CoreOf(x)
      BY <1>6, <2>1 DEF LocksInv, TypeLocks
    <3> QED
      BY <1>1, <2>1, <3>1
  <2>2. CASE k # l
    <3>1. lockHolder'[k] = lockHolder[k]
      BY <1>6, <2>2 DEF LocksInv, TypeLocks
    <3>2. PICK y \in Contexts : CoreOf(y) = lockHolder[k] /\ \E i \in 1 .. got[y] : path[y][i] = k
      BY <1>8, <3>1 DEF LocksInv, Holders
    <3>3. \A i \in 1 .. got[y] : i \in 1 .. got'[y]
      BY <1>1
    <3> QED
      BY <3>1, <3>2, <3>3
  <2> QED
    BY <2>1, <2>2
<1>9. Holders'
  BY <1>7, <1>8 DEF Holders
<1> QED
  BY <1>2, <1>3, <1>4, <1>5, <1>9 DEF LocksInv

(* The check: a core cannot meet its own mark, since no path takes a       *)
(* spinlock twice.                                                         *)
LEMMA CheckInv ==
  ASSUME LocksInv, NEW x \in Contexts, Check(x), UNCHANGED machine
  PROVE  LocksInv'
<1>1. /\ lockPc[x] = "check"
      /\ UNCHANGED <<machine, lockHolder, hw, depth, masked, inIsr, path, tries, lockSaved>>
  BY DEF Check, At
<1>2. CASE Target(x) \in Cells
  <2>1. /\ Target(x) \notin Spinlocks
        /\ lockPc' = [lockPc EXCEPT ![x] = "in"] /\ got' = [got EXCEPT ![x] = @ + 1]
    BY <1>2, SpinlockAssumption DEF Check, Inside, LockGoto
  <2> QED
    BY <1>1, <2>1, GoInsideInv
<1>3. CASE Target(x) \in Spinlocks
  <2>1. lockHolder[Target(x)] # CoreOf(x)
    <3> SUFFICES ASSUME lockHolder[Target(x)] = CoreOf(x) PROVE FALSE
      OBVIOUS
    <3>1. Entered(x) = got[x] + 1 /\ got[x] < Len(path[x]) /\ got[x] \in Nat /\ path[x] \in Paths \cup {<<>>}
      BY <1>1 DEF LocksInv, TypeLocks, Counts
    <3>2. PICK i \in 1 .. got[x] : path[x][i] = Target(x)
      BY <1>3, <3>1, OwnMark
    <3>3. path[x] \in Paths /\ DOMAIN path[x] = 1 .. Len(path[x]) /\ Len(path[x]) \in Nat
      BY <3>1, PathLocks, EmptySeq
    <3>4. i \in DOMAIN path[x] /\ got[x] + 1 \in DOMAIN path[x] /\ i # got[x] + 1
      BY <3>1, <3>2, <3>3
    <3> QED
      BY <1>3, <3>2, <3>3, <3>4, SpinlockAssumption DEF Target
  <2>2. lockPc' = [lockPc EXCEPT ![x] = "acquire"] /\ UNCHANGED got
    BY <1>3, <2>1, SpinlockAssumption DEF Check, LockGoto
  <2> QED
    BY <1>1, <1>3, <2>2, InsideStepInv
<1> QED
  BY <1>2, <1>3 DEF Check

(* The acquisition itself.                                                 *)
LEMMA AcquireInv ==
  ASSUME LocksInv, NEW x \in Contexts, Acquire(x), UNCHANGED machine
  PROVE  LocksInv'
<1>1. /\ lockPc[x] = "acquire" /\ (XTENSA => lockHolder[Target(x)] = NoCore)
      /\ lockHolder' = [lockHolder EXCEPT ![Target(x)] = CoreOf(x)]
      /\ lockPc' = [lockPc EXCEPT ![x] = "in"] /\ got' = [got EXCEPT ![x] = @ + 1]
      /\ UNCHANGED <<hw, depth, masked, inIsr, path, tries, lockSaved>>
  BY DEF Acquire, At, Inside, LockGoto
<1>2. Target(x) \in Spinlocks
  BY <1>1 DEF LocksInv, Counts
<1> QED
  BY <1>1, <1>2, GoInsideInv

(* A try that fails, and the closure's own steps.                          *)
LEMMA StayInv ==
  ASSUME LocksInv, NEW x \in Contexts, AcquireGiveUp(x) \/ Deeper(x), UNCHANGED machine
  PROVE  LocksInv'
<1>1. CASE AcquireGiveUp(x)
  <2>1. /\ lockPc[x] = "acquire" /\ lockPc' = [lockPc EXCEPT ![x] = "exit"]
        /\ UNCHANGED <<lockHolder, hw, depth, masked, inIsr, path, tries, got, lockSaved>>
    BY <1>1 DEF AcquireGiveUp, At, LockGoto
  <2> QED
    BY <2>1, InsideStepInv
<1>2. CASE Deeper(x)
  <2>1. /\ lockPc[x] = "in"
        /\ lockPc' = [lockPc EXCEPT ![x] = IF got[x] < Len(path[x]) THEN "enter" ELSE "release"]
        /\ UNCHANGED <<lockHolder, hw, depth, masked, inIsr, path, tries, got, lockSaved>>
    BY <1>2 DEF Deeper, At, LockGoto
  <2>2. CASE got[x] < Len(path[x])
    <3>1. lockPc' = [lockPc EXCEPT ![x] = "enter"]
      BY <2>1, <2>2
    <3> QED
      BY <2>1, <2>2, <3>1, InsideStepInv
  <2>3. CASE ~(got[x] < Len(path[x]))
    <3>1. lockPc' = [lockPc EXCEPT ![x] = "release"]
      BY <2>1, <2>3
    <3> QED
      BY <2>1, <3>1, InsideStepInv
  <2> QED
    BY <2>2, <2>3
<1> QED
  BY <1>1, <1>2

(* Release unmarks the innermost lock, which nobody else is inside.        *)
LEMMA ReleaseInv ==
  ASSUME LocksInv, NEW x \in Contexts, Release(x), UNCHANGED machine
  PROVE  LocksInv'
<1> DEFINE n == got[x]
           l == path[x][n]
<1>0. /\ lockPc[x] = "release" /\ lockPc' = [lockPc EXCEPT ![x] = "exit"]
      /\ lockHolder' = IF l \in Spinlocks THEN [lockHolder EXCEPT ![l] = NoCore] ELSE lockHolder
      /\ got' = [got EXCEPT ![x] = n - 1]
      /\ UNCHANGED <<machine, hw, depth, masked, inIsr, path, tries, lockSaved>>
  BY DEF Release, At, LockGoto
<1>1. /\ \A y \in Contexts : got[y] \in Nat
      /\ n = got[x] /\ n \in Nat /\ 0 < n /\ n <= Len(path[x]) /\ Entered(x) = n /\ n - 1 \in Nat
      /\ got'[x] = n - 1 /\ \A y \in Contexts \ {x} : got'[y] = got[y]
      /\ \A c \in Cores : Isr(c) \in Contexts /\ Task(c) \in Contexts
  <2>1. got \in [Contexts -> Nat] /\ n = got[x] /\ 0 < n /\ n <= Len(path[x]) /\ Entered(x) = n
    BY <1>0 DEF LocksInv, TypeLocks, Counts
  <2>2. \A c \in Cores : Isr(c) \in Contexts /\ Task(c) \in Contexts
    BY TwoContexts DEF LocksInv
  <2> QED
    BY <1>0, <2>1, <2>2
<1>2. /\ path[x] \in Paths /\ DOMAIN path[x] = 1 .. Len(path[x]) /\ Len(path[x]) \in Nat
  BY <1>1, PathLocks, EmptySeq DEF LocksInv, TypeLocks
<1>3. TypeLocks'
  BY <1>0, <1>1 DEF LocksInv, TypeLocks
<1>4. Counts'
  BY <1>0, <1>1 DEF LocksInv, TypeLocks, Counts, Entered, Target
<1>5. Masking'
  BY <1>0, <1>1 DEF LocksInv, TypeLocks, Masking, Entered
<1>6. Depths'
  <2>1. \A y \in Contexts : HwEntered(y)' = HwEntered(y) /\ (lockPc'[y] = "hw" => lockPc[y] = "hw")
    BY <1>0 DEF LocksInv, TypeLocks, HwEntered, Entered
  <2> QED
    BY <1>0, <1>1, <2>1 DEF LocksInv, Depths, XTENSA
<1> HIDE DEF n, l
<1>7. ASSUME NEW y \in Contexts, NEW i \in Nat, i \in 1 .. got'[y], path[y][i] \in Spinlocks
      PROVE  i \in 1 .. got[y] /\ path[y][i] # l
  <2>1. i \in 1 .. got[y] /\ (y = x => i < n)
    BY <1>1, <1>7
  <2>2. ASSUME path[y][i] = l PROVE FALSE
    <3>1. n \in 1 .. got[x] /\ path[x][n] = path[y][i]
      BY <1>1, <2>2 DEF n, l
    <3>2. y = x
      BY <1>7, <2>1, <3>1, InsideExclusive
    <3>3. i \in DOMAIN path[x] /\ n \in DOMAIN path[x] /\ path[x][n] \in Spinlocks
      BY <1>1, <1>2, <1>7, <2>1, <3>1, <3>2
    <3> QED
      BY <1>2, <2>1, <3>1, <3>2, <3>3, SpinlockAssumption
  <2> QED
    BY <2>1, <2>2
<1>8. ASSUME NEW k \in Spinlocks, lockHolder'[k] # NoCore
      PROVE  \E y \in Contexts : CoreOf(y) = lockHolder'[k] /\ \E i \in 1 .. got'[y] : path[y][i] = k
  <2>1. k # l /\ lockHolder'[k] = lockHolder[k]
    BY <1>0, <1>8 DEF LocksInv, TypeLocks
  <2>2. PICK y \in Contexts : CoreOf(y) = lockHolder[k] /\ \E i \in 1 .. got[y] : path[y][i] = k
    BY <1>8, <2>1 DEF LocksInv, Holders
  <2>3. PICK i \in 1 .. got[y] : path[y][i] = k
    BY <2>2
  <2>4. i \in 1 .. got'[y]
    <3>1. y = x => i # n
      BY <2>1, <2>3 DEF l
    <3> QED
      BY <1>1, <3>1 DEF n
  <2> QED
    BY <2>1, <2>2, <2>3, <2>4
<1>9. Holders'
  <2>1. ASSUME NEW y \in Contexts, NEW i \in Nat, i \in 1 .. got'[y], path[y][i] \in Spinlocks
        PROVE  lockHolder'[path[y][i]] = CoreOf(y)
    <3>1. i \in 1 .. got[y] /\ path[y][i] # l
      BY <1>7, <2>1
    <3>2. lockHolder[path[y][i]] = CoreOf(y)
      BY <2>1, <3>1 DEF LocksInv, Holders
    <3> QED
      BY <1>0, <2>1, <3>1, <3>2 DEF LocksInv, TypeLocks
  <2> QED
    BY <1>0, <1>8, <2>1 DEF Holders
<1> QED
  BY <1>3, <1>4, <1>5, <1>6, <1>9 DEF LocksInv

(* Leaving a section restores what its cs_enter saved.                     *)
LEMMA UnmaskInv ==
  ASSUME LocksInv, NEW x \in Contexts, Active(x), Entered(x) > 0, Unmask(x), inIsr' = inIsr,
         \A y \in Contexts \ {x} : lockPc'[y] = lockPc[y]
  PROVE  /\ lockSaved' \in [Contexts -> Seq(BOOLEAN)] /\ masked' \in [Cores -> BOOLEAN]
         /\ Entered(x) \in Nat /\ Entered(x)' = Entered(x) - 1
         /\ \A y \in Contexts \ {x} : Entered(y)' = Entered(y)
         /\ Masking'
<1> DEFINE c == CoreOf(x)
           s == lockSaved[x]
           n == Len(s)
<1>1. /\ c \in Cores /\ (x = Task(c) \/ x = Isr(c))
      /\ \A d \in Cores : Task(d) \in Contexts /\ Isr(d) \in Contexts
      /\ \A d \in Cores : Task(d) # Isr(d) /\ (d # c => Task(d) # x /\ Isr(d) # x)
      /\ x = Task(c) => ~inIsr[c]
      /\ x = Isr(c) => inIsr[c]
  BY TwoContexts DEF LocksInv
<1>2. /\ masked' = [masked EXCEPT ![c] = s[n]]
      /\ lockSaved' = [lockSaved EXCEPT ![x] = SubSeq(s, 1, n - 1)]
      /\ s \in Seq(BOOLEAN) /\ n > 0
  BY DEF Unmask, LocksInv, TypeLocks, Entered
<1>3. /\ SubSeq(s, 1, n - 1) \in Seq(BOOLEAN) /\ Len(SubSeq(s, 1, n - 1)) = n - 1
      /\ DOMAIN SubSeq(s, 1, n - 1) = 1 .. n - 1
      /\ s[n] \in BOOLEAN /\ DOMAIN s = 1 .. n /\ n \in Nat
      /\ \A k \in 1 .. n - 1 : SubSeq(s, 1, n - 1)[k] = s[k]
  BY <1>2, SavedPop
<1>4. /\ lockSaved' \in [Contexts -> Seq(BOOLEAN)] /\ masked' \in [Cores -> BOOLEAN]
      /\ lockSaved'[x] = SubSeq(s, 1, n - 1)
      /\ \A y \in Contexts \ {x} : lockSaved'[y] = lockSaved[y]
      /\ masked'[c] = s[n] /\ \A d \in Cores \ {c} : masked'[d] = masked[d]
  BY <1>1, <1>2, <1>3 DEF LocksInv, TypeLocks
<1>5. /\ Entered(x) = n /\ Entered(x)' = n - 1
      /\ \A y \in Contexts \ {x} : Entered(y)' = Entered(y)
  BY <1>3, <1>4 DEF Entered
<1>6. /\ DOMAIN lockSaved'[x] = 1 .. n - 1 /\ DOMAIN lockSaved[x] = 1 .. n
      /\ \A k \in 1 .. n - 1 : lockSaved'[x][k] = lockSaved[x][k]
      /\ masked'[c] = lockSaved[x][n]
  BY <1>3, <1>4
<1> HIDE DEF c, s, n
<1>7. ASSUME NEW d \in Cores
      PROVE  /\ inIsr[d] => masked'[d] /\ Entered(Task(d))' = 0
             /\ ~inIsr[d] => lockPc'[Isr(d)] = "idle"
             /\ Entered(Task(d))' > 0 => masked'[d]
             /\ \A k \in DOMAIN lockSaved'[Task(d)] : k > 1 => lockSaved'[Task(d)][k] = TRUE
             /\ \A k \in DOMAIN lockSaved'[Isr(d)] : lockSaved'[Isr(d)][k] = TRUE
  <2>1. CASE d # c
    <3>1. Task(d) \in Contexts \ {x} /\ Isr(d) \in Contexts \ {x}
      BY <1>1, <2>1
    <3>2. /\ Entered(Task(d))' = Entered(Task(d)) /\ masked'[d] = masked[d]
          /\ lockSaved'[Task(d)] = lockSaved[Task(d)] /\ lockSaved'[Isr(d)] = lockSaved[Isr(d)]
      BY <1>4, <1>5, <2>1, <3>1
    <3> QED
      BY <1>1, <3>2 DEF LocksInv, Masking
  <2>2. CASE d = c /\ x = Task(c)
    <3>1. \A k \in 1 .. n : k > 1 => lockSaved[x][k] = TRUE
      BY <1>1, <1>6, <2>2 DEF LocksInv, Masking
    <3>2. n - 1 > 0 => masked'[c] = TRUE
      BY <1>3, <1>6, <3>1
    <3>3. \A k \in 1 .. n - 1 : k > 1 => lockSaved'[x][k] = TRUE
      BY <1>3, <1>6, <3>1
    <3>4. /\ ~inIsr[c] /\ Isr(c) \in Contexts \ {x} /\ lockPc[Isr(c)] = "idle"
          /\ \A k \in DOMAIN lockSaved[Isr(c)] : lockSaved[Isr(c)][k] = TRUE
      BY <1>1, <2>2 DEF LocksInv, Masking
    <3>5. \A k \in DOMAIN lockSaved'[Isr(c)] : lockSaved'[Isr(c)][k] = TRUE
      BY <1>4, <3>4
    <3> QED
      BY <1>5, <1>6, <2>2, <3>2, <3>3, <3>4, <3>5
  <2>3. CASE d = c /\ x = Isr(c)
    <3>1. \A k \in 1 .. n : lockSaved[x][k] = TRUE
      BY <1>1, <1>6, <2>3 DEF LocksInv, Masking
    <3>0. n \in 1 .. n
      BY <1>2, <1>3
    <3>2. masked'[c] = TRUE
      BY <1>6, <3>0, <3>1
    <3>3. \A k \in 1 .. n - 1 : lockSaved'[x][k] = TRUE
      BY <1>3, <1>6, <3>1
    <3>4. /\ inIsr[c] /\ Task(c) \in Contexts \ {x} /\ Entered(Task(c)) = 0
          /\ \A k \in DOMAIN lockSaved[Task(c)] : k > 1 => lockSaved[Task(c)][k] = TRUE
      BY <1>1, <2>3 DEF LocksInv, Masking
    <3>5. \A k \in DOMAIN lockSaved'[Task(c)] : k > 1 => lockSaved'[Task(c)][k] = TRUE
      BY <1>4, <3>4
    <3> QED
      BY <1>5, <1>6, <2>3, <3>2, <3>3, <3>4, <3>5
  <2> QED
    BY <1>1, <2>1, <2>2, <2>3
<1>8. Masking'
  BY <1>7 DEF Masking, Task, Isr
<1> QED
  BY <1>3, <1>4, <1>5, <1>8

(* cs_exit, and a try that does not get the hardware lock.                 *)
LEMMA LeaveInv ==
  ASSUME LocksInv, NEW x \in Contexts, CsExit(x) \/ HwGiveUp(x), UNCHANGED machine
  PROVE  LocksInv'
<1> DEFINE c == CoreOf(x)
<1>0. /\ c \in Cores /\ (x = Task(c) \/ x = Isr(c))
      /\ \A d \in Cores : Task(d) \in Contexts /\ Isr(d) \in Contexts /\ Task(d) # Isr(d)
      /\ \A d \in Cores : d # c => Task(d) # x /\ Isr(d) # x
  BY TwoContexts DEF LocksInv
<1> HIDE DEF c
<1>1. /\ Active(x) /\ lockPc[x] \in {"exit", "hw"} /\ Unmask(x)
      /\ UNCHANGED <<machine, lockHolder, inIsr, tries, got>>
      /\ lockPc' = [lockPc EXCEPT ![x] = lockPc'[x]]
      /\ path' = IF got[x] = 0 THEN [path EXCEPT ![x] = <<>>] ELSE path
      /\ lockPc'[x] = IF got[x] = 0 THEN "idle" ELSE "release"
      /\ lockPc[x] = "exit" =>
           /\ depth' = IF XTENSA THEN depth ELSE [depth EXCEPT ![c] = @ - 1]
           /\ hw' = IF ~XTENSA /\ depth[c] = 1 THEN NoCore ELSE hw
      /\ lockPc[x] = "hw" => depth[c] = 0 /\ UNCHANGED <<depth, hw>>
  <2>1. CASE CsExit(x)
    BY <2>1 DEF CsExit, At, LockGoto, c, LocksInv, TypeLocks
  <2>2. CASE HwGiveUp(x)
    <3>1. depth[c] = 0 /\ lockPc[x] = "hw"
      BY <2>2 DEF HwGiveUp, At, c
    <3>2. ~XTENSA /\ HwEntered(x) = got[x] /\ \A y \in Contexts : HwEntered(y) \in Nat
      BY <3>1, LenProperties DEF LocksInv, TypeLocks, Depths, Counts, HwEntered, Entered
    <3>3. depth[c] = HwEntered(Task(c)) + HwEntered(Isr(c))
      BY <1>0, <3>2 DEF LocksInv, Depths
    <3>4. got[x] = 0
      BY <1>0, <3>1, <3>2, <3>3
    <3> QED
      BY <2>2, <3>1, <3>4 DEF HwGiveUp, At, LockGoto, LocksInv, TypeLocks
  <2> QED
    BY <2>1, <2>2
<1>2. Entered(x) = got[x] + 1 /\ got[x] < Len(path[x]) /\ got[x] \in Nat
  BY <1>1 DEF LocksInv, TypeLocks, Counts
<1>3. \A y \in Contexts \ {x} : lockPc'[y] = lockPc[y] /\ path'[y] = path[y]
  BY <1>1 DEF LocksInv, TypeLocks
<1>4. /\ lockSaved' \in [Contexts -> Seq(BOOLEAN)] /\ masked' \in [Cores -> BOOLEAN]
      /\ Entered(x)' = got[x] /\ \A y \in Contexts \ {x} : Entered(y)' = Entered(y)
      /\ Masking'
  BY <1>1, <1>2, <1>3, UnmaskInv
<1>5. got[x] > 0 => path' = path
  BY <1>1
<1>6. ~XTENSA => \A d \in Cores : /\ depth[d] = HwEntered(Task(d)) + HwEntered(Isr(d))
                                  /\ depth[d] > 0 <=> hw = d
  BY DEF LocksInv, Depths
<1>7. /\ \A y \in Contexts : HwEntered(y) \in Nat
      /\ \A y \in Contexts \ {x} : HwEntered(y)' = HwEntered(y)
      /\ HwEntered(x)' = got[x]
      /\ HwEntered(x) = IF lockPc[x] = "hw" THEN got[x] ELSE got[x] + 1
  BY <1>1, <1>2, <1>3, <1>4, LenProperties DEF LocksInv, TypeLocks, Counts, HwEntered, Entered
<1>8. TypeLocks'
  <2>1. depth' \in [Cores -> Nat] /\ hw' \in Cores \cup {NoCore}
    <3>1. CASE lockPc[x] = "hw" \/ XTENSA
      BY <1>1, <3>1 DEF LocksInv, TypeLocks
    <3>2. CASE lockPc[x] # "hw" /\ ~XTENSA
      <4>1. depth[c] - 1 \in Nat
        BY <1>0, <1>2, <1>6, <1>7, <3>2
      <4> QED
        BY <1>0, <1>1, <3>2, <4>1 DEF LocksInv, TypeLocks
    <3> QED
      BY <3>1, <3>2
  <2> QED
    BY <1>1, <1>4, <2>1 DEF LocksInv, TypeLocks
<1>9. Counts'
  BY <1>1, <1>2, <1>3, <1>4, <1>5 DEF LocksInv, TypeLocks, Counts, Target
<1>10. Depths'
  <2>1. CASE XTENSA
    BY <1>1, <1>3, <2>1 DEF LocksInv, Depths, XTENSA
  <2>2. CASE ~XTENSA /\ lockPc[x] = "hw"
    <3>1. \A y \in Contexts : HwEntered(y)' = HwEntered(y)
      BY <1>7, <2>2
    <3> QED
      BY <1>0, <1>1, <1>6, <2>2, <3>1 DEF Depths, XTENSA
  <2>3. CASE ~XTENSA /\ lockPc[x] # "hw"
    <3>1. depth' = [depth EXCEPT ![c] = @ - 1] /\ hw' = IF depth[c] = 1 THEN NoCore ELSE hw
      BY <1>1, <2>3
    <3>2. depth[c] > 0 /\ hw = c
      BY <1>0, <1>2, <1>6, <1>7, <2>3
    <3>3. \A d \in Cores : depth'[d] = (IF d = c THEN depth[d] - 1 ELSE depth[d]) /\ depth[d] \in Nat
      BY <3>1 DEF LocksInv, TypeLocks
    <3>4. \A d \in Cores : depth'[d] > 0 <=> hw' = d
      BY <1>0, <1>6, <2>3, <3>1, <3>2, <3>3, SpinlockAssumption
    <3>6. HwEntered(x)' = HwEntered(x) - 1
      BY <1>2, <1>7, <2>3
    <3>5. ASSUME NEW d \in Cores
          PROVE  depth'[d] = HwEntered(Task(d))' + HwEntered(Isr(d))'
      <4>1. CASE d = c /\ x = Task(c)
        BY <1>0, <1>6, <1>7, <2>3, <3>3, <3>6, <4>1
      <4>2. CASE d = c /\ x = Isr(c)
        BY <1>0, <1>6, <1>7, <2>3, <3>3, <3>6, <4>2
      <4>3. CASE d # c
        BY <1>0, <1>6, <1>7, <2>3, <3>3, <4>3
      <4> QED
        BY <1>0, <4>1, <4>2, <4>3
    <3> QED
      BY <1>1, <2>3, <3>4, <3>5 DEF Depths, XTENSA
  <2> QED
    BY <2>1, <2>2, <2>3
<1>11. Holders'
  <2>1. \A y \in Contexts, i \in Nat : i \in 1 .. got[y] => path'[y] = path[y]
    BY <1>2, <1>3, <1>5
  <2>2. \A y \in Contexts : got[y] \in Nat
    BY DEF LocksInv, TypeLocks
  <2> QED
    BY <1>1, <2>1, <2>2 DEF LocksInv, Holders
<1> QED
  BY <1>4, <1>8, <1>9, <1>10, <1>11 DEF LocksInv

(* Every step keeps the invariant.                                         *)
LEMMA NextLocksInv == LocksInv /\ [LocksNext]_lockVars => LocksInv'
<1> SUFFICES ASSUME LocksInv, [LocksNext]_lockVars PROVE LocksInv'
  OBVIOUS
<1>1. CASE LocksNext
  BY <1>1, InterruptInv, StartInv, CsEnterInv, HwAcquireInv, CheckInv, AcquireInv, StayInv,
     ReleaseInv, LeaveInv DEF LocksNext
<1>2. CASE UNCHANGED lockVars
  <2>1. TypeLocks' /\ Counts'
    BY <1>2 DEF lockVars, LocksInv, TypeLocks, Counts, Entered, Target
  <2>2. Masking' /\ Depths'
    BY <1>2 DEF lockVars, LocksInv, Masking, Depths, Entered, HwEntered, XTENSA
  <2>3. Holders'
    BY <1>2 DEF lockVars, LocksInv, Holders
  <2> QED
    BY <2>1, <2>2, <2>3 DEF LocksInv
<1> QED
  BY <1>1, <1>2

----------------------------------------------------------------------------
(* Counters, masks, depth and holder agree in every state of either        *)
(* machine.                                                                *)
THEOREM LocksSafe == LocksSpec => []LocksInv
  BY InitLocksInv, NextLocksInv, PTL DEF LocksSpec

(* smp.rs: "Run `f` with exclusive access, on this core and every other";  *)
(* the re-entrance panic is out of reach; a CsCell is entered by one       *)
(* context at a time where the machine promises it.                        *)
THEOREM SectionsAreExclusive == LocksSpec => []SectionsExclude
<1>1. LocksInv => SectionsExclude
  <2> SUFFICES ASSUME LocksInv PROVE SectionsExclude
    OBVIOUS
  <2>1. LockExclusive
    BY InsideExclusive DEF LockExclusive, InData
  <2>2. NoReentry
    BY DEF LocksInv, Counts, NoReentry
  <2>3. CellExclusive
    <3> SUFFICES ASSUME NEW l \in Cells, NEW x \in Contexts, NEW y \in Contexts,
                        InData(x, l), InData(y, l), XTENSA => CoreOf(x) = CoreOf(y)
                 PROVE  x = y
      BY DEF CellExclusive
    <3>1. PICK i \in 1 .. got[x] : path[x][i] = l
      BY DEF InData
    <3>2. PICK j \in 1 .. got[y] : path[y][j] = l
      BY DEF InData
    <3> QED
      BY <3>1, <3>2, InsideExclusive
  <2> QED
    BY <2>1, <2>2, <2>3 DEF SectionsExclude
<1> QED
  BY <1>1, LocksSafe, PTL

(***************************************************************************)
(* Sleeping and software timers.                                           *)
(***************************************************************************)

(* A call in progress: which it is, for whom, and what it has read.        *)
TimeDoing ==
  [at : {"task", "store", "read", "read_hi", "read_lo", "now", "callbacks"}, lo : Nat, hi : Nat,
   for : {"none", "trap", "wake", "timers", "sleep", "register"},
   who : Sleepers \cup Callbacks \cup {"none"}, ms : Nat, cbs : SUBSET Callbacks]

TimeTypes ==
  /\ count \in [lo : Nat, hi : Nat] /\ ticks \in Nat
  /\ doing \in [TimeCores -> TimeDoing]
  /\ until \in [Sleepers -> Nat] /\ asleep \subseteq Sleepers
  /\ due \in [Sleepers \cup Callbacks -> Nat] /\ early \in BOOLEAN
  /\ table \in [TimerSlots -> [id : Nat, fire_at : Nat, interval : Nat,
                               callback : Callbacks \cup {"none"}]]
  /\ next_id \in Nat
  /\ {regs, cancels, runs} \subseteq [Callbacks -> Nat]

(* Who a call is for goes with what the call is; only the end of           *)
(* process_timers has callbacks to run.                                    *)
CallsMatch ==
  \A c \in TimeCores :
    /\ (doing[c].for = "sleep") <=> (doing[c].who \in Sleepers)
    /\ (doing[c].for = "register") <=> (doing[c].who \in Callbacks)
    /\ doing[c].for = "register" => doing[c].ms > 0
    /\ doing[c].at # "callbacks" => doing[c].cbs = {}
    /\ doing[c].at = "callbacks" => doing[c].who = "none"

(* An entry is empty exactly if it names no callback, and periodic exactly *)
(* if its callback is.                                                     *)
EntriesMatch ==
  \A i \in TimerSlots :
    /\ (table[i].callback = "none") <=> (table[i] = NoTimer)
    /\ (table[i].interval > 0) <=> (table[i].callback \in Periodic)

(* A callback has one entry, or one caller about to make it one.           *)
OnePlace ==
  /\ \A i, j \in TimerSlots : table[i].callback = table[j].callback /\ table[i].callback # "none" => i = j
  /\ \A c \in TimeCores, i \in TimerSlots : doing[c].who = table[i].callback => doing[c].who = "none"
  /\ \A c, d \in TimeCores : doing[c].who = doing[d].who /\ doing[c].who # "none" => c = d

(* Registrations, counted where they are: TimersConserved without the      *)
(* cardinalities.                                                          *)
Listed(k) == \E i \in TimerSlots : table[i].callback = k
One(b) == IF b THEN 1 ELSE 0
CountRight ==
  \A k \in Callbacks :
    regs[k] = One(Listed(k)) + cancels[k] + runs[k]
                + (IF k \in Periodic THEN 0 ELSE One(k \in doing[0].cbs) + One(k \in doing[1].cbs))

(* Where the counter is read whole: what a call has read is no later than  *)
(* now, and nobody's deadline is before the tick that was asked for.       *)
ArmTime ==
  timeOn = "arm" =>
    /\ ~early /\ Value(count) = ticks
    /\ \A c \in TimeCores :
         /\ doing[c].at \notin {"store", "read_hi", "read_lo"}
         /\ doing[c].at \in {"now", "callbacks"} => Value(doing[c]) <= ticks
         /\ doing[c].who # "none" /\ doing[c].at = "read" => due[doing[c].who] <= ticks + doing[c].ms
         /\ doing[c].who # "none" /\ doing[c].at = "now" => due[doing[c].who] <= Value(doing[c]) + doing[c].ms
         /\ doing[c].who \in Sleepers => doing[c].who \notin asleep
    /\ \A t \in asleep : until[t] # 0 => due[t] <= until[t]
    /\ \A i \in TimerSlots : table[i].callback # "none" /\ table[i].interval = 0 =>
                               due[table[i].callback] <= table[i].fire_at

TimersInv == TimeTypes /\ CallsMatch /\ EntriesMatch /\ OnePlace /\ CountRight /\ ArmTime

LEMMA ValueNat == ASSUME NEW w \in [lo : Nat, hi : Nat] PROVE Value(w) \in Nat
  BY TimersAssumption DEF Value

LEMMA ValueDoing == ASSUME NEW w \in TimeDoing PROVE Value(w) \in Nat
  BY TimersAssumption DEF Value, TimeDoing

LEMMA SplitValue ==
  ASSUME NEW n \in Nat
  PROVE  Split(n) \in [lo : Nat, hi : Nat] /\ Value(Split(n)) = n
  BY TimersAssumption DEF Value, Split

LEMMA RestTyped == Rest \in TimeDoing
  BY DEF Rest, TimeDoing

LEMMA FirstFree ==
  ASSUME NEW S \in SUBSET TimerSlots, S # {}
  PROVE  Min(S) \in S
<1> DEFINE R == {ss \in Nat \X Nat : ss[1] < ss[2]}
<1>0. IsWellFoundedOn(R, Nat)
  BY NatLessThanWellFounded DEF OpToRel
<1>1. S \in SUBSET Nat
  BY TimersAssumption DEF TimerSlots
<1> HIDE DEF R
<1>2. PICK x \in S : \A y \in S : ~(<<y, x>> \in R)
  BY <1>0, <1>1, WFMin, Zenon
<1>3. \A y \in S : ~(y < x)
  BY <1>1, <1>2, Zenon DEF R
<1>4. \A y \in S : x <= y
  BY <1>1, <1>3
<1> QED
  BY <1>4 DEF Min

(* The cardinalities of TimersConserved.                                   *)
LEMMA CountIsConserved ==
  ASSUME TimeTypes, OnePlace, CountRight
  PROVE  TimersConserved
<1>1. ASSUME NEW k \in Callbacks PROVE Cardinality(InTable(k)) = One(Listed(k))
  <2>1. CASE Listed(k)
    <3>1. PICK i \in TimerSlots : table[i].callback = k
      BY <2>1 DEF Listed
    <3>2. InTable(k) = {i}
      BY <3>1, TimersAssumption DEF InTable, OnePlace
    <3> QED
      BY <2>1, <3>2, FS_Singleton DEF One
  <2>2. CASE ~Listed(k)
    <3>1. InTable(k) = {}
      BY <2>2 DEF InTable, Listed
    <3> QED
      BY <2>2, <3>1, FS_EmptySet DEF One
  <2> QED
    BY <2>1, <2>2
<1>2. Cardinality({0}) = 1 /\ Cardinality({1}) = 1 /\ Cardinality({0} \cup {1}) = 2
  <2>1. Cardinality({0}) = 1 /\ Cardinality({1}) = 1 /\ IsFiniteSet({0})
    BY FS_Singleton, Zenon
  <2>2. 1 \notin {0}
    OBVIOUS
  <2> QED
    BY <2>1, <2>2, FS_AddElement
<1>3. ASSUME NEW k \in Callbacks
      PROVE  Cardinality({c \in TimeCores : k \in doing[c].cbs}) = One(k \in doing[0].cbs) + One(k \in doing[1].cbs)
  <2>1. CASE k \in doing[0].cbs /\ k \in doing[1].cbs
    <3>1. {c \in TimeCores : k \in doing[c].cbs} = {0} \cup {1}
      BY <2>1 DEF TimeCores
    <3>2. Cardinality({c \in TimeCores : k \in doing[c].cbs}) = 2
      BY <1>2, <3>1, Zenon
    <3> QED
      BY <2>1, <3>2 DEF One
  <2>2. CASE k \in doing[0].cbs /\ k \notin doing[1].cbs
    <3>1. {c \in TimeCores : k \in doing[c].cbs} = {0}
      BY <2>2 DEF TimeCores
    <3>2. Cardinality({c \in TimeCores : k \in doing[c].cbs}) = 1
      BY <1>2, <3>1, Zenon
    <3> QED
      BY <2>2, <3>2 DEF One
  <2>3. CASE k \notin doing[0].cbs /\ k \in doing[1].cbs
    <3>1. {c \in TimeCores : k \in doing[c].cbs} = {1}
      BY <2>3 DEF TimeCores
    <3>2. Cardinality({c \in TimeCores : k \in doing[c].cbs}) = 1
      BY <1>2, <3>1, Zenon
    <3> QED
      BY <2>3, <3>2 DEF One
  <2>4. CASE k \notin doing[0].cbs /\ k \notin doing[1].cbs
    <3>1. {c \in TimeCores : k \in doing[c].cbs} = {}
      BY <2>4 DEF TimeCores
    <3>2. Cardinality({c \in TimeCores : k \in doing[c].cbs}) = 0
      BY <3>1, FS_EmptySet, Zenon
    <3> QED
      BY <2>4, <3>2 DEF One
  <2> QED
    BY <2>1, <2>2, <2>3, <2>4
<1> QED
  BY <1>1, <1>3 DEF TimersConserved, CountRight

LEMMA InitTimersInv == TimersInit => TimersInv
<1> SUFFICES ASSUME TimersInit PROVE TimersInv
  OBVIOUS
<1>1. Split(0) \in [lo : Nat, hi : Nat] /\ Value(Split(0)) = 0
  BY SplitValue
<1>2. NoTimer \in [id : Nat, fire_at : Nat, interval : Nat, callback : Callbacks \cup {"none"}]
  BY DEF NoTimer
<1>3. TimeTypes
  <2>1. doing \in [TimeCores -> TimeDoing]
    BY RestTyped DEF TimersInit
  <2>2. regs \in [Callbacks -> Nat] /\ cancels = regs /\ runs = regs
    BY DEF TimersInit
  <2>3. table \in [TimerSlots -> [id : Nat, fire_at : Nat, interval : Nat, callback : Callbacks \cup {"none"}]]
    BY <1>2 DEF TimersInit
  <2> QED
    BY <1>1, <2>1, <2>2, <2>3 DEF TimersInit, TimeTypes
<1>4. CallsMatch
  BY TimersAssumption DEF TimersInit, CallsMatch, Rest
<1>5. EntriesMatch
  BY TimersAssumption DEF TimersInit, EntriesMatch, NoTimer
<1>6. OnePlace
  BY DEF TimersInit, OnePlace, NoTimer, Rest
<1>7. CountRight
  BY TimersAssumption DEF TimersInit, CountRight, NoTimer, Rest, One, Listed, TimeCores
<1>8. ArmTime
  BY <1>1 DEF TimersInit, ArmTime, NoTimer, Rest
<1> QED
  BY <1>3, <1>4, <1>5, <1>6, <1>7, <1>8 DEF TimersInv

(* A step that leaves the table alone and takes one core from a step of    *)
(* its call to the next, with nothing to run.                              *)
LEMMA CoreMoves ==
  ASSUME TimersInv, NEW c \in TimeCores, NEW x \in TimeDoing,
         doing' = [doing EXCEPT ![c] = x], doing[c].cbs = {}, x.cbs = {}, x.at # "callbacks",
         \/ x.who = "none" /\ x.for \notin {"sleep", "register"}
         \/ x.who = doing[c].who /\ x.for = doing[c].for /\ x.ms = doing[c].ms,
         UNCHANGED tableVars, count' \in [lo : Nat, hi : Nat], ticks' \in Nat,
         until' \in [Sleepers -> Nat], asleep' \subseteq Sleepers,
         due' \in [Sleepers \cup Callbacks -> Nat], early' \in BOOLEAN
  PROVE  TimeTypes' /\ CallsMatch' /\ EntriesMatch' /\ OnePlace' /\ CountRight'
<1>0. doing'[c] = x /\ \A d \in TimeCores \ {c} : doing'[d] = doing[d]
  BY DEF TimersInv, TimeTypes
<1>1. TimeTypes'
  BY <1>0 DEF TimersInv, TimeTypes, tableVars
<1>2. CallsMatch'
  BY <1>0, TimersAssumption DEF TimersInv, CallsMatch
<1>3. EntriesMatch'
  BY DEF TimersInv, EntriesMatch, tableVars
<1>4. OnePlace'
  BY <1>0 DEF TimersInv, OnePlace, tableVars
<1>5. CountRight'
  <2>1. \A d \in TimeCores : doing'[d].cbs = doing[d].cbs
    BY <1>0
  <2>2. \A k \in Callbacks : Listed(k)' <=> Listed(k)
    BY DEF Listed, tableVars
  <2> QED
    BY <2>1, <2>2 DEF TimersInv, CountRight, One, TimeCores, tableVars
<1> QED
  BY <1>1, <1>2, <1>3, <1>4, <1>5

LEMMA TickInv == TimersInv /\ Tick => TimersInv'
<1> SUFFICES ASSUME TimersInv, Tick PROVE TimersInv'
  OBVIOUS
<1> DEFINE new == Split(ticks')
           x == IF timeOn = "arm" THEN [Rest EXCEPT !.at = "read", !.for = "trap"]
                ELSE [Rest EXCEPT !.at = "store", !.lo = new.lo, !.hi = new.hi]
<1>1. ticks' = ticks + 1 /\ ticks' \in Nat /\ ticks \in Nat
  BY DEF Tick, TimersInv, TimeTypes
<1>2. new \in [lo : Nat, hi : Nat] /\ Value(new) = ticks'
  BY <1>1, SplitValue
<1>3. 0 \in TimeCores /\ doing[0].at = "task" /\ doing[0].cbs = {}
  BY DEF Tick, TimersInv, CallsMatch, TimeCores
<1>4. doing' = [doing EXCEPT ![0] = x]
  BY DEF Tick
<1>5. count' \in [lo : Nat, hi : Nat] /\ (timeOn = "arm" => count' = new)
  BY <1>2 DEF Tick, TimersInv, TimeTypes
<1> HIDE DEF new
<1>6. x \in TimeDoing /\ x.cbs = {} /\ x.who = "none" /\ x.for \notin {"sleep", "register"}
      /\ x.at # "callbacks"
  BY <1>2 DEF Rest, TimeDoing
<1>7. UNCHANGED <<timeOn, timeUse, due, early, sleepVars, tableVars>>
  BY DEF Tick
<1>8. (timeOn = "arm") => x.at = "read"
  BY DEF Rest
<1> HIDE DEF x
<1>9. TimeTypes' /\ CallsMatch' /\ EntriesMatch' /\ OnePlace' /\ CountRight'
  BY <1>1, <1>3, <1>4, <1>5, <1>6, <1>7, CoreMoves DEF TimersInv, TimeTypes, sleepVars
<1>10. ArmTime'
  <2> SUFFICES ASSUME timeOn = "arm" PROVE ArmTime'
    BY <1>7 DEF ArmTime
  <2>1. doing'[0] = x /\ \A d \in TimeCores \ {0} : doing'[d] = doing[d]
    BY <1>3, <1>4 DEF TimersInv, TimeTypes
  <2>2. \A d \in TimeCores : doing[d] \in TimeDoing
    BY DEF TimersInv, TimeTypes
  <2>3. \A d \in TimeCores : Value(doing[d]) \in Nat /\ doing[d].ms \in Nat
    BY <2>2, ValueDoing DEF TimeDoing
  <2>4. \A w \in TimeDoing : w.who # "none" => due[w.who] \in Nat
    BY DEF TimersInv, TimeTypes, TimeDoing
  <2>5. Value(count') = ticks'
    BY <1>2, <1>5
  <2> QED
    BY <1>1, <1>6, <1>7, <1>8, <2>1, <2>2, <2>3, <2>4, <2>5, TimersAssumption
       DEF TimersInv, ArmTime, sleepVars, tableVars
<1> QED
  BY <1>9, <1>10 DEF TimersInv

(* The same for the steps at which no tick is counted: the part of ArmTime *)
(* that is about the core that moves is left to show.                      *)
LEMMA CallMoves ==
  ASSUME TimersInv, NEW c \in TimeCores, NEW x \in TimeDoing,
         doing' = [doing EXCEPT ![c] = x], doing[c].cbs = {}, x.cbs = {}, x.at # "callbacks",
         \/ x.who = "none" /\ x.for \notin {"sleep", "register"}
         \/ x.who = doing[c].who /\ x.for = doing[c].for /\ x.ms = doing[c].ms,
         count' \in [lo : Nat, hi : Nat],
         UNCHANGED <<timeOn, ticks, due, early, sleepVars, tableVars>>,
         timeOn = "arm" =>
            /\ count' = count
            /\ x.at \notin {"store", "read_hi", "read_lo"}
            /\ x.at = "now" => Value(x) <= ticks
            /\ x.who # "none" /\ x.at = "read" => due[x.who] <= ticks + x.ms
            /\ x.who # "none" /\ x.at = "now" => due[x.who] <= Value(x) + x.ms
  PROVE  TimersInv'
<1>1. TimeTypes' /\ CallsMatch' /\ EntriesMatch' /\ OnePlace' /\ CountRight'
  BY CoreMoves DEF TimersInv, TimeTypes, sleepVars
<1>2. ArmTime'
  <2> SUFFICES ASSUME timeOn = "arm" PROVE ArmTime'
    BY DEF ArmTime
  <2>1. doing'[c] = x /\ \A d \in TimeCores \ {c} : doing'[d] = doing[d]
    BY DEF TimersInv, TimeTypes
  <2> QED
    BY <2>1, TimersAssumption DEF TimersInv, ArmTime, sleepVars, tableVars, CallsMatch
<1> QED
  BY <1>1, <1>2 DEF TimersInv

LEMMA TickStoredInv == TimersInv /\ TickStored => TimersInv'
<1> SUFFICES ASSUME TimersInv, TickStored PROVE TimersInv'
  OBVIOUS
<1> DEFINE x == [Rest EXCEPT !.at = "read", !.for = "trap"]
<1>1. 0 \in TimeCores /\ doing[0] \in TimeDoing /\ doing[0].cbs = {}
  BY DEF TickStored, TimersInv, TimeTypes, CallsMatch, TimeCores
<1>2. x \in TimeDoing /\ x.cbs = {} /\ x.who = "none" /\ x.for = "trap" /\ x.at = "read"
  BY DEF Rest, TimeDoing
<1>3. timeOn # "arm"
  BY <1>1 DEF TickStored, TimersInv, ArmTime
<1>4. count' \in [lo : Nat, hi : Nat]
  BY <1>1 DEF TickStored, TimeDoing
<1>5. doing' = [doing EXCEPT ![0] = x] /\ UNCHANGED <<timeOn, ticks, due, early, sleepVars, tableVars>>
  BY DEF TickStored
<1> QED
  BY <1>1, <1>2, <1>3, <1>4, <1>5, CallMoves

LEMMA TickOtherInv == TimersInv /\ TickOther => TimersInv'
<1> SUFFICES ASSUME TimersInv, TickOther PROVE TimersInv'
  OBVIOUS
<1> DEFINE x == [Rest EXCEPT !.at = "read", !.for = "trap"]
<1>1. 1 \in TimeCores /\ doing[1].cbs = {}
  BY DEF TickOther, TimersInv, CallsMatch, TimeCores
<1>2. x \in TimeDoing /\ x.cbs = {} /\ x.who = "none" /\ x.for = "trap" /\ x.at = "read"
  BY DEF Rest, TimeDoing
<1>3. timeOn # "arm" /\ count' \in [lo : Nat, hi : Nat]
  BY DEF TickOther, TimersInv, TimeTypes
<1>4. doing' = [doing EXCEPT ![1] = x] /\ UNCHANGED <<timeOn, ticks, due, early, sleepVars, tableVars>>
  BY DEF TickOther
<1> QED
  BY <1>1, <1>2, <1>3, <1>4, CallMoves

(* What a read adds to a call.                                             *)
LEMMA HaveMoves ==
  ASSUME TimersInv, NEW c \in TimeCores, NEW w \in [lo : Nat, hi : Nat],
         NEW at \in {"read_hi", "read_lo", "now"}, Have(c, w, at), doing[c].at # "callbacks",
         UNCHANGED <<timeOn, timeUse, count, ticks, due, early, sleepVars, tableVars>>,
         timeOn = "arm" => doing[c].at = "read" /\ at = "now" /\ w = count
  PROVE  TimersInv'
<1> DEFINE x == [doing[c] EXCEPT !.lo = w.lo, !.hi = w.hi, !.at = at]
<1>1. doing \in [TimeCores -> TimeDoing] /\ doing[c] \in TimeDoing /\ doing[c].cbs = {}
  BY DEF TimersInv, TimeTypes, CallsMatch
<1>2. doing' = [doing EXCEPT ![c] = x]
  BY <1>1 DEF Have
<1>3. /\ x \in TimeDoing /\ x.cbs = {} /\ x.at = at /\ x.at # "callbacks"
      /\ x.who = doing[c].who /\ x.for = doing[c].for /\ x.ms = doing[c].ms
  BY <1>1 DEF TimeDoing
<1>4. x.lo = w.lo /\ x.hi = w.hi
  BY <1>1 DEF TimeDoing
<1>5. Value(x) = Value(w)
  BY <1>4 DEF Value
<1> HIDE DEF x
<1>6. count' \in [lo : Nat, hi : Nat] /\ count' = count /\ ticks \in Nat /\ doing[c].ms \in Nat
  BY <1>1 DEF TimersInv, TimeTypes, TimeDoing
<1>7. ASSUME timeOn = "arm"
      PROVE  /\ x.at = "now" /\ Value(x) = ticks
             /\ x.who # "none" => due[x.who] <= ticks + x.ms
  BY <1>3, <1>5, <1>7 DEF TimersInv, ArmTime
<1>8. timeOn = "arm" => /\ count' = count /\ x.at = "now" /\ Value(x) <= ticks
                        /\ x.who # "none" => due[x.who] <= Value(x) + x.ms
  BY <1>6, <1>7
<1> QED
  BY <1>1, <1>2, <1>3, <1>6, <1>8, CallMoves

LEMMA ReadNowInv == ASSUME TimersInv, NEW c \in TimeCores, ReadNow(c) PROVE TimersInv'
<1>1. count \in [lo : Nat, hi : Nat] /\ timeOn \in {"arm"} \cup {timeOn}
  BY DEF TimersInv, TimeTypes
<1>2. [count EXCEPT !.hi = 0] \in [lo : Nat, hi : Nat] /\ [count EXCEPT !.lo = 0] \in [lo : Nat, hi : Nat]
  BY <1>1
<1>3. doing[c].at = "read" /\ UNCHANGED <<timeOn, timeUse, count, ticks, due, early, sleepVars, tableVars>>
  BY DEF ReadNow
<1>4. CASE timeOn = "arm" /\ Have(c, count, "now")
  BY <1>1, <1>3, <1>4, HaveMoves
<1>5. CASE timeOn # "arm" /\ Have(c, [count EXCEPT !.hi = 0], "read_hi")
  BY <1>2, <1>3, <1>5, HaveMoves
<1>6. CASE timeOn # "arm" /\ Have(c, [count EXCEPT !.lo = 0], "read_lo")
  BY <1>2, <1>3, <1>6, HaveMoves
<1> QED
  BY <1>4, <1>5, <1>6 DEF ReadNow

LEMMA ReadRestInv == ASSUME TimersInv, NEW c \in TimeCores, ReadRest(c) PROVE TimersInv'
<1>1. count \in [lo : Nat, hi : Nat] /\ doing[c] \in TimeDoing
  BY DEF TimersInv, TimeTypes
<1>2. /\ [lo |-> doing[c].lo, hi |-> count.hi] \in [lo : Nat, hi : Nat]
      /\ [lo |-> count.lo, hi |-> doing[c].hi] \in [lo : Nat, hi : Nat]
  BY <1>1 DEF TimeDoing
<1>3. doing[c].at \in {"read_hi", "read_lo"} /\ UNCHANGED <<timeOn, timeUse, count, ticks, due, early, sleepVars, tableVars>>
  BY DEF ReadRest
<1>4. timeOn # "arm"
  BY <1>3 DEF TimersInv, ArmTime
<1>5. CASE Have(c, [lo |-> doing[c].lo, hi |-> count.hi], "now")
  BY <1>2, <1>3, <1>4, <1>5, HaveMoves
<1>6. CASE Have(c, [lo |-> count.lo, hi |-> doing[c].hi], "now")
  BY <1>2, <1>3, <1>4, <1>6, HaveMoves
<1> QED
  BY <1>5, <1>6 DEF ReadRest

LEMMA CallbacksDoneInv == ASSUME TimersInv, NEW c \in TimeCores, CallbacksDone(c) PROVE TimersInv'
<1> DEFINE x == IF timeOn = "arm" THEN [doing[c] EXCEPT !.at = "now", !.for = "wake"] ELSE Rest
<1>1. doing \in [TimeCores -> TimeDoing] /\ doing[c] \in TimeDoing /\ doing[c].cbs = {} /\ doing[c].at = "callbacks"
  BY DEF TimersInv, TimeTypes, CallbacksDone
<1>2. doing' = [doing EXCEPT ![c] = x]
  BY <1>1 DEF CallbacksDone
<1>3. doing[c].who = "none" /\ UNCHANGED <<timeOn, count, ticks, due, early, sleepVars, tableVars>>
  BY <1>1 DEF TimersInv, CallsMatch, CallbacksDone
<1>4. x \in TimeDoing /\ x.cbs = {} /\ x.who = "none" /\ x.at # "callbacks" /\ x.for \notin {"sleep", "register"}
  <2>1. CASE timeOn = "arm"
    BY <1>1, <1>3, <2>1 DEF TimeDoing
  <2>2. CASE timeOn # "arm"
    BY <2>2, RestTyped DEF Rest
  <2> QED
    BY <2>1, <2>2
<1>5. timeOn = "arm" => x.at = "now" /\ Value(x) <= ticks
  <2> SUFFICES ASSUME timeOn = "arm" PROVE x.at = "now" /\ Value(x) <= ticks
    OBVIOUS
  <2>1. x.at = "now" /\ x.lo = doing[c].lo /\ x.hi = doing[c].hi
    BY <1>1 DEF TimeDoing
  <2>2. Value(x) = Value(doing[c])
    BY <2>1 DEF Value
  <2> QED
    BY <1>1, <2>1, <2>2 DEF TimersInv, ArmTime
<1>6. count' \in [lo : Nat, hi : Nat] /\ count' = count
  BY <1>3 DEF TimersInv, TimeTypes
<1> HIDE DEF x
<1> QED
  BY <1>1, <1>2, <1>3, <1>4, <1>5, <1>6, CallMoves

(* A call begins: its caller neither sleeps, nor is in the table, nor      *)
(* inside another call.                                                    *)
LEMMA CallInv ==
  ASSUME TimersInv, NEW c \in TimeCores, NEW who \in Sleepers \cup Callbacks, NEW ms \in 1..2,
         NEW for \in {"sleep", "register"}, (for = "sleep") <=> (who \in Sleepers),
         who \notin asleep, ~Listed(who), ~Registering(who), Call(c, for, who, ms)
  PROVE  TimersInv'
<1> DEFINE x == [Rest EXCEPT !.at = "read", !.for = for, !.who = who, !.ms = ms]
<1>1. /\ doing[c].at = "task" /\ doing' = [doing EXCEPT ![c] = x] /\ due' = [due EXCEPT ![who] = ticks + ms]
      /\ UNCHANGED <<timeOn, timeUse, count, ticks, early, sleepVars, tableVars>>
  BY DEF Call
<1>2. x \in TimeDoing /\ x.at = "read" /\ x.cbs = {} /\ x.for = for /\ x.who = who /\ x.ms = ms
  <2>1. ms \in Nat /\ who \in Sleepers \cup Callbacks \cup {"none"}
    OBVIOUS
  <2>2. x.at = "read" /\ x.cbs = {} /\ x.for = for /\ x.who = who /\ x.ms = ms /\ x.lo = 0 /\ x.hi = 0
    BY DEF Rest
  <2>3. x \in TimeDoing
    BY <2>1, RestTyped DEF TimeDoing
  <2> QED
    BY <2>2, <2>3
<1> HIDE DEF x
<1>3. doing'[c] = x /\ \A d \in TimeCores \ {c} : doing'[d] = doing[d] /\ doing[d].who # who
  BY <1>1 DEF TimersInv, TimeTypes, Registering
<1>4. due'[who] = ticks + ms /\ \A y \in Sleepers \cup Callbacks : y # who => due'[y] = due[y]
  BY <1>1 DEF TimersInv, TimeTypes
<1>5. who # "none" /\ ticks \in Nat /\ ms > 0 /\ ms \in Nat
  BY TimersAssumption DEF TimersInv, TimeTypes
<1>6. TimeTypes'
  BY <1>1, <1>2, <1>5 DEF TimersInv, TimeTypes, sleepVars, tableVars
<1>7. CallsMatch'
  BY <1>2, <1>3, <1>5, TimersAssumption DEF TimersInv, CallsMatch
<1>8. EntriesMatch'
  BY <1>1 DEF TimersInv, EntriesMatch, tableVars
<1>9. OnePlace'
  BY <1>1, <1>2, <1>3 DEF TimersInv, OnePlace, tableVars, Listed
<1>10. CountRight'
  <2>1. \A d \in TimeCores : doing'[d].cbs = doing[d].cbs
    BY <1>1, <1>2, <1>3 DEF TimersInv, CallsMatch
  <2>2. \A k \in Callbacks : Listed(k)' <=> Listed(k)
    BY <1>1 DEF Listed, tableVars
  <2> QED
    BY <1>1, <2>1, <2>2 DEF TimersInv, CountRight, One, TimeCores, tableVars
<1>11. ArmTime'
  <2> SUFFICES ASSUME timeOn = "arm" PROVE ArmTime'
    BY <1>1 DEF ArmTime
  <2>1. \A d \in TimeCores \ {c} : doing[d].who # "none" => due'[doing[d].who] = due[doing[d].who]
    BY <1>3, <1>4 DEF TimersInv, TimeTypes, TimeDoing
  <2>2. \A t \in asleep : due'[t] = due[t]
    BY <1>4 DEF TimersInv, TimeTypes
  <2>3. \A i \in TimerSlots : table[i].callback # "none" => due'[table[i].callback] = due[table[i].callback]
    BY <1>4 DEF TimersInv, TimeTypes, Listed
  <2> QED
    BY <1>1, <1>2, <1>3, <1>4, <1>5, <2>1, <2>2, <2>3
       DEF TimersInv, ArmTime, sleepVars, tableVars
<1> QED
  BY <1>6, <1>7, <1>8, <1>9, <1>10, <1>11 DEF TimersInv

LEMMA SleepInv == ASSUME TimersInv, NEW c \in TimeCores, sleep_ms(c) PROVE TimersInv'
<1> DEFINE t == doing[c].who
<1>1. /\ doing[c].at = "now" /\ doing[c].for = "sleep" /\ doing' = [doing EXCEPT ![c] = Rest]
      /\ until' = [until EXCEPT ![t] = Value(doing[c]) + doing[c].ms] /\ asleep' = asleep \cup {t}
      /\ UNCHANGED <<timeOn, timeUse, count, ticks, due, early, tableVars>>
  BY DEF sleep_ms, Now, Done
<1>2. t \in Sleepers /\ doing[c].cbs = {} /\ doing[c] \in TimeDoing
  BY <1>1 DEF TimersInv, CallsMatch, TimeTypes
<1>3. Value(doing[c]) \in Nat /\ doing[c].ms \in Nat
  BY <1>2, ValueDoing DEF TimeDoing
<1>4. until' \in [Sleepers -> Nat] /\ asleep' \subseteq Sleepers /\ count' \in [lo : Nat, hi : Nat] /\ ticks' \in Nat
  BY <1>1, <1>2, <1>3 DEF TimersInv, TimeTypes
<1>5. Rest.cbs = {} /\ Rest.at = "task" /\ Rest.who = "none" /\ Rest.for = "none"
  BY DEF Rest
<1>6. TimeTypes' /\ CallsMatch' /\ EntriesMatch' /\ OnePlace' /\ CountRight'
  BY <1>1, <1>2, <1>4, <1>5, RestTyped, CoreMoves DEF TimersInv, TimeTypes
<1>7. ArmTime'
  <2> SUFFICES ASSUME timeOn = "arm" PROVE ArmTime'
    BY <1>1 DEF ArmTime
  <2>1. doing'[c] = Rest /\ \A d \in TimeCores \ {c} : doing'[d] = doing[d]
    BY <1>1 DEF TimersInv, TimeTypes
  <2>2. until'[t] = Value(doing[c]) + doing[c].ms /\ \A u \in Sleepers : u # t => until'[u] = until[u]
    BY <1>1, <1>2 DEF TimersInv, TimeTypes
  <2>3. due[t] <= until'[t]
    BY <1>1, <1>2, <2>2, TimersAssumption DEF TimersInv, ArmTime
  <2>4. \A d \in TimeCores \ {c} : doing[d].who # t
    BY <1>2, TimersAssumption DEF TimersInv, OnePlace
  <2>5. \A u \in asleep' : until'[u] # 0 => due[u] <= until'[u]
    BY <1>1, <2>2, <2>3 DEF TimersInv, ArmTime, TimeTypes
  <2>6. \A d \in TimeCores :
         /\ doing'[d].at \notin {"store", "read_hi", "read_lo"}
         /\ doing'[d].at \in {"now", "callbacks"} => Value(doing'[d]) <= ticks
         /\ doing'[d].who # "none" /\ doing'[d].at = "read" => due[doing'[d].who] <= ticks + doing'[d].ms
         /\ doing'[d].who # "none" /\ doing'[d].at = "now" => due[doing'[d].who] <= Value(doing'[d]) + doing'[d].ms
         /\ doing'[d].who \in Sleepers => doing'[d].who \notin asleep'
    BY <1>1, <1>5, <2>1, <2>4, TimersAssumption DEF TimersInv, ArmTime
  <2> QED
    BY <1>1, <2>5, <2>6 DEF TimersInv, ArmTime, tableVars
<1> QED
  BY <1>6, <1>7 DEF TimersInv

LEMMA OnTickInv == ASSUME TimersInv, NEW c \in TimeCores, on_tick(c) PROVE TimersInv'
<1> DEFINE woken == Expired(Value(doing[c]))
           x == IF timeOn = "arm" THEN Rest ELSE [doing[c] EXCEPT !.for = "timers"]
<1>1. /\ doing[c].at = "now" /\ doing[c].for \in {"wake", "trap"} /\ doing' = [doing EXCEPT ![c] = x]
      /\ asleep' = asleep \ woken /\ until' = [t \in Sleepers |-> IF t \in woken THEN 0 ELSE until[t]]
      /\ early' = (early \/ \E t \in woken : ticks < due[t])
      /\ UNCHANGED <<timeOn, timeUse, count, ticks, due, tableVars>>
  BY DEF on_tick, Now, TimersInv, TimeTypes
<1>2. doing[c] \in TimeDoing /\ doing[c].cbs = {} /\ doing[c].who = "none" /\ Value(doing[c]) \in Nat
  BY <1>1, ValueDoing DEF TimersInv, CallsMatch, TimeTypes, TimeDoing
<1>3. x \in TimeDoing /\ x.cbs = {} /\ x.at # "callbacks" /\ x.who = "none" /\ x.for \notin {"sleep", "register"}
  <2>1. CASE timeOn = "arm"
    BY <2>1, RestTyped DEF Rest
  <2>2. CASE timeOn # "arm"
    BY <1>1, <1>2, <2>2 DEF TimeDoing
  <2> QED
    BY <2>1, <2>2
<1>4. timeOn = "arm" => x.at = "task"
  BY DEF Rest
<1> HIDE DEF x, woken
<1>5. /\ until' \in [Sleepers -> Nat] /\ asleep' \subseteq Sleepers /\ early' \in BOOLEAN
      /\ count' \in [lo : Nat, hi : Nat] /\ ticks' \in Nat /\ due' \in [Sleepers \cup Callbacks -> Nat]
  BY <1>1 DEF TimersInv, TimeTypes
<1>6. TimeTypes' /\ CallsMatch' /\ EntriesMatch' /\ OnePlace' /\ CountRight'
  BY <1>1, <1>2, <1>3, <1>5, CoreMoves
<1>7. ArmTime'
  <2> SUFFICES ASSUME timeOn = "arm" PROVE ArmTime'
    BY <1>1 DEF ArmTime
  <2>1. doing'[c] = x /\ \A d \in TimeCores \ {c} : doing'[d] = doing[d]
    BY <1>1 DEF TimersInv, TimeTypes
  <2>2. \A t \in woken : ~(ticks < due[t])
    <3> SUFFICES ASSUME NEW t \in woken PROVE ~(ticks < due[t])
      OBVIOUS
    <3>1. t \in asleep /\ until[t] # 0 /\ until[t] <= Value(doing[c])
      BY DEF woken, Expired
    <3>2. due[t] <= until[t] /\ Value(doing[c]) <= ticks
      BY <1>1, <3>1 DEF TimersInv, ArmTime
    <3>3. due[t] \in Nat /\ until[t] \in Nat /\ ticks \in Nat
      BY <3>1 DEF TimersInv, TimeTypes
    <3> QED
      BY <1>2, <3>1, <3>2, <3>3
  <2>3. ~early'
    BY <1>1, <2>2 DEF TimersInv, ArmTime
  <2>4. \A t \in asleep' : t \in asleep /\ until'[t] = until[t]
    BY <1>1 DEF TimersInv, TimeTypes
  <2> QED
    BY <1>1, <1>3, <1>4, <2>1, <2>3, <2>4, TimersAssumption DEF TimersInv, ArmTime, tableVars
<1> QED
  BY <1>6, <1>7 DEF TimersInv

LEMMA RegisterInv == ASSUME TimersInv, NEW c \in TimeCores, register(c) PROVE TimersInv'
<1> DEFINE k == doing[c].who
           empty == {i \in TimerSlots : table[i] = NoTimer}
<1>1. /\ doing[c].at = "now" /\ doing[c].for = "register" /\ doing' = [doing EXCEPT ![c] = Rest]
      /\ UNCHANGED <<timeOn, timeUse, count, ticks, due, early, sleepVars>>
  BY DEF register, Now, Done
<1>2. /\ k \in Callbacks /\ k # "none" /\ doing[c].cbs = {} /\ doing[c] \in TimeDoing
      /\ doing[c].ms > 0 /\ doing[c].ms \in Nat
  BY <1>1, TimersAssumption DEF TimersInv, CallsMatch, TimeTypes, TimeDoing
<1>3. Value(doing[c]) \in Nat
  BY <1>2, ValueDoing
<1>4. doing'[c] = Rest /\ \A d \in TimeCores \ {c} : doing'[d] = doing[d]
  BY <1>1 DEF TimersInv, TimeTypes
<1>5. Rest.cbs = {} /\ Rest.at = "task" /\ Rest.who = "none" /\ Rest.for = "none"
  BY DEF Rest
<1>6. CASE empty = {}
  <2>1. UNCHANGED tableVars
    BY <1>6 DEF register
  <2>2. count' \in [lo : Nat, hi : Nat]
    BY <1>1 DEF TimersInv, TimeTypes
  <2> QED
    BY <1>1, <1>2, <1>5, <2>1, <2>2, RestTyped, CallMoves
<1>7. CASE empty # {}
  <2> DEFINE s == Min(empty)
             e == [id |-> next_id, fire_at |-> Value(doing[c]) + doing[c].ms,
                   interval |-> IF k \in Periodic THEN doing[c].ms ELSE 0, callback |-> k]
  <2>1. /\ table' = [table EXCEPT ![s] = e] /\ next_id' = next_id + 1
        /\ regs' = [regs EXCEPT ![k] = @ + 1] /\ UNCHANGED <<cancels, runs>>
    BY <1>7 DEF register
  <2>2. s \in TimerSlots /\ table[s] = NoTimer
    <3>1. empty \in SUBSET TimerSlots
      OBVIOUS
    <3>2. s \in empty
      BY <1>7, <3>1, FirstFree
    <3> QED
      BY <3>2
  <2> HIDE DEF s
  <2>3. e \in [id : Nat, fire_at : Nat, interval : Nat, callback : Callbacks \cup {"none"}]
    BY <1>2, <1>3 DEF TimersInv, TimeTypes
  <2>4. e.callback = k /\ (e.interval > 0 <=> k \in Periodic) /\ e.fire_at = Value(doing[c]) + doing[c].ms /\ e # NoTimer
    BY <1>2 DEF NoTimer
  <2> HIDE DEF e
  <2>5. table'[s] = e /\ \A i \in TimerSlots \ {s} : table'[i] = table[i]
    BY <2>1, <2>2 DEF TimersInv, TimeTypes
  <2>6. table[s].callback = "none" /\ \A i \in TimerSlots : table[i].callback # k
    BY <1>2, <2>2 DEF NoTimer, TimersInv, OnePlace
  <2>7. TimeTypes'
    <3>1. doing' \in [TimeCores -> TimeDoing]
      BY <1>1, RestTyped DEF TimersInv, TimeTypes
    <3>2. table' \in [TimerSlots -> [id : Nat, fire_at : Nat, interval : Nat, callback : Callbacks \cup {"none"}]]
      BY <2>1, <2>3 DEF TimersInv, TimeTypes
    <3>3. regs' \in [Callbacks -> Nat] /\ cancels' \in [Callbacks -> Nat] /\ runs' \in [Callbacks -> Nat]
      BY <1>2, <2>1 DEF TimersInv, TimeTypes
    <3> QED
      BY <1>1, <2>1, <3>1, <3>2, <3>3 DEF TimersInv, TimeTypes, sleepVars
  <2>8. CallsMatch'
    BY <1>4, <1>5, TimersAssumption DEF TimersInv, CallsMatch
  <2>9. EntriesMatch'
    BY <1>2, <2>4, <2>5 DEF TimersInv, EntriesMatch
  <2>10. OnePlace'
    <3>1. \A d \in TimeCores \ {c} : doing[d].who # k
      BY <1>2 DEF TimersInv, OnePlace
    <3> QED
      BY <1>4, <1>5, <2>4, <2>5, <2>6, <3>1 DEF TimersInv, OnePlace
  <2>11. CountRight'
    <3>1. \A d \in TimeCores : doing'[d].cbs = doing[d].cbs
      BY <1>2, <1>4, <1>5
    <3>2. \A q \in Callbacks : Listed(q)' <=> (q = k \/ Listed(q))
      <4>1. \A i \in TimerSlots : table'[i].callback = IF i = s THEN k ELSE table[i].callback
        BY <2>4, <2>5
      <4>2. \A q \in Callbacks : q # table[s].callback
        BY <2>6, TimersAssumption
      <4> QED
        BY <2>2, <4>1, <4>2 DEF Listed
    <3>0. ~Listed(k)
      BY <2>6 DEF Listed
    <3>3. regs'[k] = regs[k] + 1 /\ \A q \in Callbacks : q # k => regs'[q] = regs[q]
      BY <1>2, <2>1 DEF TimersInv, TimeTypes
    <3>4. \A q \in Callbacks : regs[q] \in Nat /\ cancels[q] \in Nat /\ runs[q] \in Nat
      BY DEF TimersInv, TimeTypes
    <3>5. \A q \in Callbacks : One(Listed(q))' = IF q = k THEN One(Listed(q)) + 1 ELSE One(Listed(q))
      BY <3>0, <3>2 DEF One
    <3>6. \A q \in Callbacks : One(Listed(q)) \in Nat
      BY DEF One
    <3> QED
      BY <2>1, <3>1, <3>3, <3>4, <3>5, <3>6 DEF TimersInv, CountRight, One, TimeCores
  <2>12. ArmTime'
    <3> SUFFICES ASSUME timeOn = "arm" PROVE ArmTime'
      BY <1>1 DEF ArmTime
    <3>1. due[k] <= e.fire_at
      BY <1>1, <1>2, <2>4 DEF TimersInv, ArmTime
    <3> QED
      BY <1>1, <1>4, <1>5, <2>4, <2>5, <3>1, TimersAssumption DEF TimersInv, ArmTime, sleepVars
  <2> QED
    BY <2>7, <2>8, <2>9, <2>10, <2>11, <2>12 DEF TimersInv
<1> QED
  BY <1>6, <1>7

LEMMA CancelInv ==
  ASSUME TimersInv, NEW c \in TimeCores, NEW i \in TimerSlots, cancel(c, i) PROVE TimersInv'
<1> DEFINE k == table[i].callback
<1>1. /\ table[i] # NoTimer /\ table' = [table EXCEPT ![i] = NoTimer] /\ cancels' = [cancels EXCEPT ![k] = @ + 1]
      /\ UNCHANGED <<timeOn, timeUse, count, ticks, doing, due, early, sleepVars, next_id, regs, runs>>
  BY DEF cancel
<1>2. k \in Callbacks /\ k # "none"
  BY <1>1, TimersAssumption DEF TimersInv, TimeTypes, EntriesMatch
<1>3. table'[i] = NoTimer /\ \A j \in TimerSlots \ {i} : table'[j] = table[j]
  BY <1>1 DEF TimersInv, TimeTypes
<1>4. NoTimer \in [id : Nat, fire_at : Nat, interval : Nat, callback : Callbacks \cup {"none"}]
  BY DEF NoTimer
<1>5. NoTimer.callback = "none" /\ NoTimer.interval = 0
  BY DEF NoTimer
<1>6. TimeTypes'
  BY <1>1, <1>2, <1>4 DEF TimersInv, TimeTypes, sleepVars
<1>7. CallsMatch'
  BY <1>1 DEF TimersInv, CallsMatch
<1>8. EntriesMatch'
  BY <1>3, <1>5, TimersAssumption DEF TimersInv, EntriesMatch
<1>9. OnePlace'
  BY <1>1, <1>3, <1>5 DEF TimersInv, OnePlace
<1>10. CountRight'
  <2>1. \A q \in Callbacks : Listed(q)' <=> (q # k /\ Listed(q))
    <3>1. \A j \in TimerSlots : table'[j].callback = IF j = i THEN "none" ELSE table[j].callback
      BY <1>3, <1>5
    <3>2. \A j \in TimerSlots : j # i => table[j].callback # k
      BY <1>2 DEF TimersInv, OnePlace
    <3> QED
      BY <3>1, <3>2, TimersAssumption DEF Listed
  <2>4. Listed(k)
    BY DEF Listed
  <2>2. cancels'[k] = cancels[k] + 1 /\ \A q \in Callbacks : q # k => cancels'[q] = cancels[q]
    BY <1>1, <1>2 DEF TimersInv, TimeTypes
  <2>3. \A q \in Callbacks : regs[q] \in Nat /\ cancels[q] \in Nat /\ runs[q] \in Nat
    BY DEF TimersInv, TimeTypes
  <2>5. \A q \in Callbacks : One(Listed(q))' = IF q = k THEN One(Listed(q)) - 1 ELSE One(Listed(q))
    BY <2>1, <2>4 DEF One
  <2>6. \A q \in Callbacks : One(Listed(q)) \in Nat
    BY DEF One
  <2> QED
    BY <1>1, <2>2, <2>3, <2>5, <2>6 DEF TimersInv, CountRight, One
<1>11. ArmTime'
  BY <1>1, <1>3, <1>5 DEF TimersInv, ArmTime, sleepVars
<1> QED
  BY <1>6, <1>7, <1>8, <1>9, <1>10, <1>11 DEF TimersInv

LEMMA RunCallbackInv ==
  ASSUME TimersInv, NEW c \in TimeCores, NEW k \in Callbacks, RunCallback(c, k) PROVE TimersInv'
<1> DEFINE x == [doing[c] EXCEPT !.cbs = @ \ {k}]
<1>1. /\ doing[c].at = "callbacks" /\ k \in doing[c].cbs /\ doing' = [doing EXCEPT ![c] = x]
      /\ runs' = (IF k \in Periodic THEN runs ELSE [runs EXCEPT ![k] = @ + 1])
      /\ UNCHANGED <<timeOn, timeUse, count, ticks, due, early, sleepVars, table, next_id, regs, cancels>>
  BY DEF RunCallback, TimersInv, TimeTypes
<1>2. doing[c] \in TimeDoing
  BY DEF TimersInv, TimeTypes
<1>3. /\ x \in TimeDoing /\ x.at = "callbacks" /\ x.cbs = doing[c].cbs \ {k} /\ x.who = doing[c].who
      /\ x.for = doing[c].for /\ x.ms = doing[c].ms /\ x.lo = doing[c].lo /\ x.hi = doing[c].hi
  BY <1>1, <1>2 DEF TimeDoing
<1> HIDE DEF x
<1>4. doing'[c] = x /\ \A d \in TimeCores \ {c} : doing'[d] = doing[d]
  BY <1>1 DEF TimersInv, TimeTypes
<1>5. TimeTypes'
  BY <1>1, <1>3 DEF TimersInv, TimeTypes, sleepVars
<1>6. CallsMatch'
  BY <1>1, <1>3, <1>4 DEF TimersInv, CallsMatch
<1>7. EntriesMatch'
  BY <1>1 DEF TimersInv, EntriesMatch
<1>8. OnePlace'
  BY <1>1, <1>3, <1>4 DEF TimersInv, OnePlace
<1>9. CountRight'
  <2>1. \A q \in Callbacks : Listed(q)' <=> Listed(q)
    BY <1>1 DEF Listed
  <2>2. /\ k \notin doing'[c].cbs
        /\ \A q \in Callbacks, d \in TimeCores : (q # k \/ d # c) => (q \in doing'[d].cbs <=> q \in doing[d].cbs)
    BY <1>3, <1>4
  <2>3. \A q \in Callbacks : /\ regs[q] \in Nat /\ cancels[q] \in Nat /\ runs[q] \in Nat
                             /\ runs'[q] = IF q = k /\ k \notin Periodic THEN runs[q] + 1 ELSE runs[q]
    BY <1>1 DEF TimersInv, TimeTypes
  <2> QED
    BY <1>1, <2>1, <2>2, <2>3 DEF TimersInv, CountRight, One, TimeCores
<1>10. ArmTime'
  <2>1. Value(x) = Value(doing[c])
    BY <1>3 DEF Value
  <2> QED
    BY <1>1, <1>3, <1>4, <2>1 DEF TimersInv, ArmTime, sleepVars
<1> QED
  BY <1>5, <1>6, <1>7, <1>8, <1>9, <1>10 DEF TimersInv

LEMMA ProcessInv == ASSUME TimersInv, NEW c \in TimeCores, process_timers(c) PROVE TimersInv'
<1> DEFINE now == Value(doing[c])
           hits == DueSlots(now)
           moved(i) == IF table[i].interval > 0 THEN [table[i] EXCEPT !.fire_at = now + table[i].interval] ELSE NoTimer
           cbs == {table[i].callback : i \in hits}
           x == [doing[c] EXCEPT !.at = "callbacks", !.cbs = cbs]
<1>1. /\ doing[c].at = "now" /\ doing[c].for \in {"trap", "timers"} /\ doing' = [doing EXCEPT ![c] = x]
      /\ table' = [i \in TimerSlots |-> IF i \notin hits THEN table[i] ELSE moved(i)]
      /\ early' = (early \/ \E i \in hits : table[i].interval = 0 /\ ticks < due[table[i].callback])
      /\ UNCHANGED <<timeOn, timeUse, count, ticks, due, sleepVars, next_id, regs, cancels, runs>>
  BY DEF process_timers, Now, TimersInv, TimeTypes
<1>2. doing[c] \in TimeDoing /\ doing[c].cbs = {} /\ doing[c].who = "none" /\ now \in Nat
  BY <1>1, ValueDoing DEF TimersInv, CallsMatch, TimeTypes, TimeDoing
<1>3. \A i \in hits : i \in TimerSlots /\ table[i] # NoTimer /\ table[i].fire_at <= now /\ table[i].callback \in Callbacks
  BY DEF DueSlots, TimersInv, EntriesMatch, TimeTypes
<1>4. cbs \subseteq Callbacks
  BY <1>3
<1> HIDE DEF hits
<1>5. /\ x \in TimeDoing /\ x.at = "callbacks" /\ x.cbs = cbs /\ x.who = "none" /\ x.for = doing[c].for
      /\ x.lo = doing[c].lo /\ x.hi = doing[c].hi
  BY <1>2, <1>4 DEF TimeDoing
<1> HIDE DEF x
<1>6. doing'[c] = x /\ \A d \in TimeCores \ {c} : doing'[d] = doing[d]
  BY <1>1 DEF TimersInv, TimeTypes
<1>7. \A i \in TimerSlots : table[i] \in [id : Nat, fire_at : Nat, interval : Nat, callback : Callbacks \cup {"none"}]
  BY DEF TimersInv, TimeTypes
<1>8. NoTimer \in [id : Nat, fire_at : Nat, interval : Nat, callback : Callbacks \cup {"none"}]
  BY DEF NoTimer
<1>9. \A i \in TimerSlots :
        /\ table'[i] \in [id : Nat, fire_at : Nat, interval : Nat, callback : Callbacks \cup {"none"}]
        /\ i \notin hits => table'[i] = table[i]
        /\ i \in hits /\ table[i].callback \notin Periodic => table'[i] = NoTimer
        /\ i \in hits /\ table[i].callback \in Periodic =>
             table'[i].callback = table[i].callback /\ table'[i].interval = table[i].interval
  BY <1>1, <1>2, <1>7, <1>8 DEF TimersInv, EntriesMatch
<1>10. NoTimer.callback = "none" /\ NoTimer.interval = 0
  BY DEF NoTimer
<1>11. table' \in [TimerSlots -> [id : Nat, fire_at : Nat, interval : Nat, callback : Callbacks \cup {"none"}]]
  BY <1>1, <1>9
<1> HIDE DEF now
<1>12. TimeTypes'
  BY <1>1, <1>5, <1>11 DEF TimersInv, TimeTypes, sleepVars
<1>13. CallsMatch'
  BY <1>1, <1>5, <1>6, TimersAssumption DEF TimersInv, CallsMatch
<1>14. EntriesMatch'
  BY <1>3, <1>9, <1>10, TimersAssumption DEF TimersInv, EntriesMatch
<1>15. \A i \in TimerSlots : table'[i].callback # "none" => table'[i].callback = table[i].callback
  BY <1>9, <1>10
<1>16. OnePlace'
  BY <1>5, <1>6, <1>15 DEF TimersInv, OnePlace
<1>17. CountRight'
  <2> SUFFICES ASSUME NEW k \in Callbacks
               PROVE  (regs[k] = One(Listed(k)) + cancels[k] + runs[k]
                        + (IF k \in Periodic THEN 0 ELSE One(k \in doing[0].cbs) + One(k \in doing[1].cbs)))'
    BY DEF CountRight
  <2>0. regs[k] \in Nat /\ cancels[k] \in Nat /\ runs[k] \in Nat /\ k # "none"
    BY TimersAssumption DEF TimersInv, TimeTypes
  <2>1. CASE k \in Periodic
    <3>1. Listed(k)' <=> Listed(k)
      BY <1>9, <1>10, <1>15, <2>0, <2>1 DEF Listed
    <3> QED
      BY <1>1, <2>1, <3>1 DEF TimersInv, CountRight, One
  <2>2. CASE k \notin Periodic /\ k \in cbs
    <3>1. PICK i \in hits : table[i].callback = k
      BY <2>2
    <3>2. Listed(k) /\ ~Listed(k)'
      BY <1>3, <1>9, <1>10, <1>15, <2>0, <2>2, <3>1 DEF Listed, TimersInv, OnePlace
    <3> QED
      BY <1>1, <1>2, <1>5, <1>6, <2>0, <2>2, <3>2 DEF TimersInv, CountRight, One, TimeCores
  <2>3. CASE k \notin Periodic /\ k \notin cbs
    <3>1. Listed(k)' <=> Listed(k)
      BY <1>9, <1>10, <1>15, <2>0, <2>3 DEF Listed
    <3> QED
      BY <1>1, <1>2, <1>5, <1>6, <2>0, <2>3, <3>1 DEF TimersInv, CountRight, One, TimeCores
  <2> QED
    BY <2>1, <2>2, <2>3
<1>18. ArmTime'
  <2> SUFFICES ASSUME timeOn = "arm" PROVE ArmTime'
    BY <1>1 DEF ArmTime
  <2>1. Value(x) = now
    BY <1>5 DEF Value, now
  <2>2. now <= ticks
    BY <1>1 DEF TimersInv, ArmTime, now
  <2>3. \A i \in hits : table[i].interval = 0 => ~(ticks < due[table[i].callback])
    <3> SUFFICES ASSUME NEW i \in hits, table[i].interval = 0 PROVE ~(ticks < due[table[i].callback])
      OBVIOUS
    <3>1. i \in TimerSlots /\ table[i].fire_at <= now /\ table[i].callback \in Callbacks
      BY <1>3
    <3>2. table[i].callback # "none"
      BY <3>1, TimersAssumption
    <3>3. due[table[i].callback] <= table[i].fire_at
      BY <3>1, <3>2 DEF TimersInv, ArmTime
    <3>4. due[table[i].callback] \in Nat /\ table[i].fire_at \in Nat /\ ticks \in Nat
      BY <1>7, <3>1 DEF TimersInv, TimeTypes
    <3> QED
      BY <1>2, <2>2, <3>1, <3>3, <3>4
  <2>4. ~early'
    BY <1>1, <2>3 DEF TimersInv, ArmTime
  <2>5. \A i \in TimerSlots : table'[i].callback # "none" /\ table'[i].interval = 0 => table'[i] = table[i]
    BY <1>9, <1>10 DEF TimersInv, EntriesMatch
  <2>6. \A i \in TimerSlots : table'[i].callback # "none" /\ table'[i].interval = 0 =>
                               due[table'[i].callback] <= table'[i].fire_at
    BY <2>5 DEF TimersInv, ArmTime
  <2>7. Value(count) = ticks /\ \A t \in asleep : until[t] # 0 => due[t] <= until[t]
    BY DEF TimersInv, ArmTime
  <2>8. \A d \in TimeCores :
         /\ doing'[d].at \notin {"store", "read_hi", "read_lo"}
         /\ doing'[d].at \in {"now", "callbacks"} => Value(doing'[d]) <= ticks
         /\ doing'[d].who # "none" /\ doing'[d].at = "read" => due[doing'[d].who] <= ticks + doing'[d].ms
         /\ doing'[d].who # "none" /\ doing'[d].at = "now" => due[doing'[d].who] <= Value(doing'[d]) + doing'[d].ms
         /\ doing'[d].who \in Sleepers => doing'[d].who \notin asleep
    BY <1>5, <1>6, <2>1, <2>2, TimersAssumption DEF TimersInv, ArmTime
  <2> QED
    BY <1>1, <2>4, <2>6, <2>7, <2>8 DEF ArmTime, sleepVars
<1> QED
  BY <1>12, <1>13, <1>14, <1>16, <1>17, <1>18 DEF TimersInv

LEMMA NextTimersInv == TimersInv /\ [TimersNext]_timeVars => TimersInv'
<1> SUFFICES ASSUME TimersInv, [TimersNext]_timeVars PROVE TimersInv'
  OBVIOUS
<1>1. ASSUME NEW c \in TimeCores, NEW t \in Sleepers \ asleep, NEW ms \in 1..2, ~Registering(t), Call(c, "sleep", t, ms)
      PROVE  TimersInv'
  <2>1. ~Listed(t) /\ t \in Sleepers \cup Callbacks
    BY TimersAssumption DEF Listed, TimersInv, TimeTypes
  <2> QED
    BY <1>1, <2>1, CallInv
<1>2. ASSUME NEW c \in TimeCores, NEW k \in Callbacks, NEW ms \in 1..2, ~Registering(k), InTable(k) = {},
             Call(c, "register", k, ms)
      PROVE  TimersInv'
  <2>1. ~Listed(k) /\ k \in Sleepers \cup Callbacks /\ k \notin Sleepers /\ k \notin asleep
    BY <1>2, TimersAssumption DEF Listed, InTable, TimersInv, TimeTypes
  <2> QED
    BY <1>2, <2>1, CallInv
<1>3. CASE UNCHANGED timeVars
  <2> USE <1>3 DEF timeVars
  <2>1. TimeTypes' /\ CallsMatch' /\ EntriesMatch' /\ OnePlace'
    BY DEF TimersInv, TimeTypes, CallsMatch, EntriesMatch, OnePlace
  <2>2. CountRight' /\ ArmTime'
    BY DEF TimersInv, CountRight, ArmTime, Listed
  <2> QED
    BY <2>1, <2>2 DEF TimersInv
<1> QED
  BY <1>1, <1>2, <1>3, TickInv, TickStoredInv, TickOtherInv, ReadNowInv, ReadRestInv, SleepInv, OnTickInv,
     RegisterInv, ProcessInv, CallbacksDoneInv, RunCallbackInv, CancelInv, Zenon DEF TimersNext

(* No registration is lost or run twice, though both cores process the     *)
(* table while tasks register and callbacks cancel, and where the counter  *)
(* is read whole nothing fires and nobody wakes before its time: for any   *)
(* sleepers, callbacks, table size, word size and number of ticks          *)
(* (kernel/src/timer.rs).                                                  *)
THEOREM TimersAreKept == TimersSpec => []TimersKept
<1>1. TimersInv => TimersKept
  BY CountIsConserved DEF TimersInv, TimersKept, ArmTime, NotEarlyOnArm
<1> QED
  BY InitTimersInv, NextTimersInv, <1>1, PTL DEF TimersSpec

(***************************************************************************)
(* The DMA channels and the UART exchange.                                 *)
(***************************************************************************)

(* Everything turns on the lists of   *)
(* accesses: what an owner has still to do is on channels of its own, a    *)
(* release comes after an abort and ends the work on its channel, and a    *)
(* set-up configures before it publishes and asks for data only then.      *)
(* Hence a receive channel starts its exchange unreported, and whatever    *)
(* the handler takes from it was reported by this exchange.                *)

(* The lowest of some channels is one of them.                             *)
LEMMA FirstOf ==
  ASSUME NEW S \in SUBSET ChannelNos, S # {}
  PROVE  Min(S) \in S
<1> DEFINE R == {ss \in Nat \X Nat : ss[1] < ss[2]}
<1>0. IsWellFoundedOn(R, Nat)
  BY NatLessThanWellFounded DEF OpToRel
<1>1. S \in SUBSET Nat
  BY ChannelsAssumption DEF ChannelNos
<1> HIDE DEF R
<1>2. PICK x \in S : \A y \in S : ~(<<y, x>> \in R)
  BY <1>0, <1>1, WFMin, Zenon
<1>3. \A y \in S : ~(y < x)
  BY <1>1, <1>2, Zenon DEF R
<1>4. \A y \in S : x <= y
  BY <1>1, <1>3
<1> QED
  BY <1>4 DEF Min

(* Lists of accesses.                                                      *)
HasOp(s, x) == \E i \in DOMAIN s : s[i] = x
HasKind(s, k) == \E i \in DOMAIN s : s[i].op = k

(* On a channel nothing comes after its release.                           *)
LastIsFree(s) ==
  \A i, j \in DOMAIN s : s[i].op = "free" /\ i < j => s[j].ch # s[i].ch

(* A release comes after an abort of the channel.                          *)
AbortsFirst(s, i) == \E j \in DOMAIN s : j < i /\ s[j] = Do("abort", s[i].ch)

(* What an owner has still to do is on channels of its own, and a channel  *)
(* to be released is quiet or will be stopped first.                       *)
OwnList(s, p, cs) ==
  /\ \A i \in DOMAIN s : cs[s[i].ch].owner = p
  /\ \A i \in DOMAIN s : s[i].op = "free" => ~cs[s[i].ch].busy \/ AbortsFirst(s, i)
  /\ LastIsFree(s)

OwnWork == \A p \in Owners : OwnList(todo[p], p, chan)

(* What the exchange's position says of the work left.                     *)
CleanOps == {"read", "off", "abort", "clear"}
SetupOps == {"configure", "read", "on", "publish", "dmacr", "start"}
DropOps == CleanOps \cup {"stop", "free"}

Kinds(s, K) == \A i \in DOMAIN s : s[i].op \in K

WorkMatches ==
  /\ exchange.pc = "idle" => todo["task"] = <<>>
  /\ exchange.pc \in {"claim_tx", "setup"} => Kinds(todo["task"], CleanOps)
  /\ exchange.pc = "await" => Kinds(todo["task"], SetupOps)
  /\ exchange.pc = "drop" => Kinds(todo["task"], DropOps)
  /\ Kinds(todo["peer"], CleanOps \cup {"free"})

(* Who holds what; a transfer that is dropped has its releases before it.  *)
Holds(p, c) == \E i \in DOMAIN held[p] : held[p][i] = c

HeldMatches ==
  /\ \A c \in ChannelNos : chan[c].owner = "task" <=> Holds("task", c)
  /\ \A c \in ChannelNos : Holds("peer", c) => chan[c].owner = "peer"
  /\ \A i \in DOMAIN todo["peer"] : Holds("peer", todo["peer"][i].ch)
  /\ Len(held["peer"]) <= 1 /\ Len(held["task"]) <= 2
  /\ Len(held["task"]) = 2 => held["task"][1] # held["task"][2]
  /\ exchange.pc = "idle" => held["task"] = <<>>
  /\ exchange.pc = "claim_tx" => Len(held["task"]) = 1
  /\ exchange.pc \in {"setup", "await"} => Len(held["task"]) = 2
  /\ exchange.pc = "drop" =>
       \A c \in ChannelNos : Holds("task", c) => HasOp(todo["task"], Do("free", c))

FreeIsQuiet ==
  \A c \in ChannelNos : chan[c].owner = "free" => ~chan[c].busy /\ chan[c].token = NoExchange

(* The order of the set-up, and what of it has been done.                  *)
SetupOrdered(s) ==
  \A i, j \in DOMAIN s : i < j =>
    /\ s[j].op = "configure" => s[i].op = "configure"
    /\ s[j].op = "publish" => s[i].op \notin {"publish", "dmacr", "start"}

ToPublish == HasKind(todo["task"], "publish")

AsksWhenSetUp ==
  /\ exchange.pc = "await" =>
       SetupOrdered(todo["task"]) /\ (HasKind(todo["task"], "configure") => ToPublish)
  /\ dmacr => \/ exchange.pc = "await" /\ ~ToPublish
              \/ exchange.pc = "drop" /\ HasKind(todo["task"], "stop")

(* Tokens and what has been signalled.                                     *)
TokensMatch ==
  /\ signalled \subseteq 1 .. exchange.id
  /\ \/ exchange.pc \in {"claim_tx", "setup"}
     \/ exchange.pc = "await" /\ ToPublish
     => exchange.id < MAX_EXCHANGES
  /\ exchange.pc \in {"claim_tx", "setup", "await"} => exchange.outcome = "none"
  /\ \A c \in ChannelNos : chan[c].token # NoExchange =>
       /\ chan[c].owner = "task" /\ exchange.pc \in {"await", "drop"}
       /\ chan[c].token \in 1 .. exchange.id
       /\ exchange.pc = "await" => c = held["task"][1] /\ chan[c].token = exchange.id /\ ~ToPublish
  /\ \A c \in ChannelNos : chan[c].err => ~chan[c].busy

(* The receive channel of the exchange, as it is made ready and published. *)
Rx == held["task"][1]
Over == received \/ chan[Rx].err

Quiet == \A c \in ChannelNos : chan[c].owner = "task" => ~chan[c].busy
Unreported ==
  /\ Rx \notin intr
  /\ (chan[Rx].busy /\ ~chan[Rx].past) \/ HasOp(todo["task"], Do("configure", Rx))
Reported ==
  /\ Over \/ (chan[Rx].busy /\ ~chan[Rx].past)
  /\ chan[Rx].past => received
  /\ Rx \in intr \/ exchange.id \in signalled => Over
  /\ top.at # "idle" /\ top.ch = Rx => Over

Fresh ==
  /\ exchange.pc \in {"claim_tx", "setup"} => Quiet
  /\ exchange.pc = "claim_tx" => Rx \notin intr \/ HasOp(todo["task"], Do("clear", Rx))
  /\ exchange.pc = "setup" => Rx \notin intr
  /\ exchange.pc = "await" /\ ToPublish => Unreported
  /\ exchange.pc = "await" /\ ~ToPublish => Reported
  /\ exchange.outcome = "ok" => received

ChannelsInv ==
  /\ TypeChannels /\ OwnWork /\ WorkMatches /\ HeldMatches /\ FreeIsQuiet
  /\ AsksWhenSetUp /\ TokensMatch /\ (handlerOn = "task" => Fresh)

----------------------------------------------------------------------------
(* The rest of a list, and two lists in a row.                             *)
LEMMA RestOf ==
  ASSUME NEW s \in Seq(Ops), s # <<>>
  PROVE  /\ Tail(s) \in Seq(Ops) /\ 1 \in DOMAIN s /\ Head(s) = s[1] /\ s[1] \in Ops
         /\ \A i \in DOMAIN Tail(s) : i \in Nat /\ i + 1 \in DOMAIN s /\ Tail(s)[i] = s[i + 1]
         /\ \A i \in DOMAIN s : i \in Nat /\ i >= 1 /\ (i # 1 => i - 1 \in DOMAIN Tail(s) /\ Tail(s)[i - 1] = s[i])
<1>1. Len(s) \in Nat /\ Len(s) > 0 /\ DOMAIN s = 1 .. Len(s)
  BY LenProperties, EmptySeq
<1>2. Tail(s) \in Seq(Ops) /\ Len(Tail(s)) = Len(s) - 1 /\ DOMAIN Tail(s) = 1 .. Len(s) - 1
  BY <1>1, HeadTailProperties, LenProperties
<1>3. \A i \in 1 .. Len(s) - 1 : Tail(s)[i] = s[i + 1]
  BY <1>1, HeadTailProperties
<1>4. Head(s) = s[1] /\ s[1] \in Ops
  BY <1>1, ElementOfSeq
<1> QED
  BY <1>1, <1>2, <1>3, <1>4

LEMMA HasRest ==
  ASSUME NEW s \in Seq(Ops), s # <<>>
  PROVE  /\ \A x : HasOp(s, x) <=> x = s[1] \/ HasOp(Tail(s), x)
         /\ \A k : HasKind(s, k) <=> k = s[1].op \/ HasKind(Tail(s), k)
         /\ \A K : Kinds(s, K) => s[1].op \in K /\ Kinds(Tail(s), K)
<1> DEFINE t == Tail(s)
<1>0. /\ 1 \in DOMAIN s /\ \A i \in DOMAIN t : i + 1 \in DOMAIN s /\ t[i] = s[i + 1]
      /\ \A i \in DOMAIN s : i # 1 => i - 1 \in DOMAIN t /\ t[i - 1] = s[i]
  BY RestOf
<1> HIDE DEF t
<1>1. ASSUME NEW x PROVE HasOp(s, x) <=> x = s[1] \/ HasOp(t, x)
  BY <1>0 DEF HasOp
<1>2. ASSUME NEW k PROVE HasKind(s, k) <=> k = s[1].op \/ HasKind(t, k)
  <2>1. ASSUME HasKind(s, k) PROVE k = s[1].op \/ HasKind(t, k)
    BY <1>0, <2>1 DEF HasKind
  <2>2. ASSUME HasKind(t, k) PROVE HasKind(s, k)
    BY <1>0, <2>2 DEF HasKind
  <2>3. HasKind(s, s[1].op)
    BY <1>0 DEF HasKind
  <2> QED
    BY <2>1, <2>2, <2>3
<1>3. ASSUME NEW K, Kinds(s, K) PROVE s[1].op \in K /\ Kinds(t, K)
  BY <1>0, <1>3 DEF Kinds
<1> QED
  BY <1>1, <1>2, <1>3 DEF t

LEMMA OrderedRest ==
  ASSUME NEW s \in Seq(Ops), s # <<>>, SetupOrdered(s)
  PROVE  /\ SetupOrdered(Tail(s))
         /\ s[1].op # "configure" => ~HasKind(Tail(s), "configure")
         /\ s[1].op \in {"publish", "dmacr", "start"} => ~HasKind(Tail(s), "publish")
<1>1. \A i, j \in DOMAIN Tail(s) : i < j => i + 1 < j + 1
  BY RestOf
<1>2. \A i \in DOMAIN Tail(s) : 1 < i + 1
  BY RestOf
<1>3. SetupOrdered(Tail(s))
  BY <1>1, RestOf DEF SetupOrdered
<1> QED
  BY <1>2, <1>3, RestOf DEF SetupOrdered, HasKind

(* What is left of an owner's work when its first access has been made and *)
(* changed no owner but that of a channel it released.                     *)
LEMMA OwnRest ==
  ASSUME NEW s \in Seq(Ops), s # <<>>, NEW p, NEW cs, NEW ds, OwnList(s, p, cs),
         \A c \in ChannelNos : (s[1].op = "free" /\ c = s[1].ch) \/ ds[c].owner = cs[c].owner,
         \A c \in ChannelNos : HasOp(s, Do("free", c)) =>
            (ds[c].busy => cs[c].busy /\ s[1] # Do("abort", c))
  PROVE  OwnList(Tail(s), p, ds)
<1> DEFINE t == Tail(s)
<1>0. t \in Seq(Ops) /\ \A i \in DOMAIN t : t[i] \in Ops
  BY RestOf, ElementOfSeq
<1>1. \A i \in DOMAIN t : i \in Nat /\ i + 1 \in DOMAIN s /\ t[i] = s[i + 1] /\ 1 < i + 1 /\ 1 \in DOMAIN s
  BY RestOf
<1>2. LastIsFree(t)
  <2>1. \A i, j \in DOMAIN t : i < j => i + 1 < j + 1
    BY <1>1
  <2> QED
    BY <1>1, <2>1 DEF LastIsFree, OwnList
<1>3. \A i \in DOMAIN t : s[1].op = "free" => t[i].ch # s[1].ch
  BY <1>1 DEF LastIsFree, OwnList
<1>4. \A i \in DOMAIN t : t[i].ch \in ChannelNos
  BY <1>0 DEF Ops
<1>5. \A i \in DOMAIN t : ds[t[i].ch].owner = p
  BY <1>1, <1>3, <1>4 DEF OwnList
<1>6. ASSUME NEW i \in DOMAIN t, t[i].op = "free", ds[t[i].ch].busy PROVE AbortsFirst(t, i)
  <2>1. t[i] = Do("free", t[i].ch)
    BY <1>0, <1>6 DEF Ops, Do
  <2>2. HasOp(s, Do("free", t[i].ch))
    BY <1>1, <2>1 DEF HasOp
  <2>3. cs[t[i].ch].busy /\ s[1] # Do("abort", t[i].ch)
    BY <1>4, <1>6, <2>2
  <2>4. AbortsFirst(s, i + 1)
    BY <1>1, <1>6, <2>3 DEF OwnList
  <2>5. PICK j \in DOMAIN s : j < i + 1 /\ s[j] = Do("abort", t[i].ch)
    BY <1>1, <2>4 DEF AbortsFirst
  <2>6. j # 1 /\ j - 1 \in DOMAIN t /\ t[j - 1] = s[j] /\ j \in Nat /\ i \in Nat
    BY <1>1, <2>3, <2>5, RestOf
  <2>7. j - 1 < i
    BY <2>5, <2>6
  <2> QED
    BY <2>5, <2>6, <2>7 DEF AbortsFirst
<1> QED
  BY <1>2, <1>5, <1>6 DEF OwnList

LEMMA InARow ==
  ASSUME NEW s \in Seq(Ops), NEW t \in Seq(Ops)
  PROVE  /\ s \o t \in Seq(Ops)
         /\ \A i \in DOMAIN s : i \in DOMAIN (s \o t) /\ (s \o t)[i] = s[i]
         /\ \A j \in DOMAIN t : j + Len(s) \in DOMAIN (s \o t) /\ (s \o t)[j + Len(s)] = t[j]
         /\ \A i \in DOMAIN (s \o t) : /\ i \in Nat
                                       /\ \/ i \in DOMAIN s
                                          \/ i > Len(s) /\ i - Len(s) \in DOMAIN t /\ (s \o t)[i] = t[i - Len(s)]
<1>1. /\ Len(s) \in Nat /\ Len(t) \in Nat /\ DOMAIN s = 1 .. Len(s) /\ DOMAIN t = 1 .. Len(t)
  BY LenProperties
<1>2. /\ s \o t \in Seq(Ops) /\ Len(s \o t) = Len(s) + Len(t)
      /\ \A i \in 1 .. Len(s) + Len(t) : (s \o t)[i] = IF i <= Len(s) THEN s[i] ELSE t[i - Len(s)]
  BY ConcatProperties
<1>3. DOMAIN (s \o t) = 1 .. Len(s) + Len(t)
  BY <1>2, LenProperties
<1> QED
  BY <1>1, <1>2, <1>3

(* A list that releases every channel of S, each stopped first and not     *)
(* touched afterwards.                                                     *)
DropList(s, S) ==
  /\ s \in Seq(Ops) /\ Kinds(s, DropOps) /\ LastIsFree(s)
  /\ \A i \in DOMAIN s : s[i].ch \in S /\ (s[i].op = "free" => AbortsFirst(s, i))
  /\ \A c \in S : HasOp(s, Do("free", c))

LEMMA CleanupList ==
  ASSUME NEW c \in ChannelNos
  PROVE  /\ Cleanup(c) \in Seq(Ops) /\ Kinds(Cleanup(c), CleanOps)
         /\ \A i \in DOMAIN Cleanup(c) : Cleanup(c)[i].ch = c
         /\ HasOp(Cleanup(c), Do("clear", c)) /\ Cleanup(c) # <<>>
<1> DEFINE s == Cleanup(c)
<1>1. s = <<Do("read", c), Do("off", c), Do("abort", c), Do("clear", c)>>
  BY DEF Cleanup
<1>2. \A k \in CleanOps : Do(k, c) \in Ops
  BY DEF Do, Ops, CleanOps
<1>3. s \in Seq(Ops) /\ Len(s) = 4 /\ DOMAIN s = 1 .. 4
  BY <1>1, <1>2 DEF CleanOps
<1>4. s[1] = Do("read", c) /\ s[2] = Do("off", c) /\ s[3] = Do("abort", c) /\ s[4] = Do("clear", c)
  BY <1>1
<1> HIDE DEF s
<1>5. \A i \in 1 .. 4 : i = 1 \/ i = 2 \/ i = 3 \/ i = 4
  OBVIOUS
<1>6. Kinds(s, CleanOps) /\ \A i \in DOMAIN s : s[i].ch = c
  BY <1>3, <1>4, <1>5 DEF Kinds, CleanOps, Do
<1>7. HasOp(s, Do("clear", c)) /\ s # <<>>
  BY <1>3, <1>4 DEF HasOp
<1> QED
  BY <1>3, <1>6, <1>7 DEF s

LEMMA ReleaseList ==
  ASSUME NEW c \in ChannelNos
  PROVE  DropList(ReleaseChannel(c), {c})
<1> DEFINE s == ReleaseChannel(c)
<1>1. \A k \in CleanOps \cup {"free"} : Do(k, c) \in Ops
  BY DEF Do, Ops, CleanOps
<1>2. /\ Cleanup(c) \in Seq(Ops) /\ Len(Cleanup(c)) = 4
      /\ Cleanup(c)[1] = Do("read", c) /\ Cleanup(c)[2] = Do("off", c)
      /\ Cleanup(c)[3] = Do("abort", c) /\ Cleanup(c)[4] = Do("clear", c)
  BY <1>1 DEF Cleanup, CleanOps
<1>0. <<Do("free", c)>> \in Seq(Ops) /\ Len(<<Do("free", c)>>) = 1 /\ <<Do("free", c)>>[1] = Do("free", c)
  BY <1>1
<1>3. /\ s \in Seq(Ops) /\ Len(s) = 5 /\ DOMAIN s = 1 .. 5
      /\ \A i \in 1 .. 5 : s[i] = IF i <= 4 THEN Cleanup(c)[i] ELSE <<Do("free", c)>>[i - 4]
  <2> DEFINE a == Cleanup(c)
             b == <<Do("free", c)>>
  <2>1. a \in Seq(Ops) /\ b \in Seq(Ops) /\ Len(a) = 4 /\ Len(b) = 1 /\ s = a \o b
    BY <1>0, <1>2 DEF ReleaseChannel
  <2> HIDE DEF a, b, s
  <2>2. /\ a \o b \in Seq(Ops) /\ Len(a \o b) = 5
        /\ \A i \in 1 .. 5 : (a \o b)[i] = IF i <= 4 THEN a[i] ELSE b[i - 4]
    <3>1. /\ a \o b \in Seq(Ops) /\ Len(a \o b) = Len(a) + Len(b)
          /\ \A i \in 1 .. Len(a) + Len(b) : (a \o b)[i] = IF i <= Len(a) THEN a[i] ELSE b[i - Len(a)]
      BY <2>1, ConcatProperties, Zenon
    <3> QED
      BY <2>1, <3>1
  <2>3. DOMAIN (a \o b) = 1 .. 5
    BY <2>2, LenProperties
  <2> QED
    BY <2>1, <2>2, <2>3 DEF a, b
<1>4. s[1] = Do("read", c) /\ s[2] = Do("off", c) /\ s[3] = Do("abort", c) /\ s[4] = Do("clear", c) /\ s[5] = Do("free", c)
  BY <1>0, <1>2, <1>3
<1> HIDE DEF s
<1>5. \A i \in 1 .. 5 : i = 1 \/ i = 2 \/ i = 3 \/ i = 4 \/ i = 5
  OBVIOUS
<1>6. Kinds(s, DropOps) /\ \A i \in DOMAIN s : s[i].ch = c /\ (s[i].op = "free" => i = 5)
  BY <1>3, <1>4, <1>5 DEF Kinds, CleanOps, DropOps, Do
<1>7. HasOp(s, Do("free", c))
  BY <1>3, <1>4 DEF HasOp
<1>8. AbortsFirst(s, 5)
  BY <1>3, <1>4, <1>6 DEF AbortsFirst
<1>9. LastIsFree(s)
  BY <1>3, <1>6 DEF LastIsFree
<1> QED
  BY <1>3, <1>6, <1>7, <1>8, <1>9 DEF DropList, s

(* Before such a list may come anything else that is done when a transfer  *)
(* is dropped, or the release of another channel.                          *)
LEMMA DropAfter ==
  ASSUME NEW S \in SUBSET ChannelNos, NEW s, NEW t, DropList(t, S),
         s \in Seq(Ops), Kinds(s, DropOps \ {"free"}), \A i \in DOMAIN s : s[i].ch \in S
  PROVE  DropList(s \o t, S)
<1> DEFINE u == s \o t
<1>1. /\ u \in Seq(Ops)
      /\ \A i \in DOMAIN s : i \in DOMAIN u /\ u[i] = s[i]
      /\ \A j \in DOMAIN t : j + Len(s) \in DOMAIN u /\ u[j + Len(s)] = t[j]
      /\ \A i \in DOMAIN u : /\ i \in Nat
                             /\ \/ i \in DOMAIN s
                                \/ i > Len(s) /\ i - Len(s) \in DOMAIN t /\ u[i] = t[i - Len(s)]
  BY InARow DEF DropList
<1>2. Len(s) \in Nat /\ DOMAIN s = 1 .. Len(s) /\ \A j \in DOMAIN t : j \in Nat
  BY LenProperties DEF DropList
<1> HIDE DEF u
<1>3. Kinds(u, DropOps) /\ \A i \in DOMAIN u : u[i].ch \in S
  BY <1>1 DEF DropList, Kinds
<1>4. \A c \in S : HasOp(u, Do("free", c))
  BY <1>1 DEF DropList, HasOp
<1>5. \A i \in DOMAIN u : u[i].op = "free" => i > Len(s) /\ i - Len(s) \in DOMAIN t /\ u[i] = t[i - Len(s)]
  BY <1>1 DEF Kinds
<1>6. LastIsFree(u)
  <2> SUFFICES ASSUME NEW i \in DOMAIN u, NEW j \in DOMAIN u, u[i].op = "free", i < j PROVE u[j].ch # u[i].ch
    BY DEF LastIsFree
  <2>1. i > Len(s) /\ i - Len(s) \in DOMAIN t /\ u[i] = t[i - Len(s)] /\ i \in Nat /\ j \in Nat
    BY <1>1, <1>5
  <2>2. j \notin DOMAIN s
    BY <1>2, <2>1
  <2>3. j - Len(s) \in DOMAIN t /\ u[j] = t[j - Len(s)] /\ i - Len(s) < j - Len(s)
    BY <1>1, <1>2, <2>1, <2>2
  <2> QED
    BY <2>1, <2>3 DEF DropList, LastIsFree
<1>7. \A i \in DOMAIN u : u[i].op = "free" => AbortsFirst(u, i)
  <2> SUFFICES ASSUME NEW i \in DOMAIN u, u[i].op = "free" PROVE AbortsFirst(u, i)
    OBVIOUS
  <2>1. i - Len(s) \in DOMAIN t /\ u[i] = t[i - Len(s)] /\ i \in Nat
    BY <1>1, <1>5
  <2>2. AbortsFirst(t, i - Len(s))
    BY <2>1 DEF DropList
  <2>3. PICK j \in DOMAIN t : j < i - Len(s) /\ t[j] = Do("abort", t[i - Len(s)].ch)
    BY <2>2 DEF AbortsFirst
  <2>4. j + Len(s) \in DOMAIN u /\ u[j + Len(s)] = t[j] /\ j + Len(s) < i
    BY <1>1, <1>2, <2>1, <2>3
  <2> QED
    BY <2>1, <2>3, <2>4 DEF AbortsFirst
<1> QED
  BY <1>1, <1>3, <1>4, <1>6, <1>7 DEF DropList, u

LEMMA DropBoth ==
  ASSUME NEW S \in SUBSET ChannelNos, NEW T \in SUBSET ChannelNos, S \cap T = {},
         NEW s, NEW t, DropList(s, S), DropList(t, T)
  PROVE  DropList(s \o t, S \cup T)
<1> DEFINE u == s \o t
<1>1. /\ u \in Seq(Ops)
      /\ \A i \in DOMAIN s : i \in DOMAIN u /\ u[i] = s[i]
      /\ \A j \in DOMAIN t : j + Len(s) \in DOMAIN u /\ u[j + Len(s)] = t[j]
      /\ \A i \in DOMAIN u : /\ i \in Nat
                             /\ \/ i \in DOMAIN s
                                \/ i > Len(s) /\ i - Len(s) \in DOMAIN t /\ u[i] = t[i - Len(s)]
  BY InARow DEF DropList
<1>2. Len(s) \in Nat /\ DOMAIN s = 1 .. Len(s) /\ \A j \in DOMAIN t : j \in Nat
  BY LenProperties DEF DropList
<1> HIDE DEF u
<1>3. Kinds(u, DropOps) /\ \A i \in DOMAIN u : u[i].ch \in S \cup T
  BY <1>1 DEF DropList, Kinds
<1>4. \A c \in S \cup T : HasOp(u, Do("free", c))
  BY <1>1 DEF DropList, HasOp
<1>6. LastIsFree(u)
  <2> SUFFICES ASSUME NEW i \in DOMAIN u, NEW j \in DOMAIN u, u[i].op = "free", i < j PROVE u[j].ch # u[i].ch
    BY DEF LastIsFree
  <2>1. CASE i \in DOMAIN s
    <3>1. CASE j \in DOMAIN s
      BY <1>1, <2>1, <3>1 DEF DropList, LastIsFree
    <3>2. CASE j \notin DOMAIN s
      <4>1. u[j].ch \in T /\ u[i].ch \in S
        BY <1>1, <2>1, <3>2 DEF DropList
      <4> QED
        BY <4>1
    <3> QED
      BY <3>1, <3>2
  <2>2. CASE i \notin DOMAIN s
    <3>1. i > Len(s) /\ i - Len(s) \in DOMAIN t /\ u[i] = t[i - Len(s)] /\ i \in Nat /\ j \in Nat
      BY <1>1, <2>2
    <3>2. j \notin DOMAIN s
      BY <1>2, <3>1
    <3>3. j - Len(s) \in DOMAIN t /\ u[j] = t[j - Len(s)] /\ i - Len(s) < j - Len(s)
      BY <1>1, <1>2, <3>1, <3>2
    <3> QED
      BY <3>1, <3>3 DEF DropList, LastIsFree
  <2> QED
    BY <2>1, <2>2
<1>7. \A i \in DOMAIN u : u[i].op = "free" => AbortsFirst(u, i)
  <2> SUFFICES ASSUME NEW i \in DOMAIN u, u[i].op = "free" PROVE AbortsFirst(u, i)
    OBVIOUS
  <2>1. CASE i \in DOMAIN s
    BY <1>1, <2>1 DEF DropList, AbortsFirst
  <2>2. CASE i \notin DOMAIN s
    <3>1. i - Len(s) \in DOMAIN t /\ u[i] = t[i - Len(s)] /\ i \in Nat
      BY <1>1, <2>2
    <3>2. AbortsFirst(t, i - Len(s))
      BY <3>1 DEF DropList
    <3>3. PICK j \in DOMAIN t : j < i - Len(s) /\ t[j] = Do("abort", t[i - Len(s)].ch)
      BY <3>2 DEF AbortsFirst
    <3>4. j + Len(s) \in DOMAIN u /\ u[j + Len(s)] = t[j] /\ j + Len(s) < i
      BY <1>1, <1>2, <3>1, <3>3
    <3> QED
      BY <3>1, <3>3, <3>4 DEF AbortsFirst
  <2> QED
    BY <2>1, <2>2
<1> QED
  BY <1>1, <1>3, <1>4, <1>6, <1>7 DEF DropList, u

(* What AwaitDone and a refused begin_pair leave to do.                    *)
LEMMA DropLists ==
  ASSUME NEW rx \in ChannelNos, NEW tx \in ChannelNos, rx # tx
  PROVE  /\ DropList(ReleaseChannel(tx) \o ReleaseChannel(rx), {rx, tx})
         /\ DropList(DropTransfer(rx, tx), {rx, tx}) /\ HasKind(DropTransfer(rx, tx), "stop")
         /\ DropList(StopUart(rx, tx) \o DropTransfer(rx, tx), {rx, tx})
         /\ HasKind(StopUart(rx, tx) \o DropTransfer(rx, tx), "stop")
<1> DEFINE R == ReleaseChannel(tx) \o ReleaseChannel(rx)
           S == {rx, tx}
           U == StopUart(rx, tx)
<1>1. DropList(R, S)
  <2>1. DropList(R, {tx} \cup {rx})
    BY ReleaseList, DropBoth
  <2>2. {tx} \cup {rx} = {rx, tx}
    OBVIOUS
  <2> QED
    BY <2>1, <2>2
<1>2. S \in SUBSET ChannelNos
  OBVIOUS
<1>3. U \in Seq(Ops) /\ Kinds(U, DropOps \ {"free"}) /\ (\A i \in DOMAIN U : U[i].ch \in S) /\ HasKind(U, "stop")
  <2> DEFINE a == <<Do("stop", rx)>>
             b == a \o Cleanup(rx)
  <2>1. /\ a \in Seq(Ops) /\ Kinds(a, DropOps \ {"free"}) /\ (\A i \in DOMAIN a : a[i].ch \in S) /\ HasKind(a, "stop")
    BY DEF Do, Ops, Kinds, HasKind, DropOps, CleanOps
  <2>2. \A c \in S : /\ Cleanup(c) \in Seq(Ops) /\ Kinds(Cleanup(c), DropOps \ {"free"})
                     /\ \A i \in DOMAIN Cleanup(c) : Cleanup(c)[i].ch \in S
    BY CleanupList DEF Kinds, DropOps, CleanOps
  <2> HIDE DEF a
  <2>3. b \in Seq(Ops) /\ Kinds(b, DropOps \ {"free"}) /\ (\A i \in DOMAIN b : b[i].ch \in S) /\ HasKind(b, "stop")
    BY SMTT(30), <2>1, <2>2, InARow DEF Kinds, HasKind
  <2> HIDE DEF b
  <2>4. LET u == b \o Cleanup(tx) IN
        u \in Seq(Ops) /\ Kinds(u, DropOps \ {"free"}) /\ (\A i \in DOMAIN u : u[i].ch \in S) /\ HasKind(u, "stop")
    BY <2>2, <2>3, InARow DEF Kinds, HasKind
  <2> QED
    BY <2>4 DEF a, b, StopUart
<1>4. DropTransfer(rx, tx) = U \o R
  <2>1. ReleaseChannel(tx) \in Seq(Ops) /\ ReleaseChannel(rx) \in Seq(Ops)
    BY ReleaseList DEF DropList
  <2> HIDE DEF U
  <2>2. (U \o ReleaseChannel(tx)) \o ReleaseChannel(rx) = U \o R
    BY SMTT(30), <1>3, <2>1, ConcatAssociative
  <2> QED
    BY <2>2 DEF DropTransfer, U
<1> HIDE DEF U, R
<1>5. DropList(U \o R, S)
  BY <1>1, <1>2, <1>3, DropAfter
<1>6. DropList(U \o (U \o R), S)
  BY <1>2, <1>3, <1>5, DropAfter
<1>7. HasKind(U \o R, "stop") /\ HasKind(U \o (U \o R), "stop")
  BY ZenonT(60), <1>1, <1>3, <1>5, InARow DEF HasKind, DropList
<1> QED
  BY <1>1, <1>4, <1>5, <1>6, <1>7 DEF U, R

(* The set-up: both configured, then published, then asked for and started.*)
LEMMA SetupList ==
  ASSUME NEW rx \in ChannelNos, NEW tx \in ChannelNos
  PROVE  LET s == Setup(rx, tx) IN
         /\ s \in Seq(Ops) /\ Kinds(s, SetupOps) /\ SetupOrdered(s)
         /\ \A i \in DOMAIN s : s[i].ch \in {rx, tx}
         /\ HasKind(s, "publish") /\ HasOp(s, Do("configure", rx))
<1> DEFINE s == Setup(rx, tx)
<1>1. s = <<Do("configure", rx), Do("configure", tx), Do("read", rx), Do("on", rx),
            Do("publish", rx), Do("dmacr", rx), Do("start", rx)>>
  BY DEF Setup
<1>2. \A k \in SetupOps, c \in {rx, tx} : Do(k, c) \in Ops
  BY DEF Do, Ops, SetupOps
<1>3. s \in Seq(Ops) /\ Len(s) = 7 /\ DOMAIN s = 1 .. 7
  BY <1>1, <1>2 DEF SetupOps
<1>4. /\ s[1] = Do("configure", rx) /\ s[2] = Do("configure", tx) /\ s[3] = Do("read", rx)
      /\ s[4] = Do("on", rx) /\ s[5] = Do("publish", rx) /\ s[6] = Do("dmacr", rx) /\ s[7] = Do("start", rx)
  BY <1>1
<1> HIDE DEF s
<1>5. \A i \in 1 .. 7 : i = 1 \/ i = 2 \/ i = 3 \/ i = 4 \/ i = 5 \/ i = 6 \/ i = 7
  OBVIOUS
<1>6. \A i \in 1 .. 7 : /\ s[i].op \in SetupOps /\ s[i].ch \in {rx, tx}
                        /\ s[i].op = "configure" <=> i <= 2
                        /\ s[i].op = "publish" <=> i = 5
                        /\ s[i].op \in {"dmacr", "start"} => i > 5
  BY <1>4, <1>5 DEF SetupOps, Do
<1>7. Kinds(s, SetupOps) /\ SetupOrdered(s) /\ \A i \in DOMAIN s : s[i].ch \in {rx, tx}
  BY <1>3, <1>6 DEF Kinds, SetupOrdered
<1>8. HasKind(s, "publish") /\ HasOp(s, Do("configure", rx))
  BY <1>3, <1>4, <1>6 DEF HasKind, HasOp
<1> QED
  BY <1>3, <1>7, <1>8 DEF s

(* Releasing one of at most two channels.                                  *)
LEMMA WithoutOne ==
  ASSUME NEW s \in Seq(ChannelNos), Len(s) <= 2, Len(s) = 2 => s[1] # s[2],
         NEW c, \E i \in DOMAIN s : s[i] = c
  PROVE  /\ Without(s, c) \in Seq(ChannelNos) /\ Len(Without(s, c)) = Len(s) - 1
         /\ \A d : (\E i \in DOMAIN Without(s, c) : Without(s, c)[i] = d) <=> d # c /\ \E i \in DOMAIN s : s[i] = d
<1>1. Len(s) \in Nat /\ DOMAIN s = 1 .. Len(s) /\ \A i \in DOMAIN s : s[i] \in ChannelNos
  BY LenProperties, ElementOfSeq
<1>2. Len(s) \in {1, 2} /\ s # <<>> /\ Head(s) = s[1]
  BY <1>1
<1>3. Tail(s) \in Seq(ChannelNos) /\ Len(Tail(s)) = Len(s) - 1 /\ DOMAIN Tail(s) = 1 .. Len(s) - 1
  BY <1>1, <1>2, HeadTailProperties, LenProperties
<1>4. \A i \in 1 .. Len(s) - 1 : Tail(s)[i] = s[i + 1]
  BY <1>1, <1>2, HeadTailProperties
<1>5. CASE s[1] = c
  <2>1. Without(s, c) = Tail(s)
    BY <1>2, <1>5 DEF Without
  <2>2. CASE Len(s) = 1
    <3>1. \A d : ~\E i \in DOMAIN Tail(s) : Tail(s)[i] = d
      BY <1>3, <2>2
    <3>2. \A d : (\E i \in DOMAIN s : s[i] = d) => d = c
      BY <1>1, <1>5, <2>2
    <3> QED
      BY <1>3, <2>1, <3>1, <3>2
  <2>3. CASE Len(s) = 2
    <3>1. DOMAIN Tail(s) = {1} /\ Tail(s)[1] = s[2] /\ DOMAIN s = {1, 2}
      BY <1>1, <1>3, <1>4, <2>3
    <3> QED
      BY <1>3, <1>5, <2>1, <2>3, <3>1
  <2> QED
    BY <1>2, <2>2, <2>3
<1>6. CASE s[1] # c
  <2>1. Len(s) = 2 /\ s[2] = c /\ DOMAIN s = {1, 2}
    BY <1>1, <1>2, <1>6
  <2>2. Without(s, c) = <<s[1]>>
    BY <1>2, <1>6 DEF Without
  <2>3. <<s[1]>> \in Seq(ChannelNos) /\ Len(<<s[1]>>) = 1 /\ DOMAIN <<s[1]>> = {1} /\ <<s[1]>>[1] = s[1]
    BY <1>1, <2>1
  <2> QED
    BY <1>6, <2>1, <2>2, <2>3
<1> QED
  BY <1>5, <1>6

----------------------------------------------------------------------------
(* What an access changes.                                                 *)
ChanRecs ==
  [owner : Owners \cup {"free"}, token : Exchanges \cup {NoExchange},
   busy : BOOLEAN, err : BOOLEAN, enabled : BOOLEAN, past : BOOLEAN]

Typed ==
  /\ chan \in [ChannelNos -> ChanRecs] /\ inte0 \subseteq ChannelNos /\ intr \subseteq ChannelNos
  /\ inteSeen \in [Owners -> SUBSET ChannelNos] /\ dmacr \in BOOLEAN

Effect(p, o) ==
  /\ \A d \in ChannelNos : o.op \notin {"abort", "clear", "configure", "start", "free"} => chan'[d] = chan[d]
  /\ \A d \in ChannelNos : o.op # "start" /\ d # o.ch => chan'[d] = chan[d]
  /\ o.op # "free" => \A d \in ChannelNos : chan'[d].owner = chan[d].owner /\ chan'[d].token = chan[d].token
  /\ o.op = "free" => chan'[o.ch].owner = "free" /\ chan'[o.ch].token = NoExchange
  /\ o.op \in {"free", "clear"} => /\ chan'[o.ch].busy = chan[o.ch].busy
                                   /\ chan'[o.ch].past = chan[o.ch].past
  /\ o.op \in {"free", "clear", "abort"} => chan'[o.ch].err = chan[o.ch].err
  /\ o.op = "abort" => chan'[o.ch].busy = FALSE /\ chan'[o.ch].past = FALSE
  /\ o.op = "configure" => chan'[o.ch].busy = TRUE /\ chan'[o.ch].past = FALSE /\ chan'[o.ch].err = FALSE
  /\ o.op = "start" =>
       \A d \in ChannelNos :
         /\ chan'[d].err = chan[d].err
         /\ \/ chan'[d].busy = chan[d].busy /\ chan'[d].past = chan[d].past
            \/ chan[d].owner = p /\ chan[d].busy = FALSE /\ chan[d].err = FALSE /\ chan'[d].busy = TRUE /\ chan'[d].past = TRUE
  /\ (o.op # "dmacr" => dmacr' = FALSE \/ dmacr' = dmacr) /\ (o.op = "stop" => dmacr' = FALSE)
  /\ \A d \in intr' : d \in intr \/ (d = o.ch /\ o.op = "abort" /\ chan[d].busy = TRUE)
  /\ o.op = "clear" => o.ch \notin intr'

LEMMA TypedParts ==
  ASSUME TypeChannels
  PROVE  /\ chan \in [ChannelNos -> ChanRecs] /\ todo \in [Owners -> Seq(Ops)]
         /\ held \in [Owners -> Seq(ChannelNos)] /\ "task" \in Owners /\ "peer" \in Owners
         /\ todo["task"] \in Seq(Ops) /\ todo["peer"] \in Seq(Ops)
         /\ held["task"] \in Seq(ChannelNos) /\ held["peer"] \in Seq(ChannelNos)
         /\ exchange \in [pc : {"idle", "claim_tx", "setup", "await", "drop"},
                          id : 0 .. MAX_EXCHANGES, outcome : {"none", "ok", "timeout", "error"}]
  BY DEF TypeChannels, ChanRecs, Owners

(* Owner p has made the access o.                                          *)
Made(p, o) ==
  /\ todo[p] \in Seq(Ops) /\ todo[p] # <<>> /\ o = todo[p][1] /\ o \in Ops /\ o.ch \in ChannelNos
  /\ o = Do(o.op, o.ch) /\ o.op # "publish"
  /\ chan[o.ch].owner = p
  /\ todo'[p] = Tail(todo[p]) /\ \A q \in Owners : q # p => todo'[q] = todo[q] /\ held'[q] = held[q]
  /\ held'[p] = (IF o.op = "free" THEN Without(held[p], o.ch) ELSE held[p])
  /\ UNCHANGED <<exchange, elsewhere, received>>
  /\ Effect(p, o) /\ Typed'

LEMMA Effects ==
  ASSUME ChannelsInv, NEW p \in Owners, Access(p)
  PROVE  Made(p, todo[p][1])
<1> DEFINE o == todo[p][1]
<1>1. todo[p] \in Seq(Ops) /\ todo[p] # <<>> /\ Head(todo[p]) = o /\ o \in Ops /\ 1 \in DOMAIN todo[p]
  BY TypedParts, RestOf DEF Access, ChannelsInv
<1>2. o.ch \in ChannelNos /\ o = Do(o.op, o.ch)
  BY <1>1 DEF Ops, Do
<1>3. chan[o.ch].owner = p
  BY <1>1 DEF ChannelsInv, OwnWork, OwnList
<1>4. /\ o.op # "publish" /\ todo' = [todo EXCEPT ![p] = Tail(@)]
      /\ held' = (IF o.op = "free" THEN [held EXCEPT ![p] = Without(@, o.ch)] ELSE held)
      /\ UNCHANGED <<exchange, elsewhere, received>>
  BY <1>1 DEF Access
<1>15. /\ todo'[p] = Tail(todo[p]) /\ \A q \in Owners : q # p => todo'[q] = todo[q] /\ held'[q] = held[q]
       /\ held'[p] = (IF o.op = "free" THEN Without(held[p], o.ch) ELSE held[p])
  <2>1. todo \in [Owners -> Seq(Ops)] /\ held \in [Owners -> Seq(ChannelNos)]
    BY TypedParts DEF ChannelsInv
  <2> HIDE DEF o
  <2>2. CASE o.op = "free"
    BY <1>4, <2>1, <2>2
  <2>3. CASE o.op # "free"
    BY <1>4, <2>1, <2>3
  <2> QED
    BY <2>2, <2>3
<1>5. /\ chan \in [ChannelNos -> ChanRecs] /\ inte0 \subseteq ChannelNos /\ intr \subseteq ChannelNos
      /\ inteSeen \in [Owners -> SUBSET ChannelNos] /\ dmacr \in BOOLEAN
      /\ inteSeen[p] \subseteq ChannelNos
  BY DEF ChannelsInv, TypeChannels, ChanRecs
<1> SUFFICES Effect(p, o) /\ Typed'
  BY <1>1, <1>2, <1>3, <1>4, <1>15 DEF Made
<1> HIDE DEF o
<1>6. CASE o.op = "read" /\ ReadInte(p)
  <2>1. chan' = chan /\ intr' = intr /\ dmacr' = dmacr /\ inte0' = inte0 /\ inteSeen' \in [Owners -> SUBSET ChannelNos]
    BY <1>5, <1>6 DEF ReadInte
  <2>8. Typed'
    BY <1>5, <1>6, <2>1 DEF Typed
  <2>9. Effect(p, o)
    BY <1>5, <1>6, <2>1 DEF Effect
  <2> QED
    BY <2>8, <2>9
<1>7. CASE o.op \in {"on", "off"} /\ WriteInte(o, p)
  <2>1. /\ chan' = chan /\ intr' = intr /\ dmacr' = dmacr /\ inte0' \subseteq ChannelNos
        /\ inteSeen' \in [Owners -> SUBSET ChannelNos]
    BY <1>2, <1>5, <1>7 DEF WriteInte
  <2>8. Typed'
    BY <1>5, <1>7, <2>1 DEF Typed
  <2>9. Effect(p, o)
    BY <1>5, <1>7, <2>1 DEF Effect
  <2> QED
    BY <2>8, <2>9
<1>8. CASE o.op = "abort" /\ Abort(o)
  <2> DEFINE a == chan[o.ch]
             b == [a EXCEPT !.busy = FALSE, !.past = FALSE]
  <2>1. a \in ChanRecs
    BY <1>2, <1>5
  <2>2. chan' = [chan EXCEPT ![o.ch] = b]
    BY <1>2, <1>5, <1>8 DEF Abort
  <2>3. b \in ChanRecs /\ b.owner = a.owner /\ b.token = a.token /\ b.err = a.err /\ b.busy = FALSE /\ b.past = FALSE
    BY <2>1 DEF ChanRecs
  <2> HIDE DEF b
  <2>4. chan'[o.ch] = b /\ (\A d \in ChannelNos : d # o.ch => chan'[d] = chan[d]) /\ chan' \in [ChannelNos -> ChanRecs]
    BY <1>2, <1>5, <2>2, <2>3
  <2>5. /\ inte0' = inte0 /\ inteSeen' = inteSeen /\ dmacr' = dmacr
        /\ intr' = intr \/ (chan[o.ch].busy = TRUE /\ intr' = intr \cup {o.ch})
    <3>1. a.busy \in BOOLEAN
      BY <2>1 DEF ChanRecs
    <3>2. intr' = intr \/ (a.busy /\ intr' = intr \cup {o.ch})
      BY <1>8 DEF Abort
    <3>3. inte0' = inte0 /\ inteSeen' = inteSeen /\ dmacr' = dmacr
      BY <1>8 DEF Abort
    <3> QED
      BY <3>1, <3>2, <3>3
  <2>8. Typed'
    BY <1>2, <1>5, <1>8, <2>3, <2>4, <2>5 DEF Typed
  <2>9. Effect(p, o)
    BY <1>2, <1>5, <1>8, <2>3, <2>4, <2>5 DEF Effect
  <2> QED
    BY <2>8, <2>9
<1>9. CASE o.op = "clear" /\ Clear(o)
  <2> DEFINE a == chan[o.ch]
             b == [a EXCEPT !.enabled = FALSE]
  <2>1. a \in ChanRecs
    BY <1>2, <1>5
  <2>2. chan' = [chan EXCEPT ![o.ch] = b]
    BY <1>2, <1>5, <1>9 DEF Clear
  <2>3. b \in ChanRecs /\ b.owner = a.owner /\ b.token = a.token /\ b.err = a.err /\ b.busy = a.busy /\ b.past = a.past
    BY <2>1 DEF ChanRecs
  <2> HIDE DEF b
  <2>4. chan'[o.ch] = b /\ (\A d \in ChannelNos : d # o.ch => chan'[d] = chan[d]) /\ chan' \in [ChannelNos -> ChanRecs]
    BY <1>2, <1>5, <2>2, <2>3
  <2>5. /\ inte0' = inte0 /\ inteSeen' = inteSeen /\ dmacr' = dmacr
        /\ intr' = intr \ {o.ch}
    BY <1>9 DEF Clear, registers
  <2>8. Typed'
    BY <1>2, <1>5, <1>9, <2>3, <2>4, <2>5 DEF Typed
  <2>9. Effect(p, o)
    BY <1>2, <1>5, <1>9, <2>3, <2>4, <2>5 DEF Effect
  <2> QED
    BY <2>8, <2>9
<1>10. CASE o.op = "configure" /\ Configure(o)
  <2> DEFINE a == chan[o.ch]
             b == [a EXCEPT !.busy = TRUE, !.err = FALSE, !.enabled = TRUE, !.past = FALSE]
  <2>1. a \in ChanRecs
    BY <1>2, <1>5
  <2>2. chan' = [chan EXCEPT ![o.ch] = b]
    BY <1>2, <1>5, <1>10 DEF Configure
  <2>3. b \in ChanRecs /\ b.owner = a.owner /\ b.token = a.token /\ b.busy = TRUE /\ b.past = FALSE /\ b.err = FALSE
    BY <2>1 DEF ChanRecs
  <2> HIDE DEF b
  <2>4. chan'[o.ch] = b /\ (\A d \in ChannelNos : d # o.ch => chan'[d] = chan[d]) /\ chan' \in [ChannelNos -> ChanRecs]
    BY <1>2, <1>5, <2>2, <2>3
  <2>5. /\ inte0' = inte0 /\ inteSeen' = inteSeen /\ dmacr' = dmacr
        /\ intr' = intr
    BY <1>10 DEF Configure, registers
  <2>8. Typed'
    BY <1>2, <1>5, <1>10, <2>3, <2>4, <2>5 DEF Typed
  <2>9. Effect(p, o)
    BY <1>2, <1>5, <1>10, <2>3, <2>4, <2>5 DEF Effect
  <2> QED
    BY <2>8, <2>9
<1>11. CASE o.op \in {"dmacr", "stop"} /\ SetDmacr(o)
  <2>1. chan' = chan /\ intr' = intr /\ inteSeen' = inteSeen /\ inte0' = inte0 /\ (o.op = "stop" => dmacr' = FALSE) /\ dmacr' \in BOOLEAN
    BY <1>11 DEF SetDmacr
  <2>8. Typed'
    BY <1>5, <1>11, <2>1 DEF Typed
  <2>9. Effect(p, o)
    BY <1>5, <1>11, <2>1 DEF Effect
  <2> QED
    BY <2>8, <2>9
<1>12. CASE o.op = "start" /\ StartMask(p)
  <2>1. inte0' = inte0 /\ inteSeen' = inteSeen /\ dmacr' = dmacr /\ intr' = intr
    BY <1>12 DEF StartMask, registers
  <2>2. ASSUME NEW d \in ChannelNos
        PROVE  /\ chan'[d] \in ChanRecs /\ chan'[d].owner = chan[d].owner /\ chan'[d].token = chan[d].token
               /\ chan'[d].err = chan[d].err
               /\ \/ chan'[d].busy = chan[d].busy /\ chan'[d].past = chan[d].past
                  \/ chan[d].owner = p /\ chan[d].busy = FALSE /\ chan[d].err = FALSE /\ chan'[d].busy = TRUE /\ chan'[d].past = TRUE
    <3>1. chan[d] \in ChanRecs /\ chan[d].busy \in BOOLEAN /\ chan[d].err \in BOOLEAN
      BY <1>5 DEF ChanRecs
    <3>2. \/ chan'[d] = chan[d]
          \/ chan[d].owner = p /\ chan[d].busy = FALSE /\ chan[d].err = FALSE /\ chan'[d] = [chan[d] EXCEPT !.busy = TRUE, !.past = TRUE]
      BY <1>12, <3>1 DEF StartMask
    <3> QED
      BY <3>1, <3>2 DEF ChanRecs
  <2>3. chan' \in [ChannelNos -> ChanRecs]
    <3>1. \A d \in ChannelNos : chan'[d] \in ChanRecs
      BY <2>2
    <3> QED
      BY <1>12, <3>1 DEF StartMask
  <2>8. Typed'
    BY <1>2, <1>5, <1>12, <2>1, <2>2, <2>3 DEF Typed
  <2>9. Effect(p, o)
    BY <1>2, <1>5, <1>12, <2>1, <2>2, <2>3 DEF Effect
  <2> QED
    BY <2>8, <2>9
<1>13. CASE o.op = "free" /\ Free(o)
  <2> DEFINE a == chan[o.ch]
             b == [a EXCEPT !.owner = "free", !.token = NoExchange]
  <2>1. a \in ChanRecs
    BY <1>2, <1>5
  <2>2. chan' = [chan EXCEPT ![o.ch] = b]
    BY <1>2, <1>5, <1>13 DEF Free
  <2>3. b \in ChanRecs /\ b.err = a.err /\ b.busy = a.busy /\ b.past = a.past /\ b.owner = "free" /\ b.token = NoExchange
    BY <2>1 DEF ChanRecs
  <2> HIDE DEF b
  <2>4. chan'[o.ch] = b /\ (\A d \in ChannelNos : d # o.ch => chan'[d] = chan[d]) /\ chan' \in [ChannelNos -> ChanRecs]
    BY <1>2, <1>5, <2>2, <2>3
  <2>5. /\ inte0' = inte0 /\ inteSeen' = inteSeen /\ dmacr' = dmacr
        /\ intr' = intr
    BY <1>13 DEF Free, registers
  <2>8. Typed'
    BY <1>2, <1>5, <1>13, <2>3, <2>4, <2>5 DEF Typed
  <2>9. Effect(p, o)
    BY <1>2, <1>5, <1>13, <2>3, <2>4, <2>5 DEF Effect
  <2> QED
    BY <2>8, <2>9
<1> QED
  BY <1>1, <1>6, <1>7, <1>8, <1>9, <1>10, <1>11, <1>12, <1>13 DEF Access

----------------------------------------------------------------------------
(* Work on channels that are left alone, that are quieter, or is given up. *)
LEMMA OwnSame ==
  ASSUME NEW s \in Seq(Ops), NEW q, NEW cs, NEW ds, OwnList(s, q, cs),
         \A d \in ChannelNos : cs[d].owner = q => ds[d].owner = q /\ (ds[d].busy => cs[d].busy)
  PROVE  OwnList(s, q, ds)
<1>0. \A i \in DOMAIN s : s[i] \in Ops
  BY ElementOfSeq, LenProperties
<1>1. \A i \in DOMAIN s : s[i].ch \in ChannelNos
  BY <1>0 DEF Ops
<1> QED
  BY <1>1 DEF OwnList

LEMMA DropOwn ==
  ASSUME NEW S \in SUBSET ChannelNos, NEW s, NEW q, NEW cs, DropList(s, S),
         \A c \in S : cs[c].owner = q
  PROVE  OwnList(s, q, cs) /\ Kinds(s, DropOps) /\ s \in Seq(Ops)
  BY DEF DropList, OwnList

LEMMA NoneFreed ==
  ASSUME NEW s, NEW q, NEW cs, NEW K, Kinds(s, K), "free" \notin K,
         \A i \in DOMAIN s : cs[s[i].ch].owner = q
  PROVE  OwnList(s, q, cs)
<1>1. \A i \in DOMAIN s : s[i].op # "free"
  BY DEF Kinds
<1> QED
  BY <1>1 DEF OwnList, LastIsFree

(* What kind of access may be made where.                                  *)
LEMMA Where ==
  ASSUME ChannelsInv, NEW p \in Owners, NEW o, Made(p, o)
  PROVE  /\ p = "task" =>
              /\ exchange.pc # "idle"
              /\ exchange.pc \in {"claim_tx", "setup"} => o.op \in CleanOps
              /\ exchange.pc = "await" => o.op \in SetupOps
              /\ exchange.pc = "drop" => o.op \in DropOps
              /\ todo'["task"] = Tail(todo["task"]) /\ todo'["peer"] = todo["peer"]
              /\ held'["peer"] = held["peer"]
         /\ p = "peer" =>
              /\ o.op \in CleanOps \cup {"free"}
              /\ todo'["peer"] = Tail(todo["peer"]) /\ todo'["task"] = todo["task"]
              /\ held'["task"] = held["task"]
         /\ exchange.pc \in {"idle", "claim_tx", "setup", "await", "drop"}
         /\ exchange' = exchange /\ received' = received /\ top' = top /\ handlerOn' = handlerOn
         /\ signalled' = signalled /\ peerUses' = peerUses
<1>1. /\ todo[p] \in Seq(Ops) /\ todo[p] # <<>> /\ o = todo[p][1]
  BY DEF Made
<1>2. \A K : Kinds(todo[p], K) => o.op \in K
  BY <1>1, HasRest
<1>3. CASE p = "task"
  <2>1. todo["task"] # <<>> /\ \A K : Kinds(todo["task"], K) => o.op \in K
    BY <1>1, <1>2, <1>3
  <2>2. todo'["task"] = Tail(todo["task"]) /\ todo'["peer"] = todo["peer"] /\ held'["peer"] = held["peer"]
    BY <1>3 DEF Made, Owners
  <2>3. exchange.pc \in {"idle", "claim_tx", "setup", "await", "drop"}
    BY TypedParts DEF ChannelsInv
  <2> QED
    BY <1>3, <2>1, <2>2, <2>3 DEF ChannelsInv, WorkMatches, Made, elsewhere
<1>4. CASE p = "peer"
  <2>1. \A K : Kinds(todo["peer"], K) => o.op \in K
    BY <1>1, <1>2, <1>4
  <2>2. todo'["peer"] = Tail(todo["peer"]) /\ todo'["task"] = todo["task"] /\ held'["task"] = held["task"]
    BY <1>4 DEF Made, Owners
  <2>3. exchange.pc \in {"idle", "claim_tx", "setup", "await", "drop"}
    BY TypedParts DEF ChannelsInv
  <2> QED
    BY <1>4, <2>1, <2>2, <2>3 DEF ChannelsInv, WorkMatches, Made, elsewhere
<1> QED
  BY <1>3, <1>4 DEF Owners

LEMMA AccessOwn ==
  ASSUME ChannelsInv, NEW p \in Owners, NEW o, Made(p, o)
  PROVE  OwnWork'
<1>1. /\ todo[p] \in Seq(Ops) /\ todo[p] # <<>> /\ o = todo[p][1] /\ o.ch \in ChannelNos
      /\ chan[o.ch].owner = p /\ Effect(p, o) /\ todo'[p] = Tail(todo[p])
  BY DEF Made
<1>2. OwnList(todo'[p], p, chan')
  <2>1. \A c \in ChannelNos : (o.op = "free" /\ c = o.ch) \/ chan'[c].owner = chan[c].owner
    BY <1>1 DEF Effect
  <2>2. ASSUME NEW c \in ChannelNos, HasOp(todo[p], Do("free", c)), chan'[c].busy
        PROVE  chan[c].busy /\ todo[p][1] # Do("abort", c)
    <3>1. HasKind(todo[p], "free")
      BY <2>2 DEF HasOp, HasKind, Do
    <3>2. o.op \notin {"start", "configure"}
      <4>1. CASE p = "task"
        <5>1. ~Kinds(todo["task"], SetupOps) /\ ~Kinds(todo["task"], CleanOps)
          BY <3>1, <4>1 DEF Kinds, HasKind, SetupOps, CleanOps
        <5> QED
          BY <4>1, <5>1, Where DEF ChannelsInv, WorkMatches, DropOps, CleanOps
      <4>2. CASE p = "peer"
        BY <4>2, Where DEF CleanOps
      <4> QED
        BY <4>1, <4>2 DEF Owners
    <3>3. CASE c = o.ch
      <4>1. o.op # "abort"
        BY <1>1, <2>2, <3>3 DEF Effect
      <4>2. chan'[c].busy = chan[c].busy
        BY <1>1, <3>2, <3>3, <4>1 DEF Effect
      <4> QED
        BY <1>1, <2>2, <4>1, <4>2 DEF Do
    <3>4. CASE c # o.ch
      <4>1. chan'[c] = chan[c]
        BY <1>1, <3>2, <3>4 DEF Effect
      <4> QED
        BY <1>1, <2>2, <3>4, <4>1 DEF Do
    <3> QED
      BY <3>3, <3>4
  <2>3. OwnList(todo[p], p, chan)
    BY DEF ChannelsInv, OwnWork
  <2> QED
    BY <1>1, <2>1, <2>2, <2>3, OwnRest
<1>3. ASSUME NEW q \in Owners, q # p PROVE OwnList(todo'[q], q, chan')
  <2>1. todo'[q] = todo[q] /\ todo[q] \in Seq(Ops) /\ OwnList(todo[q], q, chan)
    BY <1>3, TypedParts DEF Made, ChannelsInv, OwnWork
  <2>2. ASSUME NEW d \in ChannelNos, chan[d].owner = q
        PROVE  chan'[d].owner = q /\ (chan'[d].busy => chan[d].busy)
    <3>1. d # o.ch
      BY <1>1, <1>3, <2>2
    <3>2. CASE o.op # "start"
      BY <1>1, <2>2, <3>1, <3>2 DEF Effect
    <3>3. CASE o.op = "start"
      <4>1. chan'[d].owner = chan[d].owner /\ chan'[d].busy = chan[d].busy
        BY <1>1, <1>3, <2>2, <3>3 DEF Effect
      <4> QED
        BY <2>2, <4>1
    <3> QED
      BY <3>2, <3>3
  <2> QED
    BY <2>1, <2>2, OwnSame
<1> QED
  BY <1>2, <1>3 DEF OwnWork

LEMMA AccessWork ==
  ASSUME ChannelsInv, NEW p \in Owners, NEW o, Made(p, o)
  PROVE  WorkMatches'
<1>1. todo[p] \in Seq(Ops) /\ todo[p] # <<>>
  BY DEF Made
<1>2. \A K : Kinds(todo[p], K) => Kinds(Tail(todo[p]), K)
  BY <1>1, HasRest
<1>3. CASE p = "task"
  <2>1. \A K : Kinds(todo["task"], K) => Kinds(todo'["task"], K)
    BY <1>2, <1>3, Where
  <2> QED
    BY <1>3, <2>1, Where DEF ChannelsInv, WorkMatches
<1>4. CASE p = "peer"
  <2>1. \A K : Kinds(todo["peer"], K) => Kinds(todo'["peer"], K)
    BY <1>2, <1>4, Where
  <2> QED
    BY <1>4, <2>1, Where DEF ChannelsInv, WorkMatches
<1> QED
  BY <1>3, <1>4 DEF Owners

(* Facts about the channels held.                                          *)
LEMMA HeldOnes ==
  ASSUME ChannelsInv
  PROVE  /\ Len(held["task"]) \in {0, 1, 2} /\ Len(held["peer"]) \in {0, 1}
         /\ DOMAIN held["task"] = 1 .. Len(held["task"]) /\ DOMAIN held["peer"] = 1 .. Len(held["peer"])
         /\ \A i \in DOMAIN held["task"] : held["task"][i] \in ChannelNos /\ chan[held["task"][i]].owner = "task"
         /\ \A i \in DOMAIN held["peer"] : held["peer"][i] \in ChannelNos /\ chan[held["peer"][i]].owner = "peer"
         /\ \A c \in ChannelNos : chan[c].owner = "task" => Holds("task", c)
         /\ exchange.pc \in {"claim_tx", "setup", "await"} => Rx \in ChannelNos /\ chan[Rx].owner = "task"
<1>1. held["task"] \in Seq(ChannelNos) /\ held["peer"] \in Seq(ChannelNos)
  BY TypedParts DEF ChannelsInv
<1>2. /\ DOMAIN held["task"] = 1 .. Len(held["task"]) /\ DOMAIN held["peer"] = 1 .. Len(held["peer"])
      /\ Len(held["task"]) \in Nat /\ Len(held["peer"]) \in Nat
      /\ \A i \in DOMAIN held["task"] : held["task"][i] \in ChannelNos
      /\ \A i \in DOMAIN held["peer"] : held["peer"][i] \in ChannelNos
  BY <1>1, LenProperties, ElementOfSeq
<1>3. Len(held["task"]) \in {0, 1, 2} /\ Len(held["peer"]) \in {0, 1}
  <2>1. Len(held["task"]) <= 2 /\ Len(held["peer"]) <= 1
    BY DEF ChannelsInv, HeldMatches
  <2>2. \A n \in Nat : (n <= 2 => n \in {0, 1, 2}) /\ (n <= 1 => n \in {0, 1})
    OBVIOUS
  <2> QED
    BY <1>2, <2>1, <2>2, Zenon
<1>4. /\ \A i \in DOMAIN held["task"] : chan[held["task"][i]].owner = "task"
      /\ \A i \in DOMAIN held["peer"] : chan[held["peer"][i]].owner = "peer"
      /\ \A c \in ChannelNos : chan[c].owner = "task" => Holds("task", c)
  BY <1>2 DEF ChannelsInv, HeldMatches, Holds
<1>5. exchange.pc \in {"claim_tx", "setup", "await"} => 1 \in DOMAIN held["task"]
  <2>1. exchange.pc \in {"claim_tx", "setup", "await"} => Len(held["task"]) = 1 \/ Len(held["task"]) = 2
    BY DEF ChannelsInv, HeldMatches
  <2>2. 1 \in 1 .. 1 /\ 1 \in 1 .. 2
    OBVIOUS
  <2> QED
    BY <1>2, <2>1, <2>2, Zenon
<1> QED
  BY <1>2, <1>3, <1>4, <1>5 DEF Rx

LEMMA AccessHeld ==
  ASSUME ChannelsInv, NEW p \in Owners, NEW o, Made(p, o)
  PROVE  HeldMatches' /\ held'["task"] \in Seq(ChannelNos) /\ held'["peer"] \in Seq(ChannelNos)
<1>0. /\ todo[p] \in Seq(Ops) /\ todo[p] # <<>> /\ o = todo[p][1] /\ o.ch \in ChannelNos /\ o = Do(o.op, o.ch)
      /\ chan[o.ch].owner = p /\ Effect(p, o) /\ todo'[p] = Tail(todo[p])
      /\ held'[p] = (IF o.op = "free" THEN Without(held[p], o.ch) ELSE held[p])
  BY DEF Made
<1>1. held["task"] \in Seq(ChannelNos) /\ held["peer"] \in Seq(ChannelNos)
  BY TypedParts DEF ChannelsInv
<1>2. HeldMatches
  BY DEF ChannelsInv
<1>3. CASE o.op # "free"
  <2>1. held'["task"] = held["task"] /\ held'["peer"] = held["peer"] /\ \A c \in ChannelNos : chan'[c].owner = chan[c].owner
    BY <1>0, <1>3, Where DEF Effect, Owners
  <2>2. \A c : (Holds("task", c)' <=> Holds("task", c)) /\ (Holds("peer", c)' <=> Holds("peer", c))
    BY <2>1 DEF Holds
  <2>3. \A c : HasOp(todo["task"], Do("free", c)) => HasOp(todo'["task"], Do("free", c))
    <3>1. CASE p = "task"
      <4>1. \A c : o # Do("free", c)
        BY <1>0, <1>3 DEF Do
      <4> QED
        BY <1>0, <3>1, <4>1, HasRest
    <3>2. CASE p = "peer"
      BY <3>2, Where
    <3> QED
      BY <3>1, <3>2 DEF Owners
  <2>4. (\A i \in DOMAIN todo["peer"] : Holds("peer", todo["peer"][i].ch))'
    <3>1. CASE p = "task"
      BY <1>2, <2>2, <3>1, Where DEF HeldMatches
    <3>2. CASE p = "peer"
      <4>1. \A i \in DOMAIN Tail(todo["peer"]) : Holds("peer", Tail(todo["peer"])[i].ch)
        BY <1>0, <1>2, <3>2, RestOf DEF HeldMatches
      <4> QED
        BY <1>0, <2>2, <3>2, <4>1
    <3> QED
      BY <3>1, <3>2 DEF Owners
  <2>5. exchange' = exchange
    BY Where
  <2> QED
    BY <1>1, <1>2, <2>1, <2>2, <2>3, <2>4, <2>5 DEF HeldMatches, Owners
<1>4. CASE o.op = "free" /\ p = "task"
  <2>1. exchange' = exchange /\ exchange.pc = "drop" /\ held'["peer"] = held["peer"] /\ todo'["peer"] = todo["peer"]
    BY <1>4, Where DEF CleanOps, SetupOps
  <2>2. /\ held'["task"] \in Seq(ChannelNos) /\ Len(held'["task"]) = Len(held["task"]) - 1
        /\ \A d : Holds("task", d)' <=> d # o.ch /\ Holds("task", d)
    <3>1. Holds("task", o.ch) /\ held'["task"] = Without(held["task"], o.ch)
      BY <1>0, <1>4, HeldOnes
    <3>2. \E i \in DOMAIN held["task"] : held["task"][i] = o.ch
      BY <3>1 DEF Holds
    <3>3. Len(held["task"]) <= 2 /\ (Len(held["task"]) = 2 => held["task"][1] # held["task"][2])
      BY <1>2 DEF HeldMatches
    <3>4. LET w == Without(held["task"], o.ch) IN
          /\ w \in Seq(ChannelNos) /\ Len(w) = Len(held["task"]) - 1
          /\ \A d : (\E i \in DOMAIN w : w[i] = d) <=> d # o.ch /\ \E i \in DOMAIN held["task"] : held["task"][i] = d
      BY <1>1, <3>2, <3>3, WithoutOne
    <3> QED
      BY <3>1, <3>4 DEF Holds
  <2>3. \A d : Holds("peer", d)' <=> Holds("peer", d)
    BY <2>1 DEF Holds
  <2>4. /\ chan'[o.ch].owner = "free" /\ \A d \in ChannelNos : d # o.ch => chan'[d].owner = chan[d].owner
    BY <1>0, <1>4 DEF Effect
  <2>5. \A c \in ChannelNos : Holds("task", c)' => HasOp(todo'["task"], Do("free", c))
    <3>1. \A c \in ChannelNos : c # o.ch => o # Do("free", c)
      BY <1>0 DEF Do
    <3> QED
      BY <1>0, <1>2, <1>4, <2>1, <2>2, <3>1, HasRest DEF HeldMatches
  <2>6. Len(held["task"]) \in {0, 1, 2}
    BY HeldOnes
  <2>7. Len(held'["task"]) <= 2 /\ Len(held'["task"]) # 2 /\ Len(held'["peer"]) <= 1
    BY SMTT(30), <1>2, <2>1, <2>2, <2>6 DEF HeldMatches
  <2>8. /\ \A c \in ChannelNos : chan'[c].owner = "task" <=> Holds("task", c)'
        /\ \A c \in ChannelNos : Holds("peer", c)' => chan'[c].owner = "peer"
    BY <1>0, <1>2, <1>4, <2>2, <2>3, <2>4 DEF HeldMatches
  <2>9. (\A i \in DOMAIN todo["peer"] : Holds("peer", todo["peer"][i].ch))'
    BY <1>2, <2>1, <2>3 DEF HeldMatches
  <2> QED
    BY <1>1, <2>1, <2>2, <2>5, <2>7, <2>8, <2>9 DEF HeldMatches
<1>5. CASE o.op = "free" /\ p = "peer"
  <2>1. exchange' = exchange /\ held'["task"] = held["task"] /\ todo'["task"] = todo["task"]
    BY <1>5, Where
  <2>2. Holds("peer", o.ch) /\ Len(held["peer"]) \in {0, 1}
    BY <1>0, <1>2, <1>5, RestOf, HeldOnes DEF HeldMatches
  <2>3. /\ held'["peer"] \in Seq(ChannelNos) /\ Len(held'["peer"]) = Len(held["peer"]) - 1
        /\ \A d : Holds("peer", d)' <=> d # o.ch /\ Holds("peer", d)
    <3>1. held'["peer"] = Without(held["peer"], o.ch)
      BY <1>0, <1>5
    <3>2. \E i \in DOMAIN held["peer"] : held["peer"][i] = o.ch
      BY <2>2 DEF Holds
    <3>0. \A n \in {0, 1} : n <= 2 /\ n # 2
      OBVIOUS
    <3>3. Len(held["peer"]) <= 2 /\ Len(held["peer"]) # 2
      BY <2>2, <3>0, Zenon
    <3>4. LET w == Without(held["peer"], o.ch) IN
          /\ w \in Seq(ChannelNos) /\ Len(w) = Len(held["peer"]) - 1
          /\ \A d : (\E i \in DOMAIN w : w[i] = d) <=> d # o.ch /\ \E i \in DOMAIN held["peer"] : held["peer"][i] = d
      BY <1>1, <3>2, <3>3, WithoutOne
    <3> QED
      BY <3>1, <3>4 DEF Holds
  <2>4. \A d : Holds("task", d)' <=> Holds("task", d)
    BY <2>1 DEF Holds
  <2>5. /\ chan'[o.ch].owner = "free" /\ \A d \in ChannelNos : d # o.ch => chan'[d].owner = chan[d].owner
    BY <1>0, <1>5 DEF Effect
  <2>6. /\ \A c \in ChannelNos : chan'[c].owner = "task" <=> Holds("task", c)'
        /\ \A c \in ChannelNos : Holds("peer", c)' => chan'[c].owner = "peer"
    BY <1>0, <1>2, <1>5, <2>3, <2>4, <2>5 DEF HeldMatches
  <2>7. (\A i \in DOMAIN todo["peer"] : Holds("peer", todo["peer"][i].ch))'
    <3>1. todo'["peer"] = Tail(todo["peer"]) /\ \A i \in DOMAIN Tail(todo["peer"]) : Holds("peer", Tail(todo["peer"])[i].ch)
      BY <1>0, <1>2, <1>5, RestOf DEF HeldMatches
    <3>2. LastIsFree(todo["peer"]) /\ 1 \in DOMAIN todo["peer"]
      BY <1>0, <1>5, RestOf DEF ChannelsInv, OwnWork, OwnList, Owners
    <3>3. \A i \in DOMAIN Tail(todo["peer"]) : 1 < i + 1 /\ i + 1 \in DOMAIN todo["peer"] /\ Tail(todo["peer"])[i] = todo["peer"][i + 1]
      BY <1>0, <1>5, RestOf
    <3>4. \A i \in DOMAIN Tail(todo["peer"]) : Tail(todo["peer"])[i].ch # o.ch
      BY <1>0, <1>5, <3>2, <3>3 DEF LastIsFree
    <3> QED
      BY <2>3, <3>1, <3>4
  <2>8. Len(held'["peer"]) <= 1
    BY <1>1, <2>2, <2>3
  <2> QED
    BY <1>1, <1>2, <2>1, <2>3, <2>4, <2>6, <2>7, <2>8 DEF HeldMatches
<1> QED
  BY <1>3, <1>4, <1>5 DEF Owners

LEMMA AccessQuiet ==
  ASSUME ChannelsInv, NEW p \in Owners, NEW o, Made(p, o)
  PROVE  FreeIsQuiet'
<1>0. /\ todo[p] \in Seq(Ops) /\ todo[p] # <<>> /\ o = todo[p][1] /\ o.ch \in ChannelNos
      /\ chan[o.ch].owner = p /\ Effect(p, o)
  BY DEF Made
<1>1. p # "free"
  BY DEF Owners
<1> SUFFICES ASSUME NEW c \in ChannelNos, chan'[c].owner = "free"
             PROVE  ~chan'[c].busy /\ chan'[c].token = NoExchange
  BY DEF FreeIsQuiet
<1>2. CASE o.op = "free" /\ c = o.ch
  <2>1. OwnList(todo[p], p, chan) /\ 1 \in DOMAIN todo[p] /\ \A j \in DOMAIN todo[p] : j \in Nat /\ j >= 1
    BY <1>0, RestOf DEF ChannelsInv, OwnWork
  <2>2. ~AbortsFirst(todo[p], 1)
    BY <2>1 DEF AbortsFirst
  <2>3. ~chan[c].busy
    BY <1>0, <1>2, <2>1, <2>2 DEF OwnList
  <2> QED
    BY <1>0, <1>2, <2>3 DEF Effect
<1>3. CASE o.op # "free" \/ c # o.ch
  <2>1. chan'[c].owner = chan[c].owner
    BY <1>0, <1>3 DEF Effect
  <2>2. c # o.ch /\ ~chan[c].busy /\ chan[c].token = NoExchange
    BY <1>0, <1>1, <2>1 DEF ChannelsInv, FreeIsQuiet
  <2>3. CASE o.op = "start"
    BY <1>0, <1>1, <2>1, <2>2, <2>3 DEF Effect
  <2>4. CASE o.op # "start"
    BY <1>0, <2>2, <2>4 DEF Effect
  <2> QED
    BY <2>3, <2>4
<1> QED
  BY <1>2, <1>3

(* What is still to be published or configured, before and after.          *)
LEMMA ToPublishLess ==
  ASSUME ChannelsInv, NEW p \in Owners, NEW o, Made(p, o)
  PROVE  /\ ToPublish' <=> ToPublish
         /\ \A k : HasKind(todo'["task"], k) => HasKind(todo["task"], k)
         /\ \A k : HasKind(todo["task"], k) /\ (p = "task" => o.op # k) => HasKind(todo'["task"], k)
         /\ \A x : HasOp(todo["task"], x) /\ (p = "task" => o # x) => HasOp(todo'["task"], x)
<1>1. todo[p] \in Seq(Ops) /\ todo[p] # <<>> /\ o = todo[p][1] /\ o.op # "publish"
  BY DEF Made
<1>2. CASE p = "task"
  <2>1. todo'["task"] = Tail(todo["task"])
    BY <1>2, Where
  <2>2. /\ \A k : HasKind(todo["task"], k) <=> k = o.op \/ HasKind(todo'["task"], k)
        /\ \A x : HasOp(todo["task"], x) <=> x = o \/ HasOp(todo'["task"], x)
    BY <1>1, <1>2, <2>1, HasRest
  <2> QED
    BY <1>1, <1>2, <2>2 DEF ToPublish
<1>3. CASE p = "peer"
  BY <1>3, Where DEF ToPublish
<1> QED
  BY <1>2, <1>3 DEF Owners

LEMMA AccessAsks ==
  ASSUME ChannelsInv, NEW p \in Owners, NEW o, Made(p, o)
  PROVE  AsksWhenSetUp'
<1>0. /\ todo[p] \in Seq(Ops) /\ todo[p] # <<>> /\ o = todo[p][1] /\ Effect(p, o)
  BY DEF Made
<1>1. exchange' = exchange /\ AsksWhenSetUp
  BY Where DEF ChannelsInv
<1>2. exchange.pc = "await" => SetupOrdered(todo'["task"])
  <2>1. CASE p = "task"
    BY <1>0, <1>1, <2>1, OrderedRest, Where DEF AsksWhenSetUp
  <2>2. CASE p = "peer"
    BY <1>1, <2>2, Where DEF AsksWhenSetUp
  <2> QED
    BY <2>1, <2>2 DEF Owners
<1>3. exchange.pc = "await" /\ HasKind(todo'["task"], "configure") => ToPublish'
  BY <1>1, ToPublishLess DEF AsksWhenSetUp
<1>4. ASSUME dmacr' PROVE \/ exchange.pc = "await" /\ ~ToPublish'
                          \/ exchange.pc = "drop" /\ HasKind(todo'["task"], "stop")
  <2>1. CASE o.op = "dmacr"
    <3>1. p = "task" /\ exchange.pc = "await"
      BY <2>1, Where DEF CleanOps, DropOps, Owners
    <3>2. ~HasKind(Tail(todo["task"]), "publish")
      BY <1>0, <1>1, <2>1, <3>1, OrderedRest DEF AsksWhenSetUp
    <3> QED
      BY <3>1, <3>2, Where DEF ToPublish
  <2>2. CASE o.op # "dmacr"
    <3>1. dmacr /\ o.op # "stop"
      BY <1>0, <1>4, <2>2 DEF Effect
    <3> QED
      BY <1>1, <3>1, ToPublishLess DEF AsksWhenSetUp
  <2> QED
    BY <2>1, <2>2
<1> QED
  BY <1>1, <1>2, <1>3, <1>4 DEF AsksWhenSetUp

LEMMA AccessTokens ==
  ASSUME ChannelsInv, NEW p \in Owners, NEW o, Made(p, o)
  PROVE  TokensMatch'
<1>0. /\ todo[p] \in Seq(Ops) /\ todo[p] # <<>> /\ o = todo[p][1] /\ Effect(p, o) /\ o.ch \in ChannelNos
      /\ chan[o.ch].owner = p
  BY DEF Made
<1>1. exchange' = exchange /\ signalled' = signalled /\ TokensMatch /\ (ToPublish' <=> ToPublish)
  BY Where, ToPublishLess DEF ChannelsInv
<1>2. exchange.pc = "await" => held'["task"] = held["task"]
  <2>1. CASE p = "task"
    BY <2>1, Where DEF Made, SetupOps
  <2>2. CASE p = "peer"
    BY <2>2, Where
  <2> QED
    BY <2>1, <2>2 DEF Owners
<1>3. ASSUME NEW c \in ChannelNos, chan'[c].token # NoExchange
      PROVE  chan[c].token = chan'[c].token /\ chan[c].owner = chan'[c].owner
  <2>1. ~(o.op = "free" /\ c = o.ch)
    BY <1>0, <1>3 DEF Effect
  <2> QED
    BY <1>0, <2>1 DEF Effect
<1>4. ASSUME NEW c \in ChannelNos, chan'[c].err PROVE ~chan'[c].busy
  <2>1. chan[c].err => ~chan[c].busy
    BY <1>1 DEF TokensMatch
  <2>2. CASE o.op = "start"
    <3>1. chan'[c].err = chan[c].err
      BY <1>0, <2>2 DEF Effect
    <3>2. chan'[c].busy = chan[c].busy \/ chan[c].err = FALSE
      BY <1>0, <2>2 DEF Effect
    <3> QED
      BY <1>4, <2>1, <3>1, <3>2
  <2>3. CASE o.op # "start" /\ c # o.ch
    BY <1>0, <1>4, <2>1, <2>3 DEF Effect
  <2>4. CASE c = o.ch /\ o.op \notin {"abort", "clear", "configure", "start", "free"}
    BY <1>0, <1>4, <2>1, <2>4 DEF Effect
  <2>5. CASE c = o.ch /\ o.op = "abort"
    BY <1>0, <2>5 DEF Effect
  <2>6. CASE c = o.ch /\ o.op = "configure"
    BY <1>0, <1>4, <2>6 DEF Effect
  <2>7. CASE c = o.ch /\ o.op \in {"clear", "free"}
    BY <1>0, <1>4, <2>1, <2>7 DEF Effect
  <2> QED
    BY <2>2, <2>3, <2>4, <2>5, <2>6, <2>7
<1> QED
  BY <1>1, <1>2, <1>3, <1>4 DEF TokensMatch

LEMMA AccessTypes ==
  ASSUME ChannelsInv, NEW p \in Owners, NEW o, Made(p, o), Access(p)
  PROVE  TypeChannels'
<1>1. Typed' /\ exchange' = exchange /\ received' = received /\ top' = top /\ handlerOn' = handlerOn
      /\ signalled' = signalled /\ peerUses' = peerUses
  BY Where DEF Made
<1>2. todo' \in [Owners -> Seq(Ops)]
  <2>1. todo \in [Owners -> Seq(Ops)] /\ Tail(todo[p]) \in Seq(Ops) /\ todo' = [todo EXCEPT ![p] = Tail(@)]
    BY TypedParts, RestOf DEF ChannelsInv, Access
  <2> QED
    BY <2>1
<1>3. held' \in [Owners -> Seq(ChannelNos)]
  <2>1. held \in [Owners -> Seq(ChannelNos)] /\ held'["task"] \in Seq(ChannelNos) /\ held'["peer"] \in Seq(ChannelNos)
    BY TypedParts, AccessHeld DEF ChannelsInv
  <2>2. \A q \in Owners : held'[q] \in Seq(ChannelNos)
    BY <2>1 DEF Owners
  <2>3. held' = [q \in Owners |-> held'[q]]
    BY <2>1 DEF Access
  <2> QED
    BY <2>2, <2>3
<1> QED
  BY <1>1, <1>2, <1>3 DEF ChannelsInv, TypeChannels, Typed, ChanRecs

(* What the task has reserved for its exchange is disturbed by no access    *)
(* of the peer's, and of its own only as the exchange asks for.             *)
LEMMA AccessFresh ==
  ASSUME ChannelsInv, NEW p \in Owners, NEW o, Made(p, o), handlerOn = "task"
  PROVE  Fresh'
<1>0. /\ Effect(p, o) /\ o.ch \in ChannelNos /\ chan[o.ch].owner = p /\ o = Do(o.op, o.ch)
      /\ todo[p] \in Seq(Ops) /\ todo[p] # <<>> /\ o = todo[p][1]
  BY DEF Made
<1>1. /\ exchange' = exchange /\ received' = received /\ top' = top /\ signalled' = signalled
      /\ Fresh /\ (ToPublish' <=> ToPublish)
  BY Where, ToPublishLess DEF ChannelsInv
<1>2. exchange.pc \in {"claim_tx", "setup", "await"} =>
        /\ o.op # "free" \/ p = "peer"
        /\ held'["task"] = held["task"] /\ Rx' = Rx /\ Rx \in ChannelNos /\ chan[Rx].owner = "task"
  <2>1. CASE p = "task"
    BY <2>1, Where, HeldOnes DEF Made, SetupOps, CleanOps, Rx
  <2>2. CASE p = "peer"
    BY <2>2, Where, HeldOnes DEF Rx
  <2> QED
    BY <2>1, <2>2 DEF Owners
<1>3. p = "peer" => \A d \in ChannelNos : d # o.ch => chan'[d] = chan[d]
  BY <1>0, Where DEF Effect, CleanOps
<1>4. p = "peer" /\ exchange.pc \in {"claim_tx", "setup", "await"} =>
        chan'[Rx] = chan[Rx] /\ (Rx \in intr' => Rx \in intr)
  BY <1>0, <1>2, <1>3 DEF Effect
<1>5. exchange.pc \in {"claim_tx", "setup"} => Quiet'
  <2> SUFFICES ASSUME exchange.pc \in {"claim_tx", "setup"}, NEW d \in ChannelNos, chan'[d].owner = "task"
               PROVE  ~chan'[d].busy
    BY DEF Quiet
  <2>1. chan[d].owner = "task"
    BY <1>0, <1>2 DEF Effect
  <2>2. ~chan[d].busy
    BY <1>1, <2>1 DEF Fresh, Quiet
  <2>3. CASE p = "peer"
    BY <1>0, <1>3, <2>1, <2>2, <2>3
  <2>4. CASE p = "task"
    <3>1. o.op \in CleanOps
      BY <2>4, Where
    <3>2. CASE d # o.ch
      BY <1>0, <2>2, <3>1, <3>2 DEF Effect, CleanOps
    <3>3. CASE d = o.ch
      BY <1>0, <2>2, <3>1, <3>3 DEF Effect, CleanOps
    <3> QED
      BY <3>2, <3>3
  <2> QED
    BY <2>3, <2>4 DEF Owners
<1>6. exchange.pc \in {"claim_tx", "setup"} /\ Rx \in intr' => Rx \in intr
  <2>1. CASE p = "task"
    <3>1. exchange.pc \in {"claim_tx", "setup"} => ~chan[Rx].busy
      BY <1>1, <1>2 DEF Fresh, Quiet
    <3> QED
      BY <1>0, <3>1 DEF Effect
  <2>2. CASE p = "peer"
    BY <1>4, <2>2
  <2> QED
    BY <2>1, <2>2 DEF Owners
<1>7. exchange.pc = "claim_tx" => Rx' \notin intr' \/ HasOp(todo'["task"], Do("clear", Rx'))
  <2> SUFFICES ASSUME exchange.pc = "claim_tx", Rx \in intr' PROVE HasOp(todo'["task"], Do("clear", Rx))
    BY <1>2
  <2>1. HasOp(todo["task"], Do("clear", Rx))
    BY <1>1, <1>6 DEF Fresh
  <2>2. o # Do("clear", Rx)
    BY <1>0 DEF Effect, Do
  <2> QED
    BY <2>1, <2>2, ToPublishLess
<1>8. exchange.pc = "setup" => Rx' \notin intr'
  BY <1>1, <1>2, <1>6 DEF Fresh
<1>9. ASSUME exchange.pc = "await", ToPublish PROVE Unreported'
  <2>1. Unreported /\ Rx' = Rx /\ Rx \in ChannelNos
    BY <1>1, <1>2, <1>9 DEF Fresh
  <2>2. CASE p = "peer"
    <3>1. todo'["task"] = todo["task"]
      BY <2>2, Where
    <3> QED
      BY <1>4, <1>9, <2>1, <2>2, <3>1 DEF Unreported
  <2>3. CASE p = "task"
    <3>1. o.op \in SetupOps /\ o.op \notin {"publish", "dmacr", "start"}
      <4>1. o.op \in {"publish", "dmacr", "start"} => ~HasKind(Tail(todo["task"]), "publish")
        BY <1>0, <1>9, <2>3, OrderedRest DEF ChannelsInv, AsksWhenSetUp
      <4> QED
        BY <1>1, <1>9, <2>3, <4>1, Where DEF ToPublish
    <3>2. Rx \notin intr'
      BY <1>0, <2>1, <3>1 DEF Effect, Unreported, SetupOps
    <3>3. CASE o = Do("configure", Rx)
      <4>1. o.op = "configure" /\ o.ch = Rx
        BY <3>3 DEF Do
      <4>2. chan'[Rx].busy /\ ~chan'[Rx].past
        BY <1>0, <4>1 DEF Effect
      <4> QED
        BY <2>1, <3>2, <4>2 DEF Unreported
    <3>4. CASE o # Do("configure", Rx)
      <4>1. chan'[Rx] = chan[Rx]
        <5>1. o.op \in {"configure", "read", "on"}
          BY <3>1 DEF SetupOps
        <5>2. o.op = "configure" => Rx # o.ch
          BY <1>0, <3>4
        <5> QED
          BY <1>0, <2>1, <5>1, <5>2 DEF Effect
      <4>2. HasOp(todo["task"], Do("configure", Rx)) => HasOp(todo'["task"], Do("configure", Rx))
        BY <3>4, ToPublishLess
      <4> QED
        BY <2>1, <3>2, <4>1, <4>2 DEF Unreported
    <3> QED
      BY <3>3, <3>4
  <2> QED
    BY <2>2, <2>3 DEF Owners
<1>10. ASSUME exchange.pc = "await", ~ToPublish PROVE Reported'
  <2>1. Reported /\ Rx' = Rx /\ Rx \in ChannelNos
    BY <1>1, <1>2, <1>10 DEF Fresh
  <2>2. Rx \in intr' => Rx \in intr
    <3>1. CASE p = "task"
      BY <1>0, <1>10, <3>1, Where DEF Effect, SetupOps
    <3>2. CASE p = "peer"
      BY <1>4, <1>10, <3>2
    <3> QED
      BY <3>1, <3>2 DEF Owners
  <2>3. CASE chan'[Rx] = chan[Rx]
    BY <1>1, <2>1, <2>2, <2>3 DEF Reported, Over
  <2>4. CASE chan'[Rx] # chan[Rx]
    <3>1. p = "task" /\ o.op = "start"
      <4>1. p = "task"
        BY <1>4, <1>10, <2>4 DEF Owners
      <4>2. o.op # "configure"
        BY <1>0, <1>10, <4>1, HasRest DEF ChannelsInv, AsksWhenSetUp
      <4>3. o.op \in SetupOps
        BY <1>10, <4>1, Where
      <4> QED
        BY <1>0, <2>1, <2>4, <4>1, <4>2, <4>3 DEF Effect, SetupOps
    <3>2. /\ chan'[Rx].err = chan[Rx].err
          /\ \/ chan'[Rx].busy = chan[Rx].busy /\ chan'[Rx].past = chan[Rx].past
             \/ chan[Rx].busy = FALSE /\ chan[Rx].err = FALSE /\ chan'[Rx].busy = TRUE /\ chan'[Rx].past = TRUE
      BY <1>0, <2>1, <3>1 DEF Effect
    <3>3. CASE chan'[Rx].busy = chan[Rx].busy /\ chan'[Rx].past = chan[Rx].past
      BY <1>1, <2>1, <2>2, <3>2, <3>3 DEF Reported, Over
    <3>4. CASE chan[Rx].busy = FALSE /\ chan[Rx].err = FALSE
      <4>1. received
        BY <2>1, <3>4 DEF Reported, Over
      <4> QED
        BY <1>1, <4>1 DEF Reported, Over
    <3> QED
      BY <3>2, <3>3, <3>4
  <2> QED
    BY <2>3, <2>4
<1>11. exchange'.outcome = "ok" => received'
  BY <1>1 DEF Fresh
<1> QED
  BY <1>1, <1>5, <1>7, <1>8, <1>9, <1>10, <1>11 DEF Fresh

LEMMA AccessKeeps ==
  ASSUME ChannelsInv, NEW p \in Owners, Access(p)
  PROVE  ChannelsInv'
<1> DEFINE o == todo[p][1]
<1>1. Made(p, o)
  BY Effects
<1> HIDE DEF o
<1>2. handlerOn' = handlerOn
  BY <1>1, Where
<1> QED
  BY <1>1, <1>2, AccessTypes, AccessOwn, AccessWork, AccessHeld, AccessQuiet, AccessAsks, AccessTokens, AccessFresh
     DEF ChannelsInv

----------------------------------------------------------------------------
(* The parts of the type invariant that the other steps change.            *)
LEMMA ReleaseKinds ==
  ASSUME NEW c \in ChannelNos
  PROVE  Kinds(ReleaseChannel(c), CleanOps \cup {"free"})
<1> DEFINE a == Cleanup(c)
           b == <<Do("free", c)>>
<1>1. a \in Seq(Ops) /\ Kinds(a, CleanOps)
  BY CleanupList
<1>2. b \in Seq(Ops) /\ Kinds(b, {"free"})
  BY DEF Do, Ops, Kinds
<1>3. ReleaseChannel(c) = a \o b
  BY DEF ReleaseChannel
<1> HIDE DEF a, b
<1> QED
  BY <1>1, <1>2, <1>3, InARow DEF Kinds

LEMMA InitChannelsInv == ChannelsInit => ChannelsInv
<1> SUFFICES ASSUME ChannelsInit PROVE ChannelsInv
  OBVIOUS
<1>1. PICK n \in 0 .. MAX_TAKEN :
        chan = [c \in ChannelNos |-> IF c < n THEN [Idle EXCEPT !.owner = "peer"] ELSE Idle]
  BY DEF ChannelsInit
<1>2. Idle \in ChanRecs /\ [Idle EXCEPT !.owner = "peer"] \in ChanRecs
  BY DEF Idle, ChanRecs, Owners
<1>3. \A c \in ChannelNos : chan[c] \in ChanRecs
  BY <1>1, <1>2
<1>4. \A c \in ChannelNos : /\ ~chan[c].busy /\ ~chan[c].err /\ chan[c].token = NoExchange
                            /\ chan[c].owner # "task"
  BY <1>1 DEF Idle
<1>5. chan \in [ChannelNos -> ChanRecs]
  BY <1>1, <1>3
<1>6. <<>> \in Seq(Ops) /\ <<>> \in Seq(ChannelNos) /\ Len(<<>>) = 0 /\ DOMAIN <<>> = {}
  OBVIOUS
<1>7. /\ inte0 = {} /\ intr = {} /\ dmacr = FALSE /\ todo = [p \in Owners |-> <<>>]
      /\ inteSeen = [p \in Owners |-> {}] /\ peerUses = 0 /\ held = [p \in Owners |-> <<>>]
      /\ exchange = [pc |-> "idle", id |-> 0, outcome |-> "none"]
      /\ top = [at |-> "idle", ch |-> 0] /\ handlerOn \in HandlerCores /\ signalled = {} /\ received = FALSE
  BY DEF ChannelsInit
<1>8. todo["task"] = <<>> /\ todo["peer"] = <<>> /\ held["task"] = <<>> /\ held["peer"] = <<>>
  BY <1>7 DEF Owners
<1>9. /\ exchange.pc = "idle" /\ exchange.id = 0 /\ exchange.outcome = "none"
  BY <1>7
<1>10. TypeChannels
  <2>1. 0 \in ChannelNos /\ 0 \in 0 .. MAX_EXCHANGES /\ 0 \in 0 .. MAX_PEER_USES
    BY ChannelsAssumption DEF ChannelNos
  <2> QED
    BY <1>5, <1>6, <1>7, <2>1 DEF TypeChannels, ChanRecs
<1>11. OwnWork
  BY <1>6, <1>8 DEF OwnWork, OwnList, LastIsFree, Owners
<1>12. WorkMatches
  BY <1>6, <1>8, <1>9 DEF WorkMatches, Kinds
<1>13. HeldMatches
  BY <1>4, <1>6, <1>8, <1>9 DEF HeldMatches, Holds
<1>14. FreeIsQuiet /\ AsksWhenSetUp /\ TokensMatch /\ Fresh
  BY <1>4, <1>7, <1>9 DEF FreeIsQuiet, AsksWhenSetUp, TokensMatch, Fresh
<1> QED
  BY <1>10, <1>11, <1>12, <1>13, <1>14 DEF ChannelsInv

(* An id is given to the receive channel, or the buffers are refused.      *)
LEMMA PublishKeeps ==
  ASSUME ChannelsInv, PublishToken
  PROVE  ChannelsInv'
<1> DEFINE rx == held["task"][1]
           tx == held["task"][2]
           s == todo["task"]
<1>0. /\ MayMove("task") /\ s # <<>> /\ Head(s).op = "publish" /\ UNCHANGED <<registers, held, elsewhere>>
      /\ \/ /\ MayPublish("task", rx)
            /\ exchange' = [exchange EXCEPT !.id = @ + 1]
            /\ chan' = [chan EXCEPT ![rx].token = exchange.id + 1]
            /\ todo' = [todo EXCEPT !["task"] = Tail(@)]
            /\ received' = FALSE
         \/ /\ exchange' = [exchange EXCEPT !.pc = "drop", !.outcome = "error"]
            /\ todo' = [todo EXCEPT !["task"] = ReleaseChannel(tx) \o ReleaseChannel(rx)]
            /\ UNCHANGED <<chan, received>>
  BY DEF PublishToken
<1>1. /\ inte0' = inte0 /\ intr' = intr /\ dmacr' = dmacr /\ inteSeen' = inteSeen /\ held' = held /\ top' = top
      /\ peerUses' = peerUses /\ handlerOn' = handlerOn /\ signalled' = signalled
  BY <1>0 DEF registers, elsewhere
<1>2. /\ TypeChannels /\ OwnWork /\ WorkMatches /\ HeldMatches /\ FreeIsQuiet /\ AsksWhenSetUp /\ TokensMatch
      /\ chan \in [ChannelNos -> ChanRecs] /\ todo \in [Owners -> Seq(Ops)] /\ s \in Seq(Ops) /\ todo["peer"] \in Seq(Ops)
      /\ exchange \in [pc : {"idle", "claim_tx", "setup", "await", "drop"},
                       id : 0 .. MAX_EXCHANGES, outcome : {"none", "ok", "timeout", "error"}]
  BY TypedParts DEF ChannelsInv
<1>3. s[1].op = "publish" /\ ToPublish /\ \A K : Kinds(s, K) => "publish" \in K
  BY <1>0, <1>2, RestOf, HasRest DEF ToPublish
<1>4. exchange.pc = "await" /\ exchange.outcome = "none"
  BY <1>0, <1>2, <1>3 DEF WorkMatches, CleanOps, DropOps, TokensMatch
<1>5. /\ rx \in ChannelNos /\ tx \in ChannelNos /\ rx # tx /\ chan[rx].owner = "task" /\ chan[tx].owner = "task"
      /\ \A c : Holds("task", c) <=> c \in {rx, tx}
  <2>1. Len(held["task"]) = 2 /\ rx # tx
    BY <1>2, <1>4 DEF HeldMatches
  <2>2. DOMAIN held["task"] = {1, 2}
    BY <2>1, HeldOnes
  <2> QED
    BY <2>1, <2>2, HeldOnes DEF Holds
<1>6. ~dmacr /\ \A c \in ChannelNos : chan[c].token = NoExchange
  BY <1>2, <1>3, <1>4 DEF AsksWhenSetUp, TokensMatch
<1>7. /\ exchange.id \in Nat /\ exchange.id < MAX_EXCHANGES /\ MAX_EXCHANGES \in Nat
      /\ exchange.id + 1 \in Exchanges /\ exchange.id + 1 \in 0 .. MAX_EXCHANGES
  BY <1>2, <1>3, <1>4, ChannelsAssumption DEF TokensMatch, Exchanges
<1> HIDE DEF rx, tx, s
<1>8. CASE /\ exchange' = [exchange EXCEPT !.id = @ + 1]
           /\ chan' = [chan EXCEPT ![rx].token = exchange.id + 1]
           /\ todo' = [todo EXCEPT !["task"] = Tail(@)]
           /\ received' = FALSE
  <2>1. exchange'.pc = "await" /\ exchange'.id = exchange.id + 1 /\ exchange'.outcome = "none"
        /\ exchange' \in [pc : {"idle", "claim_tx", "setup", "await", "drop"},
                       id : 0 .. MAX_EXCHANGES, outcome : {"none", "ok", "timeout", "error"}]
    BY <1>2, <1>4, <1>7, <1>8
  <2>2. todo'["task"] = Tail(s) /\ todo'["peer"] = todo["peer"] /\ todo' \in [Owners -> Seq(Ops)] /\ Tail(s) \in Seq(Ops)
    BY <1>0, <1>2, <1>8, RestOf DEF Owners, s
  <2>3. /\ chan' \in [ChannelNos -> ChanRecs] /\ chan'[rx].token = exchange.id + 1
        /\ \A d \in ChannelNos : /\ chan'[d].owner = chan[d].owner /\ chan'[d].busy = chan[d].busy
                                 /\ chan'[d].past = chan[d].past /\ chan'[d].err = chan[d].err
                                 /\ d # rx => chan'[d].token = chan[d].token
    <3> DEFINE a == chan[rx]
               b == [a EXCEPT !.token = exchange.id + 1]
    <3>1. a \in ChanRecs /\ chan' = [chan EXCEPT ![rx] = b]
      BY <1>2, <1>5, <1>8
    <3>2. b \in ChanRecs /\ b.owner = a.owner /\ b.busy = a.busy /\ b.past = a.past /\ b.err = a.err /\ b.token = exchange.id + 1
      BY <1>7, <3>1 DEF ChanRecs
    <3> HIDE DEF b
    <3> QED
      BY <1>2, <1>5, <3>1, <3>2
  <2>4. ~ToPublish' /\ ~HasKind(todo'["task"], "configure") /\ SetupOrdered(todo'["task"])
        /\ \A K : Kinds(s, K) => Kinds(todo'["task"], K)
    BY <1>0, <1>2, <1>3, <1>4, <2>2, OrderedRest, HasRest DEF AsksWhenSetUp, ToPublish, s
  <2>5. TypeChannels'
    BY <1>1, <1>2, <1>8, <2>1, <2>2, <2>3 DEF TypeChannels, ChanRecs
  <2>6. OwnWork'
    <3>1. OwnList(Tail(s), "task", chan')
      <4>1. OwnList(s, "task", chan) /\ s[1] # Do("abort", rx) /\ \A c : s[1] # Do("abort", c)
        BY <1>2, <1>3 DEF OwnWork, Owners, Do, s
      <4>2. \A c \in ChannelNos : chan'[c].owner = chan[c].owner /\ (chan'[c].busy => chan[c].busy)
        BY <2>3
      <4> QED
        BY <1>0, <1>2, <4>1, <4>2, OwnRest
    <3>2. OwnList(todo["peer"], "peer", chan')
      <4>1. OwnList(todo["peer"], "peer", chan)
        BY <1>2 DEF OwnWork, Owners
      <4> QED
        BY <1>2, <2>3, <4>1, OwnSame
    <3> QED
      BY <2>2, <3>1, <3>2 DEF OwnWork, Owners
  <2>7. WorkMatches'
    BY <1>2, <1>4, <2>1, <2>2, <2>4 DEF WorkMatches, s
  <2>8. HeldMatches'
    <3>1. \A c : (Holds("task", c)' <=> Holds("task", c)) /\ (Holds("peer", c)' <=> Holds("peer", c))
      BY <1>1 DEF Holds
    <3>2. /\ \A c \in ChannelNos : chan'[c].owner = "task" <=> Holds("task", c)'
          /\ \A c \in ChannelNos : Holds("peer", c)' => chan'[c].owner = "peer"
      <4>1. \A c \in ChannelNos : chan'[c].owner = chan[c].owner
        BY <2>3
      <4>2. \A c \in ChannelNos : (chan[c].owner = "task" <=> Holds("task", c)) /\ (Holds("peer", c) => chan[c].owner = "peer")
        BY <1>2 DEF HeldMatches
      <4> QED
        BY <3>1, <4>1, <4>2
    <3>3. (\A i \in DOMAIN todo["peer"] : Holds("peer", todo["peer"][i].ch))'
      BY <1>2, <2>2, <3>1 DEF HeldMatches
    <3>4. /\ Len(held'["peer"]) <= 1 /\ Len(held'["task"]) <= 2 /\ Len(held'["task"]) = 2
          /\ held'["task"][1] # held'["task"][2]
      BY <1>1, <1>2, <1>4 DEF HeldMatches
    <3> QED
      BY <2>1, <3>2, <3>3, <3>4 DEF HeldMatches
  <2>9. FreeIsQuiet' /\ AsksWhenSetUp'
    BY <1>1, <1>2, <1>5, <1>6, <2>1, <2>3, <2>4 DEF FreeIsQuiet, AsksWhenSetUp
  <2>10. TokensMatch'
    <3>1. signalled' \subseteq 1 .. exchange'.id
      BY <1>1, <1>2, <1>7, <2>1 DEF TokensMatch
    <3>2. exchange'.id \in 1 .. exchange'.id
      BY <1>7, <2>1
    <3>3. \A c \in ChannelNos : chan'[c].token # NoExchange => c = rx
      BY <1>6, <2>3
    <3>4. \A c \in ChannelNos : chan'[c].err => ~chan'[c].busy
      BY <1>2, <2>3 DEF TokensMatch
    <3>5. rx = held'["task"][1] /\ chan'[rx].owner = "task"
      BY <1>1, <1>5, <2>3 DEF rx
    <3> QED
      BY <2>1, <2>3, <2>4, <3>1, <3>2, <3>3, <3>4, <3>5 DEF TokensMatch
  <2>11. ASSUME handlerOn' = "task" PROVE Fresh'
    <3>1. Unreported /\ top.at = "idle" /\ Rx = rx /\ Rx' = rx
      BY <1>0, <1>1, <1>3, <1>4, <2>11 DEF ChannelsInv, Fresh, MayMove, Rx, rx
    <3>2. chan[rx].busy /\ ~chan[rx].past /\ rx \notin intr
      <4>1. ~HasOp(s, Do("configure", rx))
        <5>1. s[1].op # "configure" /\ ~HasKind(Tail(s), "configure")
          BY <1>3, <2>2, <2>4
        <5>2. ~HasKind(s, "configure")
          BY <1>0, <1>2, <5>1, HasRest
        <5> QED
          BY <5>2 DEF HasOp, HasKind, Do
      <4> QED
        BY <3>1, <4>1 DEF Unreported, s
    <3>3. exchange'.id \notin signalled'
      BY <1>1, <1>2, <1>7, <2>1 DEF TokensMatch
    <3>4. chan'[rx].busy /\ ~chan'[rx].past
      BY <1>5, <2>3, <3>2
    <3>5. Reported'
      BY <1>1, <3>1, <3>2, <3>3, <3>4 DEF Reported
    <3> QED
      BY <2>1, <2>4, <3>5 DEF Fresh
  <2> QED
    BY <2>5, <2>6, <2>7, <2>8, <2>9, <2>10, <2>11 DEF ChannelsInv
<1>9. CASE /\ exchange' = [exchange EXCEPT !.pc = "drop", !.outcome = "error"]
           /\ todo' = [todo EXCEPT !["task"] = ReleaseChannel(tx) \o ReleaseChannel(rx)]
           /\ UNCHANGED <<chan, received>>
  <2> DEFINE t == ReleaseChannel(tx) \o ReleaseChannel(rx)
  <2>1. exchange'.pc = "drop" /\ exchange'.id = exchange.id /\ exchange'.outcome = "error"
        /\ exchange' \in [pc : {"idle", "claim_tx", "setup", "await", "drop"},
                       id : 0 .. MAX_EXCHANGES, outcome : {"none", "ok", "timeout", "error"}]
    BY <1>2, <1>9
  <2>2. DropList(t, {rx, tx})
    BY <1>5, DropLists
  <2>3. OwnList(t, "task", chan) /\ Kinds(t, DropOps) /\ t \in Seq(Ops)
    BY <1>5, <2>2, DropOwn
  <2> HIDE DEF t
  <2>4. todo'["task"] = t /\ todo'["peer"] = todo["peer"] /\ todo' \in [Owners -> Seq(Ops)]
    BY <1>2, <1>9, <2>3 DEF Owners, t
  <2>5. TypeChannels'
    BY <1>1, <1>2, <1>9, <2>1, <2>4 DEF TypeChannels
  <2>6. OwnWork' /\ WorkMatches' /\ FreeIsQuiet'
    BY <1>2, <1>9, <2>1, <2>3, <2>4 DEF OwnWork, WorkMatches, FreeIsQuiet, Owners
  <2>7. HeldMatches'
    <3>1. \A c : (Holds("task", c)' <=> Holds("task", c)) /\ (Holds("peer", c)' <=> Holds("peer", c))
      BY <1>1 DEF Holds
    <3>2. \A c \in {rx, tx} : HasOp(t, Do("free", c))
      BY <2>2 DEF DropList
    <3> QED
      BY <1>1, <1>2, <1>5, <1>9, <2>1, <2>4, <3>1, <3>2 DEF HeldMatches
  <2>8. AsksWhenSetUp' /\ TokensMatch' /\ Fresh'
    BY <1>1, <1>2, <1>6, <1>9, <2>1 DEF AsksWhenSetUp, TokensMatch, Fresh
  <2> QED
    BY <2>5, <2>6, <2>7, <2>8 DEF ChannelsInv
<1> QED
  BY <1>0, <1>8, <1>9

(* A channel claimed is new to its owner, and quiet.                       *)
LEMMA ClaimChanges ==
  ASSUME ChannelsInv, NEW p \in Owners, NEW c \in ChannelNos, ClaimChannel(p, c)
  PROVE  /\ chan[c].owner = "free" /\ ~chan[c].busy
         /\ chan' \in [ChannelNos -> ChanRecs]
         /\ chan'[c].owner = p /\ \A d \in ChannelNos : d # c => chan'[d] = chan[d]
         /\ chan'[c].token = NoExchange /\ chan'[c].busy = chan[c].busy /\ chan'[c].err = chan[c].err
         /\ held' \in [Owners -> Seq(ChannelNos)] /\ \A q \in Owners : q # p => held'[q] = held[q]
         /\ Len(held'[p]) = Len(held[p]) + 1
         /\ held'[p][Len(held[p]) + 1] = c /\ \A i \in 1 .. Len(held[p]) : held'[p][i] = held[p][i]
         /\ \A d : Holds(p, d)' <=> d = c \/ Holds(p, d)
<1>1. chan \in [ChannelNos -> ChanRecs] /\ held \in [Owners -> Seq(ChannelNos)] /\ held[p] \in Seq(ChannelNos)
  BY TypedParts DEF ChannelsInv
<1>2. c \in FreeChannels
  BY FirstOf DEF ClaimChannel, FreeChannels
<1>3. chan[c].owner = "free" /\ ~chan[c].busy
  BY <1>2 DEF FreeChannels, ChannelsInv, FreeIsQuiet
<1>4. /\ chan' \in [ChannelNos -> ChanRecs]
      /\ chan'[c].owner = p /\ \A d \in ChannelNos : d # c => chan'[d] = chan[d]
      /\ chan'[c].token = NoExchange /\ chan'[c].busy = chan[c].busy /\ chan'[c].err = chan[c].err
  <2> DEFINE a == chan[c]
             b == [a EXCEPT !.owner = p, !.token = NoExchange]
  <2>1. a \in ChanRecs /\ chan' = [chan EXCEPT ![c] = b]
    BY <1>1 DEF ClaimChannel
  <2>2. b \in ChanRecs /\ b.owner = p /\ b.busy = a.busy /\ b.err = a.err /\ b.token = NoExchange
    BY <2>1 DEF ChanRecs
  <2> HIDE DEF b
  <2> QED
    BY <1>1, <2>1, <2>2
<1>5. held' = [held EXCEPT ![p] = Append(@, c)]
  BY DEF ClaimChannel
<1>6. /\ Append(held[p], c) \in Seq(ChannelNos) /\ Len(Append(held[p], c)) = Len(held[p]) + 1 /\ Len(held[p]) \in Nat
      /\ Append(held[p], c)[Len(held[p]) + 1] = c
      /\ \A i \in 1 .. Len(held[p]) : Append(held[p], c)[i] = held[p][i]
      /\ DOMAIN Append(held[p], c) = 1 .. Len(held[p]) + 1 /\ DOMAIN held[p] = 1 .. Len(held[p])
  BY <1>1, AppendProperties, LenProperties
<1>7. /\ held' \in [Owners -> Seq(ChannelNos)] /\ held'[p] = Append(held[p], c)
      /\ \A q \in Owners : q # p => held'[q] = held[q]
  BY <1>1, <1>5, <1>6
<1>8. \A d : Holds(p, d)' <=> d = c \/ Holds(p, d)
  <2> DEFINE w == Append(held[p], c)
             n == Len(held[p])
  <2>1. /\ n \in Nat /\ w[n + 1] = c /\ (\A i \in 1 .. n : w[i] = held[p][i]) /\ DOMAIN w = 1 .. n + 1 /\ DOMAIN held[p] = 1 .. n
    BY <1>6
  <2> HIDE DEF w, n
  <2>2. \A d : (\E i \in DOMAIN w : w[i] = d) <=> d = c \/ \E i \in DOMAIN held[p] : held[p][i] = d
    <3>1. n + 1 \in DOMAIN w /\ \A i \in DOMAIN held[p] : i \in DOMAIN w
      BY <2>1
    <3>2. \A i \in DOMAIN w : i = n + 1 \/ i \in DOMAIN held[p]
      BY <2>1
    <3> QED
      BY <2>1, <3>1, <3>2
  <2> QED
    BY <1>7, <2>2 DEF w, Holds
<1> QED
  BY <1>3, <1>4, <1>6, <1>7, <1>8

(* The peer's steps leave the task's channels, work and exchange alone.    *)
LEMMA FreshAlone ==
  ASSUME ChannelsInv, exchange' = exchange, received' = received, top' = top, signalled' = signalled,
         handlerOn' = handlerOn, intr' = intr, todo'["task"] = todo["task"], held'["task"] = held["task"],
         \A d \in ChannelNos : chan[d].owner = "task" => chan'[d] = chan[d],
         \A d \in ChannelNos : chan'[d].owner = "task" => chan[d].owner = "task"
  PROVE  handlerOn' = "task" => Fresh'
<1> SUFFICES ASSUME handlerOn = "task" PROVE Fresh'
  OBVIOUS
<1>1. Fresh
  BY DEF ChannelsInv
<1>2. exchange.pc \in {"claim_tx", "setup"} => Quiet'
  BY <1>1 DEF Fresh, Quiet
<1>3. Rx' = Rx /\ (exchange.pc \in {"claim_tx", "setup", "await"} => Rx \in ChannelNos /\ chan'[Rx] = chan[Rx])
  BY HeldOnes DEF Rx
<1>4. exchange.pc = "await" => (Unreported' <=> Unreported) /\ (Reported' <=> Reported)
  BY <1>3 DEF Unreported, Reported, Over
<1>5. ToPublish' <=> ToPublish
  BY DEF ToPublish
<1> QED
  BY <1>1, <1>2, <1>3, <1>4, <1>5 DEF Fresh

LEMMA PeerClaimKeeps ==
  ASSUME ChannelsInv, PeerClaims
  PROVE  ChannelsInv'
<1>0. PICK c \in ChannelNos : ClaimChannel("peer", c) /\ todo' = [todo EXCEPT !["peer"] = Cleanup(c)]
  BY DEF PeerClaims
<1>1. /\ inte0' = inte0 /\ intr' = intr /\ dmacr' = dmacr /\ inteSeen' = inteSeen /\ exchange' = exchange /\ top' = top
      /\ handlerOn' = handlerOn /\ signalled' = signalled /\ received' = received
      /\ held["peer"] = <<>> /\ peerUses' \in 0 .. MAX_PEER_USES
  <2>1. peerUses \in 0 .. MAX_PEER_USES /\ MAX_PEER_USES \in Nat
    BY ChannelsAssumption DEF ChannelsInv, TypeChannels
  <2> QED
    BY <2>1 DEF PeerClaims, registers
<1>2. /\ TypeChannels /\ OwnWork /\ WorkMatches /\ HeldMatches /\ FreeIsQuiet /\ AsksWhenSetUp /\ TokensMatch
      /\ todo \in [Owners -> Seq(Ops)] /\ todo["task"] \in Seq(Ops)
  BY TypedParts DEF ChannelsInv
<1>3. /\ chan[c].owner = "free" /\ ~chan[c].busy
      /\ chan' \in [ChannelNos -> ChanRecs]
      /\ chan'[c].owner = "peer" /\ \A d \in ChannelNos : d # c => chan'[d] = chan[d]
      /\ chan'[c].token = NoExchange /\ chan'[c].busy = chan[c].busy /\ chan'[c].err = chan[c].err
      /\ held' \in [Owners -> Seq(ChannelNos)] /\ held'["task"] = held["task"]
      /\ Len(held'["peer"]) = 1
      /\ \A d : Holds("peer", d)' <=> d = c \/ Holds("peer", d)
  <2>1. "peer" \in Owners /\ "task" \in Owners /\ "task" # "peer" /\ Len(held["peer"]) = 0
    BY <1>1 DEF Owners
  <2>2. Len(held'["peer"]) = Len(held["peer"]) + 1
    BY <1>0, <2>1, ClaimChanges
  <2>3. Len(held'["peer"]) = 1
    BY <2>1, <2>2
  <2> QED
    BY <1>0, <2>1, <2>3, ClaimChanges
<1>4. /\ todo'["peer"] = Cleanup(c) /\ todo'["task"] = todo["task"] /\ todo' \in [Owners -> Seq(Ops)]
      /\ Kinds(Cleanup(c), CleanOps) /\ \A i \in DOMAIN Cleanup(c) : Cleanup(c)[i].ch = c
  BY <1>0, <1>2, CleanupList DEF Owners
<1>5. TypeChannels'
  BY <1>1, <1>2, <1>3, <1>4 DEF TypeChannels, ChanRecs
<1>6. OwnWork'
  <2>1. OwnList(Cleanup(c), "peer", chan')
    BY <1>3, <1>4, NoneFreed DEF CleanOps
  <2>2. OwnList(todo["task"], "task", chan')
    <3>1. OwnList(todo["task"], "task", chan)
      BY <1>2 DEF OwnWork, Owners
    <3>2. \A d \in ChannelNos : chan[d].owner = "task" => chan'[d].owner = "task" /\ (chan'[d].busy => chan[d].busy)
      BY <1>3
    <3> QED
      BY <1>2, <3>1, <3>2, OwnSame
  <2> QED
    BY <1>4, <2>1, <2>2 DEF OwnWork, Owners
<1>7. WorkMatches'
  BY <1>1, <1>2, <1>4 DEF WorkMatches, Kinds
<1>8. HeldMatches'
  <2>1. \A d : Holds("task", d)' <=> Holds("task", d)
    BY <1>3 DEF Holds
  <2>2. /\ \A d \in ChannelNos : chan'[d].owner = "task" <=> Holds("task", d)'
        /\ \A d \in ChannelNos : Holds("peer", d)' => chan'[d].owner = "peer"
    BY <1>2, <1>3, <2>1 DEF HeldMatches
  <2>3. (\A i \in DOMAIN todo["peer"] : Holds("peer", todo["peer"][i].ch))'
    BY <1>3, <1>4
  <2>4. Len(held'["peer"]) <= 1
    BY <1>3
  <2> QED
    BY <1>1, <1>2, <1>3, <1>4, <2>1, <2>2, <2>3, <2>4 DEF HeldMatches
<1>9. FreeIsQuiet' /\ AsksWhenSetUp'
  BY <1>1, <1>2, <1>3, <1>4 DEF FreeIsQuiet, AsksWhenSetUp, ToPublish
<1>10. TokensMatch'
  <2>1. \A d \in ChannelNos : chan'[d].token # NoExchange => chan'[d] = chan[d]
    BY <1>3
  <2>2. \A d \in ChannelNos : chan'[d].err => ~chan'[d].busy
    BY <1>2, <1>3 DEF TokensMatch
  <2>3. ToPublish' <=> ToPublish
    BY <1>4 DEF ToPublish
  <2> QED
    BY <1>1, <1>2, <1>3, <2>1, <2>2, <2>3 DEF TokensMatch
<1>11. handlerOn' = "task" => Fresh'
  BY <1>1, <1>3, <1>4, FreshAlone
<1> QED
  BY <1>5, <1>6, <1>7, <1>8, <1>9, <1>10, <1>11 DEF ChannelsInv

LEMMA PeerReleaseKeeps ==
  ASSUME ChannelsInv, PeerReleases
  PROVE  ChannelsInv'
<1> DEFINE c == held["peer"][1]
           t == ReleaseChannel(c)
<1>1. /\ inte0' = inte0 /\ intr' = intr /\ dmacr' = dmacr /\ inteSeen' = inteSeen /\ exchange' = exchange /\ top' = top
      /\ handlerOn' = handlerOn /\ signalled' = signalled /\ received' = received /\ chan' = chan /\ held' = held
      /\ peerUses' = peerUses /\ todo' = [todo EXCEPT !["peer"] = t] /\ held["peer"] # <<>>
  BY DEF PeerReleases, registers, elsewhere
<1>2. /\ TypeChannels /\ OwnWork /\ WorkMatches /\ HeldMatches /\ FreeIsQuiet /\ AsksWhenSetUp /\ TokensMatch
      /\ todo \in [Owners -> Seq(Ops)] /\ todo["task"] \in Seq(Ops) /\ held["peer"] \in Seq(ChannelNos)
  BY TypedParts DEF ChannelsInv
<1>3. c \in ChannelNos /\ chan[c].owner = "peer" /\ Holds("peer", c)
  <2>1. 1 \in DOMAIN held["peer"]
    BY <1>1, <1>2
  <2> QED
    BY <2>1, HeldOnes DEF Holds
<1> HIDE DEF c
<1>4. DropList(t, {c}) /\ Kinds(t, CleanOps \cup {"free"})
  BY <1>3, ReleaseList, ReleaseKinds
<1>5. OwnList(t, "peer", chan) /\ t \in Seq(Ops) /\ \A i \in DOMAIN t : t[i].ch = c
  <2> HIDE DEF t
  <2>1. {c} \in SUBSET ChannelNos /\ \A d \in {c} : chan[d].owner = "peer"
    BY <1>3
  <2>2. OwnList(t, "peer", chan) /\ t \in Seq(Ops)
    BY <1>4, <2>1, DropOwn
  <2> QED
    BY <1>4, <2>2 DEF DropList
<1> HIDE DEF t
<1>6. todo'["peer"] = t /\ todo'["task"] = todo["task"] /\ todo' \in [Owners -> Seq(Ops)]
  BY <1>1, <1>2, <1>5 DEF Owners
<1>7. TypeChannels'
  BY <1>1, <1>2, <1>6 DEF TypeChannels
<1>8. OwnWork' /\ WorkMatches' /\ FreeIsQuiet'
  BY <1>1, <1>2, <1>4, <1>5, <1>6 DEF OwnWork, WorkMatches, FreeIsQuiet, Owners
<1>9. HeldMatches'
  <2>1. \A d : (Holds("task", d)' <=> Holds("task", d)) /\ (Holds("peer", d)' <=> Holds("peer", d))
    BY <1>1 DEF Holds
  <2>2. (\A i \in DOMAIN todo["peer"] : Holds("peer", todo["peer"][i].ch))'
    BY <1>3, <1>5, <1>6, <2>1
  <2> QED
    BY <1>1, <1>2, <1>6, <2>1, <2>2 DEF HeldMatches
<1>10. AsksWhenSetUp' /\ TokensMatch'
  BY <1>1, <1>2, <1>6 DEF AsksWhenSetUp, TokensMatch, ToPublish
<1>11. handlerOn' = "task" => Fresh'
  BY <1>1, <1>6, FreshAlone
<1> QED
  BY <1>7, <1>8, <1>9, <1>10, <1>11 DEF ChannelsInv

(* exchange_dma claims its channels one after the other.                   *)
LEMMA ClaimKeeps ==
  ASSUME ChannelsInv, UartClaim
  PROVE  ChannelsInv'
<1>0. PICK c \in ChannelNos : ClaimChannel("task", c) /\ todo' = [todo EXCEPT !["task"] = Cleanup(c)]
  BY DEF UartClaim
<1>1. /\ inte0' = inte0 /\ intr' = intr /\ dmacr' = dmacr /\ inteSeen' = inteSeen /\ top' = top
      /\ handlerOn' = handlerOn /\ signalled' = signalled /\ received' = received /\ peerUses' = peerUses
      /\ todo["task"] = <<>> /\ exchange.pc \in {"idle", "claim_tx"} /\ exchange.id < MAX_EXCHANGES
      /\ exchange' = [exchange EXCEPT !.pc = IF @ = "idle" THEN "claim_tx" ELSE "setup", !.outcome = "none"]
  BY DEF UartClaim, registers, elsewhere, Ready
<1>2. /\ TypeChannels /\ OwnWork /\ WorkMatches /\ HeldMatches /\ FreeIsQuiet /\ AsksWhenSetUp /\ TokensMatch
      /\ todo \in [Owners -> Seq(Ops)] /\ todo["peer"] \in Seq(Ops)
      /\ exchange \in [pc : {"idle", "claim_tx", "setup", "await", "drop"},
                       id : 0 .. MAX_EXCHANGES, outcome : {"none", "ok", "timeout", "error"}]
  BY TypedParts DEF ChannelsInv
<1>3. /\ chan[c].owner = "free" /\ ~chan[c].busy
      /\ chan' \in [ChannelNos -> ChanRecs]
      /\ chan'[c].owner = "task" /\ \A d \in ChannelNos : d # c => chan'[d] = chan[d]
      /\ chan'[c].token = NoExchange /\ chan'[c].busy = chan[c].busy /\ chan'[c].err = chan[c].err
      /\ held' \in [Owners -> Seq(ChannelNos)] /\ held'["peer"] = held["peer"]
      /\ Len(held'["task"]) = Len(held["task"]) + 1 /\ held'["task"][Len(held["task"]) + 1] = c
      /\ \A i \in 1 .. Len(held["task"]) : held'["task"][i] = held["task"][i]
      /\ \A d : Holds("task", d)' <=> d = c \/ Holds("task", d)
  <2>1. "peer" \in Owners /\ "task" \in Owners /\ "task" # "peer"
    BY DEF Owners
  <2> QED
    BY <1>0, <2>1, ClaimChanges
<1>4. /\ todo'["task"] = Cleanup(c) /\ todo'["peer"] = todo["peer"] /\ todo' \in [Owners -> Seq(Ops)]
      /\ Kinds(Cleanup(c), CleanOps) /\ (\A i \in DOMAIN Cleanup(c) : Cleanup(c)[i].ch = c)
      /\ HasOp(Cleanup(c), Do("clear", c))
  BY <1>0, <1>2, CleanupList DEF Owners
<1>5. /\ exchange'.pc = (IF exchange.pc = "idle" THEN "claim_tx" ELSE "setup") /\ exchange'.outcome = "none"
      /\ exchange'.id = exchange.id
      /\ exchange' \in [pc : {"idle", "claim_tx", "setup", "await", "drop"},
                        id : 0 .. MAX_EXCHANGES, outcome : {"none", "ok", "timeout", "error"}]
  BY <1>1, <1>2
<1>6. TypeChannels'
  BY <1>1, <1>2, <1>3, <1>4, <1>5 DEF TypeChannels, ChanRecs
<1>7. OwnWork'
  <2>1. OwnList(Cleanup(c), "task", chan')
    BY <1>3, <1>4, NoneFreed DEF CleanOps
  <2>2. OwnList(todo["peer"], "peer", chan')
    <3>1. OwnList(todo["peer"], "peer", chan)
      BY <1>2 DEF OwnWork, Owners
    <3>2. \A d \in ChannelNos : chan[d].owner = "peer" => chan'[d].owner = "peer" /\ (chan'[d].busy => chan[d].busy)
      BY <1>3
    <3> QED
      BY <1>2, <3>1, <3>2, OwnSame
  <2> QED
    BY <1>4, <2>1, <2>2 DEF OwnWork, Owners
<1>8. WorkMatches'
  BY <1>1, <1>2, <1>4, <1>5 DEF WorkMatches
<1>9. /\ exchange.pc = "idle" => held["task"] = <<>> /\ Len(held["task"]) = 0 /\ Len(held'["task"]) = 1 /\ Rx' = c
      /\ exchange.pc = "claim_tx" => /\ Len(held["task"]) = 1 /\ Len(held'["task"]) = 2 /\ held'["task"][2] = c
                                     /\ Rx' = Rx /\ held'["task"][1] # c
  <2>1. CASE exchange.pc = "idle"
    <3>1. held["task"] = <<>>
      BY <1>2, <2>1 DEF HeldMatches
    <3>2. Len(held["task"]) = 0
      BY <3>1
    <3> QED
      BY <1>3, <2>1, <3>1, <3>2 DEF Rx
  <2>2. CASE exchange.pc = "claim_tx"
    <3>1. Len(held["task"]) = 1
      BY <1>2, <2>2 DEF HeldMatches
    <3>2. chan[held["task"][1]].owner = "task"
      BY <2>2, HeldOnes DEF Rx
    <3> QED
      BY <1>3, <2>2, <3>1, <3>2 DEF Rx
  <2> QED
    BY <1>1, <2>1, <2>2
<1>10. HeldMatches'
  <2>1. \A d : Holds("peer", d)' <=> Holds("peer", d)
    BY <1>3 DEF Holds
  <2>2. /\ \A d \in ChannelNos : chan'[d].owner = "task" <=> Holds("task", d)'
        /\ \A d \in ChannelNos : Holds("peer", d)' => chan'[d].owner = "peer"
    <3>1. \A d \in ChannelNos : (chan[d].owner = "task" <=> Holds("task", d)) /\ (Holds("peer", d) => chan[d].owner = "peer")
      BY <1>2 DEF HeldMatches
    <3>2. \A d : Holds("task", d)' <=> d = c \/ Holds("task", d)
      BY <1>3
    <3>3. \A d \in ChannelNos : d # c => chan'[d].owner = chan[d].owner
      BY <1>3
    <3>4. chan'[c].owner = "task" /\ chan[c].owner = "free"
      BY <1>3
    <3> QED
      BY <2>1, <3>1, <3>2, <3>3, <3>4
  <2>3. (\A i \in DOMAIN todo["peer"] : Holds("peer", todo["peer"][i].ch))'
    BY <1>2, <1>4, <2>1 DEF HeldMatches
  <2>4. Len(held'["peer"]) <= 1
    BY <1>2, <1>3 DEF HeldMatches
  <2>5. CASE exchange.pc = "idle"
    <3>1. exchange'.pc = "claim_tx" /\ Len(held'["task"]) = 1
      BY <1>5, <1>9, <2>5
    <3> QED
      BY <2>2, <2>3, <2>4, <3>1 DEF HeldMatches
  <2>6. CASE exchange.pc = "claim_tx"
    <3>1. exchange'.pc = "setup" /\ Len(held'["task"]) = 2 /\ held'["task"][1] # held'["task"][2]
      BY <1>5, <1>9, <2>6
    <3> QED
      BY <2>2, <2>3, <2>4, <3>1 DEF HeldMatches
  <2> QED
    BY <1>1, <2>5, <2>6
<1>11. ~dmacr /\ \A d \in ChannelNos : chan[d].token = NoExchange
  BY <1>1, <1>2 DEF AsksWhenSetUp, TokensMatch
<1>12. FreeIsQuiet' /\ AsksWhenSetUp'
  <2>1. exchange'.pc \in {"claim_tx", "setup"} /\ ~dmacr'
    BY <1>1, <1>5, <1>11
  <2>2. AsksWhenSetUp'
    BY <2>1 DEF AsksWhenSetUp
  <2>3. \A d \in ChannelNos : chan'[d].owner = "free" => d # c /\ chan'[d] = chan[d]
    BY <1>3
  <2>4. FreeIsQuiet'
    BY <1>2, <2>3 DEF FreeIsQuiet
  <2> QED
    BY <2>2, <2>4
<1>13. TokensMatch'
  <2>1. \A d \in ChannelNos : chan'[d].token = NoExchange
    BY <1>3, <1>11
  <2>2. \A d \in ChannelNos : chan'[d].err => ~chan'[d].busy
    BY <1>2, <1>3 DEF TokensMatch
  <2> QED
    BY <1>1, <1>2, <1>5, <2>1, <2>2 DEF TokensMatch
<1>14. ASSUME handlerOn' = "task" PROVE Fresh'
  <2>0. Fresh
    BY <1>1, <1>14 DEF ChannelsInv
  <2>1. Quiet'
    <3>1. \A d \in ChannelNos : chan[d].owner = "task" => ~chan[d].busy
      <4>1. CASE exchange.pc = "idle"
        <5>1. \A d : ~Holds("task", d)
          BY <1>9, <4>1 DEF Holds
        <5> QED
          BY <1>2, <5>1 DEF HeldMatches
      <4>2. CASE exchange.pc = "claim_tx"
        BY <2>0, <4>2 DEF Fresh, Quiet
      <4> QED
        BY <1>1, <4>1, <4>2
    <3> QED
      BY <1>3, <3>1 DEF Quiet
  <2>2. CASE exchange.pc = "idle"
    BY <1>4, <1>5, <1>9, <2>1, <2>2 DEF Fresh
  <2>3. CASE exchange.pc = "claim_tx"
    <3>1. Rx \notin intr
      BY <1>1, <2>0, <2>3 DEF Fresh, HasOp
    <3> QED
      BY <1>1, <1>5, <1>9, <2>1, <2>3, <3>1 DEF Fresh
  <2> QED
    BY <1>1, <2>2, <2>3
<1> QED
  BY <1>6, <1>7, <1>8, <1>10, <1>12, <1>13, <1>14 DEF ChannelsInv

(* A step of the task that changes only its work and where it is.          *)
LEMMA NewWork ==
  ASSUME ChannelsInv, UNCHANGED <<chan, registers, held, elsewhere, received>>,
         NEW t \in Seq(Ops), todo' = [todo EXCEPT !["task"] = t], OwnList(t, "task", chan)
  PROVE  /\ inte0' = inte0 /\ intr' = intr /\ dmacr' = dmacr /\ inteSeen' = inteSeen /\ top' = top /\ chan' = chan
         /\ handlerOn' = handlerOn /\ signalled' = signalled /\ received' = received /\ peerUses' = peerUses
         /\ held' = held /\ todo'["task"] = t /\ todo'["peer"] = todo["peer"]
         /\ exchange' \in [pc : {"idle", "claim_tx", "setup", "await", "drop"},
                           id : 0 .. MAX_EXCHANGES, outcome : {"none", "ok", "timeout", "error"}] => TypeChannels'
         /\ OwnWork' /\ FreeIsQuiet'
         /\ \A c : (Holds("task", c)' <=> Holds("task", c)) /\ (Holds("peer", c)' <=> Holds("peer", c))
         /\ (\A i \in DOMAIN todo["peer"] : Holds("peer", todo["peer"][i].ch))'
<1>1. /\ inte0' = inte0 /\ intr' = intr /\ dmacr' = dmacr /\ inteSeen' = inteSeen /\ top' = top /\ chan' = chan
      /\ handlerOn' = handlerOn /\ signalled' = signalled /\ received' = received /\ peerUses' = peerUses
      /\ held' = held
  BY DEF registers, elsewhere
<1>2. todo \in [Owners -> Seq(Ops)] /\ TypeChannels /\ OwnWork /\ FreeIsQuiet /\ HeldMatches
  BY TypedParts DEF ChannelsInv
<1>3. todo'["task"] = t /\ todo'["peer"] = todo["peer"] /\ todo' \in [Owners -> Seq(Ops)]
  BY <1>2 DEF Owners
<1>4. ASSUME exchange' \in [pc : {"idle", "claim_tx", "setup", "await", "drop"},
                            id : 0 .. MAX_EXCHANGES, outcome : {"none", "ok", "timeout", "error"}]
      PROVE  TypeChannels'
  BY <1>1, <1>2, <1>3, <1>4 DEF TypeChannels
<1>5. OwnWork' /\ FreeIsQuiet'
  BY <1>1, <1>2, <1>3 DEF OwnWork, FreeIsQuiet, Owners
<1>6. \A c : (Holds("task", c)' <=> Holds("task", c)) /\ (Holds("peer", c)' <=> Holds("peer", c))
  BY <1>1 DEF Holds
<1>7. (\A i \in DOMAIN todo["peer"] : Holds("peer", todo["peer"][i].ch))'
  BY <1>2, <1>3, <1>6 DEF HeldMatches
<1> QED
  BY <1>1, <1>3, <1>4, <1>5, <1>6, <1>7

LEMMA ClaimFailKeeps ==
  ASSUME ChannelsInv, UartClaimFails
  PROVE  ChannelsInv'
<1> DEFINE c == held["task"][1]
           t == IF held["task"] = <<>> THEN <<>> ELSE ReleaseChannel(c)
<1>1. /\ exchange.pc \in {"idle", "claim_tx"} /\ todo' = [todo EXCEPT !["task"] = t]
      /\ exchange' = [exchange EXCEPT !.pc = "drop", !.outcome = "error"]
      /\ UNCHANGED <<chan, registers, held, elsewhere, received>>
  BY DEF UartClaimFails
<1>2. /\ WorkMatches /\ HeldMatches /\ AsksWhenSetUp /\ TokensMatch
      /\ exchange \in [pc : {"idle", "claim_tx", "setup", "await", "drop"},
                       id : 0 .. MAX_EXCHANGES, outcome : {"none", "ok", "timeout", "error"}]
  BY TypedParts DEF ChannelsInv
<1>3. /\ t \in Seq(Ops) /\ OwnList(t, "task", chan) /\ Kinds(t, DropOps)
      /\ \A d \in ChannelNos : Holds("task", d) => HasOp(t, Do("free", d))
  <2>1. CASE exchange.pc = "idle"
    <3>1. held["task"] = <<>>
      BY <1>2, <2>1 DEF HeldMatches
    <3>2. t = <<>> /\ DOMAIN t = {} /\ t \in Seq(Ops) /\ \A d : ~Holds("task", d)
      BY <3>1 DEF Holds
    <3> QED
      BY <3>2 DEF OwnList, LastIsFree, Kinds
  <2>2. CASE exchange.pc = "claim_tx"
    <3>1. Len(held["task"]) = 1
      BY <1>2, <2>2 DEF HeldMatches
    <3>2. c \in ChannelNos /\ chan[c].owner = "task"
      BY <2>2, HeldOnes DEF Rx
    <3>3. \A d : Holds("task", d) => d = c
      BY <3>1, HeldOnes DEF Holds
    <3>4. t = ReleaseChannel(c)
      BY <3>1
    <3>5. {c} \in SUBSET ChannelNos /\ (\A d \in {c} : chan[d].owner = "task") /\ DropList(t, {c})
      BY <3>2, <3>4, ReleaseList
    <3> HIDE DEF t, c
    <3>6. OwnList(t, "task", chan) /\ Kinds(t, DropOps) /\ t \in Seq(Ops)
      BY <3>5, DropOwn
    <3> QED
      BY <3>3, <3>5, <3>6 DEF DropList
  <2> QED
    BY <1>1, <2>1, <2>2
<1> HIDE DEF t
<1>4. /\ exchange'.pc = "drop" /\ exchange'.outcome = "error" /\ exchange'.id = exchange.id
      /\ exchange' \in [pc : {"idle", "claim_tx", "setup", "await", "drop"},
                        id : 0 .. MAX_EXCHANGES, outcome : {"none", "ok", "timeout", "error"}]
  BY <1>1, <1>2
<1>5. /\ intr' = intr /\ dmacr' = dmacr /\ chan' = chan /\ signalled' = signalled /\ held' = held
      /\ todo'["task"] = t /\ todo'["peer"] = todo["peer"] /\ TypeChannels' /\ OwnWork' /\ FreeIsQuiet'
      /\ (\A d : (Holds("task", d)' <=> Holds("task", d)) /\ (Holds("peer", d)' <=> Holds("peer", d)))
      /\ (\A i \in DOMAIN todo["peer"] : Holds("peer", todo["peer"][i].ch))'
  BY <1>1, <1>3, <1>4, NewWork
<1>6. WorkMatches'
  BY <1>2, <1>3, <1>4, <1>5 DEF WorkMatches
<1>7. HeldMatches'
  BY <1>2, <1>3, <1>4, <1>5 DEF HeldMatches
<1>8. ~dmacr /\ \A d \in ChannelNos : chan[d].token = NoExchange
  BY <1>1, <1>2 DEF AsksWhenSetUp, TokensMatch
<1>9. AsksWhenSetUp' /\ TokensMatch' /\ Fresh'
  BY <1>2, <1>4, <1>5, <1>8 DEF AsksWhenSetUp, TokensMatch, Fresh
<1> QED
  BY <1>5, <1>6, <1>7, <1>9 DEF ChannelsInv

(* The two channels of an exchange that has both.                          *)
LEMMA BothHeld ==
  ASSUME ChannelsInv, exchange.pc \in {"setup", "await"}
  PROVE  /\ held["task"][1] \in ChannelNos /\ held["task"][2] \in ChannelNos /\ held["task"][1] # held["task"][2]
         /\ \A c \in {held["task"][1], held["task"][2]} : chan[c].owner = "task"
         /\ \A c : Holds("task", c) <=> c \in {held["task"][1], held["task"][2]}
<1>1. Len(held["task"]) = 2 /\ held["task"][1] # held["task"][2]
  BY DEF ChannelsInv, HeldMatches
<1>2. DOMAIN held["task"] = {1, 2}
  BY <1>1, HeldOnes
<1> QED
  BY <1>1, <1>2, HeldOnes DEF Holds

LEMMA SetupKeeps ==
  ASSUME ChannelsInv, UartSetup
  PROVE  ChannelsInv'
<1> DEFINE rx == held["task"][1]
           tx == held["task"][2]
           t == Setup(rx, tx)
<1>1. /\ exchange.pc = "setup" /\ todo' = [todo EXCEPT !["task"] = t]
      /\ exchange' = [exchange EXCEPT !.pc = "await"]
      /\ UNCHANGED <<chan, registers, held, elsewhere, received>>
  BY DEF UartSetup
<1>2. /\ WorkMatches /\ HeldMatches /\ AsksWhenSetUp /\ TokensMatch
      /\ exchange \in [pc : {"idle", "claim_tx", "setup", "await", "drop"},
                       id : 0 .. MAX_EXCHANGES, outcome : {"none", "ok", "timeout", "error"}]
  BY TypedParts DEF ChannelsInv
<1>3. rx \in ChannelNos /\ tx \in ChannelNos /\ \A c \in {rx, tx} : chan[c].owner = "task"
  BY <1>1, BothHeld
<1>4. /\ t \in Seq(Ops) /\ Kinds(t, SetupOps) /\ SetupOrdered(t) /\ (\A i \in DOMAIN t : t[i].ch \in {rx, tx})
      /\ HasKind(t, "publish") /\ HasOp(t, Do("configure", rx))
  BY <1>3, SetupList
<1> HIDE DEF t
<1>5. OwnList(t, "task", chan)
  <2>1. \A i \in DOMAIN t : chan[t[i].ch].owner = "task"
    BY <1>3, <1>4
  <2> QED
    BY <1>4, <2>1, NoneFreed DEF SetupOps
<1>6. /\ exchange'.pc = "await" /\ exchange'.outcome = exchange.outcome /\ exchange'.id = exchange.id
      /\ exchange' \in [pc : {"idle", "claim_tx", "setup", "await", "drop"},
                        id : 0 .. MAX_EXCHANGES, outcome : {"none", "ok", "timeout", "error"}]
  BY <1>1, <1>2
<1>7. /\ intr' = intr /\ dmacr' = dmacr /\ chan' = chan /\ signalled' = signalled /\ held' = held
      /\ received' = received /\ handlerOn' = handlerOn
      /\ todo'["task"] = t /\ todo'["peer"] = todo["peer"] /\ TypeChannels' /\ OwnWork' /\ FreeIsQuiet'
      /\ (\A d : (Holds("task", d)' <=> Holds("task", d)) /\ (Holds("peer", d)' <=> Holds("peer", d)))
      /\ (\A i \in DOMAIN todo["peer"] : Holds("peer", todo["peer"][i].ch))'
  BY <1>1, <1>4, <1>5, <1>6, NewWork
<1>8. WorkMatches'
  BY <1>2, <1>4, <1>6, <1>7 DEF WorkMatches
<1>9. HeldMatches'
  BY <1>1, <1>2, <1>6, <1>7 DEF HeldMatches
<1>10. ~dmacr /\ \A d \in ChannelNos : chan[d].token = NoExchange
  BY <1>1, <1>2 DEF AsksWhenSetUp, TokensMatch
<1>11. ToPublish'
  BY <1>4, <1>7 DEF ToPublish
<1>12. AsksWhenSetUp' /\ TokensMatch'
  BY <1>1, <1>2, <1>4, <1>6, <1>7, <1>10, <1>11 DEF AsksWhenSetUp, TokensMatch
<1>13. ASSUME handlerOn' = "task" PROVE Fresh'
  <2>1. Rx \notin intr /\ Rx = rx /\ Rx' = rx /\ exchange.outcome = "none"
    BY <1>1, <1>2, <1>7, <1>13 DEF ChannelsInv, Fresh, Rx, TokensMatch
  <2> HIDE DEF rx
  <2>2. Unreported'
    BY <1>4, <1>7, <2>1 DEF Unreported
  <2> QED
    BY <1>6, <1>11, <2>1, <2>2 DEF Fresh
<1> QED
  BY <1>7, <1>8, <1>9, <1>12, <1>13 DEF ChannelsInv

(* await_done: Ok is returned only for what this exchange received.        *)
LEMMA AwaitKeeps ==
  ASSUME ChannelsInv, AwaitDone
  PROVE  ChannelsInv'
<1> DEFINE rx == held["task"][1]
           tx == held["task"][2]
<1>1. PICK t :
        /\ Ready("task") /\ exchange.pc = "await" /\ todo' = [todo EXCEPT !["task"] = t]
        /\ UNCHANGED <<chan, registers, held, elsewhere, received>>
        /\ \/ /\ exchange.id \in signalled
              /\ exchange' = [exchange EXCEPT !.pc = "drop",
                                !.outcome = IF chan[tx].err \/ chan[rx].err THEN "error" ELSE "ok"]
              /\ t = StopUart(rx, tx) \o DropTransfer(rx, tx)
           \/ /\ exchange' = [exchange EXCEPT !.pc = "drop", !.outcome = "timeout"]
              /\ t = DropTransfer(rx, tx)
  BY DEF AwaitDone
<1>2. /\ WorkMatches /\ HeldMatches /\ AsksWhenSetUp /\ TokensMatch
      /\ exchange \in [pc : {"idle", "claim_tx", "setup", "await", "drop"},
                       id : 0 .. MAX_EXCHANGES, outcome : {"none", "ok", "timeout", "error"}]
  BY TypedParts DEF ChannelsInv
<1>3. /\ rx \in ChannelNos /\ tx \in ChannelNos /\ rx # tx /\ (\A c \in {rx, tx} : chan[c].owner = "task")
      /\ \A c : Holds("task", c) <=> c \in {rx, tx}
  BY <1>1, BothHeld
<1> HIDE DEF rx, tx
<1>4. DropList(t, {rx, tx}) /\ HasKind(t, "stop")
  BY <1>1, <1>3, DropLists
<1>5. OwnList(t, "task", chan) /\ Kinds(t, DropOps) /\ t \in Seq(Ops) /\ \A c \in {rx, tx} : HasOp(t, Do("free", c))
  <2>1. {rx, tx} \in SUBSET ChannelNos
    BY <1>3
  <2> QED
    BY <1>3, <1>4, <2>1, DropOwn DEF DropList
<1>6. /\ exchange'.pc = "drop" /\ exchange'.id = exchange.id
      /\ exchange' \in [pc : {"idle", "claim_tx", "setup", "await", "drop"},
                        id : 0 .. MAX_EXCHANGES, outcome : {"none", "ok", "timeout", "error"}]
      /\ exchange'.outcome = "ok" => exchange.id \in signalled /\ ~chan[rx].err
  <2>1. CASE /\ exchange.id \in signalled
             /\ exchange' = [exchange EXCEPT !.pc = "drop",
                               !.outcome = IF chan[tx].err \/ chan[rx].err THEN "error" ELSE "ok"]
    BY <1>2, <2>1
  <2>2. CASE exchange' = [exchange EXCEPT !.pc = "drop", !.outcome = "timeout"]
    BY <1>2, <2>2
  <2> QED
    BY <1>1, <2>1, <2>2
<1>7. /\ intr' = intr /\ dmacr' = dmacr /\ chan' = chan /\ signalled' = signalled /\ held' = held
      /\ received' = received /\ handlerOn' = handlerOn
      /\ todo'["task"] = t /\ todo'["peer"] = todo["peer"] /\ TypeChannels' /\ OwnWork' /\ FreeIsQuiet'
      /\ (\A d : (Holds("task", d)' <=> Holds("task", d)) /\ (Holds("peer", d)' <=> Holds("peer", d)))
      /\ (\A i \in DOMAIN todo["peer"] : Holds("peer", todo["peer"][i].ch))'
  BY <1>1, <1>5, <1>6, NewWork
<1>8. WorkMatches'
  BY <1>2, <1>5, <1>6, <1>7 DEF WorkMatches
<1>9. HeldMatches'
  BY <1>2, <1>3, <1>5, <1>6, <1>7 DEF HeldMatches
<1>10. AsksWhenSetUp' /\ TokensMatch'
  BY <1>1, <1>2, <1>4, <1>6, <1>7 DEF AsksWhenSetUp, TokensMatch
<1>11. ASSUME handlerOn' = "task" PROVE Fresh'
  <2>1. ~ToPublish
    BY <1>1 DEF Ready, ToPublish, HasKind
  <2>2. Reported /\ Rx = rx
    BY <1>1, <1>7, <1>11, <2>1 DEF ChannelsInv, Fresh, Rx, rx
  <2>3. exchange'.outcome = "ok" => received
    BY <1>6, <2>2 DEF Reported, Over
  <2> QED
    BY <1>6, <1>7, <2>3 DEF Fresh
<1> QED
  BY <1>7, <1>8, <1>9, <1>10, <1>11 DEF ChannelsInv

LEMMA ReturnKeeps ==
  ASSUME ChannelsInv, Return
  PROVE  ChannelsInv'
<1>1. /\ exchange.pc = "drop" /\ todo["task"] = <<>> /\ exchange' = [exchange EXCEPT !.pc = "idle"]
      /\ inte0' = inte0 /\ intr' = intr /\ dmacr' = dmacr /\ inteSeen' = inteSeen /\ top' = top /\ chan' = chan
      /\ handlerOn' = handlerOn /\ signalled' = signalled /\ received' = received /\ peerUses' = peerUses
      /\ held' = held /\ todo' = todo
  BY DEF Return, Ready, registers, elsewhere
<1>2. /\ TypeChannels /\ OwnWork /\ WorkMatches /\ HeldMatches /\ FreeIsQuiet /\ AsksWhenSetUp /\ TokensMatch
      /\ exchange \in [pc : {"idle", "claim_tx", "setup", "await", "drop"},
                       id : 0 .. MAX_EXCHANGES, outcome : {"none", "ok", "timeout", "error"}]
      /\ held["task"] \in Seq(ChannelNos)
  BY TypedParts DEF ChannelsInv
<1>3. /\ exchange'.pc = "idle" /\ exchange'.outcome = exchange.outcome /\ exchange'.id = exchange.id
      /\ exchange' \in [pc : {"idle", "claim_tx", "setup", "await", "drop"},
                        id : 0 .. MAX_EXCHANGES, outcome : {"none", "ok", "timeout", "error"}]
  BY <1>1, <1>2
<1>4. \A c \in ChannelNos : ~Holds("task", c)
  BY <1>1, <1>2 DEF HeldMatches, HasOp
<1>5. held["task"] = <<>>
  <2>1. \A i \in DOMAIN held["task"] : held["task"][i] \in ChannelNos /\ Holds("task", held["task"][i])
    BY HeldOnes DEF Holds
  <2>2. 1 \notin DOMAIN held["task"]
    BY <1>4, <2>1
  <2>3. Len(held["task"]) \in Nat /\ DOMAIN held["task"] = 1 .. Len(held["task"])
    BY <1>2, LenProperties
  <2>4. Len(held["task"]) = 0
    BY <2>2, <2>3
  <2> QED
    BY <1>2, <2>4, EmptySeq
<1>6. ~dmacr /\ \A c \in ChannelNos : chan[c].token = NoExchange
  BY <1>1, <1>2, <1>4 DEF AsksWhenSetUp, HasKind, TokensMatch, HeldMatches
<1>7. TypeChannels' /\ OwnWork' /\ FreeIsQuiet'
  BY <1>1, <1>2, <1>3 DEF TypeChannels, OwnWork, FreeIsQuiet
<1>8. WorkMatches'
  BY <1>1, <1>2, <1>3 DEF WorkMatches
<1>9. HeldMatches'
  <2>1. \A c : (Holds("task", c)' <=> Holds("task", c)) /\ (Holds("peer", c)' <=> Holds("peer", c))
    BY <1>1 DEF Holds
  <2> QED
    BY <1>1, <1>2, <1>3, <1>5, <2>1 DEF HeldMatches
<1>10. AsksWhenSetUp' /\ TokensMatch'
  BY <1>1, <1>2, <1>3, <1>6 DEF AsksWhenSetUp, TokensMatch
<1>11. handlerOn' = "task" => Fresh'
  BY <1>1, <1>3 DEF ChannelsInv, Fresh
<1> QED
  BY <1>7, <1>8, <1>9, <1>10, <1>11 DEF ChannelsInv

(* The engine and the handler change neither owners nor anyone's work.     *)
LEMMA Elsewhere ==
  ASSUME ChannelsInv, TypeChannels', UNCHANGED <<dmacr, todo, held, exchange, handlerOn>>,
         \A d \in ChannelNos : chan'[d].owner = chan[d].owner /\ (chan'[d].busy => chan[d].busy),
         \A d \in ChannelNos : chan'[d].token # NoExchange => chan'[d].token = chan[d].token,
         \A d \in ChannelNos : chan'[d].err => ~chan'[d].busy,
         signalled' \subseteq 1 .. exchange.id,
         handlerOn = "task" => Fresh'
  PROVE  ChannelsInv'
<1>1. /\ TypeChannels /\ OwnWork /\ WorkMatches /\ HeldMatches /\ FreeIsQuiet /\ AsksWhenSetUp /\ TokensMatch
      /\ todo \in [Owners -> Seq(Ops)]
  BY TypedParts DEF ChannelsInv
<1>2. OwnWork'
  <2>1. \A q \in Owners : OwnList(todo[q], q, chan')
    <3> TAKE q \in Owners
    <3>1. OwnList(todo[q], q, chan) /\ todo[q] \in Seq(Ops)
      BY <1>1 DEF OwnWork
    <3> QED
      BY <3>1, OwnSame
  <2> QED
    BY <2>1 DEF OwnWork
<1>3. WorkMatches' /\ FreeIsQuiet' /\ AsksWhenSetUp'
  BY <1>1 DEF WorkMatches, FreeIsQuiet, AsksWhenSetUp, ToPublish
<1>4. HeldMatches'
  <2>1. \A c : (Holds("task", c)' <=> Holds("task", c)) /\ (Holds("peer", c)' <=> Holds("peer", c))
    BY DEF Holds
  <2> QED
    BY <1>1, <2>1 DEF HeldMatches
<1>5. TokensMatch'
  BY <1>1 DEF TokensMatch, ToPublish
<1> QED
  BY <1>2, <1>3, <1>4, <1>5 DEF ChannelsInv

LEMMA EngineKeeps ==
  ASSUME ChannelsInv, NEW c \in ChannelNos, Engine(c)
  PROVE  ChannelsInv'
<1>1. PICK fault \in BOOLEAN :
        /\ chan' = [chan EXCEPT ![c].busy = FALSE, ![c].past = FALSE, ![c].err = fault]
        /\ received' = (received \/ (~fault /\ ~chan[c].past /\ c = held["task"][1]))
  BY DEF Engine
<1>2. /\ chan[c].busy /\ dmacr /\ intr' = intr \cup {c}
      /\ inte0' = inte0 /\ dmacr' = dmacr /\ inteSeen' = inteSeen /\ top' = top
      /\ handlerOn' = handlerOn /\ signalled' = signalled /\ peerUses' = peerUses
      /\ held' = held /\ todo' = todo /\ exchange' = exchange
  BY DEF Engine, elsewhere
<1>3. TypeChannels /\ AsksWhenSetUp /\ TokensMatch /\ chan \in [ChannelNos -> ChanRecs]
  BY TypedParts DEF ChannelsInv
<1>4. /\ chan' \in [ChannelNos -> ChanRecs] /\ \A d \in ChannelNos : d # c => chan'[d] = chan[d]
      /\ chan'[c].owner = chan[c].owner /\ chan'[c].token = chan[c].token
      /\ chan'[c].busy = FALSE /\ chan'[c].past = FALSE /\ chan'[c].err = fault
  <2> DEFINE a == chan[c]
             b == [a EXCEPT !.busy = FALSE, !.past = FALSE, !.err = fault]
  <2>1. a \in ChanRecs /\ chan' = [chan EXCEPT ![c] = b]
    BY <1>1, <1>3
  <2>2. b \in ChanRecs /\ b.owner = a.owner /\ b.token = a.token /\ b.busy = FALSE /\ b.past = FALSE /\ b.err = fault
    BY <2>1 DEF ChanRecs
  <2> HIDE DEF b
  <2> QED
    BY <1>3, <2>1, <2>2
<1>5. received' \in BOOLEAN /\ (received => received')
  BY <1>1, <1>3 DEF TypeChannels
<1>6. TypeChannels'
  BY <1>2, <1>3, <1>4, <1>5 DEF TypeChannels, ChanRecs
<1>7. ASSUME handlerOn = "task" PROVE Fresh'
  <2>0. Fresh
    BY <1>7 DEF ChannelsInv
  <2>1. (exchange.pc = "await" /\ ~ToPublish) \/ exchange.pc = "drop"
    BY <1>2, <1>3 DEF AsksWhenSetUp
  <2>2. ~ToPublish' <=> ~ToPublish
    BY <1>2 DEF ToPublish
  <2>3. exchange'.outcome = "ok" => received'
    BY <1>2, <1>5, <2>0 DEF Fresh
  <2>4. CASE exchange.pc = "drop"
    BY <1>2, <2>3, <2>4 DEF Fresh
  <2>5. CASE exchange.pc = "await" /\ ~ToPublish
    <3>1. Reported /\ Rx \in ChannelNos /\ Rx' = Rx
      BY <1>2, <2>0, <2>5, HeldOnes DEF Fresh, Rx
    <3>2. CASE c = Rx
      <4>1. received' \/ fault
        <5>1. chan[Rx].past => received
          BY <3>1 DEF Reported
        <5> QED
          BY <1>1, <3>2, <5>1 DEF Rx
      <4>2. Over' /\ ~chan'[Rx].past
        BY <1>4, <3>1, <3>2, <4>1 DEF Over
      <4>3. Reported'
        BY <3>1, <4>2 DEF Reported
      <4> QED
        BY <1>2, <2>2, <2>3, <2>5, <4>3 DEF Fresh
    <3>3. CASE c # Rx
      <4>1. chan'[Rx] = chan[Rx] /\ (Rx \in intr' => Rx \in intr)
        BY <1>2, <1>4, <3>1, <3>3
      <4>2. Over => Over'
        BY <1>5, <3>1, <4>1 DEF Over
      <4>3. Reported'
        BY <1>2, <1>5, <3>1, <4>1, <4>2 DEF Reported
      <4> QED
        BY <1>2, <2>2, <2>3, <2>5, <4>3 DEF Fresh
    <3> QED
      BY <3>2, <3>3
  <2> QED
    BY <2>1, <2>4, <2>5
<1>8. \A d \in ChannelNos : chan'[d].owner = chan[d].owner /\ chan'[d].token = chan[d].token /\ (chan'[d].busy => chan[d].busy)
  BY <1>4
<1>9. \A d \in ChannelNos : chan'[d].err => ~chan'[d].busy
  BY <1>3, <1>4 DEF TokensMatch
<1>10. signalled' \subseteq 1 .. exchange.id
  BY <1>2, <1>3 DEF TokensMatch
<1> QED
  BY <1>2, <1>6, <1>7, <1>8, <1>9, <1>10, Elsewhere

(* The handler: what it finds pending has been reported, and the id it     *)
(* takes is this exchange's.                                               *)
LEMMA HandlerKeeps ==
  ASSUME ChannelsInv, TopHalf \/ TopHalfAcks \/ TopHalfTakes
  PROVE  ChannelsInv'
<1>0. TypeChannels /\ TokensMatch /\ chan \in [ChannelNos -> ChanRecs] /\ exchange.id \in Nat
  BY TypedParts DEF ChannelsInv
<1>1. CASE TopHalf
  <2>1. /\ chan' = chan /\ inte0' = inte0 /\ intr' = intr /\ dmacr' = dmacr /\ inteSeen' = inteSeen /\ todo' = todo
        /\ held' = held /\ exchange' = exchange /\ peerUses' = peerUses /\ handlerOn' = handlerOn
        /\ signalled' = signalled /\ received' = received
        /\ top' = [at |-> "ack", ch |-> Min(inte0 \cap intr)] /\ inte0 \cap intr # {}
    BY <1>1 DEF TopHalf, registers
  <2>2. Min(inte0 \cap intr) \in inte0 \cap intr /\ inte0 \cap intr \in SUBSET ChannelNos
    <3>1. inte0 \cap intr \in SUBSET ChannelNos
      BY <1>0 DEF TypeChannels
    <3> QED
      BY <2>1, <3>1, FirstOf
  <2>3. top'.at = "ack" /\ top'.ch \in intr /\ top'.ch \in ChannelNos /\ top' \in [at : {"idle", "ack", "take"}, ch : ChannelNos]
    BY <2>1, <2>2
  <2>4. TypeChannels'
    BY <1>0, <2>1, <2>3 DEF TypeChannels
  <2>5. ASSUME handlerOn = "task" PROVE Fresh'
    <3>1. Fresh /\ Rx' = Rx /\ (ToPublish' <=> ToPublish) /\ (Quiet' <=> Quiet) /\ (Unreported' <=> Unreported) /\ (Over' <=> Over)
      BY <2>1, <2>5 DEF ChannelsInv, Rx, ToPublish, Quiet, Unreported, Over
    <3>2. Reported => Reported'
      BY <2>1, <2>3, <3>1 DEF Reported
    <3> QED
      BY <2>1, <3>1, <3>2 DEF Fresh
  <2> QED
    BY <1>0, <2>1, <2>4, <2>5, Elsewhere DEF TokensMatch
<1>2. CASE TopHalfAcks
  <2>1. /\ chan' = chan /\ inte0' = inte0 /\ intr' = intr \ {top.ch} /\ dmacr' = dmacr /\ inteSeen' = inteSeen /\ todo' = todo
        /\ held' = held /\ exchange' = exchange /\ peerUses' = peerUses /\ handlerOn' = handlerOn
        /\ signalled' = signalled /\ received' = received
        /\ top' = [top EXCEPT !.at = "take"] /\ top.at = "ack"
    BY <1>2 DEF TopHalfAcks
  <2>3. top'.at = "take" /\ top'.ch = top.ch /\ top' \in [at : {"idle", "ack", "take"}, ch : ChannelNos]
    BY <1>0, <2>1 DEF TypeChannels
  <2>4. TypeChannels'
    BY <1>0, <2>1, <2>3 DEF TypeChannels
  <2>5. ASSUME handlerOn = "task" PROVE Fresh'
    <3>1. Fresh /\ Rx' = Rx /\ (ToPublish' <=> ToPublish) /\ (Quiet' <=> Quiet) /\ (Unreported => Unreported') /\ (Over' <=> Over)
      BY <2>1, <2>5 DEF ChannelsInv, Rx, ToPublish, Quiet, Unreported, Over
    <3>2. Reported => Reported'
      BY <2>1, <2>3, <3>1 DEF Reported
    <3> QED
      BY <2>1, <3>1, <3>2 DEF Fresh
  <2> QED
    BY <1>0, <2>1, <2>4, <2>5, Elsewhere DEF TokensMatch
<1>3. CASE TopHalfTakes
  <2> DEFINE c == top.ch
  <2>1. /\ inte0' = inte0 /\ intr' = intr /\ dmacr' = dmacr /\ inteSeen' = inteSeen /\ todo' = todo
        /\ held' = held /\ exchange' = exchange /\ peerUses' = peerUses /\ handlerOn' = handlerOn
        /\ received' = received /\ top' = [at |-> "idle", ch |-> 0] /\ top.at = "take"
        /\ chan' = [chan EXCEPT ![c].token = NoExchange]
        /\ signalled' = signalled \cup ({chan[c].token} \ {NoExchange})
    BY <1>3 DEF TopHalfTakes, registers
  <2>2. c \in ChannelNos
    BY <1>0 DEF TypeChannels
  <2> HIDE DEF c
  <2>3. /\ chan' \in [ChannelNos -> ChanRecs] /\ chan'[c].token = NoExchange
        /\ \A d \in ChannelNos : /\ chan'[d].owner = chan[d].owner /\ chan'[d].busy = chan[d].busy
                                 /\ chan'[d].past = chan[d].past /\ chan'[d].err = chan[d].err
                                 /\ d # c => chan'[d].token = chan[d].token
    <3> DEFINE a == chan[c]
               b == [a EXCEPT !.token = NoExchange]
    <3>1. a \in ChanRecs /\ chan' = [chan EXCEPT ![c] = b]
      BY <1>0, <2>1, <2>2
    <3>2. b \in ChanRecs /\ b.owner = a.owner /\ b.busy = a.busy /\ b.past = a.past /\ b.err = a.err /\ b.token = NoExchange
      BY <3>1 DEF ChanRecs
    <3> HIDE DEF b
    <3> QED
      BY <1>0, <2>2, <3>1, <3>2
  <2>4. /\ signalled' \subseteq 1 .. exchange.id /\ signalled' \subseteq Exchanges
        /\ \A i \in signalled' : i \in signalled \/ (i = chan[c].token /\ i # NoExchange)
    <3>1. chan[c].token \in Exchanges \cup {NoExchange}
      BY <1>0, <2>2 DEF ChanRecs
    <3>2. signalled \subseteq 1 .. exchange.id /\ (chan[c].token # NoExchange => chan[c].token \in 1 .. exchange.id)
      BY <1>0, <2>2 DEF TokensMatch
    <3>3. signalled \subseteq Exchanges
      BY <1>0 DEF TypeChannels
    <3> QED
      BY <2>1, <3>1, <3>2, <3>3
  <2>5. top'.at = "idle" /\ top' \in [at : {"idle", "ack", "take"}, ch : ChannelNos]
    <3>1. 0 \in ChannelNos
      BY ChannelsAssumption DEF ChannelNos
    <3> QED
      BY <2>1, <3>1
  <2>6. TypeChannels'
    BY <1>0, <2>1, <2>3, <2>4, <2>5 DEF TypeChannels, ChanRecs
  <2>7. ASSUME handlerOn = "task" PROVE Fresh'
    <3>1. Fresh /\ Rx' = Rx /\ (ToPublish' <=> ToPublish)
          /\ (exchange.pc \in {"claim_tx", "setup", "await"} => Rx \in ChannelNos)
      BY <2>1, <2>7, HeldOnes DEF ChannelsInv, Rx, ToPublish
    <3>2. Quiet => Quiet'
      BY <2>3 DEF Quiet
    <3>3. exchange.pc = "await" => (Unreported => Unreported') /\ (Over' <=> Over)
      BY <2>1, <2>3, <3>1 DEF Unreported, Over
    <3>4. exchange.pc = "await" /\ ~ToPublish => Reported'
      <4> SUFFICES ASSUME exchange.pc = "await", ~ToPublish PROVE Reported'
        OBVIOUS
      <4>1. Reported
        BY <3>1 DEF Fresh
      <4>2. exchange.id \in signalled' => Over
        <5>1. exchange.id \in signalled => Over
          BY <4>1 DEF Reported
        <5>2. chan[c].token # NoExchange => c = Rx
          BY <1>0, <2>2 DEF TokensMatch, Rx
        <5>3. c = Rx => Over
          BY <2>1, <4>1 DEF Reported, c
        <5> QED
          BY <2>4, <5>1, <5>2, <5>3
      <4> QED
        BY <2>1, <2>3, <2>5, <3>1, <3>3, <4>1, <4>2 DEF Reported
    <3> QED
      BY <2>1, <3>1, <3>2, <3>3, <3>4 DEF Fresh
  <2>8. \A d \in ChannelNos : chan'[d].token # NoExchange => chan'[d].token = chan[d].token
    BY <2>3
  <2>9. \A d \in ChannelNos : chan'[d].err => ~chan'[d].busy
    BY <1>0, <2>3 DEF TokensMatch
  <2>10. \A d \in ChannelNos : chan'[d].owner = chan[d].owner /\ (chan'[d].busy => chan[d].busy)
    BY <2>3
  <2> QED
    BY <2>1, <2>4, <2>6, <2>7, <2>8, <2>9, <2>10, Elsewhere
<1> QED
  BY <1>1, <1>2, <1>3

LEMMA NextChannelsInv ==
  ASSUME ChannelsInv, [ChannelsNext]_chanVars
  PROVE  ChannelsInv'
<1>1. CASE UNCHANGED chanVars
  BY <1>1 DEF chanVars, ChannelsInv, TypeChannels, OwnWork, WorkMatches, HeldMatches, Holds, FreeIsQuiet,
              AsksWhenSetUp, ToPublish, TokensMatch, Fresh, Rx, Over, Quiet, Unreported, Reported
<1>2. CASE ChannelsNext
  BY <1>2, AccessKeeps, PublishKeeps, ClaimKeeps, ClaimFailKeeps, SetupKeeps, AwaitKeeps, ReturnKeeps,
     PeerClaimKeeps, PeerReleaseKeeps, EngineKeeps, HandlerKeeps DEF ChannelsNext
<1> QED
  BY <1>1, <1>2

(* Whatever its outcome, when await_done has returned the engine is off    *)
(* the buffers and no channel is left behind; and where DMA_IRQ_0 is       *)
(* handled on the task's core, Ok means that this exchange's receive       *)
(* channel moved everything (soc/rp2040/src/dma.rs: cleanup, release,      *)
(* take_irq0_completion; uart/src/dma.rs: exchange_dma, await_done), for   *)
(* any number of channels, exchanges and claims of the peer.               *)
THEOREM TransfersAreOver == ChannelsSpec => []TransferOver
<1>1. ChannelsInv => TransferOver
  <2> SUFFICES ASSUME ChannelsInv PROVE TransferOver
    OBVIOUS
  <2>1. ASSUME exchange.pc = "idle", NEW c \in ChannelNos PROVE chan[c].owner # "task"
    <3>1. held["task"] = <<>>
      BY <2>1 DEF ChannelsInv, HeldMatches
    <3>2. ~Holds("task", c)
      BY <3>1 DEF Holds
    <3> QED
      BY <3>2, HeldOnes
  <2> QED
    BY <2>1 DEF TransferOver, ChannelsInv, FreeIsQuiet, Fresh
<1> QED
  BY <1>1, InitChannelsInv, NextChannelsInv, PTL DEF ChannelsSpec

(***************************************************************************)
(* The heap.                                                               *)
(***************************************************************************)

(* A non-empty set of numbers has a least element.                         *)
LEMMA LeastNat ==
  ASSUME NEW S \in SUBSET Nat, S # {}
  PROVE  \E x \in S : \A y \in S : x <= y
<1> DEFINE R == {ss \in Nat \X Nat : ss[1] < ss[2]}
<1>0. IsWellFoundedOn(R, Nat)
  BY NatLessThanWellFounded DEF OpToRel
<1> HIDE DEF R
<1>1. PICK x \in S : \A y \in S : ~(<<y, x>> \in R)
  BY <1>0, WFMin, Zenon
<1>2. \A y \in S : ~(y < x)
  BY <1>1, Zenon DEF R
<1> QED
  BY <1>2

(* Induction over a set of naturals, from its least missing element.       *)
LEMMA SetInduction ==
  ASSUME NEW S, 0 \in S, \A n \in Nat : n \in S => n + 1 \in S
  PROVE  Nat \subseteq S
<1> SUFFICES ASSUME NEW n \in Nat, n \notin S PROVE FALSE
  OBVIOUS
<1>1. PICK x \in Nat \ S : \A y \in Nat \ S : x <= y
  BY LeastNat
<1>2. x # 0 /\ x - 1 \in Nat /\ x - 1 \in S
  BY <1>1
<1> QED
  BY <1>1, <1>2

(* Products of a size: adding one multiple more, and no multiple between   *)
(* zero and the size itself.                                               *)
LEMMA NextMultiple ==
  ASSUME NEW n \in Nat, NEW k \in Int
  PROVE  n * k \in Int /\ n * (k + 1) = n * k + n /\ k * n = n * k
  OBVIOUS

LEMMA Products ==
  ASSUME NEW a \in Int, NEW b \in Int, NEW c \in Int
  PROVE  /\ a * (b - c) = a * b - a * c /\ a * b \in Int /\ a * c \in Int
         /\ (a * b) * c = a * (b * c) /\ b * c \in Int
         /\ a * (c - b) = 0 - a * (b - c)
  OBVIOUS

LEMMA MultipleAtLeast ==
  ASSUME NEW n \in Nat, NEW k \in Nat, k # 0
  PROVE  n * k >= n
<1> DEFINE P == {j \in Nat : n * (j + 1) >= n}
<1>1. 0 \in P
  OBVIOUS
<1>2. ASSUME NEW j \in Nat, j \in P PROVE j + 1 \in P
  <2>1. n * ((j + 1) + 1) = n * (j + 1) + n /\ n * (j + 1) \in Int
    BY NextMultiple
  <2> QED
    BY <1>2, <2>1
<1>3. Nat \subseteq P
  <2> HIDE DEF P
  <2> QED
    BY <1>1, <1>2, SetInduction
<1>4. k - 1 \in P /\ (k - 1) + 1 = k
  BY <1>3
<1> QED
  BY <1>4

(* Division: a number is a multiple of the divisor and a remainder.        *)
LEMMA Division ==
  ASSUME NEW v \in Int, NEW n \in Nat \ {0}
  PROVE  /\ v \div n \in Int /\ v % n \in 0 .. n - 1
         /\ v = n * (v \div n) + (v % n)
  OBVIOUS

LEMMA MultipleIsAligned ==
  ASSUME NEW n \in Nat \ {0}, NEW k \in Int
  PROVE  (n * k) % n = 0
<1> DEFINE v == n * k
           d == v \div n
           r == v % n
<1>0. v \in Int /\ v = n * k
  OBVIOUS
<1>1. d \in Int /\ r \in 0 .. n - 1 /\ v = n * d + r
  BY <1>0, Division
<1> HIDE DEF d, r, v
<1>2. n * (k - d) = r
  <2>1. n * (k - d) = n * k - n * d /\ n * k \in Int /\ n * d \in Int
    BY <1>1, Products
  <2> QED
    BY <1>0, <1>1, <2>1
<1>3. CASE k - d >= 1
  <2>1. k - d \in Nat /\ k - d # 0
    BY <1>1, <1>3
  <2>2. n * (k - d) >= n
    BY <2>1, MultipleAtLeast
  <2> QED
    BY <1>1, <1>2, <2>2
<1>4. CASE k - d <= 0 - 1
  <2>1. d - k \in Nat /\ d - k # 0
    BY <1>1, <1>4
  <2>2. n * (d - k) >= n
    BY <2>1, MultipleAtLeast
  <2>3. n * (d - k) = 0 - n * (k - d)
    BY <1>1, Products
  <2> QED
    BY <1>1, <1>2, <2>2, <2>3
<1>5. CASE k - d = 0
  <2>1. n * (k - d) = 0
    BY <1>5
  <2> QED
    BY <1>2, <2>1 DEF r, v
<1> QED
  BY <1>1, <1>3, <1>4, <1>5

(* A sum below USIZE is what a usize keeps of it.                          *)
LEMMA WordIs == ASSUME NEW x \in Nat, x < USIZE PROVE Word(x) = x
  BY HeapAssumption DEF Word

(* align_up rounds up to a multiple, by less than one.                     *)
LEMMA AlignUp ==
  ASSUME NEW v \in Nat, NEW n \in Nat \ {0}, v + n - 1 < USIZE
  PROVE  /\ align_up(v, n) \in Nat /\ align_up(v, n) >= v /\ align_up(v, n) < v + n
         /\ align_up(v, n) % n = 0
<1>0. PICK w \in Nat : w = v + n - 1 /\ Word(w) = w
  <2>1. PICK w \in Nat : w = v + n - 1 /\ w < USIZE
    OBVIOUS
  <2> QED
    BY <2>1, WordIs
<1> DEFINE d == w \div n
           r == w % n
<1>1. d \in Int /\ r \in 0 .. n - 1 /\ w = n * d + r
  BY Division
<1>2. d * n = n * d /\ n * d \in Int
  BY <1>1, NextMultiple
<1>3. align_up(v, n) = n * d
  BY <1>0, <1>2 DEF align_up
<1>4. (n * d) % n = 0
  BY <1>1, MultipleIsAligned
<1> HIDE DEF d, r
<1> QED
  BY <1>0, <1>1, <1>2, <1>3, <1>4

(* What is aligned to a multiple of an alignment is aligned to it.         *)
LEMMA AlignedToDivisor ==
  ASSUME NEW v \in Nat, NEW n \in Nat \ {0}, NEW k \in Nat \ {0}, v % n = 0, n % k = 0
  PROVE  v % k = 0
<1> DEFINE a == v \div n
           b == n \div k
<1>1. a \in Int /\ v = n * a + (v % n) /\ b \in Int /\ n = k * b + (n % k)
  BY Division
<1> HIDE DEF a, b
<1>2. n * a \in Int /\ k * b \in Int /\ b * a \in Int /\ (k * b) * a = k * (b * a)
  BY <1>1, Products
<1>3. v = n * a /\ n = k * b
  BY <1>1, <1>2
<1>4. v = k * (b * a)
  BY <1>2, <1>3
<1> QED
  BY <1>2, <1>4, MultipleIsAligned

(* Blocks, and a free list in order: blocks large enough for their node,   *)
(* apart, and no two that touch.                                           *)
Block == [start : Nat, size : Nat]
FreeList(F) ==
  /\ F \subseteq Block
  /\ \A f \in F : f.size >= MIN_BLOCK
  /\ \A f, g \in F : f # g => Apart(f, g) /\ f.start + f.size # g.start

LEMMA MinIs ==
  ASSUME NEW S \in SUBSET Int, NEW x \in S, \A y \in S : x <= y
  PROVE  Min(S) = x
<1>1. \A y \in S : (\A z \in S : y <= z) => y = x
  OBVIOUS
<1> QED
  BY <1>1 DEF Min

LEMMA MaxIs ==
  ASSUME NEW S \in SUBSET Int, NEW x \in S, \A y \in S : x >= y
  PROVE  Max(S) = x
<1>1. \A y \in S : (\A z \in S : y >= z) => y = x
  OBVIOUS
<1> QED
  BY <1>1 DEF Max

(* Blocks are apart when they have no byte in common.                      *)
LEMMA ApartCells ==
  ASSUME NEW a \in Block, NEW b \in Block, a.size > 0, b.size > 0
  PROVE  Apart(a, b) <=> CellsOf(a) \cap CellsOf(b) = {}
<1>0. a.start \in Nat /\ a.size \in Nat /\ b.start \in Nat /\ b.size \in Nat
  BY DEF Block
<1>1. ASSUME Apart(a, b), NEW x \in CellsOf(a) \cap CellsOf(b) PROVE FALSE
  BY <1>0, <1>1 DEF Apart, CellsOf
<1>2. ASSUME CellsOf(a) \cap CellsOf(b) = {}, ~Apart(a, b) PROVE FALSE
  <2> DEFINE x == IF a.start <= b.start THEN b.start ELSE a.start
  <2>1. x \in CellsOf(a) /\ x \in CellsOf(b)
    BY <1>0, <1>2 DEF Apart, CellsOf
  <2> QED
    BY <1>2, <2>1
<1> QED
  BY <1>1, <1>2

(* What insert_free merges: at most one block before and one after.        *)
LEMMA Neighbours ==
  ASSUME NEW F, FreeList(F), NEW b \in Block, b.size >= MIN_BLOCK
  PROVE  LET before == {f \in F : f.start + f.size = b.start}
             after == {f \in F : b.start + b.size = f.start}
         IN  /\ before = {} \/ \E p \in F : before = {p}
             /\ after = {} \/ \E q \in F : after = {q}
<1> DEFINE before == {f \in F : f.start + f.size = b.start}
           after == {f \in F : b.start + b.size = f.start}
<1>0. MIN_BLOCK \in Nat /\ MIN_BLOCK > 0
  BY HeapAssumption
<1>1. ASSUME NEW p \in before, NEW q \in before, p # q PROVE FALSE
  <2>1. /\ p.start \in Nat /\ p.size \in Nat /\ q.start \in Nat /\ q.size \in Nat
        /\ p.size >= MIN_BLOCK /\ q.size >= MIN_BLOCK /\ Apart(p, q)
        /\ p.start + p.size = q.start + q.size
    BY <1>1 DEF FreeList, Block
  <2> QED
    BY <1>0, <2>1 DEF Apart
<1>2. ASSUME NEW p \in after, NEW q \in after, p # q PROVE FALSE
  <2>1. /\ p.start \in Nat /\ p.size \in Nat /\ q.start \in Nat /\ q.size \in Nat
        /\ p.size >= MIN_BLOCK /\ q.size >= MIN_BLOCK /\ Apart(p, q)
        /\ p.start = q.start
    BY <1>2 DEF FreeList, Block
  <2> QED
    BY <1>0, <2>1 DEF Apart
<1>3. before = {} \/ \E p \in F : before = {p}
  <2>1. before \subseteq F
    OBVIOUS
  <2> HIDE DEF before
  <2> QED
    BY <1>1, <2>1, Zenon
<1>4. after = {} \/ \E q \in F : after = {q}
  <2>1. after \subseteq F
    OBVIOUS
  <2> HIDE DEF after
  <2> QED
    BY <1>2, <2>1, Zenon
<1> QED
  BY <1>3, <1>4

(* The block insert_free leaves, merged with B before it and A after it.   *)
MergedAs(F, b, s, e, B, A) ==
  /\ insert_free(F, b) = (F \ (B \cup A)) \cup {[start |-> s, size |-> e - s]}
  /\ \/ B = {} /\ s = b.start
     \/ \E p \in F : B = {p} /\ p.start = s /\ p.start + p.size = b.start
  /\ \/ A = {} /\ e = b.start + b.size
     \/ \E q \in F : A = {q} /\ q.start = b.start + b.size /\ q.start + q.size = e
  /\ \A g \in F \ (B \cup A) : g.start + g.size # b.start /\ b.start + b.size # g.start

(* The block insert_free leaves: it starts where the one before did and    *)
(* ends where the one after did.                                           *)
LEMMA Merged ==
  ASSUME NEW F, FreeList(F), NEW b \in Block, b.size >= MIN_BLOCK, \A f \in F : Apart(f, b)
  PROVE  \E s, e \in Nat, B, A \in SUBSET F : MergedAs(F, b, s, e, B, A)
<1> DEFINE before == {f \in F : f.start + f.size = b.start}
           after == {f \in F : b.start + b.size = f.start}
           s == Min({b.start} \cup {f.start : f \in before})
           e == Max({b.start + b.size} \cup {f.start + f.size : f \in after})
<1>0. /\ MIN_BLOCK \in Nat /\ b.start \in Nat /\ b.size \in Nat
      /\ \A f \in F : f.start \in Nat /\ f.size \in Nat
  BY HeapAssumption DEF FreeList, Block
<1>1. /\ before = {} \/ \E p \in F : before = {p}
      /\ after = {} \/ \E q \in F : after = {q}
  BY Neighbours
<1>2. insert_free(F, b) = (F \ (before \cup after)) \cup {[start |-> s, size |-> e - s]}
  BY DEF insert_free
<1>3. /\ s \in Nat
      /\ \/ before = {} /\ s = b.start
         \/ \E p \in F : before = {p} /\ p.start = s /\ p.start + p.size = b.start
  <2>1. CASE before = {}
    <3>1. {b.start} \cup {f.start : f \in before} = {b.start}
      BY <2>1
    <3>3. {b.start} \in SUBSET Int /\ b.start \in {b.start} /\ \A y \in {b.start} : b.start <= y
      BY <1>0
    <3>4. Min({b.start}) = b.start
      BY <3>3, MinIs
    <3>2. s = b.start
      BY <3>1, <3>4
    <3> QED
      BY <1>0, <2>1, <3>2
  <2>2. ASSUME NEW p \in F, before = {p}
        PROVE  s \in Nat /\ p.start = s /\ p.start + p.size = b.start
    <3>1. p.start + p.size = b.start
      BY <2>2
    <3>2. {b.start} \cup {f.start : f \in before} = {b.start, p.start}
      BY <2>2
    <3>3. p.start <= b.start /\ p.start \in Nat
      BY <1>0, <3>1
    <3>5. {b.start, p.start} \in SUBSET Int /\ p.start \in {b.start, p.start}
          /\ \A y \in {b.start, p.start} : p.start <= y
      BY <1>0, <3>3
    <3>4. Min({b.start, p.start}) = p.start
      BY <3>5, MinIs
    <3> QED
      BY <3>1, <3>2, <3>3, <3>4
  <2> QED
    BY <1>1, <2>1, <2>2
<1>4. /\ e \in Nat
      /\ \/ after = {} /\ e = b.start + b.size
         \/ \E q \in F : after = {q} /\ q.start = b.start + b.size /\ q.start + q.size = e
  <2>1. CASE after = {}
    <3>1. {b.start + b.size} \cup {f.start + f.size : f \in after} = {b.start + b.size}
      BY <2>1
    <3>3. PICK z \in Nat : z = b.start + b.size
      BY <1>0
    <3>4. {z} \in SUBSET Int /\ z \in {z} /\ \A y \in {z} : z >= y
      OBVIOUS
    <3>5. Max({z}) = z
      BY <3>4, MaxIs
    <3>2. e = b.start + b.size
      BY <3>1, <3>3, <3>5
    <3> QED
      BY <1>0, <2>1, <3>2
  <2>2. ASSUME NEW q \in F, after = {q}
        PROVE  e \in Nat /\ q.start = b.start + b.size /\ q.start + q.size = e
    <3>1. q.start = b.start + b.size
      BY <2>2
    <3>2. {b.start + b.size} \cup {f.start + f.size : f \in after} = {b.start + b.size, q.start + q.size}
      BY <2>2
    <3>3. b.start + b.size <= q.start + q.size /\ q.start + q.size \in Nat /\ b.start + b.size \in Nat
      BY <1>0, <3>1
    <3>4. Max({b.start + b.size, q.start + q.size}) = q.start + q.size
      BY <3>3, MaxIs
    <3> QED
      BY <3>1, <3>2, <3>3, <3>4
  <2> QED
    BY <1>1, <2>1, <2>2
<1>5. \A g \in F \ (before \cup after) : g.start + g.size # b.start /\ b.start + b.size # g.start
  OBVIOUS
<1>6. before \in SUBSET F /\ after \in SUBSET F
  OBVIOUS
<1> HIDE DEF before, after, s, e
<1> QED
  <2>1. MergedAs(F, b, s, e, before, after)
    BY <1>2, <1>3, <1>4, <1>5 DEF MergedAs
  <2> QED
    BY <1>3, <1>4, <1>6, <2>1

(* insert_free keeps the list in order and adds exactly the block's bytes. *)
LEMMA InsertFree ==
  ASSUME NEW F, FreeList(F), NEW b \in Block, b.size >= MIN_BLOCK, \A f \in F : Apart(f, b)
  PROVE  /\ FreeList(insert_free(F, b))
         /\ Covered(insert_free(F, b)) = Covered(F) \cup CellsOf(b)
<1>0. /\ MIN_BLOCK \in Nat /\ MIN_BLOCK > 0 /\ b.start \in Nat /\ b.size \in Nat
      /\ \A f \in F : f.start \in Nat /\ f.size \in Nat /\ f.size >= MIN_BLOCK
  BY HeapAssumption DEF FreeList, Block
<1>99. PICK s \in Nat, e \in Nat, B \in SUBSET F, A \in SUBSET F : MergedAs(F, b, s, e, B, A)
  BY Merged, Zenon
<1>1. /\ insert_free(F, b) = (F \ (B \cup A)) \cup {[start |-> s, size |-> e - s]}
      /\ \/ B = {} /\ s = b.start
         \/ \E p \in F : B = {p} /\ p.start = s /\ p.start + p.size = b.start
      /\ \/ A = {} /\ e = b.start + b.size
         \/ \E q \in F : A = {q} /\ q.start = b.start + b.size /\ q.start + q.size = e
      /\ \A g \in F \ (B \cup A) : g.start + g.size # b.start /\ b.start + b.size # g.start
  BY <1>99 DEF MergedAs
<1> DEFINE n == [start |-> s, size |-> e - s]
           G == F \ (B \cup A)
<1>2. s <= b.start /\ b.start + b.size <= e
  BY <1>0, <1>1
<1>3. n \in Block /\ n.start = s /\ n.size = e - s /\ n.size >= MIN_BLOCK /\ e - s \in Nat
  BY <1>0, <1>2 DEF Block
<1>4. ASSUME NEW g \in G
      PROVE  /\ Apart(g, n) /\ Apart(n, g)
             /\ g.start + g.size # s /\ e # g.start
  <2>0. /\ g \in F /\ g.start \in Nat /\ g.size \in Nat /\ g.size >= MIN_BLOCK
        /\ Apart(g, b) /\ g.start + g.size # b.start /\ b.start + b.size # g.start
    BY <1>0, <1>1, <1>4
  <2>1. g.start + g.size <= s \/ b.start <= g.start
    <3>1. CASE s = b.start
      BY <1>0, <2>0, <3>1 DEF Apart
    <3>2. ASSUME NEW p \in F, B = {p}, p.start = s, p.start + p.size = b.start
          PROVE  g.start + g.size <= s \/ b.start <= g.start
      <4>1. p # g /\ p.size \in Nat /\ p.size >= MIN_BLOCK
        BY <1>0, <1>4, <3>2
      <4>2. Apart(p, g)
        BY <2>0, <4>1 DEF FreeList
      <4> QED
        BY <1>0, <2>0, <3>2, <4>1, <4>2 DEF Apart
    <3> QED
      BY <1>1, <3>1, <3>2
  <2>2. g.start + g.size # s
    <3>1. CASE s = b.start
      BY <2>0, <3>1
    <3>2. ASSUME NEW p \in F, B = {p}, p.start = s
          PROVE  g.start + g.size # s
      BY <1>4, <2>0, <3>2 DEF FreeList
    <3> QED
      BY <1>1, <3>1, <3>2
  <2>3. e <= g.start \/ g.start + g.size <= b.start + b.size
    <3>1. CASE e = b.start + b.size
      BY <1>0, <2>0, <3>1 DEF Apart
    <3>2. ASSUME NEW q \in F, A = {q}, q.start = b.start + b.size, q.start + q.size = e
          PROVE  e <= g.start \/ g.start + g.size <= b.start + b.size
      <4>1. q # g /\ q.size \in Nat /\ q.size >= MIN_BLOCK
        BY <1>0, <1>4, <3>2
      <4>2. Apart(q, g)
        BY <2>0, <4>1 DEF FreeList
      <4> QED
        BY <1>0, <2>0, <3>2, <4>1, <4>2 DEF Apart
    <3> QED
      BY <1>1, <3>1, <3>2
  <2>4. e # g.start
    <3>1. CASE e = b.start + b.size
      BY <2>0, <3>1
    <3>2. ASSUME NEW q \in F, A = {q}, q.start + q.size = e
          PROVE  e # g.start
      BY <1>4, <2>0, <3>2 DEF FreeList
    <3> QED
      BY <1>1, <3>1, <3>2
  <2>5. g.start + g.size <= s \/ e <= g.start
    BY <1>0, <1>2, <2>0, <2>1, <2>3 DEF Apart
  <2> QED
    BY <1>3, <2>2, <2>4, <2>5 DEF Apart
<1>5. FreeList(insert_free(F, b))
  <2>1. insert_free(F, b) = G \cup {n} /\ G \subseteq F
    BY <1>1
  <2>2. n.start + n.size = e
    BY <1>3
  <2> HIDE DEF n, G
  <2>3. G \cup {n} \subseteq Block /\ \A f \in G \cup {n} : f.size >= MIN_BLOCK
    BY <1>0, <1>3, <2>1 DEF FreeList
  <2>4. ASSUME NEW f \in G \cup {n}, NEW g \in G \cup {n}, f # g
        PROVE  Apart(f, g) /\ f.start + f.size # g.start
    <3>1. CASE f \in G /\ g \in G
      BY <2>1, <2>4, <3>1 DEF FreeList
    <3>2. CASE f = n /\ g \in G
      BY <1>4, <2>2, <3>2
    <3>3. CASE f \in G /\ g = n
      BY <1>3, <1>4, <3>3
    <3> QED
      BY <2>4, <3>1, <3>2, <3>3
  <2> QED
    BY <2>1, <2>3, <2>4 DEF FreeList
<1>6. CellsOf(n) = s .. e - 1 /\ \A f : CellsOf(f) = f.start .. f.start + f.size - 1
  BY <1>3 DEF CellsOf
<1>7. \A x : x \in CellsOf(n) <=> \/ x \in CellsOf(b) \/ \E f \in B \cup A : x \in CellsOf(f)
  <2> SUFFICES ASSUME NEW x
               PROVE  x \in s .. e - 1 <=> \/ x \in b.start .. b.start + b.size - 1
                                           \/ \E f \in B \cup A : x \in f.start .. f.start + f.size - 1
    BY <1>6
  <2>1. CASE B = {} /\ s = b.start /\ A = {} /\ e = b.start + b.size
    BY <1>0, <2>1
  <2>2. ASSUME NEW p \in F, B = {p}, p.start = s, p.start + p.size = b.start, A = {}, e = b.start + b.size
        PROVE  x \in s .. e - 1 <=> \/ x \in b.start .. b.start + b.size - 1
                                    \/ x \in p.start .. p.start + p.size - 1
    BY <1>0, <2>2
  <2>3. ASSUME B = {}, s = b.start, NEW q \in F, A = {q}, q.start = b.start + b.size, q.start + q.size = e
        PROVE  x \in s .. e - 1 <=> \/ x \in b.start .. b.start + b.size - 1
                                    \/ x \in q.start .. q.start + q.size - 1
    BY <1>0, <2>3
  <2>4. ASSUME NEW p \in F, B = {p}, p.start = s, p.start + p.size = b.start,
               NEW q \in F, A = {q}, q.start = b.start + b.size, q.start + q.size = e
        PROVE  x \in s .. e - 1 <=> \/ x \in b.start .. b.start + b.size - 1
                                    \/ x \in p.start .. p.start + p.size - 1
                                    \/ x \in q.start .. q.start + q.size - 1
    BY <1>0, <2>4
  <2> QED
    BY <1>1, <2>1, <2>2, <2>3, <2>4
<1>8. Covered(insert_free(F, b)) = Covered(F) \cup CellsOf(b)
  <2>1. insert_free(F, b) = G \cup {n} /\ F = G \cup (B \cup A)
    BY <1>1
  <2> HIDE DEF n, G
  <2>2. \A x : x \in Covered(G \cup {n}) <=> x \in Covered(G \cup (B \cup A)) \/ x \in CellsOf(b)
    BY <1>7, Zenon DEF Covered
  <2> QED
    BY <2>1, <2>2
<1> QED
  BY <1>5, <1>8

(* A block with no byte of the list is apart from all of it, and back.     *)
LEMMA ListApart ==
  ASSUME NEW F, FreeList(F), NEW b \in Block, b.size > 0
  PROVE  (\A f \in F : Apart(f, b)) <=> Covered(F) \cap CellsOf(b) = {}
<1>1. \A f \in F : f \in Block /\ f.size > 0
  BY HeapAssumption DEF FreeList, Block
<1>2. \A f \in F : Apart(f, b) <=> CellsOf(f) \cap CellsOf(b) = {}
  BY <1>1, ApartCells
<1> QED
  BY <1>2 DEF Covered

(* What alloc takes of the block f: from st to en, in front of which and   *)
(* behind which a free block may stay.                                     *)
TakenAs(F, f, size, align, p, st, en) ==
  LET t == Take(F, f, size, align)
      front == [start |-> f.start, size |-> st - f.start]
      tail == [start |-> en, size |-> (f.start + f.size) - en]
      rest == (F \ {f}) \cup (IF st = f.start THEN {} ELSE {front})
  IN  /\ t.new = [ptr |-> p, total |-> en - st, back |-> p - HEADER - st]
      /\ t.free = IF en = f.start + f.size THEN rest ELSE insert_free(rest, tail)
      /\ p % align = 0
      /\ f.start <= st /\ st <= p - HEADER /\ p + size <= en /\ en <= f.start + f.size
      /\ st = f.start \/ st - f.start >= MIN_BLOCK
      /\ en = f.start + f.size \/ (f.start + f.size) - en >= MIN_BLOCK

LEMMA TakeIs ==
  ASSUME NEW F, NEW f \in Block, NEW size \in Nat, NEW align \in Nat \ {0},
         Payload(f, align) + size <= f.start + f.size, f.start + f.size < USIZE,
         f.start + HEADER + align - 1 < USIZE
  PROVE  \E p, st, en \in Nat : TakenAs(F, f, size, align, p, st, en)
<1>0. /\ f.start \in Nat /\ f.size \in Nat /\ HEADER \in Nat /\ MIN_BLOCK \in Nat \ {0}
      /\ USIZE \in Nat
  BY HeapAssumption DEF Block
<1> DEFINE p == Payload(f, align)
<1>1. p \in Nat /\ p >= f.start + HEADER /\ p % align = 0
  <2>1. PICK v \in Nat : v = f.start + HEADER /\ v < USIZE /\ v + align - 1 < USIZE
    BY <1>0
  <2>2. p = align_up(v, align)
    BY <2>1, WordIs DEF Payload
  <2> QED
    BY <2>1, <2>2, AlignUp
<1> DEFINE front == p - HEADER - f.start
           st == IF front >= MIN_BLOCK THEN f.start + front ELSE f.start
           kept == IF front >= MIN_BLOCK THEN {[f EXCEPT !.size = front]} ELSE {}
           tail == f.start + f.size - (p + size)
           en == IF tail >= MIN_BLOCK THEN p + size ELSE f.start + f.size
           rest == (F \ {f}) \cup kept
           t == Take(F, f, size, align)
<1>3. p + size <= f.start + f.size
  OBVIOUS
<1>4. front \in Nat /\ tail \in Nat /\ st \in Nat /\ en \in Nat
  <2> HIDE DEF p
  <2> QED
    BY <1>0, <1>1, <1>3
<1>11. Word(front) = front /\ Word(tail) = tail /\ Word(p + size) = p + size
  <2> HIDE DEF p
  <2>1. front < USIZE /\ tail < USIZE /\ p + size < USIZE /\ p + size \in Nat
    BY <1>0, <1>1, <1>3
  <2> QED
    BY <1>4, <2>1, WordIs
<1>12. Word(en - st) = en - st /\ Word(p - HEADER - st) = p - HEADER - st
  <2> HIDE DEF p
  <2>1. en - st \in Nat /\ en - st < USIZE /\ p - HEADER - st \in Nat /\ p - HEADER - st < USIZE
    BY <1>0, <1>1, <1>3
  <2> QED
    BY <2>1, WordIs
<1>2. /\ t.new = [ptr |-> p, total |-> en - st, back |-> p - HEADER - st]
      /\ t.free = IF tail >= MIN_BLOCK THEN insert_free(rest, [start |-> en, size |-> tail]) ELSE rest
  BY <1>11, <1>12 DEF Take
<1> HIDE DEF p
<1>5. /\ f.start <= st /\ st <= p - HEADER /\ p + size <= en /\ en <= f.start + f.size
      /\ st = f.start \/ st - f.start >= MIN_BLOCK
      /\ en = f.start + f.size \/ (f.start + f.size) - en >= MIN_BLOCK
      /\ front >= MIN_BLOCK <=> st # f.start
      /\ front >= MIN_BLOCK => front = st - f.start
      /\ tail >= MIN_BLOCK <=> en # f.start + f.size
      /\ tail >= MIN_BLOCK => tail = (f.start + f.size) - en
  BY <1>0, <1>1, <1>3, <1>4
<1>6. [f EXCEPT !.size = front] = [start |-> f.start, size |-> front]
  BY DEF Block
<1>7. kept = IF st = f.start THEN {} ELSE {[start |-> f.start, size |-> st - f.start]}
  BY <1>5, <1>6
<1>8. rest = (F \ {f}) \cup (IF st = f.start THEN {} ELSE {[start |-> f.start, size |-> st - f.start]})
  BY <1>7
<1> HIDE DEF front, tail, st, en, kept, rest, t
<1>9. t.free = IF en = f.start + f.size THEN rest
               ELSE insert_free(rest, [start |-> en, size |-> (f.start + f.size) - en])
  BY <1>2, <1>5
<1>10. TakenAs(F, f, size, align, p, st, en)
  BY <1>1, <1>2, <1>5, <1>8, <1>9 DEF TakenAs, t
<1> QED
  BY <1>1, <1>4, <1>10

(* The list with the block f cut down to what lies before st.              *)
CutTo(F, f, st) ==
  (F \ {f}) \cup (IF st = f.start THEN {} ELSE {[start |-> f.start, size |-> st - f.start]})

(* Cutting a block of the list down to its front keeps the list in order.  *)
LEMMA FrontKept ==
  ASSUME NEW F, FreeList(F), NEW f \in F, NEW st \in Nat, f.start <= st, st < f.start + f.size,
         st = f.start \/ st - f.start >= MIN_BLOCK
  PROVE  /\ FreeList(CutTo(F, f, st))
         /\ Covered(CutTo(F, f, st)) = Covered(F \ {f}) \cup (f.start .. st - 1)
<1>0. /\ MIN_BLOCK \in Nat \ {0} /\ f.start \in Nat /\ f.size \in Nat
      /\ \A g \in F : g \in Block /\ g.start \in Nat /\ g.size \in Nat /\ g.size >= MIN_BLOCK
  BY HeapAssumption DEF FreeList, Block
<1> DEFINE front == [start |-> f.start, size |-> st - f.start]
           rest == (F \ {f}) \cup (IF st = f.start THEN {} ELSE {front})
<1>9. rest = CutTo(F, f, st)
  BY DEF CutTo
<1>1. CASE st = f.start
  <2>1. rest = F \ {f} /\ f.start .. st - 1 = {}
    BY <1>0, <1>1
  <2> QED
    BY <1>9, <2>1 DEF FreeList
<1>2. CASE st # f.start
  <2>1. rest = (F \ {f}) \cup {front}
    BY <1>2
  <2>2. /\ front \in Block /\ front.start = f.start /\ front.size = st - f.start
        /\ front.size >= MIN_BLOCK /\ front.size \in Nat /\ front.start + front.size = st
    BY <1>0, <1>2 DEF Block
  <2> HIDE DEF front, rest
  <2>3. CellsOf(front) = f.start .. st - 1
    BY <1>0, <2>2 DEF CellsOf
  <2>4. ASSUME NEW g \in F \ {f}
        PROVE  /\ Apart(g, front) /\ Apart(front, g)
               /\ g.start + g.size # front.start /\ front.start + front.size # g.start
    <3>1. /\ g.start \in Nat /\ g.size \in Nat /\ g.size >= MIN_BLOCK
          /\ Apart(g, f) /\ g.start + g.size # f.start
      BY <1>0, <2>4 DEF FreeList
    <3> QED
      BY <1>0, <2>2, <3>1 DEF Apart
  <2>5. FreeList(rest)
    <3>1. rest \subseteq Block /\ \A g \in rest : g.size >= MIN_BLOCK
      BY <1>0, <2>1, <2>2
    <3>2. ASSUME NEW g \in rest, NEW h \in rest, g # h
          PROVE  Apart(g, h) /\ g.start + g.size # h.start
      <4>1. CASE g \in F \ {f} /\ h \in F \ {f}
        BY <3>2, <4>1 DEF FreeList
      <4> QED
        BY <2>1, <2>4, <3>2, <4>1
    <3> QED
      BY <3>1, <3>2 DEF FreeList
  <2>6. Covered(rest) = Covered(F \ {f}) \cup CellsOf(front)
    BY <2>1 DEF Covered
  <2> QED
    BY <1>9, <2>3, <2>5, <2>6
<1> QED
  BY <1>1, <1>2

(* alloc leaves an ordered list, and the block it takes is exactly what    *)
(* the list lost; its payload is aligned and long enough.                  *)
LEMMA TakeBlock ==
  ASSUME NEW F, FreeList(F), NEW f \in F, NEW size \in Nat, NEW align \in Nat \ {0},
         size >= ALIGN, Payload(f, align) + size <= f.start + f.size, f.start + f.size < USIZE,
         f.start + HEADER + align - 1 < USIZE
  PROVE  LET t == Take(F, f, size, align)
             b == [start |-> t.new.ptr - HEADER - t.new.back, size |-> t.new.total]
         IN  /\ FreeList(t.free)
             /\ t.new.ptr \in Nat /\ t.new.total \in Nat /\ t.new.back \in Nat
             /\ t.new.ptr % align = 0 /\ size <= t.new.total - t.new.back - HEADER
             /\ b \in Block /\ b.size >= MIN_BLOCK
             /\ Covered(t.free) \cap CellsOf(b) = {}
             /\ Covered(F) = Covered(t.free) \cup CellsOf(b)
<1> DEFINE t == Take(F, f, size, align)
           b == [start |-> t.new.ptr - HEADER - t.new.back, size |-> t.new.total]
           E == f.start + f.size
<1>0. /\ MIN_BLOCK \in Nat \ {0} /\ HEADER \in Nat /\ ALIGN \in Nat \ {0} /\ HEADER + ALIGN >= MIN_BLOCK
      /\ f \in Block /\ f.start \in Nat /\ f.size \in Nat /\ E \in Nat
      /\ \A g \in F : g \in Block /\ g.size > 0
  BY HeapAssumption DEF FreeList, Block
<1>1. PICK p \in Nat, st \in Nat, en \in Nat : TakenAs(F, f, size, align, p, st, en)
  BY <1>0, TakeIs, Zenon
<1> DEFINE rest == (F \ {f}) \cup (IF st = f.start THEN {} ELSE {[start |-> f.start, size |-> st - f.start]})
           tail == [start |-> en, size |-> E - en]
<1>2. /\ t.new = [ptr |-> p, total |-> en - st, back |-> p - HEADER - st]
      /\ t.free = IF en = E THEN rest ELSE insert_free(rest, tail)
      /\ p % align = 0
      /\ f.start <= st /\ st <= p - HEADER /\ p + size <= en /\ en <= E
      /\ st = f.start \/ st - f.start >= MIN_BLOCK
      /\ en = E \/ E - en >= MIN_BLOCK
  BY <1>1, Zenon DEF TakenAs
<1> HIDE DEF t
<1> HIDE DEF E
<1>3. st < en /\ st < E /\ en - st \in Nat /\ p - HEADER - st \in Nat /\ en - st >= HEADER + size
  <2>1. st <= p - HEADER /\ p + size <= en /\ en <= E /\ size > 0
    BY <1>0, <1>2
  <2> QED
    BY <1>0, <2>1
<1> USE DEF E
<1>4. b = [start |-> st, size |-> en - st]
  BY <1>0, <1>2, <1>3
<1>5. FreeList(rest) /\ Covered(rest) = Covered(F \ {f}) \cup (f.start .. st - 1)
  <2>1. rest = CutTo(F, f, st)
    BY DEF CutTo
  <2>2. f.start <= st /\ st < f.start + f.size /\ (st = f.start \/ st - f.start >= MIN_BLOCK)
    BY <1>2, <1>3
  <2>3. FreeList(CutTo(F, f, st)) /\ Covered(CutTo(F, f, st)) = Covered(F \ {f}) \cup (f.start .. st - 1)
    BY <2>2, FrontKept
  <2> QED
    BY <2>1, <2>3
<1> HIDE DEF b, rest
<1>6. b \in Block /\ b.start = st /\ b.size = en - st /\ b.size >= MIN_BLOCK
  BY <1>0, <1>3, <1>4 DEF Block
<1>7. CellsOf(b) = st .. en - 1
  BY <1>6 DEF CellsOf
<1>8. CellsOf(f) = f.start .. E - 1
  BY <1>0 DEF CellsOf
<1>9. Covered(F \ {f}) \cap CellsOf(f) = {}
  <2>1. \A g \in F \ {f} : Apart(g, f)
    BY DEF FreeList
  <2>2. \A g \in F \ {f} : CellsOf(g) \cap CellsOf(f) = {}
    BY <1>0, <2>1, ApartCells
  <2> QED
    BY <2>2 DEF Covered
<1>10. Covered(F) = Covered(F \ {f}) \cup CellsOf(f)
  BY DEF Covered
<1>11. FreeList(t.free) /\ Covered(t.free) = Covered(F \ {f}) \cup (f.start .. st - 1) \cup (en .. E - 1)
  <2>1. CASE en = E
    <3>1. en .. E - 1 = {}
      BY <1>0, <2>1
    <3> QED
      BY <1>2, <1>5, <2>1, <3>1
  <2>2. CASE en # E
    <3>1. tail \in Block /\ tail.start = en /\ tail.size = E - en /\ tail.size >= MIN_BLOCK /\ tail.size > 0
      BY <1>0, <1>2, <2>2 DEF Block
    <3>2. CellsOf(tail) = en .. E - 1
      BY <1>0, <3>1 DEF CellsOf
    <3>3. Covered(rest) \cap CellsOf(tail) = {}
      <4>1. \A x \in en .. E - 1 : x \in f.start .. E - 1 /\ x \notin f.start .. st - 1
        BY <1>0, <1>2, <1>3
      <4> QED
        BY <1>5, <1>8, <1>9, <3>2, <4>1
    <3> HIDE DEF tail
    <3>4. \A g \in rest : Apart(g, tail)
      BY <1>5, <3>1, <3>3, ListApart
    <3>5. FreeList(insert_free(rest, tail)) /\ Covered(insert_free(rest, tail)) = Covered(rest) \cup CellsOf(tail)
      BY <1>5, <3>1, <3>4, InsertFree
    <3> QED
      BY <1>2, <1>5, <2>2, <3>2, <3>5
  <2> QED
    BY <2>1, <2>2
<1>12. /\ \A x : x \in f.start .. E - 1 <=>
                   x \in f.start .. st - 1 \/ x \in st .. en - 1 \/ x \in en .. E - 1
       /\ \A x \in st .. en - 1 : x \notin f.start .. st - 1 /\ x \notin en .. E - 1 /\ x \in f.start .. E - 1
  BY <1>0, <1>2, <1>3
<1>13. Covered(t.free) \cap CellsOf(b) = {} /\ Covered(F) = Covered(t.free) \cup CellsOf(b)
  <2> HIDE DEF E
  <2> QED
    BY <1>7, <1>8, <1>9, <1>10, <1>11, <1>12, Zenon
<1>14. t.new.ptr \in Nat /\ t.new.total \in Nat /\ t.new.back \in Nat
       /\ t.new.ptr % align = 0 /\ size <= t.new.total - t.new.back - HEADER
  BY <1>0, <1>2, <1>3
<1> QED
  BY <1>6, <1>11, <1>13, <1>14 DEF t, b

(* The part of a region that is used lies inside it.                       *)
LEMMA UsableInside ==
  ASSUME NEW r \in [start : Nat, len : Nat], r.start + r.len + ALIGN <= USIZE
  PROVE  /\ Usable(r).start \in Nat /\ Usable(r).size \in Int
         /\ r.start <= Usable(r).start
         /\ Usable(r).start + Usable(r).size <= r.start + r.len
         /\ Usable(r).size >= MIN_BLOCK => Usable(r) \in Block
<1>0. /\ ALIGN \in Nat \ {0} /\ MIN_BLOCK \in Nat \ {0} /\ r.start \in Nat /\ r.len \in Nat
      /\ USIZE \in Nat /\ r.start + ALIGN - 1 < USIZE
  BY HeapAssumption
<1>1. PICK v \in Int : v = r.start + r.len
  BY <1>0
<1> DEFINE d == v \div ALIGN
           begin == align_up(r.start, ALIGN)
           end == d * ALIGN
<1>2. d \in Int /\ v % ALIGN \in 0 .. ALIGN - 1 /\ v = ALIGN * d + (v % ALIGN)
  BY <1>0, Division
<1>3. end = ALIGN * d /\ end \in Int
  BY <1>0, <1>2, NextMultiple
<1>4. begin \in Nat /\ begin >= r.start
  BY <1>0, AlignUp
<1>5. Usable(r) = [start |-> begin, size |-> end - begin]
  BY <1>1 DEF Usable
<1> HIDE DEF begin, end, d
<1>6. end <= v
  BY <1>0, <1>2, <1>3
<1>7. end - begin \in Int /\ (end - begin >= MIN_BLOCK => end - begin \in Nat)
  BY <1>0, <1>3, <1>4
<1> QED
  BY <1>0, <1>1, <1>3, <1>4, <1>5, <1>6, <1>7 DEF Block

(* The used parts of the first n regions.                                  *)
UsedOf(n) ==
  {Usable(HeapRegions[i]) : i \in {j \in 1 .. n : Usable(HeapRegions[j]).size >= MIN_BLOCK}}

(* add_region, repeated, is what the recursion says it is.                 *)
LEMMA AddedSteps ==
  /\ Len(HeapRegions) \in Nat
  /\ Added[0] = [free |-> {}, total |-> 0]
  /\ \A n \in Nat : n + 1 <= Len(HeapRegions) => Added[n + 1] = add_region(Added[n], HeapRegions[n + 1])
<1> DEFINE N == Len(HeapRegions)
           base == [free |-> {}, total |-> 0]
           IsAdded(f, n) == f = [k \in 0 .. n |-> IF k = 0 THEN base ELSE add_region(f[k - 1], HeapRegions[k])]
           S == {n \in Nat : \E f : IsAdded(f, n)}
<1>0. N \in Nat
  BY HeapAssumption
<1>1. 0 \in S
  <2> DEFINE f == [k \in 0 .. 0 |-> base]
             g == [k \in 0 .. 0 |-> IF k = 0 THEN base ELSE add_region(f[k - 1], HeapRegions[k])]
  <2>1. f = g
    OBVIOUS
  <2> HIDE DEF f
  <2>2. IsAdded(f, 0)
    BY <2>1
  <2> QED
    BY <2>2
<1>2. ASSUME NEW n \in Nat, n \in S PROVE n + 1 \in S
  <2>1. PICK f : IsAdded(f, n)
    BY <1>2
  <2> DEFINE e == add_region(f[n], HeapRegions[n + 1])
             g == [k \in 0 .. n + 1 |-> IF k = n + 1 THEN e ELSE f[k]]
             h == [k \in 0 .. n + 1 |-> IF k = 0 THEN base ELSE add_region(g[k - 1], HeapRegions[k])]
  <2>2. ASSUME NEW k \in 0 .. n + 1
        PROVE  g[k] = IF k = 0 THEN base ELSE add_region(g[k - 1], HeapRegions[k])
    <3>1. CASE k = n + 1
      <4>1. k - 1 = n /\ k # 0 /\ g[k - 1] = f[n] /\ g[k] = e
        BY <3>1
      <4> QED
        BY <3>1, <4>1
    <3>2. CASE k # n + 1
      <4>1. k \in 0 .. n /\ g[k] = f[k] /\ (k # 0 => g[k - 1] = f[k - 1])
        BY <3>2
      <4>2. f[k] = IF k = 0 THEN base ELSE add_region(f[k - 1], HeapRegions[k])
        BY <2>1, <4>1
      <4> QED
        BY <4>1, <4>2
    <3> QED
      BY <3>1, <3>2
  <2>3. g = [k \in 0 .. n + 1 |-> g[k]]
    OBVIOUS
  <2>4. g = h
    <3> HIDE DEF g, base
    <3> QED
      BY <2>2, <2>3
  <2> HIDE DEF g, base
  <2>5. IsAdded(g, n + 1)
    BY <2>4
  <2> QED
    BY <2>5
<1>3. N \in S
  <2> HIDE DEF S
  <2> QED
    BY <1>0, <1>1, <1>2, SetInduction
<1>4. \E f : f = [k \in 0 .. N |-> IF k = 0 THEN base ELSE add_region(f[k - 1], HeapRegions[k])]
  BY <1>3
<1>5. Added = [k \in 0 .. N |-> IF k = 0 THEN base ELSE add_region(Added[k - 1], HeapRegions[k])]
  <2>1. Added = CHOOSE f : f = [k \in 0 .. N |-> IF k = 0 THEN base ELSE add_region(f[k - 1], HeapRegions[k])]
    BY DEF Added
  <2> QED
    BY <1>4, <2>1, Zenon
<1> HIDE DEF N
<1>6. Added[0] = base
  BY <1>0, <1>5
<1>7. ASSUME NEW n \in Nat, n + 1 <= N PROVE Added[n + 1] = add_region(Added[n], HeapRegions[n + 1])
  <2>1. n + 1 \in 0 .. N /\ n + 1 # 0 /\ (n + 1) - 1 = n
    BY <1>0, <1>7
  <2> QED
    BY <1>5, <2>1
<1> QED
  BY <1>0, <1>6, <1>7 DEF N

(* After init the free list is the regions: their bytes, in order, and     *)
(* counted.                                                                *)
LEMMA RegionsAdded ==
  LET h == Added[Len(HeapRegions)]
  IN  /\ FreeList(h.free) /\ Covered(h.free) = Covered(UsableRegions)
      /\ IsFiniteSet(Covered(UsableRegions)) /\ h.total = Cardinality(Covered(UsableRegions))
<1> DEFINE N == Len(HeapRegions)
           SoFar(n) == /\ FreeList(Added[n].free) /\ Covered(Added[n].free) = Covered(UsedOf(n))
                      /\ IsFiniteSet(Covered(UsedOf(n))) /\ Added[n].total = Cardinality(Covered(UsedOf(n)))
           P == {n \in Nat : n <= N => SoFar(n)}
<1>0. /\ N \in Nat /\ MIN_BLOCK \in Nat \ {0} /\ DOMAIN HeapRegions = 1 .. N
      /\ \A i \in 1 .. N : HeapRegions[i] \in [start : Nat, len : Nat]
  <2>1. PICK R : R = [start : Nat, len : Nat]
    OBVIOUS
  <2>2. HeapRegions \in Seq(R) /\ MIN_BLOCK \in Nat \ {0}
    BY <2>1, HeapAssumption
  <2>3. N \in Nat /\ DOMAIN HeapRegions = 1 .. N /\ \A i \in 1 .. N : HeapRegions[i] \in R
    BY <2>2
  <2> QED
    BY <2>1, <2>2, <2>3
<1>1. 0 \in P
  <2>1. UsedOf(0) = {}
    BY DEF UsedOf
  <2>2. Covered({}) = {} /\ FreeList({})
    BY DEF Covered, FreeList
  <2>3. Added[0].free = {} /\ Added[0].total = 0
    BY AddedSteps
  <2>4. IsFiniteSet({}) /\ Cardinality({}) = 0
    BY FS_EmptySet
  <2>5. SoFar(0)
    BY <2>1, <2>2, <2>3, <2>4
  <2> QED
    BY <2>5
<1>2. ASSUME NEW n \in Nat, n \in P PROVE n + 1 \in P
  <2> SUFFICES ASSUME n + 1 <= N PROVE SoFar(n + 1)
    OBVIOUS
  <2>0. n <= N /\ n + 1 \in 1 .. N /\ SoFar(n)
    BY <1>0, <1>2
  <2>1. PICK h : h = Added[n]
    OBVIOUS
  <2>2. PICK r \in [start : Nat, len : Nat] : r = HeapRegions[n + 1] /\ r.start + r.len + ALIGN <= USIZE
    BY <1>0, <2>0, CallersAssumption
  <2>3. Added[n + 1] = add_region(h, r)
    BY <2>0, <2>1, <2>2, AddedSteps
  <2>4. PICK b : b = Usable(r)
    OBVIOUS
  <2>5. /\ b.start \in Nat /\ b.size \in Int /\ r.start <= b.start /\ b.start + b.size <= r.start + r.len
        /\ b.size >= MIN_BLOCK => b \in Block
    BY <2>2, <2>4, UsableInside
  <2>6. CASE b.size < MIN_BLOCK
    <3>1. Added[n + 1] = h
      BY <2>3, <2>4, <2>6 DEF add_region
    <3>2. UsedOf(n + 1) = UsedOf(n)
      <4>1. \A j \in 1 .. n + 1 : Usable(HeapRegions[j]).size >= MIN_BLOCK => j \in 1 .. n
        BY <1>0, <2>2, <2>4, <2>5, <2>6
      <4>2. 1 .. n \subseteq 1 .. n + 1
        OBVIOUS
      <4> QED
        BY <4>1, <4>2 DEF UsedOf
    <3> QED
      BY <2>0, <2>1, <3>1, <3>2
  <2>7. CASE b.size >= MIN_BLOCK
    <3>1. Added[n + 1] = [free |-> insert_free(h.free, b), total |-> h.total + b.size]
      BY <1>0, <2>3, <2>4, <2>5, <2>7 DEF add_region
    <3>2. UsedOf(n + 1) = UsedOf(n) \cup {b}
      <4> DEFINE J(m) == {j \in 1 .. m : Usable(HeapRegions[j]).size >= MIN_BLOCK}
      <4>1. J(n + 1) = J(n) \cup {n + 1}
        BY <2>2, <2>4, <2>7
      <4>2. UsedOf(n + 1) = {Usable(HeapRegions[i]) : i \in J(n + 1)} /\ UsedOf(n) = {Usable(HeapRegions[i]) : i \in J(n)}
        BY DEF UsedOf
      <4> HIDE DEF J
      <4> QED
        BY <2>2, <2>4, <4>1, <4>2
    <3>3. Covered(UsedOf(n + 1)) = Covered(UsedOf(n)) \cup CellsOf(b)
      BY <3>2 DEF Covered
    <3>4. Covered(UsedOf(n)) \cap CellsOf(b) = {}
      <4> SUFFICES ASSUME NEW j \in 1 .. n, Usable(HeapRegions[j]).size >= MIN_BLOCK
                   PROVE  CellsOf(Usable(HeapRegions[j])) \cap CellsOf(b) = {}
        BY DEF Covered, UsedOf
      <4>1. PICK q \in [start : Nat, len : Nat] : q = HeapRegions[j] /\ q.start + q.len + ALIGN <= USIZE
        <5>1. j \in DOMAIN HeapRegions
          BY <1>0, <2>0
        <5> QED
          BY <1>0, <2>0, <5>1, CallersAssumption
      <4>2. PICK c : c = Usable(q)
        OBVIOUS
      <4>3. c \in Block /\ c.size >= MIN_BLOCK /\ c.start \in Nat /\ c.size \in Int
            /\ q.start <= c.start /\ c.start + c.size <= q.start + q.len
        BY <4>1, <4>2, UsableInside
      <4>4. q.start + q.len <= r.start \/ r.start + r.len <= q.start
        <5>1. j # n + 1 /\ j \in DOMAIN HeapRegions /\ n + 1 \in DOMAIN HeapRegions
          BY <1>0, <2>0
        <5> QED
          BY <2>2, <4>1, <5>1, CallersAssumption
      <4>5. r.start \in Nat /\ r.len \in Nat /\ q.start \in Nat /\ q.len \in Nat
        OBVIOUS
      <4>6. Apart(c, b)
        BY SMTT(30), <2>5, <4>3, <4>4, <4>5 DEF Apart
      <4>8. c.size > 0 /\ b.size > 0 /\ b \in Block
        <5>1. \A x \in Int : x >= MIN_BLOCK => x > 0
          BY HeapAssumption
        <5> QED
          BY <2>5, <2>7, <4>3, <5>1
      <4>7. CellsOf(c) \cap CellsOf(b) = {}
        BY <4>3, <4>6, <4>8, ApartCells
      <4> QED
        BY <4>1, <4>2, <4>7
    <3>5. \A f \in h.free : Apart(f, b)
      BY <1>0, <2>0, <2>1, <2>5, <2>7, <3>4, ListApart
    <3>6. FreeList(insert_free(h.free, b)) /\ Covered(insert_free(h.free, b)) = Covered(h.free) \cup CellsOf(b)
      BY <2>0, <2>1, <2>5, <2>7, <3>5, InsertFree
    <3>7. IsFiniteSet(CellsOf(b)) /\ Cardinality(CellsOf(b)) = b.size
      <4>1. PICK a \in Int, x \in Int : a = b.start /\ x = b.start + b.size - 1
        BY <2>5
      <4>2. IsFiniteSet(a .. x) /\ Cardinality(a .. x) = IF a > x THEN 0 ELSE x - a + 1
        BY FS_Interval
      <4>3. b.size > 0
        BY <2>5, <2>7, HeapAssumption
      <4>4. CellsOf(b) = a .. x /\ x - a + 1 = b.size /\ ~(a > x)
        BY SMTT(30), <2>5, <4>1, <4>3 DEF CellsOf
      <4> QED
        BY <4>2, <4>4
    <3>8. /\ IsFiniteSet(Covered(UsedOf(n)) \cup CellsOf(b))
          /\ Cardinality(Covered(UsedOf(n)) \cup CellsOf(b)) =
               Cardinality(Covered(UsedOf(n))) + Cardinality(CellsOf(b)) - Cardinality(Covered(UsedOf(n)) \cap CellsOf(b))
      BY <2>0, <3>7, FS_Union
    <3>9. Cardinality(Covered(UsedOf(n))) \in Nat
      BY <2>0, FS_CardinalityType
    <3>10. Cardinality(Covered(UsedOf(n)) \cup CellsOf(b)) = Cardinality(Covered(UsedOf(n))) + b.size
      <4>1. Cardinality({}) = 0
        BY FS_EmptySet
      <4>2. Cardinality(Covered(UsedOf(n)) \cap CellsOf(b)) = 0
        BY <3>4, <4>1
      <4> QED
        BY <2>5, <3>7, <3>8, <3>9, <4>2
    <3>11. /\ Covered(h.free) = Covered(UsedOf(n)) /\ h.total = Cardinality(Covered(UsedOf(n)))
           /\ Added[n + 1].free = insert_free(h.free, b) /\ Added[n + 1].total = h.total + b.size
      BY <2>0, <2>1, <3>1
    <3> QED
      BY <3>3, <3>6, <3>8, <3>10, <3>11
  <2> QED
    BY <1>0, <2>5, <2>6, <2>7
<1>3. N \in P
  <2> HIDE DEF P
  <2> QED
    BY <1>0, <1>1, <1>2, SetInduction
<1>4. UsedOf(N) = UsableRegions
  BY <1>0 DEF UsedOf, UsableRegions
<1>5. SoFar(N)
  BY <1>0, <1>3
<1> QED
  BY <1>4, <1>5

(* Every byte of the regions is below the top of the address space.        *)
LEMMA BytesBelow == \A x \in Covered(UsableRegions) : x \in Nat /\ x + 1 < USIZE
<1> SUFFICES ASSUME NEW i \in DOMAIN HeapRegions, Usable(HeapRegions[i]).size >= MIN_BLOCK,
                    NEW x \in CellsOf(Usable(HeapRegions[i]))
             PROVE  x \in Nat /\ x + 1 < USIZE
  BY DEF Covered, UsableRegions
<1>0. USIZE \in Nat /\ ALIGN \in Nat \ {0}
  BY HeapAssumption
<1>1. PICK r \in [start : Nat, len : Nat] : r = HeapRegions[i] /\ r.start + r.len + ALIGN <= USIZE
  <2>1. PICK R : R = [start : Nat, len : Nat]
    OBVIOUS
  <2>2. HeapRegions \in Seq(R)
    BY <2>1, HeapAssumption
  <2>3. HeapRegions[i] \in R
    BY <2>2
  <2> QED
    BY <2>1, <2>3, CallersAssumption
<1>2. PICK b : b = Usable(r)
  OBVIOUS
<1>3. b.start \in Nat /\ b.size \in Int /\ b.start + b.size <= r.start + r.len
  BY <1>1, <1>2, UsableInside
<1>4. x \in b.start .. b.start + b.size - 1
  BY <1>1, <1>2 DEF CellsOf
<1> QED
  BY <1>0, <1>1, <1>3, <1>4

(* A free list, allocations and a count of the bytes taken, between two    *)
(* calls: the list in order, the blocks disjoint, and every byte of the    *)
(* regions in one of them.                                                 *)
Bytes(A) == Covered({BlockOf(a) : a \in A})
Live == [ptr : Nat, total : Nat, back : Nat, size : Nat, align : Aligns]
Sound(a) ==
  /\ a \in Live /\ BlockOf(a) \in Block /\ a.total >= MIN_BLOCK
  /\ a.ptr % a.align = 0 /\ a.size <= usable_size(a)
Tiled(F, A, u) ==
  /\ FreeList(F)
  /\ \A a \in A : Sound(a)
  /\ \A a, b \in A : a # b => CellsOf(BlockOf(a)) \cap CellsOf(BlockOf(b)) = {}
  /\ Covered(F) \cap Bytes(A) = {}
  /\ Covered(F) \cup Bytes(A) = Covered(UsableRegions)
  /\ u = Cardinality(Bytes(A))

LEMMA SoundBlock ==
  ASSUME NEW a, Sound(a)
  PROVE  /\ BlockOf(a) \in Block /\ BlockOf(a).size = a.total /\ a.total \in Nat
         /\ BlockOf(a).size >= MIN_BLOCK /\ BlockOf(a).size > 0
<1>1. BlockOf(a) \in Block /\ BlockOf(a).size = a.total /\ a.total \in Nat /\ a.total >= MIN_BLOCK
  BY DEF Sound, BlockOf, Live
<1> QED
  BY <1>1, HeapAssumption

(* The bytes of one block: there are as many as its size, and there is one.*)
LEMMA CountCells ==
  ASSUME NEW b \in Block, b.size > 0
  PROVE  IsFiniteSet(CellsOf(b)) /\ Cardinality(CellsOf(b)) = b.size /\ b.start \in CellsOf(b)
<1>0. b.start \in Nat /\ b.size \in Nat
  BY DEF Block
<1>1. PICK a \in Int, x \in Int : a = b.start /\ x = b.start + b.size - 1
  BY <1>0
<1>2. IsFiniteSet(a .. x) /\ Cardinality(a .. x) = IF a > x THEN 0 ELSE x - a + 1
  BY FS_Interval
<1>3. CellsOf(b) = a .. x /\ x - a + 1 = b.size /\ ~(a > x) /\ b.start \in a .. x
  BY <1>0, <1>1 DEF CellsOf
<1> QED
  BY <1>2, <1>3

LEMMA FiniteBytes ==
  ASSUME NEW S, S \subseteq Covered(UsableRegions)
  PROVE  IsFiniteSet(S) /\ Cardinality(S) \in Nat
<1>1. IsFiniteSet(Covered(UsableRegions))
  BY RegionsAdded
<1> QED
  BY <1>1, FS_Subset, FS_CardinalityType

(* Bytes taken, with one allocation more.                                  *)
LEMMA OneMore ==
  ASSUME NEW A, NEW a, Sound(a), Bytes(A) \cap CellsOf(BlockOf(a)) = {},
         Bytes(A) \subseteq Covered(UsableRegions)
  PROVE  /\ Bytes(A \cup {a}) = Bytes(A) \cup CellsOf(BlockOf(a))
         /\ Cardinality(Bytes(A \cup {a})) = Cardinality(Bytes(A)) + a.total
         /\ Cardinality(Bytes(A)) \in Nat
<1>1. Bytes(A \cup {a}) = Bytes(A) \cup CellsOf(BlockOf(a))
  BY DEF Bytes, Covered
<1>2. IsFiniteSet(Bytes(A)) /\ Cardinality(Bytes(A)) \in Nat
  BY FiniteBytes
<1>3. PICK C : C = CellsOf(BlockOf(a))
  OBVIOUS
<1>4. IsFiniteSet(C) /\ Cardinality(C) = a.total /\ a.total \in Nat
  BY <1>3, SoundBlock, CountCells
<1>5. Cardinality(Bytes(A) \cup C) = Cardinality(Bytes(A)) + Cardinality(C) - Cardinality(Bytes(A) \cap C)
  BY <1>2, <1>4, FS_Union
<1>6. Cardinality(Bytes(A) \cap C) = 0
  <2>1. Cardinality({}) = 0
    BY FS_EmptySet
  <2> QED
    BY <1>3, <2>1
<1>7. Cardinality(Bytes(A) \cup C) = Cardinality(Bytes(A)) + a.total
  <2>2. Cardinality(Bytes(A)) + Cardinality(C) - 0 = Cardinality(Bytes(A)) + a.total
    BY <1>2, <1>4
  <2> QED
    BY <1>5, <1>6, <2>2
<1>8. Bytes(A \cup {a}) = Bytes(A) \cup C
  BY <1>1, <1>3
<1> QED
  BY <1>1, <1>2, <1>7, <1>8

(* Freeing an allocation keeps the tiling.                                 *)
LEMMA FreeTiled ==
  ASSUME NEW F, NEW A, NEW u, Tiled(F, A, u), NEW a \in A
  PROVE  Tiled(insert_free(F, BlockOf(a)), A \ {a}, u - a.total)
<1> DEFINE b == BlockOf(a)
           R == A \ {a}
<1>0. b \in Block /\ b.size = a.total /\ a.total \in Nat /\ b.size >= MIN_BLOCK /\ b.size > 0 /\ Sound(a)
  BY SoundBlock DEF Tiled
<1> HIDE DEF b
<1>1. A = R \cup {a} /\ a \notin R
  OBVIOUS
<1>2. Bytes(A) = Bytes(R) \cup CellsOf(b)
  BY DEF Bytes, Covered, b
<1>3. Bytes(R) \cap CellsOf(b) = {}
  BY DEF Bytes, Covered, b, Tiled
<1>4. Covered(F) \cap CellsOf(b) = {}
  BY <1>2 DEF Tiled
<1>5. FreeList(insert_free(F, b)) /\ Covered(insert_free(F, b)) = Covered(F) \cup CellsOf(b)
  <2>1. FreeList(F)
    BY DEF Tiled
  <2>2. \A f \in F : Apart(f, b)
    BY <1>0, <1>4, <2>1, ListApart
  <2> QED
    BY <1>0, <2>1, <2>2, InsertFree
<1>6. Bytes(R) \subseteq Covered(UsableRegions)
  BY <1>2 DEF Tiled
<1>7. u - a.total = Cardinality(Bytes(R))
  <2>1. Cardinality(Bytes(R \cup {a})) = Cardinality(Bytes(R)) + a.total /\ Cardinality(Bytes(R)) \in Nat
    BY <1>0, <1>3, <1>6, OneMore DEF b
  <2>2. u = Cardinality(Bytes(R)) + a.total
    BY <1>1, <2>1 DEF Tiled
  <2> QED
    BY <1>0, <2>1, <2>2
<1>8. /\ \A x \in R : Sound(x)
      /\ \A x, y \in R : x # y => CellsOf(BlockOf(x)) \cap CellsOf(BlockOf(y)) = {}
  BY DEF Tiled
<1>9. /\ Covered(insert_free(F, b)) \cap Bytes(R) = {}
      /\ Covered(insert_free(F, b)) \cup Bytes(R) = Covered(UsableRegions)
  BY <1>2, <1>3, <1>5 DEF Tiled
<1> HIDE DEF R
<1>10. Tiled(insert_free(F, b), R, u - a.total)
  BY <1>5, <1>7, <1>8, <1>9 DEF Tiled
<1> QED
  BY <1>10 DEF b, R

(* A resize in place changes no block.                                     *)
LEMMA ResizeTiled ==
  ASSUME NEW F, NEW A, NEW u, Tiled(F, A, u), NEW a \in A, NEW n, Sound(n), BlockOf(n) = BlockOf(a)
  PROVE  Tiled(F, (A \ {a}) \cup {n}, u)
<1> DEFINE B == (A \ {a}) \cup {n}
<1>1. {BlockOf(x) : x \in B} = {BlockOf(x) : x \in A}
  OBVIOUS
<1>2. Bytes(B) = Bytes(A)
  BY <1>1 DEF Bytes
<1>3. \A x, y \in B : x # y => CellsOf(BlockOf(x)) \cap CellsOf(BlockOf(y)) = {}
  <2> SUFFICES ASSUME NEW x \in B, NEW y \in B, x # y
               PROVE  CellsOf(BlockOf(x)) \cap CellsOf(BlockOf(y)) = {}
    OBVIOUS
  <2>1. \A p, q \in A : p # q => CellsOf(BlockOf(p)) \cap CellsOf(BlockOf(q)) = {}
    BY DEF Tiled
  <2>2. CASE x \in A \ {a} /\ y \in A \ {a}
    BY <2>1, <2>2
  <2>3. CASE x = n /\ y \in A \ {a}
    BY <2>1, <2>3
  <2>4. CASE x \in A \ {a} /\ y = n
    BY <2>1, <2>4
  <2> QED
    BY <2>2, <2>3, <2>4
<1>4. \A x \in B : Sound(x)
  BY DEF Tiled
<1> HIDE DEF B
<1>5. Tiled(F, B, u)
  BY <1>2, <1>3, <1>4 DEF Tiled
<1> QED
  BY <1>5 DEF B

(* The sizes and alignments alloc works with.                              *)
LEMMA AskedFor ==
  ASSUME NEW size \in AllocSizes, NEW align \in Aligns, size + ALIGN - 1 < USIZE
  PROVE  /\ size \in Nat /\ align \in Nat \ {0}
         /\ Rounded(size) \in Nat /\ Rounded(size) >= ALIGN /\ Rounded(size) >= size
         /\ AtLeast(align) \in Nat \ {0}
         /\ \A p \in Nat : p % AtLeast(align) = 0 => p % align = 0
<1>0. size \in Nat /\ align \in Nat \ {0} /\ ALIGN \in Nat \ {0}
  BY HeapAssumption
<1>1. PICK s \in Nat : s = (IF size = 0 THEN 1 ELSE size) /\ s >= 1 /\ s >= size /\ s + ALIGN - 1 < USIZE
  BY <1>0, HeapAssumption
<1>2. PICK r : r = align_up(s, ALIGN)
  OBVIOUS
<1>3. r \in Nat /\ r >= s /\ r % ALIGN = 0
  BY <1>0, <1>1, <1>2, AlignUp
<1>4. Rounded(size) = r
  BY <1>1, <1>2 DEF Rounded
<1>5. r >= ALIGN
  <2> DEFINE d == r \div ALIGN
  <2>0. r \in Int
    BY <1>3
  <2>1. d \in Int /\ r = ALIGN * d + (r % ALIGN)
    BY ZenonT(30), <1>0, <2>0, Division
  <2> HIDE DEF d
  <2>2. r = ALIGN * d /\ ALIGN * d \in Int
    BY <1>0, <1>3, <2>1, Products
  <2>3. CASE d >= 1
    <3>1. d \in Nat /\ d # 0 /\ ALIGN \in Nat
      BY <1>0, <2>1, <2>3
    <3> QED
      BY <2>2, <3>1, MultipleAtLeast
  <2>4. CASE d <= 0
    <3>1. PICK k \in Nat : k = 0 - d
      BY <2>1, <2>4
    <3>2. ALIGN * (0 - k) = ALIGN * 0 - ALIGN * k /\ ALIGN * 0 = 0 /\ ALIGN * k \in Int
      BY <1>0, Products
    <3>3. d = 0 - k
      BY <2>1, <3>1
    <3>4. r = 0 - ALIGN * k
      BY <2>2, <3>2, <3>3
    <3>5. ALIGN * k >= 0
      BY <1>0
    <3> QED
      BY <1>1, <1>3, <3>2, <3>4, <3>5
  <2> QED
    BY <2>1, <2>3, <2>4
<1>6. AtLeast(align) \in Nat \ {0}
  BY <1>0 DEF AtLeast
<1>7. ASSUME NEW p \in Nat, p % AtLeast(align) = 0 PROVE p % align = 0
  <2>1. CASE align < ALIGN
    <3>1. p % ALIGN = 0 /\ ALIGN % align = 0
      BY <1>7, <2>1, CallersAssumption DEF AtLeast
    <3> QED
      BY <1>0, <3>1, AlignedToDivisor
  <2>2. CASE ~(align < ALIGN)
    BY <1>7, <2>2 DEF AtLeast
  <2> QED
    BY <2>1, <2>2
<1> QED
  BY <1>0, <1>1, <1>3, <1>4, <1>5, <1>6, <1>7

(* There is a first block where there is one at all.                       *)
LEMMA FirstFits ==
  ASSUME NEW F, FreeList(F), NEW size, NEW align, Fitting(F, size, align) # {}
  PROVE  FirstFit(F, size, align) \in Fitting(F, size, align)
<1> DEFINE S == Fitting(F, size, align)
           T == {f.start : f \in S}
<1>1. \A f \in S : f.start \in Nat
  BY DEF Fitting, FreeList, Block
<1> HIDE DEF S
<1>2. T \in SUBSET Nat /\ T # {}
  BY <1>1 DEF S
<1>3. PICK x \in T : \A y \in T : x <= y
  BY <1>2, LeastNat
<1>4. PICK f \in S : \A g \in S : f.start <= g.start
  BY <1>3
<1> QED
  BY <1>4, Zenon DEF FirstFit, S

(* Allocating keeps the tiling.                                            *)
LEMMA AllocTiled ==
  ASSUME NEW F, NEW A, NEW u, Tiled(F, A, u), NEW size \in AllocSizes, NEW align \in Aligns,
         Fitting(F, Rounded(size), AtLeast(align)) # {},
         ~Wraps(FirstFit(F, Rounded(size), AtLeast(align)), size, align)
  PROVE  LET t == Take(F, FirstFit(F, Rounded(size), AtLeast(align)), Rounded(size), AtLeast(align))
             a == [ptr |-> t.new.ptr, total |-> t.new.total, back |-> t.new.back,
                   size |-> size, align |-> align]
         IN  Tiled(t.free, A \cup {a}, u + t.new.total) /\ a \notin A /\ t.new.total \in Nat
<1> DEFINE s == Rounded(size)
           l == AtLeast(align)
           f == FirstFit(F, s, l)
           t == Take(F, f, s, l)
           a == [ptr |-> t.new.ptr, total |-> t.new.total, back |-> t.new.back,
                 size |-> size, align |-> align]
           c == [start |-> t.new.ptr - HEADER - t.new.back, size |-> t.new.total]
           b == BlockOf(a)
<1>0. /\ size \in Nat /\ s \in Nat /\ s >= ALIGN /\ s >= size /\ l \in Nat \ {0}
      /\ \A p \in Nat : p % l = 0 => p % align = 0
  <2>1. size \in Nat /\ ALIGN \in Nat \ {0} /\ USIZE \in Nat
    BY HeapAssumption
  <2>2. size + ALIGN - 1 < USIZE
    BY <2>1 DEF Wraps
  <2> QED
    BY <2>2, AskedFor
<1> HIDE DEF s, l
<1>1. FreeList(F)
  BY DEF Tiled
<1>2. /\ f \in F /\ Payload(f, l) + s <= f.start + f.size /\ f.start + f.size < USIZE
      /\ f.start + HEADER + l - 1 < USIZE
  <2>1. Fitting(F, s, l) # {}
    BY DEF s, l
  <2>2. f \in Fitting(F, s, l)
    BY <1>1, <2>1, FirstFits
  <2> HIDE DEF f
  <2>3. f \in F /\ Word(Payload(f, l) + s) <= f.start + f.size
    BY <2>2 DEF Fitting
  <2>4. f.start \in Nat /\ f.size \in Nat /\ f.size > 0 /\ HEADER \in Nat /\ USIZE \in Nat
    BY <1>1, <2>3, HeapAssumption DEF FreeList, Block
  <2>5. ~(f.start + HEADER + l - 1 >= USIZE) /\ ~(Payload(f, l) + s >= USIZE)
    BY DEF Wraps, f, s, l
  <2>6. f.start + HEADER + l - 1 < USIZE
    BY <1>0, <2>4, <2>5
  <2>7. Payload(f, l) \in Nat
    <3>1. PICK v \in Nat : v = f.start + HEADER /\ v < USIZE /\ v + l - 1 < USIZE
      BY <1>0, <2>4, <2>6
    <3> QED
      BY <1>0, <3>1, WordIs, AlignUp DEF Payload
  <2>8. Word(Payload(f, l) + s) = Payload(f, l) + s
    <3>1. PICK v \in Nat : v = Payload(f, l) + s /\ v < USIZE
      BY <1>0, <2>4, <2>5, <2>7
    <3> QED
      BY <3>1, WordIs
  <2>9. f.start + f.size < USIZE
    <3>1. f.start + f.size - 1 \in CellsOf(f)
      BY <2>4 DEF CellsOf
    <3>2. f.start + f.size - 1 \in Covered(UsableRegions)
      BY <2>3, <3>1 DEF Covered, Tiled
    <3> QED
      BY <2>4, <3>2, BytesBelow
  <2> QED
    BY <2>3, <2>6, <2>8, <2>9
<1> HIDE DEF f
<1>3. /\ FreeList(t.free)
      /\ t.new.ptr \in Nat /\ t.new.total \in Nat /\ t.new.back \in Nat
      /\ t.new.ptr % l = 0 /\ s <= t.new.total - t.new.back - HEADER
      /\ c \in Block /\ c.size >= MIN_BLOCK
      /\ Covered(t.free) \cap CellsOf(c) = {}
      /\ Covered(F) = Covered(t.free) \cup CellsOf(c)
  BY <1>0, <1>1, <1>2, TakeBlock
<1> HIDE DEF t
<1>4. b = c
  BY DEF BlockOf
<1>5. Sound(a)
  <2>1. a \in Live
    BY <1>0, <1>3 DEF Live
  <2>2. a.ptr % a.align = 0 /\ a.total >= MIN_BLOCK
    BY <1>0, <1>3
  <2>3. a.size <= usable_size(a)
    <3>1. usable_size(a) = t.new.total - t.new.back - HEADER /\ a.size = size
      BY DEF usable_size
    <3>2. HEADER \in Nat
      BY HeapAssumption
    <3> QED
      BY <1>0, <1>3, <3>1, <3>2
  <2> QED
    BY <1>3, <1>4, <2>1, <2>2, <2>3 DEF Sound
<1>6. a.total = t.new.total
  OBVIOUS
<1> HIDE DEF a, c
<1>7. Bytes(A) \cap CellsOf(b) = {} /\ Bytes(A) \subseteq Covered(UsableRegions)
  BY <1>3, <1>4 DEF Tiled
<1>8. /\ Bytes(A \cup {a}) = Bytes(A) \cup CellsOf(b)
      /\ Cardinality(Bytes(A \cup {a})) = Cardinality(Bytes(A)) + a.total
      /\ Cardinality(Bytes(A)) \in Nat
  BY <1>5, <1>7, OneMore
<1>9. u + t.new.total = Cardinality(Bytes(A \cup {a}))
  BY <1>6, <1>8 DEF Tiled
<1>10. \A x \in A : CellsOf(BlockOf(x)) \subseteq Bytes(A)
  BY DEF Bytes, Covered
<1>11. a \notin A
  <2>1. b.start \in CellsOf(b)
    BY <1>5, SoundBlock, CountCells
  <2> QED
    BY <1>7, <1>10, <2>1
<1>12. \A x \in A \cup {a} : Sound(x)
  BY <1>5 DEF Tiled
<1>13. \A x, y \in A \cup {a} : x # y => CellsOf(BlockOf(x)) \cap CellsOf(BlockOf(y)) = {}
  <2>1. \A x, y \in A : x # y => CellsOf(BlockOf(x)) \cap CellsOf(BlockOf(y)) = {}
    BY DEF Tiled
  <2>2. \A x \in A : CellsOf(BlockOf(x)) \cap CellsOf(BlockOf(a)) = {}
    BY <1>7, <1>10
  <2> QED
    BY <2>1, <2>2
<1>14. /\ Covered(t.free) \cap Bytes(A \cup {a}) = {}
       /\ Covered(t.free) \cup Bytes(A \cup {a}) = Covered(UsableRegions)
  BY <1>3, <1>4, <1>8 DEF Tiled
<1>15. Tiled(t.free, A \cup {a}, u + t.new.total)
  BY <1>3, <1>9, <1>12, <1>13, <1>14 DEF Tiled
<1> QED
  BY <1>3, <1>11, <1>15 DEF a, t, f, s, l

(* Before init there is nothing; from then on the regions are tiled, up to *)
(* the first sum that wraps.                                               *)
HeapInv ==
  /\ READY \in BOOLEAN /\ wrapped \in BOOLEAN
  /\ ~READY => frees = {} /\ allocs = {} /\ used = 0 /\ total = 0
  /\ READY /\ ~wrapped => Tiled(frees, allocs, used) /\ total = Cardinality(Covered(UsableRegions))

LEMMA HeapInvInit == HeapInit => HeapInv
  BY DEF HeapInit, HeapInv

(* init: nothing is allocated, and the list is the regions.                *)
LEMMA InitTiled ==
  ASSUME HeapInv, init
  PROVE  HeapInv'
<1> DEFINE h == Added[Len(HeapRegions)]
<1>1. /\ FreeList(h.free) /\ Covered(h.free) = Covered(UsableRegions)
      /\ h.total = Cardinality(Covered(UsableRegions))
  BY RegionsAdded
<1>2. /\ frees' = h.free /\ total' = h.total /\ allocs' = {} /\ used' = 0 /\ READY' = TRUE
      /\ wrapped' = wrapped /\ wrapped \in BOOLEAN
  BY DEF init, HeapInv
<1> HIDE DEF h
<1>3. Bytes({}) = {} /\ Cardinality({}) = 0
  BY FS_EmptySet DEF Bytes, Covered
<1>4. Tiled(h.free, {}, 0)
  BY <1>1, <1>3 DEF Tiled
<1>5. Covered(UsableRegions)' = Covered(UsableRegions)
  OBVIOUS
<1> QED
  BY <1>1, <1>2, <1>4 DEF HeapInv

LEMMA HeapInvNext == HeapInv /\ [HeapNext]_heapVars => HeapInv'
<1> SUFFICES ASSUME HeapInv, [HeapNext]_heapVars PROVE HeapInv'
  OBVIOUS
<1>1. CASE UNCHANGED heapVars
  BY <1>1 DEF HeapInv, heapVars
<1> SUFFICES ASSUME HeapNext PROVE HeapInv'
  BY <1>1
<1>0. ~wrapped
  BY DEF HeapNext
<1>2. CASE init
  BY <1>2, InitTiled
<1>3. ASSUME NEW size \in AllocSizes, NEW align \in Aligns, alloc(size, align) PROVE HeapInv'
  <2> DEFINE t == Take(frees, FirstFit(frees, Rounded(size), AtLeast(align)), Rounded(size), AtLeast(align))
             a == [ptr |-> t.new.ptr, total |-> t.new.total, back |-> t.new.back,
                   size |-> size, align |-> align]
  <2>1. /\ READY /\ READY' = READY /\ total' = total /\ Fitting(frees, Rounded(size), AtLeast(align)) # {}
        /\ frees' = t.free /\ used' = used + t.new.total /\ allocs' = allocs \cup {a}
    BY <1>3 DEF alloc
  <2>5. wrapped' = (wrapped \/ Wraps(FirstFit(frees, Rounded(size), AtLeast(align)), size, align))
    BY <1>3 DEF alloc, NoteWrap
  <2>2. Tiled(frees, allocs, used)
    BY <1>0, <2>1 DEF HeapInv
  <2>3. ~wrapped' => Tiled(t.free, allocs \cup {a}, used + t.new.total)
    BY <2>1, <2>2, <2>5, AllocTiled
  <2>4. wrapped' \in BOOLEAN
    BY <2>5, Zenon
  <2> HIDE DEF t, a
  <2> QED
    BY <1>0, <2>1, <2>3, <2>4 DEF HeapInv
<1>4. ASSUME NEW a \in allocs, free(a) PROVE HeapInv'
  <2>1. READY /\ Tiled(frees, allocs, used)
    BY <1>0 DEF HeapInv
  <2>2. Tiled(insert_free(frees, BlockOf(a)), allocs \ {a}, used - a.total)
    BY <2>1, FreeTiled
  <2> QED
    BY <1>0, <1>4, <2>1, <2>2 DEF HeapInv, free
<1>5. ASSUME NEW a \in allocs, NEW size \in AllocSizes, NEW align \in Aligns, realloc(a, size, align)
      PROVE  HeapInv'
  <2>1. READY /\ Tiled(frees, allocs, used) /\ Sound(a) /\ a.total \in Nat
    <3>1. READY /\ Tiled(frees, allocs, used)
      BY <1>0 DEF HeapInv
    <3> QED
      BY <3>1, SoundBlock DEF Tiled
  <2>2. CASE size = 0 /\ free(a)
    BY <1>4, <2>2
  <2>3. CASE /\ size > 0 /\ size <= usable_size(a) /\ a.ptr % align = 0
             /\ allocs' = (allocs \ {a}) \cup {[a EXCEPT !.size = size, !.align = align]}
             /\ UNCHANGED <<READY, frees, total, used, wrapped>>
    <3> DEFINE n == [a EXCEPT !.size = size, !.align = align]
    <3>1. /\ n \in Live /\ n.ptr = a.ptr /\ n.total = a.total /\ n.back = a.back
          /\ n.size = size /\ n.align = align
      BY <2>1, HeapAssumption DEF Sound, Live
    <3> HIDE DEF n
    <3>2. BlockOf(n) = BlockOf(a) /\ usable_size(n) = usable_size(a)
      BY <3>1 DEF BlockOf, usable_size
    <3>3. Sound(n)
      BY <2>1, <2>3, <3>1, <3>2 DEF Sound
    <3>4. Tiled(frees, (allocs \ {a}) \cup {n}, used)
      BY <2>1, <3>2, <3>3, ResizeTiled
    <3> QED
      BY <1>0, <2>1, <2>3, <3>4 DEF HeapInv, n
  <2>4. CASE /\ size > 0 /\ (size > usable_size(a) \/ a.ptr % align # 0)
             /\ Fitting(frees, Rounded(size), AtLeast(align)) # {}
             /\ LET t == Take(frees, FirstFit(frees, Rounded(size), AtLeast(align)), Rounded(size), AtLeast(align))
                IN  /\ frees' = insert_free(t.free, BlockOf(a)) /\ used' = used + t.new.total - a.total
                    /\ allocs' = (allocs \ {a}) \cup {[ptr |-> t.new.ptr, total |-> t.new.total, back |-> t.new.back,
                                                       size |-> size, align |-> align]}
             /\ NoteWrap(size, align) /\ UNCHANGED <<READY, total>>
    <3> DEFINE t == Take(frees, FirstFit(frees, Rounded(size), AtLeast(align)), Rounded(size), AtLeast(align))
               n == [ptr |-> t.new.ptr, total |-> t.new.total, back |-> t.new.back,
                     size |-> size, align |-> align]
    <3>1. /\ frees' = insert_free(t.free, BlockOf(a)) /\ used' = used + t.new.total - a.total
          /\ allocs' = (allocs \ {a}) \cup {n}
      BY <2>4
    <3>10. wrapped' = (wrapped \/ Wraps(FirstFit(frees, Rounded(size), AtLeast(align)), size, align))
      BY <2>4 DEF NoteWrap
    <3>8. wrapped' \in BOOLEAN
      BY <3>10, Zenon
    <3>9. CASE wrapped'
      BY <2>1, <2>4, <3>9 DEF HeapInv
    <3> SUFFICES ASSUME ~wrapped' PROVE HeapInv'
      BY <3>8, <3>9
    <3>2. Tiled(t.free, allocs \cup {n}, used + t.new.total) /\ n \notin allocs /\ t.new.total \in Nat
      BY <2>1, <2>4, <3>10, AllocTiled
    <3> HIDE DEF t, n
    <3>3. Tiled(insert_free(t.free, BlockOf(a)), (allocs \cup {n}) \ {a}, (used + t.new.total) - a.total)
      BY <3>2, FreeTiled
    <3>4. (allocs \cup {n}) \ {a} = (allocs \ {a}) \cup {n}
      BY <3>2
    <3>5. used \in Nat
      BY <2>1, FiniteBytes DEF Tiled
    <3>6. (used + t.new.total) - a.total = used + t.new.total - a.total
      BY <2>1, <3>2, <3>5
    <3>7. Tiled(frees', allocs', used')
      BY <3>1, <3>3, <3>4, <3>6
    <3> QED
      BY <1>0, <2>1, <2>4, <3>7, <3>8 DEF HeapInv
  <2> QED
    BY <1>5, <2>2, <2>3, <2>4 DEF realloc
<1> QED
  BY <1>2, <1>3, <1>4, <1>5 DEF HeapNext

(* The heap never loses, overlaps or miscounts a byte: for any regions,    *)
(* sizes and alignments, after any sequence of alloc, free and realloc,    *)
(* free and live blocks are exactly the regions, apart, merged where free  *)
(* ones touch, and every payload is aligned and long enough, until a       *)
(* request so large that a sum of alloc's wraps is met.                    *)
THEOREM HeapIsTiled == HeapSpec => []HeapTiles
<1>1. HeapInv => HeapTiles
  <2> SUFFICES ASSUME HeapInv, READY, ~wrapped PROVE HeapTiles
    BY DEF HeapTiles
  <2>1. Tiled(frees, allocs, used) /\ total = Cardinality(Covered(UsableRegions))
    BY DEF HeapInv
  <2>2. FreeList(frees) /\ \A a \in allocs : Sound(a)
    BY <2>1 DEF Tiled
  <2>3. \A a \in allocs : BlockOf(a) \in Block /\ BlockOf(a).size > 0
    BY <2>2, SoundBlock
  <2>4. \A a, b \in allocs : a # b => Apart(BlockOf(a), BlockOf(b))
    <3> SUFFICES ASSUME NEW a \in allocs, NEW b \in allocs, a # b
                 PROVE  Apart(BlockOf(a), BlockOf(b))
      OBVIOUS
    <3>1. CellsOf(BlockOf(a)) \cap CellsOf(BlockOf(b)) = {}
      BY <2>1 DEF Tiled
    <3> QED
      BY <2>3, <3>1, ApartCells
  <2>5. \A f \in frees, a \in allocs : Apart(f, BlockOf(a))
    <3> SUFFICES ASSUME NEW a \in allocs PROVE \A f \in frees : Apart(f, BlockOf(a))
      OBVIOUS
    <3>1. CellsOf(BlockOf(a)) \subseteq Bytes(allocs)
      BY DEF Bytes, Covered
    <3>2. Covered(frees) \cap CellsOf(BlockOf(a)) = {}
      BY <2>1, <3>1 DEF Tiled
    <3> QED
      BY <2>2, <2>3, <3>2, ListApart
  <2>6. Covered(Taken) = Bytes(allocs)
    BY DEF Taken, Bytes
  <2>7. Covered(frees \cup Taken) = Covered(frees) \cup Covered(Taken)
    BY DEF Covered
  <2>8. Covered(frees \cup Taken) = Covered(UsableRegions) /\ used = Cardinality(Covered(Taken))
    BY <2>1, <2>6, <2>7 DEF Tiled
  <2>9. \A f \in frees : f.size >= MIN_BLOCK
    BY <2>2 DEF FreeList
  <2>10. \A f, g \in frees : f # g => Apart(f, g) /\ f.start + f.size # g.start
    BY <2>2 DEF FreeList
  <2>11. \A a \in allocs : a.ptr % a.align = 0 /\ a.size <= usable_size(a)
    BY <2>2 DEF Sound
  <2> QED
    BY <2>1, <2>4, <2>5, <2>8, <2>9, <2>10, <2>11, Zenon DEF HeapTiles
<1> QED
  BY <1>1, HeapInvInit, HeapInvNext, PTL DEF HeapSpec
=============================================================================
