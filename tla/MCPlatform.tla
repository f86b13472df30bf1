----------------------------- MODULE MCPlatform -----------------------------
(***************************************************************************)
(* The platform's parts that share no state with one another, one to a     *)
(* behaviour: unit is the part that runs, the others stay where they       *)
(* began, so their state spaces add up instead of multiplying.             *)
(***************************************************************************)
EXTENDS Sync, DmaBroker, XipLockout, Timers, Heap, DmaChannels

CONSTANTS Units,                           \* the parts to run
          SCHEDULER, QUEUE_WAITERS, CELL   \* what critical sections guard

VARIABLE unit

(* "Scheduler, then this": the scheduler alone, the waiter table alone, or
   the waiter table inside the scheduler; and a CsCell of a driver. *)
KernelPaths ==
  {<<SCHEDULER>>, <<QUEUE_WAITERS>>, <<SCHEDULER, QUEUE_WAITERS>>, <<CELL>>}

(* Unaligned ends, a region too small to use, and one apart from the others. *)
PoolRegions == <<[start |-> 1, len |-> 20], [start |-> 25, len |-> 4], [start |-> 32, len |-> 13]>>

platformVars == <<unit, onceVars, lockVars, dmaVars, xipVars, timeVars, heapVars, chanVars>>

PlatformInit ==
  /\ unit \in Units
  /\ OnceInit /\ LocksInit /\ DmaInit /\ XipInit /\ TimersInit /\ HeapInit
  /\ ChannelsInit
  /\ unit # "locks" => machine = CHOOSE m \in Machines : TRUE
  /\ unit # "xip" => wd = Cold
  /\ unit # "channels" => /\ handlerOn = CHOOSE h \in HandlerCores : TRUE
                          /\ FreeChannels = ChannelNos
  /\ unit # "timers" => /\ timeOn = CHOOSE m \in TimeMachines : TRUE
                        /\ timeUse = CHOOSE u \in TimeUses : TRUE

PlatformNext ==
  /\ UNCHANGED unit
  /\ \/ unit = "once" /\ OnceNext
     \/ unit # "once" /\ UNCHANGED onceVars
  /\ \/ unit = "locks" /\ LocksNext
     \/ unit # "locks" /\ UNCHANGED lockVars
  /\ \/ unit = "dma" /\ DmaNext
     \/ unit # "dma" /\ UNCHANGED dmaVars
  /\ \/ unit = "xip" /\ XipNext
     \/ unit # "xip" /\ UNCHANGED xipVars
  /\ \/ unit = "timers" /\ TimersNext
     \/ unit # "timers" /\ UNCHANGED timeVars
  /\ \/ unit = "heap" /\ HeapNext
     \/ unit # "heap" /\ UNCHANGED heapVars
  /\ \/ unit = "channels" /\ ChannelsNext
     \/ unit # "channels" /\ UNCHANGED chanVars

PlatformSpec == PlatformInit /\ [][PlatformNext]_platformVars

(* The type invariant of the part that runs. *)
TypePlatform ==
  CASE unit = "once" -> TypeOnce [] unit = "locks" -> TypeLocks [] unit = "dma" -> TypeDma
    [] unit = "xip" -> TypeXip
    [] unit = "timers" -> TypeTimers [] unit = "heap" -> TypeHeap
    [] unit = "channels" -> TypeChannels
=============================================================================
