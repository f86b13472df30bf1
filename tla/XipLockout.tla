----------------------------- MODULE XipLockout -----------------------------
(***************************************************************************)
(* Programming the flash an RP2040 executes from.  The core that programs  *)
(* parks the other one in RAM by a request and an acknowledgement in       *)
(* shared memory (soc/rp2040/src/xip.rs), bounds the ROM call with the     *)
(* watchdog (watchdog.rs) and works page by page (the flash driver).       *)
(* Every access to REQUEST, ACK and LOCK is a step.                        *)
(***************************************************************************)
EXTENDS Integers

CONSTANTS MAX_GEN,  \* bound: requests posted (GENERATION is 31 bits wide)
          MAX_JOB   \* pages or sectors of one write or erase

ASSUME XipAssumption == MAX_GEN \in Nat /\ MAX_JOB \in Nat \ {0}

XipCores == {0, 1}
Other(c) == 1 - c

VARIABLES xpc,      \* what each core is executing
          request,  \* REQUEST: 0, or 2 * generation + the core asked to park
          ack,      \* ACK
          xlock,    \* hardware spinlock LOCK is taken
          gen,      \* GENERATION
          fifo,     \* a word waits in the core's SIO FIFO: its interrupt is due
          seen,     \* the request service_request read on this core
          claimed,  \* CLAIMED
          region,   \* the core whose task has the FlashRegion, or 2
          job,      \* flash operations left in the holder's call
          wd,       \* watchdog registers
          wdSaved,  \* FlashDeadline's copy
          wdWanted  \* history: registers as arm and disarm left them

xipVars == <<xpc, request, ack, xlock, gen, fifo, seen, claimed, region, job, wd, wdSaved, wdWanted>>
wdVars == <<wd, wdSaved, wdWanted>>
regionVars == <<claimed, region, job>>

(* "task": thread code, interrupts open.  "cs": a critical section.
   acquire: "locked", "wait", "dma"; the guard held: "window", "rom" (no XIP);
   Guard::drop: "drop", "unlock".  The SIO interrupt: "irq", "masked",
   "checked", "parked", "unpark". *)
XpcStates == {"task", "cs", "locked", "wait", "dma", "window", "rom", "drop", "unlock",
              "irq", "masked", "checked", "parked", "unpark"}

WatchdogRegs == [enabled : BOOLEAN, pause : BOOLEAN, flintTick : BOOLEAN,
                 sel : {"all", "other"}, mark : {"flint", "panic", "other"}]

TypeXip ==
  /\ xpc \in [XipCores -> XpcStates]
  /\ request \in Nat /\ ack \in Nat /\ gen \in Nat
  /\ xlock \in BOOLEAN /\ claimed \in BOOLEAN
  /\ fifo \in [XipCores -> BOOLEAN] /\ seen \in [XipCores -> Nat]
  /\ region \in {0, 1, 2} /\ job \in Nat
  /\ wd \in WatchdogRegs /\ wdSaved \in WatchdogRegs /\ wdWanted \in WatchdogRegs

Cold == [enabled |-> FALSE, pause |-> FALSE, flintTick |-> TRUE, sel |-> "other", mark |-> "other"]

XipInit ==
  /\ xpc = [c \in XipCores |-> "task"]
  /\ request = 0 /\ ack = 0 /\ xlock = FALSE /\ gen = 0
  /\ fifo = [c \in XipCores |-> FALSE] /\ seen = [c \in XipCores |-> 0]
  /\ claimed = FALSE /\ region = 2 /\ job = 0
  /\ wd \in {Cold, [Cold EXCEPT !.flintTick = FALSE]} /\ wdSaved = wd /\ wdWanted = wd

Go(c, from, to) == xpc[c] = from /\ xpc' = [xpc EXCEPT ![c] = to]

(***************************************************************************)
(* The task side: watchdog, region, critical sections.                     *)
(***************************************************************************)

CriticalSection(c) ==
  /\ Go(c, "task", "cs") \/ Go(c, "cs", "task")
  /\ UNCHANGED <<request, ack, xlock, gen, fifo, seen, regionVars, wdVars>>

(* arm_with_selection (arm, arm_panic_recovery). *)
Arm(pauses, panic) ==
  [enabled |-> TRUE, pause |-> pauses, flintTick |-> TRUE,
   sel |-> IF panic THEN "other" ELSE "all",
   mark |-> IF panic \/ wd.mark = "panic" THEN "panic" ELSE "flint"]

SetWatchdog(c) ==
  /\ xpc[c] = "task"
  /\ wd' \in {Arm(TRUE, FALSE), Arm(FALSE, FALSE), Arm(FALSE, TRUE), [wd EXCEPT !.enabled = FALSE]}
  /\ wdWanted' = wd'
  /\ UNCHANGED <<xpc, request, ack, xlock, gen, fifo, seen, regionVars, wdSaved>>

(* FlashRegion::open: validated, and claim() found nobody there. *)
OpenRegion(c) ==
  /\ xpc[c] = "task" /\ ~claimed
  /\ claimed' = TRUE /\ region' = c
  /\ UNCHANGED <<xpc, request, ack, xlock, gen, fifo, seen, job, wdVars>>

(* write or erase_all begins: validated, and for write found erased. *)
BeginJob(c) ==
  /\ xpc[c] = "task" /\ region = c /\ job = 0
  /\ job' \in 1..MAX_JOB
  /\ UNCHANGED <<xpc, request, ack, xlock, gen, fifo, seen, claimed, region, wdVars>>

DropRegion(c) ==
  /\ xpc[c] = "task" /\ region = c /\ job = 0
  /\ claimed' = FALSE /\ region' = 2
  /\ UNCHANGED <<xpc, request, ack, xlock, gen, fifo, seen, job, wdVars>>

(***************************************************************************)
(* hardware::operate under xip::Guard.                                     *)
(***************************************************************************)

(* Mutant: every request looks like the last one. *)
SameGeneration(g) == 1

(* Each request has a number of its own. *)
next_generation(g) == g + 1

(* Guard::acquire takes LOCK with interrupts off, or answers Busy. *)
TakeLock(c) ==
  /\ region = c /\ job > 0 /\ gen < MAX_GEN
  /\ ~xlock /\ xlock' = TRUE
  /\ Go(c, "task", "locked")
  /\ UNCHANGED <<request, ack, gen, fifo, seen, regionVars, wdVars>>

Busy(c) ==
  /\ xpc[c] = "task" /\ region = c /\ job > 0 /\ xlock
  /\ job' = 0
  /\ UNCHANGED <<xpc, request, ack, xlock, gen, fifo, seen, claimed, region, wdVars>>

PostRequest(c) ==
  /\ Go(c, "locked", "wait")
  /\ gen' = next_generation(gen)
  /\ request' = 2 * gen' + Other(c)
  /\ fifo' = [fifo EXCEPT ![Other(c)] = TRUE]
  /\ UNCHANGED <<ack, xlock, seen, regionVars, wdVars>>

PeerParked(c) ==
  /\ ack = request
  /\ Go(c, "wait", "dma")
  /\ UNCHANGED <<request, ack, xlock, gen, fifo, seen, regionVars, wdVars>>

DmaIdle(c) ==
  /\ Go(c, "dma", "window")
  /\ UNCHANGED <<request, ack, xlock, gen, fifo, seen, regionVars, wdVars>>

(* PeerTimeout, DmaActive, RomUnavailable: the guard is dropped and the call fails. *)
GiveUpWindow(c) ==
  /\ \E p \in {"wait", "dma", "window"} : Go(c, p, "drop")
  /\ job' = 0
  /\ UNCHANGED <<request, ack, xlock, gen, fifo, seen, claimed, region, wdVars>>

(* FlashDeadline::begin, on a time base it can trust, and into the ROM. *)
Deadline(w) ==
  [enabled |-> TRUE, pause |-> FALSE, flintTick |-> ~w.enabled \/ w.flintTick,
   sel |-> "all", mark |-> "flint"]

EnterRom(c) ==
  /\ wd.enabled => wd.flintTick
  /\ Go(c, "window", "rom")
  /\ wdSaved' = wd /\ wd' = Deadline(wd)
  /\ UNCHANGED <<request, ack, xlock, gen, fifo, seen, regionVars, wdWanted>>

(* Mutant: a watchdog that was off keeps running. *)
RestoredRunning(w, saved) == [w EXCEPT !.sel = saved.sel, !.mark = saved.mark, !.pause = saved.pause]

(* FlashDeadline::drop. *)
Restored(w, saved) ==
  [enabled |-> saved.enabled /\ w.enabled, pause |-> saved.pause,
   flintTick |-> IF saved.enabled THEN w.flintTick ELSE saved.flintTick,
   sel |-> saved.sel, mark |-> saved.mark]

(* execute_rom returns with XIP back; a verification that fails ends the call. *)
LeaveRom(c) ==
  /\ Go(c, "rom", "drop")
  /\ wd' = Restored(wd, wdSaved)
  /\ job' \in {0, job - 1}
  /\ UNCHANGED <<request, ack, xlock, gen, fifo, seen, claimed, region, wdSaved, wdWanted>>

(* Guard::drop. *)
DropRequest(c) ==
  /\ Go(c, "drop", "unlock")
  /\ request' = 0
  /\ UNCHANGED <<ack, xlock, gen, fifo, seen, regionVars, wdVars>>

DropLock(c) ==
  /\ Go(c, "unlock", "task")
  /\ xlock' = FALSE
  /\ UNCHANGED <<request, ack, gen, fifo, seen, regionVars, wdVars>>

(* The ROM never returns: the deadline resets the chip. *)
WatchdogReset(c) ==
  /\ xpc[c] = "rom" /\ wd.enabled
  /\ xpc' = [d \in XipCores |-> "task"]
  /\ request' = 0 /\ ack' = 0 /\ xlock' = FALSE /\ UNCHANGED gen
  /\ fifo' = [d \in XipCores |-> FALSE] /\ seen' = [d \in XipCores |-> 0]
  /\ claimed' = FALSE /\ region' = 2 /\ job' = 0
  /\ wd' = Cold /\ wdSaved' = Cold /\ wdWanted' = Cold

(***************************************************************************)
(* The peer: _flint_armv6m_sio_irq and service_request.                    *)
(***************************************************************************)

(* Interrupts are open and a word waits: the FIFO is drained first. *)
SioIrq(c) ==
  /\ fifo[c] /\ Go(c, "task", "irq")
  /\ fifo' = [fifo EXCEPT ![c] = FALSE]
  /\ UNCHANGED <<request, ack, xlock, gen, seen, regionVars, wdVars>>

ReadRequest(c) ==
  /\ IF request = 0 \/ request % 2 # c
     THEN Go(c, "irq", "task") /\ UNCHANGED seen
     ELSE Go(c, "irq", "masked") /\ seen' = [seen EXCEPT ![c] = request]
  /\ UNCHANGED <<request, ack, xlock, gen, fifo, regionVars, wdVars>>

(* Read it again with interrupts off: the requester may have given up. *)
CheckRequest(c) ==
  /\ Go(c, "masked", IF request = seen[c] THEN "checked" ELSE "task")
  /\ UNCHANGED <<request, ack, xlock, gen, fifo, seen, regionVars, wdVars>>

Acknowledge(c) ==
  /\ Go(c, "checked", "parked")
  /\ ack' = seen[c]
  /\ UNCHANGED <<request, xlock, gen, fifo, seen, regionVars, wdVars>>

Unpark(c) ==
  /\ request # seen[c]
  /\ Go(c, "parked", "unpark")
  /\ UNCHANGED <<request, ack, xlock, gen, fifo, seen, regionVars, wdVars>>

ClearAck(c) ==
  /\ Go(c, "unpark", "task")
  /\ ack' = 0
  /\ UNCHANGED <<request, xlock, gen, fifo, seen, regionVars, wdVars>>

XipNext ==
  \E c \in XipCores :
    \/ CriticalSection(c) \/ SetWatchdog(c) \/ OpenRegion(c) \/ BeginJob(c) \/ DropRegion(c)
    \/ TakeLock(c) \/ Busy(c) \/ PostRequest(c) \/ PeerParked(c) \/ DmaIdle(c) \/ GiveUpWindow(c)
    \/ EnterRom(c) \/ LeaveRom(c) \/ DropRequest(c) \/ DropLock(c) \/ WatchdogReset(c)
    \/ SioIrq(c) \/ ReadRequest(c) \/ CheckRequest(c) \/ Acknowledge(c) \/ Unpark(c) \/ ClearAck(c)

XipSpec == XipInit /\ [][XipNext]_xipVars

(***************************************************************************)
(* Properties.                                                             *)
(***************************************************************************)

(* While a core runs the ROM with XIP off the other one spins in RAM, has
   acknowledged the very request that is posted and will stay there until it
   is withdrawn: whatever was acknowledged or timed out before
   (soc/rp2040/src/xip.rs: acquire, drop, service_request). *)
XipExclusion ==
  \A c \in XipCores : xpc[c] \in {"dma", "window", "rom"} =>
     /\ xpc[Other(c)] = "parked"
     /\ request = seen[Other(c)] /\ ack = request

(* A ROM call never runs without a deadline, and outside one the watchdog is
   as its user left it, on every error path (watchdog.rs: begin, drop). *)
DeadlineKept ==
  IF \E c \in XipCores : xpc[c] = "rom"
  THEN wd.enabled /\ ~wd.pause /\ wd.sel = "all"
  ELSE wd = wdWanted
=============================================================================
