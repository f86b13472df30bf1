---------------------------- MODULE FlashWindow ----------------------------
(***************************************************************************)
(* The ESP32's flash driver and the kernel's interrupt table.  A flash     *)
(* operation, on core 0, takes the instruction cache away from both cores  *)
(* (lib.rs: with_cache_off), while handlers that promised to be in IRAM    *)
(* keep running, and drives the chip over SPI1 (spi1.rs).                  *)
(*                                                                         *)
(* wpc is where the operation is.  A handler runs on core 0 between two of *)
(* its steps, and to its end.  Any wait on the controller or the chip may  *)
(* time out; an operation that fails still closes the window.              *)
(***************************************************************************)
EXTENDS Integers, FiniteSetsExt

CONSTANTS Irqs,         \* CPU interrupt inputs of core 0
          MAX_HANDLERS, \* entries of the handler table
          PAGE_SIZE,    \* words of a flash page
          CHUNK,        \* words of the controller's data registers
          MAX_WORDS     \* bound: words of one write; addresses below 2 * PAGE_SIZE

ASSUME FlashAssumption ==
  /\ MAX_HANDLERS \in Nat /\ PAGE_SIZE \in Nat \ {0} /\ CHUNK \in Nat \ {0} /\ MAX_WORDS \in Nat \ {0}

VARIABLES wpc,       \* the operation's position
          op,        \* its kind, address, words left and whether it failed
          intlevel,  \* PS.INTLEVEL of core 0: 0 or 5
          intenable, \* INTENABLE of core 0
          savedMask,     \* what mask_non_iram_safe returned
          CACHE_OFF,
          cache,     \* core -> cache enabled
          app,       \* the second core: "reset", "run", "stalled"
          handlers,  \* HANDLERS: a set of [irq, iram_safe, wakes]
          isr,       \* handler running on core 0: a set of at most one entry
          sched,     \* the second core is inside scheduler::with
          spi1,      \* SPI1's registers: "cache" when as the cache needs them
          qer,       \* FLASH_QER: "unread", "none", "known"
          UNLOCKED,
          chip,      \* write enable latch, busy, protected, continuous read
          misuse,    \* history: a program sent to a chip that cannot take one, or past its page
          ignored,   \* history: a program or an erase the chip did not carry out
          blind,     \* history: an erase spoke to a chip in continuous reading
          wanted     \* history: INTENABLE as connect left it

flashVars == <<wpc, op, intlevel, intenable, savedMask, CACHE_OFF, cache, app, handlers, isr, sched,
               spi1, qer, UNLOCKED, chip, misuse, ignored, blind, wanted>>
cpuVars == <<intlevel, intenable, savedMask, CACHE_OFF, cache, app, handlers, isr, sched, wanted>>
chipPast == <<misuse, ignored, blind>>
spiVars == <<spi1, qer, UNLOCKED, chip, chipPast>>

NoOp == [kind |-> "none", at |-> 0, left |-> 0, failed |-> FALSE]

WpcStates == {"idle", "level", "mask", "stall", "prooff", "open",
              "exitcr", "unlock", "wrsr", "wrdi", "ready", "xfer", "wren", "pp",
              "spidone", "close", "proon", "appon", "restore"}

TypeFlash ==
  /\ wpc \in WpcStates
  /\ op \in [kind : {"none", "read", "write", "erase", "sfdp", "jedec"},
             at : Nat, left : Nat, failed : BOOLEAN]
  /\ intlevel \in {0, 5} /\ intenable \subseteq Irqs /\ savedMask \subseteq Irqs /\ wanted \subseteq Irqs
  /\ CACHE_OFF \in BOOLEAN /\ cache \in [{0, 1} -> BOOLEAN] /\ app \in {"reset", "run", "stalled"}
  /\ handlers \subseteq [irq : Irqs, iram_safe : BOOLEAN, wakes : BOOLEAN]
  /\ isr \subseteq handlers /\ sched \in BOOLEAN
  /\ spi1 \in {"cache", "driver"} /\ qer \in {"unread", "none", "known"} /\ UNLOCKED \in BOOLEAN
  /\ chip \in [wel : BOOLEAN, wip : BOOLEAN, prot : BOOLEAN, cont : BOOLEAN]
  /\ misuse \in BOOLEAN /\ ignored \in BOOLEAN /\ blind \in BOOLEAN

FlashInit ==
  /\ wpc = "idle" /\ op = NoOp
  /\ intlevel = 0 /\ intenable = {} /\ savedMask = {} /\ wanted = {}
  /\ CACHE_OFF = FALSE /\ cache = [c \in {0, 1} |-> TRUE] /\ app = "reset"
  /\ handlers = {} /\ isr = {} /\ sched = FALSE
  /\ spi1 = "cache" /\ qer = "unread" /\ UNLOCKED = FALSE
  /\ misuse = FALSE /\ ignored = FALSE /\ blind = FALSE
  /\ chip \in {[wel |-> FALSE, wip |-> FALSE, prot |-> p, cont |-> TRUE] : p \in BOOLEAN}

(***************************************************************************)
(* Interrupts.                                                             *)
(***************************************************************************)

(* register_inner refuses a second handler for an input and a full table. *)
register_inner(i, safe, wakes) ==
  /\ \A h \in handlers : h.irq # i
  /\ Cardinality(handlers) < MAX_HANDLERS
  /\ handlers' = handlers \cup {[irq |-> i, iram_safe |-> safe, wakes |-> wakes]}

(* connect_inner: an input the caller named or the first free one, registered
   and then unmasked. *)
connect(i, safe, wakes) ==
  /\ wpc = "idle" /\ isr = {} /\ intlevel = 0
  /\ register_inner(i, safe, wakes)
  /\ intenable' = intenable \cup {i} /\ wanted' = wanted \cup {i}
  /\ UNCHANGED <<wpc, op, intlevel, savedMask, CACHE_OFF, cache, app, isr, sched, spiVars>>

(* The same call on the other core: its INTENABLE is its own. *)
RegisterOnApp(i, safe, wakes) ==
  /\ app = "run"
  /\ register_inner(i, safe, wakes)
  /\ UNCHANGED <<wpc, op, intlevel, intenable, savedMask, CACHE_OFF, cache, app, isr, sched, wanted, spiVars>>

(* _flint_trap: dispatch_while_cache_off passes over handlers in flash. *)
Trap(h) ==
  /\ intlevel = 0 /\ isr = {} /\ h \in handlers /\ h.irq \in intenable
  /\ CACHE_OFF => h.iram_safe
  /\ isr' = {h}
  /\ UNCHANGED <<wpc, op, intlevel, intenable, savedMask, CACHE_OFF, cache, app, handlers, sched, wanted, spiVars>>

(* A handler returns; one that wakes a task (kernel/src/alarm.rs: on_alarm)
   has been through scheduler::with by then, whose lock the second core may
   be holding. *)
TrapReturn ==
  /\ isr # {} /\ isr' = {}
  /\ \A h \in isr : h.wakes => ~sched
  /\ UNCHANGED <<wpc, op, intlevel, intenable, savedMask, CACHE_OFF, cache, app, handlers, sched, wanted, spiVars>>

(* The second core enters or leaves scheduler::with. *)
AppTakesScheduler ==
  /\ app = "run" /\ sched' = ~sched
  /\ UNCHANGED <<wpc, op, intlevel, intenable, savedMask, CACHE_OFF, cache, app, handlers, isr, wanted, spiVars>>

(* appcpu::start and stop. *)
StartStopApp ==
  /\ wpc = "idle" /\ isr = {} /\ ~sched
  /\ app' = IF app = "reset" THEN "run" ELSE "reset"
  /\ UNCHANGED <<wpc, op, intlevel, intenable, savedMask, CACHE_OFF, cache, handlers, isr, sched, wanted, spiVars>>

(***************************************************************************)
(* with_cache_off.                                                         *)
(***************************************************************************)

Step(from, to) == wpc = from /\ isr = {} /\ wpc' = to

(* A call of FlashRegion, past check(): write and erase_sector read the
   quad-enable requirement first (ensure_qer), as an operation of its own. *)
BeginOp(kind, at, n) ==
  /\ Step("idle", "level")
  /\ IF kind = "sfdp" THEN qer = "unread" ELSE kind \in {"write", "erase"} => qer # "unread"
  /\ op' = [kind |-> kind, at |-> at, left |-> n, failed |-> FALSE]
  /\ intlevel' = 5
  /\ UNCHANGED <<intenable, savedMask, CACHE_OFF, cache, app, handlers, isr, sched, wanted, spiVars>>

mask_non_iram_safe ==
  /\ Step("level", "mask")
  /\ intenable' = intenable \cap {h.irq : h \in {g \in handlers : g.iram_safe}}
  /\ savedMask' = intenable /\ CACHE_OFF' = TRUE
  /\ UNCHANGED <<op, intlevel, cache, app, handlers, isr, sched, wanted, spiVars>>

(* Mutant: the early return skips the restoring. *)
CacheBusyReturns ==
  /\ Step("mask", "idle")
  /\ op' = NoOp
  /\ UNCHANGED <<intlevel, intenable, savedMask, CACHE_OFF, cache, app, handlers, isr, sched, wanted, spiVars>>

(* The cache never goes idle: CacheBusy, through RestoreInterrupts only. *)
CacheBusy ==
  /\ Step("mask", "restore")
  /\ op' = [op EXCEPT !.failed = TRUE]
  /\ UNCHANGED <<cpuVars, spiVars>>

StallApp ==
  /\ Step("mask", IF app = "run" THEN "stall" ELSE "prooff")
  /\ app' = IF app = "run" THEN "stalled" ELSE app
  /\ UNCHANGED <<op, intlevel, intenable, savedMask, CACHE_OFF, cache, handlers, isr, sched, wanted, spiVars>>

CacheOff(from, c, to) ==
  /\ Step(from, to)
  /\ cache' = [cache EXCEPT ![c] = FALSE]
  /\ UNCHANGED <<op, intlevel, intenable, savedMask, CACHE_OFF, app, handlers, isr, sched, wanted, spiVars>>

(* save() and into f(), with the caller's interrupt level back. *)
OpenWindow ==
  /\ Step("open", CASE op.kind = "erase" -> "unlock" [] op.kind = "jedec" -> "xfer" [] OTHER -> "exitcr")
  /\ intlevel' = 0 /\ spi1' = "driver"
  /\ UNCHANGED <<op, intenable, savedMask, CACHE_OFF, cache, app, handlers, isr, sched, wanted,
                 qer, UNLOCKED, chip, chipPast>>

(* restore() on every way out of f. *)
RestoreSpi ==
  /\ Step("spidone", "close")
  /\ spi1' = "cache"
  /\ qer' = IF op.kind # "sfdp" THEN qer ELSE IF op.failed THEN "none" ELSE "known"
  /\ UNCHANGED <<op, cpuVars, UNLOCKED, chip, chipPast>>

(* rsil 5; the cache comes back and with it, perhaps, continuous reading. *)
CloseWindow ==
  /\ Step("close", IF app = "stalled" THEN "proon" ELSE "restore")
  /\ intlevel' = 5 /\ cache' = [cache EXCEPT ![0] = TRUE]
  /\ \E m \in BOOLEAN : chip' = [chip EXCEPT !.cont = m]
  /\ UNCHANGED <<op, intenable, savedMask, CACHE_OFF, app, handlers, isr, sched, wanted, spi1, qer, UNLOCKED, chipPast>>

CacheOnApp ==
  /\ Step("proon", "appon")
  /\ cache' = [cache EXCEPT ![1] = TRUE]
  /\ UNCHANGED <<op, intlevel, intenable, savedMask, CACHE_OFF, app, handlers, isr, sched, wanted, spiVars>>

UnstallApp ==
  /\ Step("appon", "restore")
  /\ app' = "run"
  /\ UNCHANGED <<op, intlevel, intenable, savedMask, CACHE_OFF, cache, handlers, isr, sched, wanted, spiVars>>

(* RestoreInterrupts::drop: restore_mask, then PS. *)
RestoreInterrupts ==
  /\ Step("restore", "idle")
  /\ intenable' = savedMask /\ savedMask' = {} /\ CACHE_OFF' = FALSE /\ intlevel' = 0 /\ op' = NoOp
  /\ UNCHANGED <<cache, app, handlers, isr, sched, wanted, spiVars>>

(***************************************************************************)
(* spi1.rs, inside the window.                                             *)
(***************************************************************************)

InSpi == {"exitcr", "unlock", "wrsr", "wrdi", "ready", "xfer", "wren", "pp"}

(* A command reaches the chip; in continuous reading the chip takes it for an
   address, which may or may not end the mode. *)
Hears(c) ==
  /\ chip' \in IF chip.cont THEN {[chip EXCEPT !.cont = m] : m \in BOOLEAN} ELSE {c}
  /\ blind' = (blind \/ (chip.cont /\ op.kind = "erase"))

Chip(from, to, c) ==
  /\ Step(from, to) /\ Hears(c)
  /\ UNCHANGED <<op, cpuVars, spi1, qer, UNLOCKED, misuse, ignored>>

(* A status read finds p, or nonsense in continuous reading. *)
Reads(p) == chip.cont \/ p

(* wait_spi_fsm_idle, wait_cmd or wait_ready gives up, or unlock_plan knows
   no way to unprotect this chip. *)
SpiFails ==
  /\ wpc \in InSpi /\ Step(wpc, "spidone")
  /\ op' = [op EXCEPT !.failed = TRUE]
  /\ UNCHANGED <<cpuVars, spiVars>>

(* Heard in either mode. *)
exit_continuous_read ==
  /\ Step("exitcr", IF op.kind = "write" THEN "unlock" ELSE "ready")
  /\ chip' = [chip EXCEPT !.cont = FALSE]
  /\ UNCHANGED <<op, cpuVars, spi1, qer, UNLOCKED, chipPast>>

(* unlock: done already, nothing to clear, or WREN, WRSR and WRDI. *)
UnlockKnown ==
  /\ UNLOCKED /\ Step("unlock", "ready")
  /\ UNCHANGED <<op, cpuVars, spiVars>>

UnlockDone ==
  /\ ~UNLOCKED /\ Step("unlock", "ready")
  /\ Reads(~chip.wip /\ ~chip.prot) /\ Hears(chip)
  /\ UNLOCKED' = TRUE
  /\ UNCHANGED <<op, cpuVars, spi1, qer, misuse, ignored>>

UnlockWren ==
  /\ ~UNLOCKED /\ Reads(~chip.wip /\ chip.prot)
  /\ Chip("unlock", "wrsr", [chip EXCEPT !.wel = TRUE])

UnlockWrsr ==
  Chip("wrsr", "wrdi", [chip EXCEPT !.prot = @ /\ ~chip.wel, !.wip = chip.wel, !.wel = FALSE])

UnlockWrdi ==
  /\ Step("wrdi", "ready") /\ Reads(~chip.wip)
  /\ Hears([chip EXCEPT !.wel = FALSE]) /\ UNLOCKED' = TRUE
  /\ UNCHANGED <<op, cpuVars, spi1, qer, misuse, ignored>>

(* wait_ready, at the top of every round. *)
wait_ready ==
  /\ Reads(~chip.wip)
  /\ Chip("ready", IF op.kind \in {"read", "sfdp"} THEN "xfer"
                   ELSE IF op.left = 0 THEN "spidone" ELSE "wren", chip)

(* read, sfdp_read, jedec_id: transfers that change nothing on the chip. *)
Transfer == Chip("xfer", "spidone", chip)

Wren == Chip("wren", "pp", [chip EXCEPT !.wel = TRUE])

(* Mutant: the end of the page is not looked at. *)
RoundAcrossPages == Min({op.left, CHUNK})

(* Words of the next program: the data left, the registers, the page. *)
Round == Min({op.left, CHUNK, PAGE_SIZE - (op.at % PAGE_SIZE)})

(* What the chip makes of a program or an erase: it starts on it, or leaves it
   be when it is busy, protected or not write-enabled. *)
Takes == ~chip.wip /\ chip.wel /\ ~chip.prot
Working == IF Takes THEN [chip EXCEPT !.wip = TRUE, !.wel = FALSE] ELSE chip

(* CMD_FLASH_PP; a program past the end of its page would wrap. *)
PageProgram ==
  /\ op.kind = "write" /\ Step("pp", "ready") /\ Hears(Working)
  /\ misuse' = (misuse \/ chip.wip \/ ~chip.wel \/ chip.cont \/ (op.at % PAGE_SIZE) + Round > PAGE_SIZE)
  /\ ignored' = (ignored \/ chip.cont \/ ~Takes)
  /\ op' = [op EXCEPT !.at = @ + Round, !.left = @ - Round]
  /\ UNCHANGED <<cpuVars, spi1, qer, UNLOCKED>>

(* CMD_FLASH_SE; erase_sector, unlike read and write, has not left continuous
   reading first, so the chip may be taking its commands for addresses. *)
SectorErase ==
  /\ op.kind = "erase" /\ Step("pp", "ready") /\ Hears(Working)
  /\ ignored' = (ignored \/ chip.cont \/ ~Takes)
  /\ op' = [op EXCEPT !.left = 0]
  /\ UNCHANGED <<cpuVars, spi1, qer, UNLOCKED, misuse>>

(* The chip finishes what it was told to do. *)
ChipFinishes ==
  /\ chip.wip /\ chip' = [chip EXCEPT !.wip = FALSE]
  /\ UNCHANGED <<wpc, op, cpuVars, spi1, qer, UNLOCKED, chipPast>>

WindowNext ==
  \/ mask_non_iram_safe \/ CacheBusy \/ StallApp
  \/ CacheOff("stall", 1, "prooff") \/ CacheOff("prooff", 0, "open")
  \/ OpenWindow \/ RestoreSpi \/ CloseWindow \/ CacheOnApp \/ UnstallApp \/ RestoreInterrupts

SpiNext ==
  \/ SpiFails \/ exit_continuous_read \/ UnlockKnown \/ UnlockDone \/ UnlockWren \/ UnlockWrsr \/ UnlockWrdi
  \/ wait_ready \/ Transfer \/ Wren \/ PageProgram \/ SectorErase \/ ChipFinishes

FlashNext ==
  \/ \E i \in Irqs, safe \in BOOLEAN : \E wakes \in {FALSE, safe} : connect(i, safe, wakes) \/ RegisterOnApp(i, safe, wakes)
  \/ \E h \in handlers : Trap(h)
  \/ TrapReturn \/ StartStopApp \/ AppTakesScheduler
  \/ \E at \in 0..PAGE_SIZE - 1, n \in 1..MAX_WORDS : BeginOp("write", at, n)
  \/ \E k \in {"read", "erase", "sfdp", "jedec"} : BeginOp(k, 0, 1)
  \/ WindowNext \/ SpiNext

FlashSpec == FlashInit /\ [][FlashNext]_flashVars

(***************************************************************************)
(* Properties.                                                             *)
(***************************************************************************)

(* While either cache is off no core can fetch from flash: the second core is
   not executing, and a handler running on the first one is an IRAM one,
   whatever was registered on either core and whenever
   (flash/src/lib.rs: with_cache_off; kernel/src/interrupt.rs). *)
NoFetchWithoutCache ==
  ~cache[0] \/ ~cache[1] => app # "run" /\ \A h \in isr : h.iram_safe

(* However an operation ends, it leaves the machine as it found it: caches
   on, the second core not stalled, interrupts enabled as connect left them,
   and SPI1 set up for the cache before the cache is used again. *)
WindowClosed ==
  /\ wpc = "idle" => /\ cache[0] /\ cache[1] /\ app # "stalled" /\ ~CACHE_OFF
                     /\ intenable = wanted /\ intlevel = 0
  /\ cache[0] => spi1 = "cache"

(* The window in which the caches are off is safe while it is open and
   leaves no trace. *)
CacheWindow == NoFetchWithoutCache /\ WindowClosed

(* Every program reaches a chip that listens, is idle and write-enabled, and
   stays in its page, also after an operation that failed half-way or an erase
   that was not heard; and every program and erase is carried out, protection
   included, as long as no erase has spoken to a chip in continuous reading:
   one that has may also take a protected chip for an unlocked one
   (spi1.rs: unlock, write, erase_sector). *)
ChipNeverMisused == ~misuse /\ (ignored => blind)

(* What spi1.rs:1033 says of erase_sector whatever the chip was doing, "Erase
   the 4 KiB sector containing `addr`", and of write: the chip carries the
   command out.  Not an invariant: erase_sector never leaves continuous reading,
   in which commands are "being read as addresses" (spi1.rs:574-575). *)
CommandsCarriedOut == ~ignored

(* What with_cache_off says of freezing a core that holds the scheduler lock:
   it "cannot deadlock core 0, which asks for nothing in this window".  Not an
   invariant: the alarm's handler runs in the window and asks for that lock. *)
WindowAsksNoLock == ~(app = "stalled" /\ sched /\ \E h \in isr : h.wakes)

(* A flash operation is safe for what runs on the chip meanwhile, and for  *)
(* the flash itself, however it ends (flash/src/lib.rs with_cache_off,     *)
(* spi1.rs).                                                               *)
FlashSafe == CacheWindow /\ ChipNeverMisused
=============================================================================
